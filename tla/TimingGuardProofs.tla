------------------------- MODULE TimingGuardProofs -------------------------
(***************************************************************************)
(* Proof that the guards of TimingGuard leave a sound anchor alone, for    *)
(* any receivers, bands, slots, threads and numbers of strikes.            *)
(***************************************************************************)
EXTENDS TimingGuard, TLAPS

(* An anchor of which nothing was wrong in this process is right.          *)
SoundRight == \A r \in Rxs : r \notin wronged => error[r] = "right"

(* Of a sound anchor no slot ends early: nobody handed one to the pool,    *)
(* and no thread found a strike that fires.                                *)
SlotsOnTime == \A q \in queue : q.end = "early" => q.rx \in wronged

ThreadsFair ==
  \A t \in Threads :
    /\ thread[t].pc # "idle" => thread[t].rx \in Rxs
    /\ thread[t].fired => thread[t].rx \in wronged
    /\ thread[t].pc = "act" => thread[t].fired

(* The dt strikes of a sound anchor are odd cycles since its last good     *)
(* one, of which there are too few to fire; the last cycle may still wait  *)
(* to be counted.                                                          *)
StrikesAreRogues ==
  \A r \in Rxs : r \notin wronged =>
    /\ rogues[r] < DtCycles
    /\ cycle[r] \in {None, "quiet"} => dtStrikes[r] <= rogues[r]
    /\ cycle[r] = "off" => dtStrikes[r] + 1 <= rogues[r]

WriterFair == writer.rx # None => writer.rx \in wronged

GuardInv ==
  /\ TypeOK /\ SoundRight /\ SlotsOnTime /\ ThreadsFair /\ StrikesAreRogues /\ WriterFair
  /\ NoFalseAlarm

LEMMA RemainderSmall ==
  ASSUME NEW C \in Nat \ {0}, NEW n \in Nat
  PROVE  n % C \in 0 .. C - 1 /\ (n < C => n % C = n)
OBVIOUS

(* What a guard counts stays in its range.                                 *)
LEMMA StrikesTyped ==
  ASSUME NEW limit \in Nat \ {0}, NEW n \in 0 .. limit - 1, NEW bad \in BOOLEAN
  PROVE  StrikesAfter(n, bad, limit) \in 0 .. limit - 1
<1>1. (n + 1) % limit \in 0 .. limit - 1
  BY RemainderSmall
<1> QED  BY <1>1 DEF StrikesAfter

LEMMA GuardInvInit == Init => GuardInv
<1> SUFFICES ASSUME Init
             PROVE  GuardInv
  OBVIOUS
<1>1. 0 \in 0 .. MaxEvents /\ 0 \in 0 .. DtCycles /\ 0 \in 0 .. DtCycles - 1
      /\ 0 \in 0 .. Strikes - 1 /\ 0 \in 0 .. RestartAfter /\ 0 < DtCycles
  BY ConstantsAssumption DEF ConstantsAssumption
<1>2. TypeOK
  BY <1>1 DEF Init, TypeOK, Idle, Actions
<1> QED
  BY <1>1, <1>2, ConstantsAssumption
     DEF Init, GuardInv, SoundRight, SlotsOnTime, ThreadsFair, StrikesAreRogues, WriterFair,
         NoFalseAlarm, Idle, ConstantsAssumption

(* What ActOn leaves of the invariant.                                     *)
LEMMA ActOnTyped ==
  ASSUME TypeOK, SoundRight, NEW r \in Rxs, NEW action, ActOn(r, action)
  PROVE  /\ error' \in [Rxs -> Faults \cup {"right"}] /\ stopping' \in BOOLEAN
         /\ acted' = acted \cup {r}
         /\ UNCHANGED <<stuck, events, rogues, wronged>>
         /\ \A s \in Rxs : s \notin wronged => error'[s] = "right"
<1>1. CASE Reanchor(r)
  BY <1>1 DEF Reanchor, TypeOK, SoundRight
<1>2. CASE RequestRestart(r)
  BY <1>2 DEF RequestRestart, world, TypeOK, SoundRight
<1> QED  BY <1>1, <1>2 DEF ActOn

-----------------------------------------------------------------------------
(* Type correctness, one step per action.                                  *)
LEMMA TypeStep ==
  ASSUME TypeOK, SoundRight, ThreadsFair, [Next]_vars
  PROVE  TypeOK'
<1>0. DtCycles \in Nat \ {0} /\ Strikes \in Nat \ {0} /\ RestartAfter \in Nat \ {0}
      /\ MaxEvents \in Nat
  BY ConstantsAssumption DEF ConstantsAssumption
<1>1. ASSUME NEW r \in Rxs, NEW e \in Faults, NEW s \in BOOLEAN, Fault(r, e, s)
      PROVE  TypeOK'
  <2>1. events' \in 0 .. MaxEvents
    BY <1>0, <1>1 DEF Fault, TypeOK
  <2> QED  BY <1>1, <2>1 DEF Fault, TypeOK, guards
<1>2. ASSUME NEW r \in Rxs, NEW says \in Says, NEW outage \in BOOLEAN, Harvest(r, says, outage)
      PROVE  TypeOK'
  <2>1. PICK cost \in {0, 1} :
          /\ Decoded(r, says, cost)
          /\ events + cost + (IF outage THEN 1 ELSE 0) <= MaxEvents
          /\ events' = events + cost + IF outage THEN 1 ELSE 0
    BY <1>2 DEF Harvest
  <2>2. events' \in 0 .. MaxEvents
    BY <1>0, <2>1 DEF TypeOK
  <2>3. rogues' \in [Rxs -> 0 .. DtCycles]
    BY <1>0, <1>2, <2>1 DEF Harvest, Decoded, TypeOK
  <2>4. queue' \subseteq Requests
    <3>1. Ends(r, outage) \in {"early", "plausible", "partial"}
      BY DEF Ends
    <3> QED  BY <1>2, <3>1 DEF Harvest, TypeOK, Requests
  <2>5. cycle' \in [Rxs -> {None, "quiet", "good", "off"}]
    BY <1>2 DEF Harvest, TypeOK, Says
  <2>6. judged' \in [Rxs -> Periods \cup {None}]
    BY <1>2 DEF Harvest, TypeOK
  <2> QED  BY <1>2, <2>2, <2>3, <2>4, <2>5, <2>6 DEF Harvest, TypeOK
<1>3. ASSUME NEW r \in Rxs, CycleDt(r)
      PROVE  TypeOK'
  <2>1. \A n \in 0 .. DtCycles - 1, bad \in BOOLEAN :
          StrikesAfter(n, bad, DtCycles) \in 0 .. DtCycles - 1
    BY <1>0, StrikesTyped
  <2>2. dtStrikes' \in [Rxs -> 0 .. DtCycles - 1]
    <3>1. CASE dtStrikes' = dtStrikes
      BY <3>1 DEF TypeOK
    <3>2. CASE dtStrikes' = [dtStrikes EXCEPT ![r] = StrikesAfter(@, cycle[r] = "off", DtCycles)]
      <4>1. StrikesAfter(dtStrikes[r], cycle[r] = "off", DtCycles) \in 0 .. DtCycles - 1
        BY <2>1 DEF TypeOK
      <4> QED  BY <3>2, <4>1 DEF TypeOK
    <3> QED  BY <1>3, <3>1, <3>2 DEF CycleDt
  <2>3. ladder' \in [Rxs -> 0 .. RestartAfter]
    <3>1. \A n \in 0 .. RestartAfter, healthy \in BOOLEAN : Observe(n, healthy) \in 0 .. RestartAfter
      BY <1>0 DEF Observe, Climb
    <3> QED  BY <1>3, <3>1 DEF CycleDt, TypeOK
  <2>4. writer' \in [rx : Rxs \cup {None}, action : Actions]
    BY <1>3 DEF CycleDt, TypeOK, Verdict, Actions
  <2>5. cycle' \in [Rxs -> {None, "quiet", "good", "off"}]
    BY <1>3 DEF CycleDt, TypeOK
  <2> QED  BY <1>3, <2>2, <2>3, <2>4, <2>5 DEF CycleDt, TypeOK, world
<1>4. ASSUME CycleAct
      PROVE  TypeOK'
  <2>1. writer.rx \in Rxs
    BY <1>4 DEF CycleAct, TypeOK
  <2> QED  BY <1>4, <2>1, ActOnTyped DEF CycleAct, TypeOK, guards, Actions
<1>5. ASSUME NEW t \in Threads, NEW q \in queue, Check(t, q)
      PROVE  TypeOK'
  <2>1. q \in Requests /\ q.rx \in Rxs /\ q.slot \in Periods
    BY DEF TypeOK, Requests
  <2>2. wcStrikes' \in [Rxs -> 0 .. Strikes - 1]
    <3>1. StrikesAfter(wcStrikes[q.rx], q.end = "early", Strikes) \in 0 .. Strikes - 1
      BY <1>0, <2>1, StrikesTyped DEF TypeOK
    <3>2. CASE wcStrikes' = wcStrikes
      BY <3>2 DEF TypeOK
    <3>3. CASE wcStrikes' = [wcStrikes EXCEPT ![q.rx] = StrikesAfter(@, q.end = "early", Strikes)]
      BY <3>1, <3>3 DEF TypeOK
    <3> QED  BY <1>5, <3>2, <3>3 DEF Check
  <2>3. thread' \in [Threads -> [pc : {"idle", "check", "mark", "act"}, rx : Rxs \cup {None},
                                 slot : Periods \cup {None}, fired : BOOLEAN, action : Actions]]
    <3>1. Fires(wcStrikes[q.rx], q.end = "early", Strikes) \in BOOLEAN
      BY DEF Fires
    <3>2. CASE thread' = thread
      BY <3>2 DEF TypeOK
    <3>3. CASE thread' = [thread EXCEPT ![t] =
                 [pc |-> "check", rx |-> q.rx, slot |-> q.slot,
                  fired |-> Fires(wcStrikes[q.rx], q.end = "early", Strikes), action |-> "none"]]
      BY <2>1, <3>1, <3>3 DEF TypeOK, Actions
    <3> QED  BY <1>5, <3>2, <3>3 DEF Check
  <2>4. queue' \subseteq Requests
    BY <1>5 DEF Check, TypeOK
  <2> QED  BY <1>5, <2>2, <2>3, <2>4 DEF Check, TypeOK, world
<1>6. ASSUME NEW t \in Threads, NEW action \in Actions, Done(t, action)
      PROVE  thread' \in [Threads -> [pc : {"idle", "check", "mark", "act"}, rx : Rxs \cup {None},
                                      slot : Periods \cup {None}, fired : BOOLEAN, action : Actions]]
  <2>1. Idle \in [pc : {"idle", "check", "mark", "act"}, rx : Rxs \cup {None},
                  slot : Periods \cup {None}, fired : BOOLEAN, action : Actions]
    BY DEF Idle, Actions
  <2>2. [thread[t] EXCEPT !.pc = "act", !.slot = None, !.action = action]
          \in [pc : {"idle", "check", "mark", "act"}, rx : Rxs \cup {None},
               slot : Periods \cup {None}, fired : BOOLEAN, action : Actions]
    BY DEF TypeOK
  <2> QED  BY <1>6, <2>1, <2>2 DEF Done, TypeOK
<1>7. ASSUME NEW t \in Threads, LookUp(t)
      PROVE  TypeOK'
  <2>1. thread' \in [Threads -> [pc : {"idle", "check", "mark", "act"}, rx : Rxs \cup {None},
                                 slot : Periods \cup {None}, fired : BOOLEAN, action : Actions]]
    <3>1. CASE Done(t, "none")
      BY <1>6, <3>1 DEF Actions
    <3>2. CASE thread' = [thread EXCEPT ![t].pc = "mark"]
      BY <3>2 DEF TypeOK
    <3> QED  BY <1>7, <3>1, <3>2 DEF LookUp
  <2> QED  BY <1>7, <2>1 DEF LookUp, TypeOK, world, guards
<1>8. ASSUME NEW t \in Threads, Judge(t)
      PROVE  TypeOK'
  <2>1. PICK action \in Actions : Done(t, action)
    BY <1>8 DEF Judge, Verdict, Actions
  <2>2. ladder' \in [Rxs -> 0 .. RestartAfter]
    <3>1. \A n \in 0 .. RestartAfter, healthy \in BOOLEAN : Observe(n, healthy) \in 0 .. RestartAfter
      BY <1>0 DEF Observe, Climb
    <3> QED  BY <1>8, <3>1 DEF Judge, TypeOK
  <2>3. judged' \in [Rxs -> Periods \cup {None}]
    BY <1>8 DEF Judge, TypeOK
  <2> QED  BY <1>6, <1>8, <2>1, <2>2, <2>3 DEF Judge, TypeOK, world
<1>9. ASSUME NEW t \in Threads, Act(t)
      PROVE  TypeOK'
  <2>0. thread[t].rx \in Rxs
    BY <1>9 DEF Act, ThreadsFair
  <2>1. Idle \in [pc : {"idle", "check", "mark", "act"}, rx : Rxs \cup {None},
                  slot : Periods \cup {None}, fired : BOOLEAN, action : Actions]
    BY DEF Idle, Actions
  <2> QED  BY <1>9, <2>0, <2>1, ActOnTyped DEF Act, TypeOK, guards
<1>10. CASE UNCHANGED vars
  BY <1>10 DEF vars, world, guards, TypeOK
<1> QED
  BY <1>1, <1>2, <1>3, <1>4, <1>5, <1>7, <1>8, <1>9, <1>10
     DEF Next, HarvestOf, WriterStep, Hook

-----------------------------------------------------------------------------
(* What the guards know of an rx whose anchor was always right.            *)
Fair == SoundRight /\ SlotsOnTime /\ ThreadsFair /\ StrikesAreRogues /\ WriterFair /\ NoFalseAlarm

LEMMA FairStep ==
  ASSUME TypeOK, TypeOK', Fair, [Next]_vars
  PROVE  Fair'
<1> USE DEF Fair
<1>0. DtCycles \in Nat \ {0} /\ None \notin {"quiet", "good", "off"}
  BY ConstantsAssumption DEF ConstantsAssumption
<1>1. ASSUME NEW r \in Rxs, NEW e \in Faults, NEW s \in BOOLEAN, Fault(r, e, s)
      PROVE  Fair'
  <2>1. wronged' = wronged \cup {r}
    BY <1>1 DEF Fault
  <2>2. SoundRight'
    BY <1>1, <2>1 DEF Fault, SoundRight, TypeOK
  <2> QED
    BY <1>1, <2>1, <2>2
       DEF Fault, guards, SlotsOnTime, ThreadsFair, StrikesAreRogues, WriterFair, NoFalseAlarm
<1>2. ASSUME NEW r \in Rxs, NEW says \in Says, NEW outage \in BOOLEAN, Harvest(r, says, outage)
      PROVE  Fair'
  <2>1. PICK cost \in {0, 1} : Decoded(r, says, cost)
    BY <1>2 DEF Harvest
  <2>2. SlotsOnTime'
    <3>1. Ends(r, outage) = "early" => r \in wronged
      BY DEF Ends, SoundRight
    <3> QED  BY <1>2, <3>1 DEF Harvest, SlotsOnTime
  <2>3. StrikesAreRogues'
    <3> SUFFICES ASSUME NEW s \in Rxs, s \notin wronged
                 PROVE  /\ rogues'[s] < DtCycles
                        /\ cycle'[s] \in {None, "quiet"} => dtStrikes'[s] <= rogues'[s]
                        /\ cycle'[s] = "off" => dtStrikes'[s] + 1 <= rogues'[s]
      BY <1>2 DEF Harvest, StrikesAreRogues
    <3>1. CASE s # r
      BY <1>2, <3>1 DEF Harvest, StrikesAreRogues, TypeOK
    <3>2. CASE s = r
      <4>1. error[r] = "right" /\ dtStrikes[r] <= rogues[r] /\ rogues[r] < DtCycles
        BY <1>2, <3>2 DEF Harvest, StrikesAreRogues, SoundRight
      <4>2. rogues[r] \in Nat /\ dtStrikes[r] \in Nat /\ dtStrikes' = dtStrikes
        BY <1>0, <1>2 DEF Harvest, TypeOK
      <4>3. cycle'[r] = says
        BY <1>2 DEF Harvest, TypeOK
      <4>4. rogues'[r] = IF says = "good" THEN 0
                         ELSE IF says = "off" THEN rogues[r] + 1 ELSE rogues[r]
        BY <1>2, <4>1 DEF Harvest, TypeOK
      <4>5. says = "off" => rogues[r] < DtCycles - 1
        BY <2>1, <4>1 DEF Decoded
      <4> QED  BY <1>0, <3>2, <4>1, <4>2, <4>3, <4>4, <4>5 DEF Says
    <3> QED  BY <3>1, <3>2
  <2> QED
    BY <1>2, <2>2, <2>3 DEF Harvest, SoundRight, ThreadsFair, WriterFair, NoFalseAlarm
<1>3. ASSUME NEW r \in Rxs, CycleDt(r)
      PROVE  Fair'
  <2>1. ASSUME r \notin wronged
        PROVE  ~Fires(dtStrikes[r], cycle[r] = "off", DtCycles)
    BY <1>0, <2>1 DEF Fires, StrikesAreRogues, TypeOK
  <2>2. WriterFair'
    BY <1>3, <2>1 DEF CycleDt, WriterFair, world
  <2>3. StrikesAreRogues'
    <3> SUFFICES ASSUME NEW s \in Rxs, s \notin wronged
                 PROVE  /\ rogues[s] < DtCycles
                        /\ cycle'[s] \in {None, "quiet"} => dtStrikes'[s] <= rogues[s]
                        /\ cycle'[s] = "off" => dtStrikes'[s] + 1 <= rogues[s]
      BY <1>3 DEF CycleDt, world, StrikesAreRogues
    <3>1. CASE s # r
      BY <1>3, <3>1 DEF CycleDt, StrikesAreRogues, TypeOK
    <3>2. CASE s = r
      <4>1. cycle'[r] = None /\ cycle[r] # None /\ cycle[r] \in {None, "quiet", "good", "off"}
        BY <1>3 DEF CycleDt, TypeOK
      <4>2. rogues[r] \in Nat /\ dtStrikes[r] \in Nat /\ rogues[r] < DtCycles
        BY <1>0, <3>2 DEF TypeOK, StrikesAreRogues
      <4>3. dtStrikes'[r] <= rogues[r]
        <5>1. CASE cycle[r] = "quiet"
          BY <1>3, <3>2, <5>1 DEF CycleDt, StrikesAreRogues
        <5>2. CASE cycle[r] = "good"
          <6>1. dtStrikes'[r] = 0
            BY <1>3, <5>2 DEF CycleDt, StrikesAfter, TypeOK
          <6> QED  BY <4>2, <6>1
        <5>3. CASE cycle[r] = "off"
          <6>1. dtStrikes[r] + 1 <= rogues[r]
            BY <3>2, <5>3 DEF StrikesAreRogues
          <6>2. dtStrikes'[r] = (dtStrikes[r] + 1) % DtCycles
            BY <1>3, <5>3 DEF CycleDt, StrikesAfter, TypeOK
          <6>3. dtStrikes[r] + 1 \in Nat /\ dtStrikes[r] + 1 < DtCycles
            BY <1>0, <4>2, <6>1
          <6>4. (dtStrikes[r] + 1) % DtCycles = dtStrikes[r] + 1
            BY <1>0, <6>3, RemainderSmall
          <6> QED  BY <6>1, <6>2, <6>4
        <5> QED  BY <4>1, <5>1, <5>2, <5>3
      <4> QED  BY <1>0, <3>2, <4>1, <4>2, <4>3
    <3> QED  BY <3>1, <3>2
  <2> QED
    BY <1>3, <2>2, <2>3 DEF CycleDt, world, SoundRight, SlotsOnTime, ThreadsFair, NoFalseAlarm
<1>4. ASSUME CycleAct
      PROVE  Fair'
  <2>1. writer.rx \in Rxs /\ writer.rx \in wronged
    BY <1>4 DEF CycleAct, TypeOK, WriterFair
  <2>2. /\ acted' = acted \cup {writer.rx} /\ UNCHANGED <<rogues, wronged>>
        /\ \A s \in Rxs : s \notin wronged => error'[s] = "right"
    BY <1>4, <2>1, ActOnTyped DEF CycleAct
  <2> QED
    BY <1>4, <2>1, <2>2
       DEF CycleAct, guards, SoundRight, SlotsOnTime, ThreadsFair, StrikesAreRogues, WriterFair,
           NoFalseAlarm
<1>5. ASSUME NEW t \in Threads, NEW q \in queue, Check(t, q)
      PROVE  Fair'
  <2>1. Fires(wcStrikes[q.rx], q.end = "early", Strikes) => q.rx \in wronged
    BY DEF Fires, SlotsOnTime
  <2>2. q.rx \in Rxs
    BY DEF TypeOK, Requests
  <2>3. ThreadsFair'
    BY <1>5, <2>1, <2>2 DEF Check, ThreadsFair, TypeOK, world
  <2> QED
    BY <1>5, <2>3
       DEF Check, world, SoundRight, SlotsOnTime, StrikesAreRogues, WriterFair, NoFalseAlarm
<1>6. ASSUME NEW t \in Threads, NEW action, Done(t, action), thread[t].pc # "idle", UNCHANGED wronged
      PROVE  ThreadsFair'
  <2>1. CASE thread[t].fired = TRUE
    BY <1>6, <2>1 DEF Done, ThreadsFair, TypeOK
  <2>2. CASE thread[t].fired = FALSE
    BY <1>6, <2>2 DEF Done, ThreadsFair, TypeOK, Idle
  <2> QED  BY <2>1, <2>2 DEF TypeOK
<1>7. ASSUME NEW t \in Threads, LookUp(t)
      PROVE  Fair'
  <2>1. ThreadsFair'
    <3>1. CASE Done(t, "none")
      BY <1>6, <1>7, <3>1 DEF LookUp, world
    <3>2. CASE thread' = [thread EXCEPT ![t].pc = "mark"]
      BY <1>7, <3>2 DEF LookUp, world, ThreadsFair, TypeOK
    <3> QED  BY <1>7, <3>1, <3>2 DEF LookUp
  <2> QED
    BY <1>7, <2>1
       DEF LookUp, world, guards, SoundRight, SlotsOnTime, StrikesAreRogues, WriterFair, NoFalseAlarm
<1>8. ASSUME NEW t \in Threads, Judge(t)
      PROVE  Fair'
  <2>1. ThreadsFair'
    BY <1>6, <1>8 DEF Judge, world
  <2> QED
    BY <1>8, <2>1
       DEF Judge, world, SoundRight, SlotsOnTime, StrikesAreRogues, WriterFair, NoFalseAlarm
<1>9. ASSUME NEW t \in Threads, Act(t)
      PROVE  Fair'
  <2>1. thread[t].rx \in Rxs /\ thread[t].rx \in wronged
    BY <1>9 DEF Act, ThreadsFair
  <2>2. /\ acted' = acted \cup {thread[t].rx} /\ UNCHANGED <<rogues, wronged>>
        /\ \A s \in Rxs : s \notin wronged => error'[s] = "right"
    BY <1>9, <2>1, ActOnTyped DEF Act
  <2>3. ThreadsFair'
    BY <1>9, <2>2 DEF Act, ThreadsFair, TypeOK, Idle
  <2> QED
    BY <1>9, <2>1, <2>2, <2>3
       DEF Act, guards, SoundRight, SlotsOnTime, StrikesAreRogues, WriterFair, NoFalseAlarm
<1>10. CASE UNCHANGED vars
  BY <1>10
     DEF vars, world, guards, SoundRight, SlotsOnTime, ThreadsFair, StrikesAreRogues, WriterFair,
         NoFalseAlarm
<1> QED
  BY <1>1, <1>2, <1>3, <1>4, <1>5, <1>7, <1>8, <1>9, <1>10
     DEF Next, HarvestOf, WriterStep, Hook

LEMMA GuardInvAlways == Spec => []GuardInv
<1>1. GuardInv /\ [Next]_vars => GuardInv'
  <2> SUFFICES ASSUME GuardInv, [Next]_vars
               PROVE  GuardInv'
    OBVIOUS
  <2>1. TypeOK'
    BY TypeStep DEF GuardInv
  <2> QED  BY <2>1, FairStep DEF GuardInv, Fair
<1> QED  BY <1>1, GuardInvInit, PTL DEF Spec

(* The strikes of both guards, the ladders and the threads are of their    *)
(* types in every reachable state.                                         *)
THEOREM TypeCorrect == Spec => []TypeOK
<1>1. GuardInv => TypeOK
  BY DEF GuardInv
<1> QED  BY <1>1, GuardInvAlways, PTL

(* A sound anchor is left alone: neither guard (_on_cycle_dt and           *)
(* _wallclock_guard_check in __main__.py) resets the bands of an rx of     *)
(* which nothing was wrong, or ends the process on its account.            *)
THEOREM SoundLeftAlone == Spec => []NoFalseAlarm
<1>1. GuardInv => NoFalseAlarm
  BY DEF GuardInv
<1> QED  BY <1>1, GuardInvAlways, PTL
=============================================================================
