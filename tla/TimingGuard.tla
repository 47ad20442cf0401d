---------------------------- MODULE TimingGuard ----------------------------
(***************************************************************************)
(* The two guards that judge the slot anchors of a receiver (rx) from the  *)
(* outside (timing_guard.py and their hooks in __main__.py).  The dt guard *)
(* runs on the batcher's writer thread and reads the average dt of each    *)
(* decoded cycle; the wall-clock guard runs on the decode threads and asks *)
(* whether a slot finished before its nominal end.  A guard that fires     *)
(* re-anchors every band of the rx, and both report to one RecoveryLadder  *)
(* per rx, whose second fault without a healthy report in between asks for *)
(* the replacement of the process.                                         *)
(***************************************************************************)
EXTENDS Naturals

CONSTANTS
  Rxs,          (* the receivers                                           *)
  Bands,        (* the bands each of them records                          *)
  Periods,      (* slot lengths that end together                          *)
  Threads,      (* decode threads                                          *)
  DtCycles,     (* DtGuardConfig.cycles                                    *)
  Strikes,      (* WallClockGuardConfig.strikes                            *)
  RestartAfter, (* restart_after of the ladder                             *)
  Faults,       (* the errors of an anchor that may come up                *)
  MaxEvents,    (* bound on faults, outages and quiet cycles in a fault    *)
  None

(* from_env forces cycles and strikes to be at least one.                  *)
ASSUME ConstantsAssumption ==
  /\ {DtCycles, Strikes, RestartAfter} \subseteq Nat \ {0}
  /\ Faults \subseteq {"small", "ahead", "behind"}
  /\ MaxEvents \in Nat /\ None \notin {"quiet", "good", "off"}

VARIABLES
  error,      (* what is wrong with the anchors of an rx                   *)
  stuck,      (* re-anchoring does not cure it                             *)
  events,
  queue,      (* slots handed to the decode pool                           *)
  cycle,      (* what the decodes of the last cycle say of dt              *)
  rogues,     (* odd cycles of a sound anchor since its last good one      *)
  dtStrikes,  (* _dt_guard_strikes                                         *)
  wcStrikes,  (* _wallclock_guard_strikes                                  *)
  ladder,     (* consecutive_degraded of _anchor_ladders                   *)
  judged,     (* _wallclock_ladder_slot, if it is of the last cycle        *)
  writer,     (* the dt hook on the writer thread                          *)
  thread,     (* the wall-clock hook on each decode thread                 *)
  stopping,   (* SIGTERM was sent to this process                          *)
  acted,      (* history: rxs that were re-anchored or asked for a restart *)
  wronged     (* history: rxs whose anchor was wrong in this process       *)

world  == <<error, stuck, events, rogues, wronged>>
guards == <<dtStrikes, wcStrikes, ladder, judged>>
vars   == <<world, queue, cycle, guards, writer, thread, stopping, acted>>

Actions  == {"none", "reanchor", "restart"}
Requests == [rx : Rxs, slot : Periods, band : Bands, end : {"early", "plausible", "partial"}]

Idle == [pc |-> "idle", rx |-> None, slot |-> None, fired |-> FALSE, action |-> "none"]

TypeOK ==
  /\ error \in [Rxs -> Faults \cup {"right"}] /\ stuck \in [Rxs -> BOOLEAN]
  /\ events \in 0 .. MaxEvents
  /\ queue \subseteq Requests
  /\ cycle \in [Rxs -> {None, "quiet", "good", "off"}]
  /\ rogues \in [Rxs -> 0 .. DtCycles]
  /\ dtStrikes \in [Rxs -> 0 .. DtCycles - 1] /\ wcStrikes \in [Rxs -> 0 .. Strikes - 1]
  /\ ladder \in [Rxs -> 0 .. RestartAfter] /\ judged \in [Rxs -> Periods \cup {None}]
  /\ writer \in [rx : Rxs \cup {None}, action : Actions]
  /\ thread \in [Threads -> [pc : {"idle", "check", "mark", "act"}, rx : Rxs \cup {None},
                             slot : Periods \cup {None}, fired : BOOLEAN, action : Actions]]
  /\ stopping \in BOOLEAN /\ acted \subseteq Rxs /\ wronged \subseteq Rxs

(* The guards of a process that has just started; the process that systemd *)
(* puts in place of one that was asked to stop starts here again.          *)
Init ==
  /\ events = 0
  /\ queue = {} /\ cycle = [r \in Rxs |-> None]
  /\ dtStrikes = [r \in Rxs |-> 0] /\ wcStrikes = [r \in Rxs |-> 0]
  /\ ladder = [r \in Rxs |-> 0] /\ judged = [r \in Rxs |-> None]
  /\ writer = [rx |-> None, action |-> "none"] /\ thread = [t \in Threads |-> Idle]
  /\ stopping = FALSE /\ acted = {} /\ wronged = {}
  /\ error = [r \in Rxs |-> "right"] /\ stuck = [r \in Rxs |-> FALSE]
  /\ rogues = [r \in Rxs |-> 0]

-----------------------------------------------------------------------------
(* The world: an anchor goes wrong.  A small error leaves the decodes      *)
(* alive and the slots on time, one far ahead or behind kills the decodes, *)
(* and only the first of these ends slots early.                           *)
Fault(r, e, s) ==
  /\ events < MaxEvents /\ error[r] = "right" /\ ~stopping
  /\ error' = [error EXCEPT ![r] = e] /\ stuck' = [stuck EXCEPT ![r] = s]
  /\ events' = events + 1 /\ wronged' = wronged \cup {r}
  /\ UNCHANGED <<rogues, queue, cycle, guards, writer, thread, stopping, acted>>

(* What a cycle's decodes say of dt, and what that takes from the bound.   *)
Decoded(r, says, cost) ==
  \/ /\ error[r] = "right" /\ says \in {"good", "quiet"} /\ cost = 0
  \/ /\ error[r] = "right" /\ says = "off" /\ rogues[r] < DtCycles - 1 /\ cost = 0
  \/ /\ error[r] = "small" /\ says = "off" /\ cost = 0
  \/ /\ error[r] = "small" /\ says = "quiet" /\ cost = 1
  \/ /\ error[r] \in {"ahead", "behind"} /\ says = "quiet" /\ cost = 0

Ends(r, outage) ==
  IF outage THEN "partial" ELSE IF error[r] = "ahead" THEN "early" ELSE "plausible"

(* The bands of an rx finish the slots of a cycle: one request per band    *)
(* and period, and later one average dt.  The requests of the cycle before *)
(* were judged, so a slot is told by its period and the last judged one is *)
(* another slot.                                                           *)
(* How early a slot ended is settled here; the code measures it when the   *)
(* request is judged, a wait for a place in the pool later.                *)
Harvest(r, says, outage) ==
  \E cost \in {0, 1} :
    /\ Decoded(r, says, cost)
    /\ ~stopping /\ cycle[r] = None /\ \A q \in queue : q.rx # r
    /\ \A t \in Threads : thread[t].rx = r => thread[t].pc = "act"
    /\ events + cost + (IF outage THEN 1 ELSE 0) <= MaxEvents
    /\ events' = events + cost + IF outage THEN 1 ELSE 0
    /\ queue' = queue \cup
         {[rx |-> r, slot |-> p, band |-> b, end |-> Ends(r, outage)] :
            p \in Periods, b \in Bands}
    /\ cycle' = [cycle EXCEPT ![r] = says]
    /\ rogues' = [rogues EXCEPT ![r] = IF says = "good" THEN 0
                                       ELSE IF says = "off" /\ error[r] = "right" THEN @ + 1 ELSE @]
    /\ judged' = [judged EXCEPT ![r] = None]
    /\ UNCHANGED <<error, stuck, wronged, dtStrikes, wcStrikes, ladder, writer, thread, stopping,
                   acted>>

-----------------------------------------------------------------------------
(* RecoveryLadder.observe: a healthy report clears it, a fault climbs.     *)
Climb(n) == IF n = RestartAfter THEN n ELSE n + 1
Observe(n, healthy) == IF healthy THEN 0 ELSE Climb(n)

Verdict(n, healthy) ==
  IF healthy THEN "none" ELSE IF Climb(n) = RestartAfter THEN "restart" ELSE "reanchor"

(* Both guards count alike: no evidence changes nothing, a healthy report  *)
(* forgives, and the last strike fires and starts afresh.                  *)
NeverForgiven(n, bad, limit) == IF bad THEN (n + 1) % limit ELSE n
StrikesAfter(n, bad, limit) == IF bad THEN (n + 1) % limit ELSE 0
Fires(n, bad, limit) == bad /\ n + 1 >= limit

(* _reanchor_rx: every band recorder of the rx is reset and bound to the   *)
(* channel_info at hand.                                                   *)
Reanchor(r) ==
  /\ error' = [error EXCEPT ![r] = IF stuck[r] THEN @ ELSE "right"]
  /\ acted' = acted \cup {r}
  /\ UNCHANGED <<stuck, events, rogues, wronged, stopping>>

(* _request_self_restart: SIGTERM to the process itself.                   *)
RequestRestart(r) ==
  /\ stopping' = TRUE /\ acted' = acted \cup {r}
  /\ UNCHANGED world

(* What a guard that fired does with the ladder's answer.                  *)
ActOn(r, action) == IF action = "restart" THEN RequestRestart(r) ELSE Reanchor(r)

-----------------------------------------------------------------------------
(* Without decodes there is no evidence, which is not health.              *)
QuietIsHealthy(says) == says \in {"good", "quiet"}
Healthy(says) == says = "good"

(* _on_cycle_dt: the step of the guard, and the ladder's answer.           *)
CycleDt(r) ==
  LET off   == cycle[r] = "off"
      fired == Fires(dtStrikes[r], off, DtCycles)
  IN  /\ writer.rx = None /\ cycle[r] # None
      /\ cycle' = [cycle EXCEPT ![r] = None]
      /\ dtStrikes' = IF cycle[r] = "quiet" THEN dtStrikes
                      ELSE [dtStrikes EXCEPT ![r] = StrikesAfter(@, off, DtCycles)]
      /\ ladder' = IF fired \/ Healthy(cycle[r])
                   THEN [ladder EXCEPT ![r] = Observe(@, ~fired)] ELSE ladder
      /\ writer' = IF fired THEN [rx |-> r, action |-> Verdict(ladder[r], FALSE)] ELSE writer
      /\ UNCHANGED <<world, queue, wcStrikes, judged, thread, stopping, acted>>

CycleAct ==
  /\ writer.rx # None
  /\ ActOn(writer.rx, writer.action)
  /\ writer' = [rx |-> None, action |-> "none"]
  /\ UNCHANGED <<queue, cycle, guards, thread>>

-----------------------------------------------------------------------------
(* wallclock_guard_evidence: a partial slot is inert, and a strike that    *)
(* does not fire is no evidence.                                           *)
Evidence(end, fired) == fired \/ end = "plausible"

(* _wallclock_guard_check: the strike, under its lock.                     *)
Check(t, q) ==
  LET early == q.end = "early"
      fired == Fires(wcStrikes[q.rx], early, Strikes)
  IN  /\ thread[t].pc = "idle" /\ q \in queue
      /\ queue' = queue \ {q}
      /\ wcStrikes' = IF q.end = "partial" THEN wcStrikes
                      ELSE [wcStrikes EXCEPT ![q.rx] = StrikesAfter(@, early, Strikes)]
      /\ thread' = IF Evidence(q.end, fired)
                   THEN [thread EXCEPT ![t] = [pc |-> "check", rx |-> q.rx, slot |-> q.slot,
                                               fired |-> fired, action |-> "none"]]
                   ELSE thread
      /\ UNCHANGED <<world, cycle, dtStrikes, ladder, judged, writer, stopping, acted>>

(* Once its evidence is in, a thread acts only if the guard fired.         *)
Done(t, action) ==
  thread' = [thread EXCEPT ![t] =
               IF thread[t].fired THEN [@ EXCEPT !.pc = "act", !.slot = None, !.action = action] ELSE Idle]

(* _wallclock_ladder_observe, outside the lock: the slot is looked up ...  *)
LookUp(t) ==
  /\ thread[t].pc = "check"
  /\ IF judged[thread[t].rx] = thread[t].slot
     THEN Done(t, "none")
     ELSE thread' = [thread EXCEPT ![t].pc = "mark"]
  /\ UNCHANGED <<world, queue, cycle, guards, writer, stopping, acted>>

(* ... and if it is not the last one judged, marked and reported.          *)
Judge(t) ==
  LET r == thread[t].rx
  IN  /\ thread[t].pc = "mark"
      /\ judged' = [judged EXCEPT ![r] = thread[t].slot]
      /\ ladder' = [ladder EXCEPT ![r] = Observe(@, ~thread[t].fired)]
      /\ Done(t, Verdict(ladder[r], ~thread[t].fired))
      /\ UNCHANGED <<world, queue, cycle, dtStrikes, wcStrikes, writer, stopping, acted>>

Act(t) ==
  /\ thread[t].pc = "act"
  /\ ActOn(thread[t].rx, thread[t].action)
  /\ thread' = [thread EXCEPT ![t] = Idle]
  /\ UNCHANGED <<queue, cycle, guards, writer>>

TakeOf(r) == \E t \in Threads, q \in queue : q.rx = r /\ Check(t, q)
Hook(t) == (\E q \in queue : Check(t, q)) \/ LookUp(t) \/ Judge(t) \/ Act(t)
WriterStep == (\E r \in Rxs : CycleDt(r)) \/ CycleAct

Says == {"quiet", "good", "off"}
HarvestOf(r) == \E says \in Says, outage \in BOOLEAN : Harvest(r, says, outage)

Next ==
  \/ \E r \in Rxs : HarvestOf(r)
  \/ \E r \in Rxs, e \in Faults, s \in BOOLEAN : Fault(r, e, s)
  \/ WriterStep
  \/ \E t \in Threads : Hook(t)

Spec == Init /\ [][Next]_vars

(* radiod streams on, the pool's threads go on, and slots of one length    *)
(* are taken in the order they came, so that none waits for ever while     *)
(* others are taken; the writer thread flushes every receiver's cycles.        *)
Fairness ==
  /\ \A r \in Rxs : WF_vars(HarvestOf(r))
  /\ \A r \in Rxs : SF_vars(CycleDt(r)) /\ SF_vars(TakeOf(r))
  /\ WF_vars(CycleAct)
  /\ \A t \in Threads : WF_vars(Hook(t))

FairSpec == Spec /\ Fairness

-----------------------------------------------------------------------------
(* A sound anchor is left alone: through odd cycles that do not come in a  *)
(* row, quiet cycles, outages and the faults of other receivers, no guard  *)
(* resets the bands of this rx or ends the process on its account.         *)
NoFalseAlarm == acted \subseteq wronged

(* The incident of 2026-09-03 (__main__.py:853, timing_guard.py:197): an   *)
(* anchor far ahead that re-anchoring does not cure ends in a new process, *)
(* although it leaves no decode to judge dt by.                            *)
RunawayReplaced ==
  \A r \in Rxs : (error[r] = "ahead" /\ stuck[r]) ~> stopping

(* The same for an error small enough that spots are still decoded, which  *)
(* is the dt guard's business (__main__.py:852-860).                       *)
DtFaultReplaced ==
  \A r \in Rxs : (error[r] = "small" /\ stuck[r]) ~> stopping

(* "At most once per slot, deliberately" (__main__.py:913): a fault that   *)
(* a re-anchor cures is not answered with a restart, because one slot's    *)
(* bands count once.                                                       *)
CurableNotReplaced ==
  stopping => \E r \in Rxs : stuck[r]
=============================================================================
