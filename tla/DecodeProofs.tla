---------------------------- MODULE DecodeProofs ----------------------------
(***************************************************************************)
(* Proofs about what runs the decodes: the pool of a process (DecodePool), *)
(* for every set of jobs and workers, every period and every long share,   *)
(* and the host-wide slots of its long decodes (HostSlot), for every       *)
(* number of processes, threads, slots and polls.                          *)
(***************************************************************************)
EXTENDS DecodePool, HostSlot, FiniteSetTheorems, TLAPS

(* What a worker has in hand fits where it is in its loop.                 *)
JobsMatch ==
  \A w \in Workers :
    /\ pc[w] \in {"take", "waiting", "notified", "exited"} => job[w] = {}
    /\ pc[w] \in {"popped", "running", "ended"} => \E j \in Jobs : job[w] = {j}
    /\ pc[w] = "release" => HoldsLong(w) /\ \E j \in Jobs : job[w] = {j}

Counted == {w \in Workers : pc[w] \in {"running", "ended"}}

(* The types that need no counting.                                        *)
Shapes ==
  /\ short \subseteq {j \in Jobs : ~IsLong(j)}
  /\ long \subseteq {j \in Jobs : IsLong(j)}
  /\ seq \in [Jobs -> 0 .. Cardinality(Jobs)]
  /\ pc \in [Workers -> States]
  /\ job \in [Workers -> SUBSET Jobs]
  /\ shutdown \in BOOLEAN
  /\ finished \subseteq Jobs /\ cancelled \subseteq Jobs

PoolInv ==
  /\ Shapes
  /\ JobsMatch
  /\ running = Cardinality(Counted)
  /\ LongShare

-----------------------------------------------------------------------------
(* A set of workers has at most all of them, and changes by one with one.  *)
LEMMA WorkerSets ==
  ASSUME NEW S \in SUBSET Workers
  PROVE  /\ Cardinality(S) \in 0 .. Cardinality(Workers)
         /\ \A w \in S : Cardinality(S) > 0 /\ Cardinality(S \ {w}) = Cardinality(S) - 1
         /\ \A w \in Workers \ S : Cardinality(S \cup {w}) = Cardinality(S) + 1
<1>1. IsFiniteSet(Workers)
  BY ConstantsAssumption
<1>2. IsFiniteSet(S) /\ Cardinality(S) <= Cardinality(Workers)
  BY <1>1, FS_Subset
<1>3. Cardinality(S) \in Nat /\ Cardinality(Workers) \in Nat
  BY <1>1, <1>2, FS_CardinalityType
<1>4. ASSUME NEW w \in S
      PROVE  Cardinality(S) > 0 /\ Cardinality(S \ {w}) = Cardinality(S) - 1
  <2>1. IsFiniteSet(S \ {w}) /\ Cardinality(S \ {w}) = Cardinality(S) - 1
    BY <1>2, FS_RemoveElement
  <2>2. Cardinality(S \ {w}) \in Nat
    BY <2>1, FS_CardinalityType
  <2> QED
    BY <1>3, <2>1, <2>2
<1>5. \A w \in Workers \ S : Cardinality(S \cup {w}) = Cardinality(S) + 1
  BY <1>2, FS_AddElement
<1> QED
  BY <1>2, <1>3, <1>4, <1>5

(* A notification moves one sleeping worker to the lock, if any sleeps.    *)
LEMMA NotifyEffect ==
  ASSUME NEW next \in [Workers -> States], Notify(next)
  PROVE  /\ pc' \in [Workers -> States]
         /\ \A w \in Workers :
              pc'[w] = next[w] \/ (pc[w] = "waiting" /\ pc'[w] = "notified")
<1>1. CASE Waiting = {}
  BY <1>1 DEF Notify
<1>2. CASE Waiting # {}
  <2>1. PICK v \in Waiting : pc' = [next EXCEPT ![v] = "notified"]
    BY <1>2 DEF Notify
  <2> QED
    BY <2>1 DEF Waiting, States
<1> QED
  BY <1>1, <1>2

(* The next submission number is still within the number of jobs.          *)
LEMMA SubmitNumber ==
  ASSUME Shapes, NEW j \in Jobs, seq[j] = 0
  PROVE  Cardinality(Submitted) + 1 \in 0 .. Cardinality(Jobs)
<1>1. IsFiniteSet(Jobs) /\ Cardinality(Jobs) \in Nat
  BY ConstantsAssumption, FS_CardinalityType
<1>2. Submitted \subseteq Jobs \ {j}
  BY DEF Submitted
<1>3. IsFiniteSet(Jobs \ {j}) /\ Cardinality(Jobs \ {j}) = Cardinality(Jobs) - 1
  BY <1>1, FS_RemoveElement
<1>4. /\ Cardinality(Submitted) <= Cardinality(Jobs \ {j})
      /\ Cardinality(Submitted) \in Nat
  BY <1>2, <1>3, FS_Subset, FS_CardinalityType
<1> QED
  BY <1>1, <1>3, <1>4

(* A step that leaves every job where it is keeps the counters right.      *)
LEMMA SameCounts ==
  ASSUME PoolInv, UNCHANGED <<longInflight, running>>, shutdown => shutdown',
         Counted' = Counted, OnLong' = OnLong
  PROVE  running' = Cardinality(Counted)' /\ LongShare'
  BY DEF PoolInv, LongShare

LEMMA PoolInvInit == Init => PoolInv
<1> SUFFICES ASSUME Init
             PROVE  PoolInv
  OBVIOUS
<1> USE DEF Init
<1>1. 0 \in 0 .. Cardinality(Jobs)
  BY ConstantsAssumption, FS_CardinalityType
<1>2. Shapes
  BY <1>1 DEF Shapes, States
<1>3. JobsMatch
  BY DEF JobsMatch
<1>4. Counted = {} /\ OnLong = {}
  BY DEF Counted, OnLong, HoldsLong
<1>5. running = Cardinality(Counted) /\ LongShare
  <2>1. Cardinality({}) = 0
    BY FS_EmptySet
  <2>2. MaxLong \in Nat
    BY ConstantsAssumption, FS_CardinalityType
  <2> QED
    BY <1>4, <2>1, <2>2 DEF LongShare
<1> QED
  BY <1>2, <1>3, <1>5 DEF PoolInv

LEMMA SubmitStep ==
  ASSUME PoolInv, NEW j \in Jobs, Submit(j)
  PROVE  PoolInv'
<1> USE DEF PoolInv, Submit
<1>1. /\ pc' \in [Workers -> States]
      /\ \A w \in Workers : pc'[w] = pc[w] \/ (pc[w] = "waiting" /\ pc'[w] = "notified")
  BY NotifyEffect DEF Shapes
<1>2. Cardinality(Submitted) + 1 \in 0 .. Cardinality(Jobs)
  BY SubmitNumber
<1>3. Shapes'
  BY <1>1, <1>2 DEF Shapes
<1>4. JobsMatch'
  BY <1>1 DEF JobsMatch, HoldsLong
<1>5. Counted' = Counted /\ OnLong' = OnLong
  BY <1>1 DEF Counted, OnLong, HoldsLong
<1> QED
  BY <1>3, <1>4, <1>5, SameCounts

LEMMA ShutdownStep ==
  ASSUME PoolInv, NEW cancel \in BOOLEAN, Shutdown(cancel)
  PROVE  PoolInv'
<1> USE DEF PoolInv, Shutdown
<1>1. /\ pc' \in [Workers -> States]
      /\ \A w \in Workers : pc'[w] = pc[w] \/ (pc[w] = "waiting" /\ pc'[w] = "notified")
  BY DEF Shapes, States, Waiting
<1>2. Shapes'
  BY <1>1 DEF Shapes
<1>3. JobsMatch'
  BY <1>1 DEF JobsMatch, HoldsLong
<1>4. Counted' = Counted /\ OnLong' = OnLong
  BY <1>1 DEF Counted, OnLong, HoldsLong
<1> QED
  BY <1>2, <1>3, <1>4, SameCounts

(* Taking a job: a short one is not on the long share, a long one is, and  *)
(* it is taken below the cap unless the pool is shutting down.             *)
LEMMA TakeStep ==
  ASSUME PoolInv, NEW w \in Workers, TakeShort(w) \/ TakeLong(w)
  PROVE  PoolInv'
<1> USE DEF PoolInv
<1>0. /\ pc \in [Workers -> States] /\ job \in [Workers -> SUBSET Jobs]
      /\ short \subseteq {j \in Jobs : ~IsLong(j)} /\ long \subseteq {j \in Jobs : IsLong(j)}
  BY DEF Shapes
<1>1. PICK j \in short \cup long : Pop(w, j) /\ (TakeShort(w) => j \in short)
                                   /\ (TakeLong(w) => j \in long)
  BY <1>0 DEF TakeShort, TakeLong, IsNext
<1>2. AtQueues(w) /\ job[w] = {} /\ j \in Jobs
  BY <1>0, <1>1 DEF TakeShort, TakeLong, AtQueues, JobsMatch
<1>3. /\ pc' = [pc EXCEPT ![w] = "popped"] /\ job' = [job EXCEPT ![w] = {j}]
      /\ UNCHANGED <<seq, running, shutdown, finished, cancelled>>
  BY <1>1 DEF Pop
<1>4. Shapes'
  <2>1. short' \subseteq short /\ long' \subseteq long
    BY DEF TakeShort, TakeLong
  <2> QED
    BY <1>2, <1>3, <2>1 DEF Shapes, States
<1>5. JobsMatch'
  BY <1>0, <1>2, <1>3 DEF JobsMatch, HoldsLong
<1>6. Counted' = Counted
  BY <1>0, <1>2, <1>3 DEF Counted, AtQueues
<1>7. CASE TakeShort(w)
  <2>1. ~IsLong(j) /\ longInflight' = longInflight
    BY <1>0, <1>1, <1>7 DEF TakeShort
  <2>2. OnLong' = OnLong
    BY <1>0, <1>2, <1>3, <2>1 DEF OnLong, HoldsLong, IsLong
  <2> QED
    BY <1>3, <1>4, <1>5, <1>6, <2>1, <2>2, SameCounts
<1>8. CASE TakeLong(w)
  <2>1. IsLong(j) /\ longInflight' = longInflight + 1 /\ (LongAllowed \/ shutdown)
    BY <1>0, <1>1, <1>8 DEF TakeLong
  <2>2. OnLong' = OnLong \cup {w} /\ w \in Workers \ OnLong
    BY <1>0, <1>2, <1>3, <2>1 DEF OnLong, HoldsLong, IsLong
  <2>3. Cardinality(OnLong') = Cardinality(OnLong) + 1 /\ Cardinality(OnLong) \in Nat
    BY <2>2, WorkerSets DEF OnLong
  <2>4. MaxLong \in Nat
    BY ConstantsAssumption, FS_CardinalityType
  <2>5. LongShare'
    BY <1>3, <2>1, <2>3, <2>4 DEF LongShare, LongAllowed
  <2> QED
    BY <1>3, <1>4, <1>5, <1>6, <2>5
<1> QED
  BY <1>7, <1>8

LEMMA IdleStep ==
  ASSUME PoolInv, NEW w \in Workers, Wait(w) \/ Exit(w)
  PROVE  PoolInv'
<1> USE DEF PoolInv
<1>1. /\ AtQueues(w)
      /\ UNCHANGED <<short, long, seq, job, longInflight, running, shutdown, finished, cancelled>>
      /\ \E s \in {"waiting", "exited"} : pc' = [pc EXCEPT ![w] = s]
  BY DEF Wait, Exit
<1>2. Shapes'
  BY <1>1 DEF Shapes, States
<1>3. JobsMatch'
  BY <1>1 DEF JobsMatch, HoldsLong, AtQueues, Shapes
<1>4. Counted' = Counted /\ OnLong' = OnLong
  BY <1>1 DEF Counted, OnLong, HoldsLong, AtQueues, Shapes
<1> QED
  BY <1>1, <1>2, <1>3, <1>4, SameCounts

LEMMA StartStep ==
  ASSUME PoolInv, NEW w \in Workers, Start(w)
  PROVE  PoolInv'
<1> USE DEF PoolInv, Start
<1>1. Shapes'
  BY DEF Shapes, States
<1>2. JobsMatch'
  BY DEF JobsMatch, HoldsLong, Shapes
<1>3. OnLong' = OnLong /\ LongShare'
  BY DEF OnLong, HoldsLong, LongShare
<1>4. Counted' = Counted \cup {w} /\ w \in Workers \ Counted
  BY DEF Counted, Shapes
<1>5. Cardinality(Counted') = Cardinality(Counted) + 1
  BY <1>4, WorkerSets DEF Counted
<1> QED
  BY <1>1, <1>2, <1>3, <1>5

LEMMA ReturnStep ==
  ASSUME PoolInv, NEW w \in Workers, Return(w)
  PROVE  PoolInv'
<1> USE DEF PoolInv, Return
<1>1. Shapes'
  BY DEF Shapes, States
<1>2. JobsMatch'
  BY DEF JobsMatch, HoldsLong, Shapes
<1>3. Counted' = Counted /\ OnLong' = OnLong
  BY DEF Counted, OnLong, HoldsLong, Shapes
<1> QED
  BY <1>1, <1>2, <1>3, SameCounts

LEMMA EndStep ==
  ASSUME PoolInv, NEW w \in Workers, End(w)
  PROVE  PoolInv'
<1> USE DEF PoolInv, End
<1>1. pc' \in [Workers -> States] /\ job' \in [Workers -> SUBSET Jobs]
      /\ \A v \in Workers :
           /\ pc'[v] = IF v # w THEN pc[v] ELSE IF HoldsLong(w) THEN "release" ELSE "take"
           /\ job'[v] = IF v = w /\ ~HoldsLong(w) THEN {} ELSE job[v]
  BY DEF Shapes, States
<1>2. Shapes'
  BY <1>1 DEF Shapes
<1>3. JobsMatch'
  BY <1>1 DEF JobsMatch, HoldsLong
<1>4. OnLong' = OnLong /\ LongShare'
  BY <1>1 DEF OnLong, HoldsLong, LongShare
<1>5. Counted' = Counted \ {w} /\ w \in Counted
  BY <1>1 DEF Counted
<1>6. Cardinality(Counted') = Cardinality(Counted) - 1
  BY <1>5, WorkerSets DEF Counted
<1> QED
  BY <1>2, <1>3, <1>4, <1>6

LEMMA ReleaseStep ==
  ASSUME PoolInv, NEW w \in Workers, ReleaseLong(w)
  PROVE  PoolInv'
<1> USE DEF PoolInv, ReleaseLong
<1>0. [pc EXCEPT ![w] = "take"] \in [Workers -> States]
  BY DEF Shapes, States
<1>1. /\ pc' \in [Workers -> States]
      /\ \A v \in Workers : \/ pc'[v] = [pc EXCEPT ![w] = "take"][v]
                            \/ pc[v] = "waiting" /\ pc'[v] = "notified"
  BY <1>0, NotifyEffect
<1>2. Shapes'
  BY <1>1 DEF Shapes
<1>3. \A v \in Workers : job'[v] = IF v = w THEN {} ELSE job[v]
  BY DEF Shapes
<1>4. \A v \in Workers : \/ v # w /\ pc'[v] = pc[v]
                         \/ v = w /\ pc'[v] = "take"
                         \/ v # w /\ pc[v] = "waiting" /\ pc'[v] = "notified"
  BY <1>1 DEF Shapes
<1>5. JobsMatch'
  BY <1>3, <1>4 DEF JobsMatch, HoldsLong
<1>6. Counted' = Counted
  BY <1>4 DEF Counted
<1>7. OnLong' = OnLong \ {w} /\ w \in OnLong
  BY <1>3 DEF OnLong, HoldsLong, JobsMatch
<1>8. /\ Cardinality(OnLong') = Cardinality(OnLong) - 1 /\ Cardinality(OnLong) > 0
      /\ Cardinality(OnLong) \in Nat
  <2>1. OnLong \in SUBSET Workers
    BY DEF OnLong
  <2> HIDE DEF PoolInv, ReleaseLong
  <2> QED
    BY <1>7, <2>1, WorkerSets
<1>9. LongShare'
  <2>1. MaxLong \in Nat
    BY ConstantsAssumption, FS_CardinalityType
  <2> QED
    BY <1>8, <2>1 DEF LongShare
<1> QED
  BY <1>2, <1>5, <1>6, <1>9

LEMMA PoolInvHolds == Spec => []PoolInv
<1>1. PoolInv /\ [Next]_vars => PoolInv'
  <2> SUFFICES ASSUME PoolInv, [Next]_vars
               PROVE  PoolInv'
    OBVIOUS
  <2>1. ASSUME NEW w \in Workers, Work(w)
        PROVE  PoolInv'
    BY <2>1, TakeStep, IdleStep, StartStep, ReturnStep, EndStep, ReleaseStep DEF Work
  <2>2. CASE UNCHANGED vars
    BY <2>2 DEF vars, PoolInv, Shapes, JobsMatch, HoldsLong, Counted, LongShare, OnLong
  <2> QED
    BY <2>1, <2>2, SubmitStep, ShutdownStep DEF Next
<1> QED
  BY <1>1, PoolInvInit, PTL DEF Spec

(* Every variable keeps its type: a worker has at most one job, and both   *)
(* counters stay between nothing and the number of workers.                *)
THEOREM TypeCorrect == Spec => []TypeOK
<1>1. PoolInv => TypeOK
  <2> SUFFICES ASSUME PoolInv
               PROVE  TypeOK
    OBVIOUS
  <2>1. /\ longInflight \in 0 .. Cardinality(Workers)
        /\ running \in 0 .. Cardinality(Workers)
    BY WorkerSets DEF PoolInv, LongShare, OnLong, Counted
  <2>2. ASSUME NEW w \in Workers
        PROVE  Cardinality(job[w]) <= 1
    <3>1. job[w] = {} \/ \E j \in Jobs : job[w] = {j}
      BY DEF PoolInv, Shapes, JobsMatch, States
    <3>2. CASE job[w] = {}
      BY <3>2, FS_EmptySet
    <3>3. ASSUME NEW j \in Jobs, job[w] = {j}
          PROVE  Cardinality(job[w]) <= 1
      <4>1. Cardinality({j}) = 1
        BY FS_Singleton
      <4> QED
        BY <3>3, <4>1
    <3> QED
      BY <3>1, <3>2, <3>3
  <2> QED
    BY <2>1, <2>2 DEF PoolInv, Shapes, TypeOK
<1> QED
  BY <1>1, PoolInvHolds, PTL

(* The counter the cap is tested against is the number of workers on long  *)
(* jobs, and until shutdown they never hold more than their share.         *)
THEOREM ShareKept == Spec => []LongShare
<1>1. PoolInv => LongShare
  BY DEF PoolInv
<1> QED
  BY <1>1, PoolInvHolds, PTL

-----------------------------------------------------------------------------
(* Every submitted job is queued, in the hands of a worker, run or         *)
(* cancelled; what a worker has to put away was run; and nobody leaves     *)
(* before the queues are empty for good.                                   *)
InHand == {j \in Jobs : \E w \in Workers : j \in job[w]}

JobsTracked ==
  /\ Submitted = short \cup long \cup InHand \cup finished \cup cancelled
  /\ \A w \in Workers : pc[w] \in {"ended", "release"} => job[w] \subseteq finished
  /\ \A w \in Workers : pc[w] = "exited" => shutdown /\ short = {} /\ long = {}
  /\ ~shutdown => cancelled = {}

LEMMA TrackedStep ==
  ASSUME PoolInv, JobsTracked, [Next]_vars
  PROVE  JobsTracked'
<1> USE DEF JobsTracked
<1>0. /\ pc \in [Workers -> States] /\ job \in [Workers -> SUBSET Jobs]
      /\ short \subseteq Jobs /\ long \subseteq Jobs /\ seq \in [Jobs -> 0 .. Cardinality(Jobs)]
      /\ shutdown \in BOOLEAN
  BY DEF PoolInv, Shapes
<1>1. ASSUME NEW j \in Jobs, Submit(j)
      PROVE  JobsTracked'
  <2>1. \A w \in Workers : pc'[w] = pc[w] \/ (pc[w] = "waiting" /\ pc'[w] = "notified")
    BY <1>0, <1>1, NotifyEffect DEF Submit
  <2>2. seq'[j] > 0 /\ \A k \in Jobs \ {j} : seq'[k] = seq[k]
    <3>1. Cardinality(Submitted) + 1 \in 0 .. Cardinality(Jobs) /\ Cardinality(Submitted) \in Nat
      <4>1. IsFiniteSet(Submitted)
        BY ConstantsAssumption, FS_Subset DEF Submitted
      <4> QED  BY <1>1, <4>1, SubmitNumber, FS_CardinalityType DEF Submit, PoolInv
    <3> QED  BY <1>0, <1>1, <3>1 DEF Submit
  <2>3. Submitted' = Submitted \cup {j}
    BY <2>2 DEF Submitted
  <2>4. short' \cup long' = short \cup long \cup {j} /\ InHand' = InHand
    BY <1>1 DEF Submit, InHand
  <2>5. UNCHANGED <<job, finished, cancelled, shutdown>> /\ ~shutdown
    BY <1>1 DEF Submit
  <2> QED  BY <2>1, <2>3, <2>4, <2>5
<1>2. ASSUME NEW w \in Workers, TakeShort(w) \/ TakeLong(w)
      PROVE  JobsTracked'
  <2>1. PICK j \in short \cup long :
          /\ Pop(w, j)
          /\ short' \cup long' \cup {j} = short \cup long
          /\ short' \subseteq short /\ long' \subseteq long
    BY <1>2 DEF TakeShort, TakeLong, IsNext
  <2>2. job[w] = {} /\ j \in Jobs
    BY <1>0, <1>2, <2>1 DEF TakeShort, TakeLong, AtQueues, PoolInv, JobsMatch
  <2>3. /\ \A v \in Workers : job'[v] = IF v = w THEN {j} ELSE job[v]
        /\ \A v \in Workers : pc'[v] = IF v = w THEN "popped" ELSE pc[v]
        /\ UNCHANGED <<seq, shutdown, finished, cancelled>>
    BY <1>0, <2>1 DEF Pop
  <2>4. InHand' = InHand \cup {j}
    BY <2>2, <2>3 DEF InHand
  <2>5. Submitted' = Submitted
    BY <2>3 DEF Submitted
  <2> QED  BY <2>1, <2>3, <2>4, <2>5
<1>3. ASSUME NEW w \in Workers, Wait(w) \/ Exit(w) \/ Start(w)
      PROVE  JobsTracked'
  <2>1. /\ UNCHANGED <<short, long, seq, job, shutdown, finished, cancelled>>
        /\ \E s \in {"waiting", "exited", "running"} :
             /\ pc' = [pc EXCEPT ![w] = s]
             /\ s = "exited" => shutdown /\ short = {} /\ (long = {} \/ ~shutdown)
    BY <1>3 DEF Wait, Exit, Start, Leaving, NothingRunnable
  <2>2. Submitted' = Submitted /\ InHand' = InHand
    BY <2>1 DEF Submitted, InHand
  <2> QED  BY <1>0, <2>1, <2>2
<1>4. ASSUME NEW w \in Workers, Return(w)
      PROVE  JobsTracked'
  <2>1. /\ UNCHANGED <<short, long, seq, job, shutdown, cancelled>>
        /\ finished' = finished \cup job[w]
        /\ \A v \in Workers : pc'[v] = IF v = w THEN "ended" ELSE pc[v]
    BY <1>0, <1>4 DEF Return
  <2>2. Submitted' = Submitted /\ InHand' = InHand /\ job[w] \subseteq InHand
    BY <1>0, <2>1 DEF Submitted, InHand
  <2> QED  BY <2>1, <2>2
<1>5. ASSUME NEW w \in Workers, End(w) \/ ReleaseLong(w)
      PROVE  JobsTracked'
  <2>1. /\ UNCHANGED <<short, long, seq, shutdown, finished, cancelled>>
        /\ pc[w] \in {"ended", "release"}
        /\ \A v \in Workers : job'[v] = job[v] \/ (v = w /\ job'[v] = {})
    BY <1>0, <1>5 DEF End, ReleaseLong
  <2>2. \A v \in Workers : \/ pc'[v] \in {"take", "notified"}
                           \/ pc'[v] = pc[v]
                           \/ v = w /\ pc'[v] = "release"
    <3>1. CASE End(w)
      BY <1>0, <3>1 DEF End
    <3>2. CASE ReleaseLong(w)
      <4>1. [pc EXCEPT ![w] = "take"] \in [Workers -> States]
        BY <1>0 DEF States
      <4> QED  BY <1>0, <3>2, <4>1, NotifyEffect DEF ReleaseLong
    <3> QED  BY <1>5, <3>1, <3>2
  <2>3. Submitted' = Submitted
    BY <2>1 DEF Submitted
  <2>4. InHand' \subseteq InHand /\ InHand \subseteq InHand' \cup finished
    BY <2>1 DEF InHand
  <2> QED  BY <2>1, <2>2, <2>3, <2>4
<1>6. ASSUME NEW cancel \in BOOLEAN, Shutdown(cancel)
      PROVE  JobsTracked'
  <2>1. /\ UNCHANGED <<seq, job, finished>> /\ shutdown' = TRUE
        /\ \A w \in Workers : pc'[w] = pc[w] \/ pc'[w] = "notified"
        /\ short' \cup long' \cup cancelled' = short \cup long \cup cancelled
        /\ short' \subseteq short /\ long' \subseteq long
    BY <1>6 DEF Shutdown
  <2>2. Submitted' = Submitted /\ InHand' = InHand
    BY <2>1 DEF Submitted, InHand
  <2> QED  BY <2>1, <2>2
<1>7. CASE UNCHANGED vars
  BY <1>7 DEF vars, Submitted, InHand
<1> QED
  BY <1>1, <1>2, <1>3, <1>4, <1>5, <1>6, <1>7 DEF Next, Work

(* When every worker has exited nothing is left queued: shutdown(wait)     *)
(* drains, the long jobs beyond the cap included (decode_pool.py:174).     *)
THEOREM PoolDrains == Spec => []ExitDrained
<1>1. Init => JobsTracked
  BY DEF Init, JobsTracked, Submitted, InHand
<1>2. PoolInv /\ JobsTracked /\ [Next]_vars => JobsTracked'
  BY TrackedStep
<1>3. PoolInv /\ JobsTracked => ExitDrained
  <2> SUFFICES ASSUME PoolInv, JobsTracked, \A w \in Workers : pc[w] = "exited"
               PROVE  Submitted = finished \cup cancelled
    BY DEF ExitDrained
  <2>1. PICK w \in Workers : TRUE
    <3>1. MaxLong \in 1 .. Cardinality(Workers) /\ IsFiniteSet(Workers)
      BY ConstantsAssumption
    <3>2. CASE Workers = {}
      <4>1. Cardinality(Workers) = 0
        BY <3>2, FS_EmptySet
      <4> QED  BY <3>1, <4>1
    <3> QED  BY <3>2
  <2>2. short = {} /\ long = {}
    BY <2>1 DEF JobsTracked
  <2>3. \A v \in Workers : job[v] = {}
    BY DEF PoolInv, JobsMatch
  <2>4. InHand = {}
    BY <2>3 DEF InHand
  <2> QED  BY <2>2, <2>4 DEF JobsTracked
<1> QED  BY <1>1, <1>2, <1>3, PoolInvHolds, PTL DEF Spec

-----------------------------------------------------------------------------
(* A set of jobs, and what a job more or less makes of its size.           *)
LEMMA JobSets ==
  ASSUME NEW S \in SUBSET Jobs
  PROVE  /\ Cardinality(S) \in Nat
         /\ \A j \in S : Cardinality(S \ {j}) = Cardinality(S) - 1
         /\ \A j \in Jobs : Cardinality(S \cup {j}) \in Cardinality(S) .. Cardinality(S) + 1
<1>1. IsFiniteSet(S)
  BY ConstantsAssumption, FS_Subset
<1>2. \A j \in S : Cardinality(S \ {j}) = Cardinality(S) - 1
  BY <1>1, FS_RemoveElement
<1>3. Cardinality(S) \in Nat
  BY <1>1, FS_CardinalityType
<1>4. ASSUME NEW j \in Jobs
      PROVE  Cardinality(S \cup {j}) \in Cardinality(S) .. Cardinality(S) + 1
  <2>1. CASE j \in S
    <3>1. S \cup {j} = S
      BY <2>1
    <3> QED  BY <1>3, <3>1
  <2>2. CASE j \notin S
    <3>1. Cardinality(S \cup {j}) = Cardinality(S) + 1
      BY <1>1, <2>2, FS_AddElement
    <3> QED  BY <1>3, <3>1
  <2> QED  BY <2>1, <2>2
<1> QED  BY <1>2, <1>3, <1>4

(* What of the long jobs could run, of how many and with how many running. *)
Room(queued, inflight) ==
  IF inflight < MaxLong
  THEN IF queued < MaxLong - inflight THEN queued ELSE MaxLong - inflight
  ELSE 0

LEMMA RoomIsRunnable == RunnableLong = Room(Cardinality(long), longInflight)
BY DEF RunnableLong, Room, LongAllowed

LEMMA RoomChanges ==
  ASSUME NEW q \in Nat, NEW n \in Nat
  PROVE  /\ Room(q, n) \in Nat
         /\ Room(q + 1, n) \in Room(q, n) .. Room(q, n) + 1
         /\ q > 0 /\ n < MaxLong => Room(q - 1, n + 1) = Room(q, n) - 1
         /\ n > 0 => Room(q, n - 1) \in Room(q, n) .. Room(q, n) + 1
         /\ Room(0, n) = 0
         /\ n >= MaxLong => Room(q, n) = 0
<1>1. MaxLong \in Nat
  BY ConstantsAssumption, FS_CardinalityType
<1> QED  BY <1>1 DEF Room

(* The bound of NoWakeupLost holds while a worker sleeps, and no one       *)
(* sleeps once the pool shuts down.                                        *)
WakeupInv == NoWakeupLost /\ (shutdown => Waiting = {})

LEMMA WakeupStep ==
  ASSUME PoolInv, PoolInv', WakeupInv, [Next]_vars
  PROVE  WakeupInv'
<1> USE DEF WakeupInv
<1>0. /\ pc \in [Workers -> States]
      /\ short \in SUBSET Jobs /\ long \in SUBSET Jobs /\ short' \in SUBSET Jobs /\ long' \in SUBSET Jobs
      /\ shutdown \in BOOLEAN /\ MaxLong \in Nat
      /\ longInflight \in Nat /\ longInflight' \in Nat
      /\ Alert \in SUBSET Workers /\ Alert' \in SUBSET Workers
  <2>1. longInflight \in Nat
    BY WorkerSets DEF PoolInv, LongShare, OnLong
  <2>2. longInflight' \in Nat
    <3>1. OnLong' \in SUBSET Workers
      BY DEF OnLong
    <3>2. Cardinality(OnLong') \in 0 .. Cardinality(Workers)
      BY <3>1, WorkerSets
    <3>3. longInflight' = Cardinality(OnLong')
      BY DEF PoolInv, LongShare
    <3>4. Cardinality(Workers) \in Nat
      BY ConstantsAssumption, FS_CardinalityType
    <3> QED  BY <3>2, <3>3, <3>4
  <2> QED  BY <2>1, <2>2, ConstantsAssumption, FS_CardinalityType DEF PoolInv, Shapes, Alert
<1>A. /\ Cardinality(Alert) \in Nat /\ Cardinality(Alert') \in Nat
      /\ Cardinality(short) \in Nat /\ Cardinality(long) \in Nat
      /\ Cardinality(short') \in Nat /\ Cardinality(long') \in Nat
  <2>1. Cardinality(Workers) \in Nat
    BY ConstantsAssumption, FS_CardinalityType
  <2>2. Cardinality(Alert) \in 0 .. Cardinality(Workers) /\ Cardinality(Alert') \in 0 .. Cardinality(Workers)
    BY <1>0, WorkerSets
  <2> QED  BY <1>0, <2>1, <2>2, JobSets
<1>R. RunnableLong' = Room(Cardinality(long'), longInflight')
  BY DEF RunnableLong, Room, LongAllowed
<1>1. ASSUME NEW j \in Jobs, Submit(j), Waiting' # {}
      PROVE  WakeupInv'
  <2>1. Waiting # {} /\ ~shutdown'
    <3>1. \A w \in Workers : pc'[w] = pc[w] \/ (pc[w] = "waiting" /\ pc'[w] = "notified")
      BY <1>0, <1>1, NotifyEffect DEF Submit
    <3> QED  BY <1>1, <3>1 DEF Submit, Waiting
  <2>2. PICK v \in Waiting : pc' = [pc EXCEPT ![v] = "notified"]
    BY <1>1, <2>1 DEF Submit, Notify
  <2>3. Alert' = Alert \cup {v} /\ v \in Workers \ Alert
    BY <1>0, <2>2 DEF Alert, Waiting
  <2>4. Cardinality(Alert') = Cardinality(Alert) + 1
    BY <1>0, <2>3, WorkerSets
  <2>5. longInflight' = longInflight
    BY <1>1 DEF Submit
  <2>6. \/ short' = short /\ long' = long \cup {j}
        \/ short' = short \cup {j} /\ long' = long
    BY <1>1 DEF Submit
  <2>7. Cardinality(short') + RunnableLong' <= Cardinality(short) + RunnableLong + 1
    <3>1. CASE short' = short /\ long' = long \cup {j}
      <4>1. Cardinality(long') \in Cardinality(long) .. Cardinality(long) + 1
        BY <1>0, <3>1, JobSets
      <4>2. /\ Room(Cardinality(long), longInflight) \in Nat
            /\ Room(Cardinality(long'), longInflight)
                 \in Room(Cardinality(long), longInflight) .. Room(Cardinality(long), longInflight) + 1
        <5>0. Room(Cardinality(long), longInflight) \in Nat
          BY <1>0, <1>A, RoomChanges
        <5>1. CASE Cardinality(long') = Cardinality(long)
          <6>1. Room(Cardinality(long'), longInflight) = Room(Cardinality(long), longInflight)
            BY <5>1
          <6> QED  BY <5>0, <6>1
        <5>2. CASE Cardinality(long') = Cardinality(long) + 1
          BY <1>0, <1>A, <5>2, RoomChanges
        <5> QED  BY <1>A, <4>1, <5>0, <5>1, <5>2
      <4> QED  BY <1>A, <1>R, <2>5, <3>1, <4>2, RoomIsRunnable
    <3>2. CASE short' = short \cup {j} /\ long' = long
      <4>1. Cardinality(short') \in Cardinality(short) .. Cardinality(short) + 1
        BY <1>0, <3>2, JobSets
      <4>2. RunnableLong' = RunnableLong /\ RunnableLong \in Nat
        BY <1>0, <1>A, <1>R, <2>5, <3>2, RoomIsRunnable, RoomChanges
      <4> QED  BY <1>A, <4>1, <4>2
    <3> QED  BY <2>6, <3>1, <3>2
  <2>8. RunnableLong \in Nat /\ RunnableLong' \in Nat
    BY <1>0, <1>A, <1>R, RoomIsRunnable, RoomChanges
  <2> QED  BY <1>A, <2>1, <2>4, <2>7, <2>8 DEF NoWakeupLost
<1>2. ASSUME NEW w \in Workers, TakeShort(w), Waiting' # {}
      PROVE  WakeupInv'
  <2>1. PICK j \in short : short' = short \ {j} /\ pc' = [pc EXCEPT ![w] = "popped"]
    BY <1>2 DEF TakeShort, Pop
  <2>2. UNCHANGED <<long, longInflight, shutdown>> /\ w \in Alert
    BY <1>0, <1>2 DEF TakeShort, Pop, AtQueues, Alert
  <2>3. Waiting' = Waiting /\ Alert' = Alert \ {w}
    BY <1>0, <2>1, <2>2 DEF Waiting, Alert
  <2>4. Cardinality(Alert') = Cardinality(Alert) - 1 /\ Cardinality(short') = Cardinality(short) - 1
    BY <1>0, <2>1, <2>2, <2>3, WorkerSets, JobSets
  <2>5. RunnableLong' = RunnableLong /\ RunnableLong \in Nat
    BY <1>0, <1>A, <1>R, <2>2, RoomIsRunnable, RoomChanges
  <2> QED  BY <1>2, <1>A, <2>2, <2>3, <2>4, <2>5 DEF NoWakeupLost
<1>3. ASSUME NEW w \in Workers, TakeLong(w), Waiting' # {}
      PROVE  WakeupInv'
  <2>1. PICK j \in long : long' = long \ {j} /\ pc' = [pc EXCEPT ![w] = "popped"]
    BY <1>3 DEF TakeLong, Pop
  <2>2. /\ short' = short /\ longInflight' = longInflight + 1 /\ shutdown' = shutdown
        /\ w \in Alert
    BY <1>0, <1>3 DEF TakeLong, Pop, AtQueues, Alert
  <2>3. Waiting' = Waiting /\ Alert' = Alert \ {w}
    BY <1>0, <2>1, <2>2 DEF Waiting, Alert
  <2>4. longInflight < MaxLong
    BY <1>3, <2>3 DEF TakeLong, LongAllowed
  <2>5. Cardinality(Alert') = Cardinality(Alert) - 1 /\ Cardinality(long') = Cardinality(long) - 1
    BY <1>0, <2>1, <2>2, <2>3, WorkerSets, JobSets
  <2>6. RunnableLong' = RunnableLong - 1 /\ RunnableLong \in Nat
    BY <1>0, <1>A, <1>R, <2>2, <2>4, <2>5, RoomIsRunnable, RoomChanges
  <2> QED  BY <1>3, <1>A, <2>2, <2>3, <2>5, <2>6 DEF NoWakeupLost
<1>4. ASSUME NEW w \in Workers, Wait(w)
      PROVE  WakeupInv'
  <2>1. UNCHANGED <<short, long, longInflight, shutdown>> /\ ~shutdown /\ NothingRunnable
    BY <1>4 DEF Wait
  <2>2. Cardinality(short) = 0
    BY <2>1, FS_EmptySet DEF NothingRunnable
  <2>3. RunnableLong' = 0
    <3>1. CASE long = {}
      <4>1. Cardinality(long) = 0
        BY <3>1, FS_EmptySet
      <4> QED  BY <1>0, <1>R, <2>1, <4>1, RoomChanges
    <3>2. CASE ~(longInflight < MaxLong)
      <4>1. longInflight >= MaxLong
        BY <1>0, <3>2
      <4> QED  BY <1>0, <1>A, <1>R, <2>1, <4>1, RoomChanges
    <3> QED  BY <2>1, <3>1, <3>2 DEF NothingRunnable, LongAllowed
  <2> QED  BY <1>A, <2>1, <2>2, <2>3 DEF NoWakeupLost
<1>5. ASSUME NEW w \in Workers, Exit(w) \/ Start(w) \/ Return(w)
      PROVE  WakeupInv'
  <2>1. UNCHANGED <<short, long, longInflight, shutdown>>
    BY <1>5 DEF Exit, Start, Return
  <2>2. Waiting' = Waiting /\ (Alert' = Alert \/ Waiting = {})
    BY <1>0, <1>5 DEF Exit, Leaving, Start, Return, Waiting, Alert, AtQueues
  <2>3. RunnableLong' = RunnableLong
    BY <1>R, <2>1, RoomIsRunnable
  <2> QED  BY <2>1, <2>2, <2>3 DEF NoWakeupLost
<1>6. ASSUME NEW w \in Workers, End(w)
      PROVE  WakeupInv'
  <2>1. UNCHANGED <<short, long, longInflight, shutdown>>
    BY <1>6 DEF End
  <2>2. Waiting' = Waiting /\ (Alert' = Alert \/ Alert' = Alert \cup {w}) /\ w \notin Alert
    BY <1>0, <1>6 DEF End, Waiting, Alert
  <2>3. Cardinality(Alert') >= Cardinality(Alert)
    BY <1>0, <1>A, <2>2, WorkerSets
  <2>4. RunnableLong' = RunnableLong /\ RunnableLong \in Nat
    BY <1>0, <1>A, <1>R, <2>1, RoomIsRunnable, RoomChanges
  <2> QED  BY <1>A, <2>1, <2>2, <2>3, <2>4 DEF NoWakeupLost
<1>7. ASSUME NEW w \in Workers, ReleaseLong(w), Waiting' # {}
      PROVE  WakeupInv'
  <2>0. /\ [pc EXCEPT ![w] = "take"] \in [Workers -> States] /\ pc[w] = "release"
        /\ UNCHANGED <<short, long, shutdown>>
        /\ Notify([pc EXCEPT ![w] = "take"])
    BY <1>0, <1>7 DEF ReleaseLong, States
  <2>1. Waiting # {}
    <3>1. \A v \in Waiting' : v \in Waiting
      BY <1>0, <2>0, NotifyEffect DEF Waiting
    <3> QED  BY <1>7, <3>1
  <2>2. PICK v \in Waiting : pc' = [[pc EXCEPT ![w] = "take"] EXCEPT ![v] = "notified"]
    BY <2>0, <2>1 DEF Notify
  <2>3. /\ v \in Workers /\ pc[v] = "waiting" /\ v # w
        /\ Alert' = (Alert \cup {w}) \cup {v}
        /\ w \in Workers \ Alert /\ v \in Workers \ (Alert \cup {w})
    BY <1>0, <2>0, <2>2 DEF Waiting, Alert
  <2>4. Cardinality(Alert') = Cardinality(Alert) + 2
    <3>1. Cardinality(Alert \cup {w}) = Cardinality(Alert) + 1
      BY <1>0, <2>3, WorkerSets
    <3>2. Cardinality(Alert') = Cardinality(Alert \cup {w}) + 1
      BY <1>0, <2>3, WorkerSets
    <3> QED  BY <1>A, <3>1, <3>2
  <2>5. RunnableLong' <= RunnableLong + 1 /\ RunnableLong \in Nat /\ RunnableLong' \in Nat
    <3>1. longInflight' = longInflight \/ (longInflight > 0 /\ longInflight' = longInflight - 1)
      BY <1>7 DEF ReleaseLong
    <3>2. CASE longInflight' = longInflight
      BY <1>0, <1>A, <1>R, <2>0, <3>2, RoomIsRunnable, RoomChanges
    <3>3. CASE longInflight > 0 /\ longInflight' = longInflight - 1
      <4>1. /\ Room(Cardinality(long), longInflight) \in Nat
            /\ Room(Cardinality(long), longInflight - 1)
                 \in Room(Cardinality(long), longInflight) .. Room(Cardinality(long), longInflight) + 1
        BY <1>0, <1>A, <3>3, RoomChanges
      <4> QED  BY <1>R, <2>0, <3>3, <4>1, RoomIsRunnable
    <3> QED  BY <3>1, <3>2, <3>3
  <2> QED  BY <1>A, <2>0, <2>1, <2>4, <2>5 DEF NoWakeupLost
<1>8. ASSUME NEW cancel \in BOOLEAN, Shutdown(cancel)
      PROVE  WakeupInv'
  <2>1. Waiting' = {}
    BY <1>0, <1>8 DEF Shutdown, Waiting
  <2> QED  BY <2>1 DEF NoWakeupLost
<1>9. CASE UNCHANGED vars
  BY <1>9 DEF vars, NoWakeupLost, Waiting, Alert, RunnableLong, LongAllowed
<1>10. CASE Waiting' = {}
  BY <1>10 DEF NoWakeupLost
<1> QED
  BY <1>1, <1>2, <1>3, <1>4, <1>5, <1>6, <1>7, <1>8, <1>9, <1>10 DEF Next, Work

(* One notify per submitted job and per freed long slot is enough: while a *)
(* worker sleeps, every job that could run has a worker on its way to the  *)
(* queues, however the woken are overtaken (decode_pool.py:137).           *)
THEOREM WakeupsKept == Spec => []NoWakeupLost
<1>1. Init => WakeupInv
  <2> SUFFICES ASSUME Init
               PROVE  Waiting = {}
    BY DEF WakeupInv, NoWakeupLost
  <2> QED  BY DEF Init, Waiting
<1>2. PoolInv /\ PoolInv' /\ WakeupInv /\ [Next]_vars => WakeupInv'
  BY WakeupStep
<1>3. WakeupInv => NoWakeupLost
  BY DEF WakeupInv
<1> QED  BY <1>1, <1>2, <1>3, PoolInvHolds, PTL DEF Spec

-----------------------------------------------------------------------------
(* HostSlot.  A slot is taken from a decode only by another long decode of *)
(* its own process that ends, so the lock table and exclusion are proved   *)
(* of the decodes that were alone since they were admitted.                *)

(* A thread's scan position is within what range(n_slots) yields, and one  *)
(* that was admitted stands on a slot.                                     *)
Admitted == \A p \in Procs, t \in LongThreads : Decoding(p, t) => cand[p][t] \in Slots

(* The lock of an admitted decode is held by its process until another     *)
(* thread of it has left.                                                  *)
HolderOwns ==
  \A p \in Procs, t \in LongThreads : Decoding(p, t) /\ alone[p][t] => owner[cand[p][t]] = p

-----------------------------------------------------------------------------
(* Updating one thread's entry of a table of the processes' threads keeps  *)
(* the table's type and every other entry.                                 *)
LEMMA ThreadUpdate ==
  ASSUME NEW S, NEW f \in [Procs -> [LongThreads -> S]],
         NEW p \in Procs, NEW t \in LongThreads, NEW v \in S
  PROVE  /\ [f EXCEPT ![p][t] = v] \in [Procs -> [LongThreads -> S]]
         /\ \A q \in Procs, u \in LongThreads :
              [f EXCEPT ![p][t] = v][q][u] = IF q = p /\ u = t THEN v ELSE f[q][u]
<1>1. [f[p] EXCEPT ![t] = v] \in [LongThreads -> S]
  OBVIOUS
<1>2. [f EXCEPT ![p][t] = v] = [f EXCEPT ![p] = [f[p] EXCEPT ![t] = v]]
  OBVIOUS
<1> QED
  BY <1>1, <1>2

(* Every variable keeps its type: in particular a scan stops at NSlots and *)
(* polls are never counted below zero.                                     *)
THEOREM SlotTypeCorrect == SlotSpec => []SlotTypeOK
<1> USE SlotsAssumption DEF Slots
<1>1. SlotInit => SlotTypeOK
  BY DEF SlotInit, SlotTypeOK, SlotStates
<1>2. SlotTypeOK /\ [SlotNext]_slotVars => SlotTypeOK'
  <2> SUFFICES ASSUME SlotTypeOK, [SlotNext]_slotVars
               PROVE  SlotTypeOK'
    OBVIOUS
  <2> USE DEF SlotTypeOK
  <2>0. ASSUME NEW p \in Procs, NEW t \in LongThreads, NEW s \in SlotStates, Goto(p, t, s)
        PROVE  at' \in [Procs -> [LongThreads -> SlotStates]]
    BY <2>0, ThreadUpdate DEF Goto
  <2>1. ASSUME NEW p \in Procs, NEW t \in LongThreads, Enter(p, t)
        PROVE  SlotTypeOK'
    <3>1. polls' \in [Procs -> [LongThreads -> 0 .. MaxPolls]]
      <4>1. MaxPolls \in 0 .. MaxPolls
        OBVIOUS
      <4> QED
        BY <2>1, <4>1, ThreadUpdate DEF Enter
    <3> QED
      BY <2>0, <2>1, <3>1 DEF Enter, SlotStates
  <2>2. ASSUME NEW p \in Procs, NEW t \in LongThreads, Step(p, t)
        PROVE  SlotTypeOK'
    <3>1. CASE TryLock(p, t)
      <4>1. /\ cand[p][t] \in Slots
            /\ cand[p][t] + 1 \in 0 .. NSlots
        BY <3>1 DEF TryLock
      <4>2. CASE CanLock(p, cand[p][t])
        <5>1. alone' \in [Procs -> [LongThreads -> BOOLEAN]]
          <6>1. alone' = [alone EXCEPT ![p][t] = TRUE]
            BY <3>1, <4>2 DEF TryLock
          <6> QED
            BY <6>1, ThreadUpdate
        <5>2. polls' \in [Procs -> [LongThreads -> 0 .. MaxPolls]]
          <6>1. /\ polls' = [polls EXCEPT ![p][t] = 0]
                /\ 0 \in 0 .. MaxPolls
            BY <3>1, <4>2 DEF TryLock
          <6> QED
            BY <6>1, ThreadUpdate
        <5>3. owner' \in [Slots -> Procs \cup {Nobody}] /\ cand' = cand /\ up' = up
          BY <3>1, <4>1, <4>2 DEF TryLock
        <5>4. at' \in [Procs -> [LongThreads -> SlotStates]]
          BY <2>0, <3>1, <4>2 DEF TryLock, SlotStates
        <5> QED
          BY <5>1, <5>2, <5>3, <5>4
      <4>3. CASE ~CanLock(p, cand[p][t])
        <5>1. cand' \in [Procs -> [LongThreads -> 0 .. NSlots]]
          <6>1. cand' = [cand EXCEPT ![p][t] = cand[p][t] + 1]
            BY <3>1, <4>3 DEF TryLock
          <6> QED
            BY <4>1, <6>1, ThreadUpdate
        <5> QED
          BY <3>1, <4>3, <5>1 DEF TryLock
      <4> QED
        BY <4>2, <4>3
    <3>2. CASE AllBusy(p, t)
      <4>1. CASE polls[p][t] = 0
        BY <2>0, <3>2, <4>1 DEF AllBusy, SlotStates
      <4>2. CASE polls[p][t] # 0
        <5>1. polls[p][t] - 1 \in 0 .. MaxPolls
          BY <4>2
        <5>2. polls' \in [Procs -> [LongThreads -> 0 .. MaxPolls]]
          <6>1. polls' = [polls EXCEPT ![p][t] = polls[p][t] - 1]
            BY <3>2, <4>2 DEF AllBusy
          <6> QED
            BY <5>1, <6>1, ThreadUpdate
        <5> QED
          BY <2>0, <3>2, <4>2, <5>2 DEF AllBusy, SlotStates
      <4> QED
        BY <4>1, <4>2
    <3>3. CASE Awake(p, t)
      <4>1. 0 \in 0 .. NSlots
        OBVIOUS
      <4>2. cand' \in [Procs -> [LongThreads -> 0 .. NSlots]]
        BY <3>3, <4>1, ThreadUpdate DEF Awake
      <4> QED
        BY <2>0, <3>3, <4>2 DEF Awake, SlotStates
    <3>4. CASE Finish(p, t)
      BY <2>0, <3>4 DEF Finish, SlotStates
    <3>5. CASE Release(p, t)
      <4>1. owner' \in [Slots -> Procs \cup {Nobody}]
        BY <3>5 DEF Release, Unlocked
      <4> QED
        BY <2>0, <3>5, <4>1 DEF Release, Leave, SlotStates
    <3>6. CASE Close(p, t)
      <4>1. owner' \in [Slots -> Procs \cup {Nobody}]
        BY <3>6 DEF Close, LocksDropped
      <4>2. /\ cand' \in [Procs -> [LongThreads -> 0 .. NSlots]]
            /\ polls' \in [Procs -> [LongThreads -> 0 .. MaxPolls]]
        <5>1. 0 \in 0 .. NSlots /\ 0 \in 0 .. MaxPolls
          OBVIOUS
        <5> QED
          BY <3>6, <5>1, ThreadUpdate DEF Close
      <4> QED
        BY <2>0, <3>6, <4>1, <4>2 DEF Close, Leave, SlotStates
    <3> QED
      BY <2>2, <3>1, <3>2, <3>3, <3>4, <3>5, <3>6 DEF Step
  <2>3. ASSUME NEW p \in Procs, Crash(p)
        PROVE  SlotTypeOK'
    BY <2>3 DEF Crash, LocksDropped, Leave, SlotStates
  <2>4. ASSUME NEW p \in Procs, Restart(p)
        PROVE  SlotTypeOK'
    BY <2>4 DEF Restart
  <2>5. CASE UNCHANGED slotVars
    BY <2>5 DEF slotVars
  <2> QED
    BY <2>1, <2>2, <2>3, <2>4, <2>5 DEF SlotNext
<1> QED
  BY <1>1, <1>2, PTL DEF SlotSpec

-----------------------------------------------------------------------------
(* A step that admits nobody and leaves the locks of the decodes that were *)
(* alone keeps both facts.                                                 *)
LEMMA OwnershipKept ==
  ASSUME Admitted, HolderOwns,
         \A q \in Procs, u \in LongThreads :
           Decoding(q, u)' => Decoding(q, u) /\ cand'[q][u] = cand[q][u],
         \A q \in Procs, u \in LongThreads :
           Decoding(q, u)' /\ alone'[q][u] =>
             alone[q][u] /\ (owner[cand[q][u]] = q => owner'[cand[q][u]] = q)
  PROVE  Admitted' /\ HolderOwns'
BY DEF Admitted, HolderOwns

(* No step of another process or the kernel takes an admitted decode's     *)
(* lock away, and a thread of its own process does only by leaving.        *)
LEMMA OwnershipPreserved ==
  ASSUME SlotTypeOK, Admitted, HolderOwns, [SlotNext]_slotVars
  PROVE  Admitted' /\ HolderOwns'
<1> USE SlotsAssumption DEF Slots, SlotStates, SlotTypeOK, Admitted, HolderOwns, Decoding, Goto
<1>1. ASSUME NEW p \in Procs, NEW t \in LongThreads, Enter(p, t)
      PROVE  Admitted' /\ HolderOwns'
  <2>1. at' = [at EXCEPT ![p][t] = "scan"] /\ owner' = owner /\ cand' = cand /\ alone' = alone
    BY <1>1 DEF Enter
  <2>2. \A q \in Procs, u \in LongThreads : Decoding(q, u)' => Decoding(q, u)
    BY <2>1, ThreadUpdate
  <2> QED
    BY <2>1, <2>2, OwnershipKept
<1>2. ASSUME NEW p \in Procs, NEW t \in LongThreads, TryLock(p, t)
      PROVE  Admitted' /\ HolderOwns'
  <2>0. cand[p][t] \in Slots
    BY <1>2 DEF TryLock
  <2>1. CASE CanLock(p, cand[p][t])
    <3>1. /\ owner' = [owner EXCEPT ![cand[p][t]] = p]
          /\ at' = [at EXCEPT ![p][t] = "held"]
          /\ alone' = [alone EXCEPT ![p][t] = TRUE]
          /\ cand' = cand
      BY <1>2, <2>1 DEF TryLock
    <3>2. \A q \in Procs, u \in LongThreads :
            at'[q][u] = IF q = p /\ u = t THEN "held" ELSE at[q][u]
      BY <3>1, ThreadUpdate
    <3>3. ASSUME NEW q \in Procs, NEW u \in LongThreads, ~(q = p /\ u = t)
          PROVE  alone'[q][u] = alone[q][u]
      BY <3>1, <3>3
    <3>4. \A q \in Procs, u \in LongThreads :
            Decoding(q, u) /\ alone[q][u] /\ cand[q][u] = cand[p][t] => q = p
      BY <2>1 DEF CanLock
    <3>5. owner'[cand[p][t]] = p /\ \A x \in Slots : x # cand[p][t] => owner'[x] = owner[x]
      BY <2>0, <3>1
    <3>6. ASSUME NEW q \in Procs, NEW u \in LongThreads, Decoding(q, u)'
          PROVE  cand'[q][u] \in Slots /\ (alone'[q][u] => owner'[cand'[q][u]] = q)
      <4>1. CASE q = p /\ u = t
        <5>1. cand'[q][u] = cand[p][t]
          BY <3>1, <4>1
        <5> QED
          BY <2>0, <3>5, <4>1, <5>1
      <4>2. CASE ~(q = p /\ u = t)
        <5>1. Decoding(q, u) /\ cand'[q][u] = cand[q][u]
          BY <3>1, <3>2, <3>6, <4>2
        <5>2. alone'[q][u] = alone[q][u]
          BY <3>3, <4>2
        <5>3. cand[q][u] \in Slots
          BY <5>1
        <5>4. ASSUME alone'[q][u]
              PROVE  owner'[cand'[q][u]] = q
          <6>1. owner[cand[q][u]] = q
            BY <5>1, <5>2, <5>4
          <6>2. cand[q][u] = cand[p][t] => q = p
            BY <3>4, <5>1, <5>2, <5>4
          <6> QED
            BY <3>5, <5>1, <5>3, <6>1, <6>2
        <5> QED
          BY <5>1, <5>3, <5>4
      <4> QED
        BY <4>1, <4>2
    <3> QED
      BY <3>6
  <2>2. CASE ~CanLock(p, cand[p][t])
    <3>1. /\ owner' = owner /\ at' = at /\ alone' = alone
          /\ cand' = [cand EXCEPT ![p][t] = cand[p][t] + 1]
      BY <1>2, <2>2 DEF TryLock
    <3>2. cand[p][t] + 1 \in 0 .. NSlots
      BY <2>0
    <3>3. \A q \in Procs, u \in LongThreads :
            Decoding(q, u) => cand'[q][u] = cand[q][u]
      BY <1>2, <3>1, <3>2, ThreadUpdate DEF TryLock
    <3> QED
      BY <3>1, <3>3
  <2> QED
    BY <2>1, <2>2
<1>3. ASSUME NEW p \in Procs, NEW t \in LongThreads, AllBusy(p, t)
      PROVE  Admitted' /\ HolderOwns'
  <2>1. owner' = owner /\ cand' = cand /\ alone' = alone
    BY <1>3 DEF AllBusy
  <2>2. PICK s \in {"close", "sleep"} : at' = [at EXCEPT ![p][t] = s]
    BY <1>3 DEF AllBusy
  <2>3. \A q \in Procs, u \in LongThreads : Decoding(q, u)' => Decoding(q, u)
    BY <2>2, ThreadUpdate
  <2> QED
    BY <2>1, <2>3
<1>4. ASSUME NEW p \in Procs, NEW t \in LongThreads, Awake(p, t)
      PROVE  Admitted' /\ HolderOwns'
  BY <1>4 DEF Awake
<1>5. ASSUME NEW p \in Procs, NEW t \in LongThreads, Finish(p, t)
      PROVE  Admitted' /\ HolderOwns'
  BY <1>5 DEF Finish
<1>6. ASSUME NEW p \in Procs, NEW t \in LongThreads, Release(p, t)
      PROVE  Admitted' /\ HolderOwns'
  <2>1. \A q \in Procs, u \in LongThreads : Decoding(q, u)' => Decoding(q, u)
    BY <1>6, ThreadUpdate DEF Release
  <2>2. \A q \in Procs, u \in LongThreads : alone'[q][u] => q # p /\ alone[q][u]
    BY <1>6 DEF Release, Leave
  <2>3. \A x \in Slots : owner[x] # p => owner'[x] = owner[x]
    BY <1>6 DEF Release, Unlocked
  <2>4. cand' = cand
    BY <1>6 DEF Release
  <2>5. \A q \in Procs, u \in LongThreads : Decoding(q, u) => cand[q][u] \in Slots
    BY DEF Admitted
  <2>6. \A q \in Procs, u \in LongThreads : Decoding(q, u)' /\ alone'[q][u] =>
          alone[q][u] /\ (owner[cand[q][u]] = q => owner'[cand[q][u]] = q)
    BY <2>1, <2>2, <2>3, <2>5
  <2> QED
    BY <2>1, <2>4, <2>6, OwnershipKept
<1>7. ASSUME NEW p \in Procs, NEW t \in LongThreads, Close(p, t)
      PROVE  Admitted' /\ HolderOwns'
  <2>0. 0 \in 0 .. NSlots
    OBVIOUS
  <2>1. \A q \in Procs, u \in LongThreads :
          Decoding(q, u)' => Decoding(q, u) /\ cand'[q][u] = cand[q][u]
    <3>1. \A q \in Procs, u \in LongThreads :
            at'[q][u] = IF q = p /\ u = t THEN "idle" ELSE at[q][u]
      BY <1>7, ThreadUpdate DEF Close
    <3>2. \A q \in Procs, u \in LongThreads :
            cand'[q][u] = IF q = p /\ u = t THEN 0 ELSE cand[q][u]
      BY <1>7, <2>0, ThreadUpdate DEF Close
    <3> QED
      BY <3>1, <3>2
  <2>2. \A q \in Procs, u \in LongThreads : alone'[q][u] => q # p /\ alone[q][u]
    BY <1>7 DEF Close, Leave
  <2>3. \A x \in Slots : owner[x] # p => owner'[x] = owner[x]
    BY <1>7 DEF Close, LocksDropped
  <2>5. \A q \in Procs, u \in LongThreads : Decoding(q, u) => cand[q][u] \in Slots
    BY DEF Admitted
  <2>6. \A q \in Procs, u \in LongThreads : Decoding(q, u)' /\ alone'[q][u] =>
          alone[q][u] /\ (owner[cand[q][u]] = q => owner'[cand[q][u]] = q)
    BY <2>1, <2>2, <2>3, <2>5
  <2> QED
    BY <2>1, <2>6, OwnershipKept
<1>8. ASSUME NEW p \in Procs, Crash(p)
      PROVE  Admitted' /\ HolderOwns'
  <2>1. \A q \in Procs, u \in LongThreads :
          Decoding(q, u)' =>
            /\ q # p /\ Decoding(q, u)
            /\ cand'[q][u] = cand[q][u]
            /\ alone'[q][u] = alone[q][u]
    BY <1>8 DEF Crash, Leave
  <2> QED
    BY <1>8, <2>1 DEF Crash, LocksDropped
<1>9. ASSUME NEW p \in Procs, Restart(p)
      PROVE  Admitted' /\ HolderOwns'
  BY <1>9 DEF Restart
<1>10. CASE UNCHANGED slotVars
  BY <1>10 DEF slotVars
<1> QED
  BY <1>1, <1>2, <1>3, <1>4, <1>5, <1>6, <1>7, <1>8, <1>9, <1>10 DEF SlotNext, Step

(* Two processes decode under one slot only if another long decode of one  *)
(* of them has ended meanwhile, for any number of long decodes per process *)
(* and whatever crashes, restarts and time-outs happen (host_slot.py:85).  *)
THEOREM SlotExclusion == SlotSpec => []SlotSharedForCause
<1>1. SlotInit => Admitted /\ HolderOwns
  BY DEF SlotInit, Admitted, HolderOwns, Decoding
<1>2. SlotTypeOK /\ Admitted /\ HolderOwns /\ [SlotNext]_slotVars => (Admitted /\ HolderOwns)'
  BY OwnershipPreserved
<1>3. HolderOwns => SlotSharedForCause
  BY DEF HolderOwns, SlotSharedForCause, SharedWith
<1> QED
  BY <1>1, <1>2, <1>3, SlotTypeCorrect, PTL DEF SlotSpec

-----------------------------------------------------------------------------
(* No lock outlives the decode it was taken for.                           *)
Owned(s) == \E t \in LongThreads : Decoding(owner[s], t) /\ cand[owner[s]][t] = s
NoOrphan == \A s \in Slots : owner[s] # Nobody => Owned(s)

(* A step that leaves the lock of s with its owner, and the owner's        *)
(* admitted thread where it is, leaves s with a decode of its own.         *)
LEMMA KeptSlot ==
  ASSUME SlotTypeOK, NoOrphan, NEW s \in Slots, owner'[s] = owner[s], owner[s] # Nobody,
         \A u \in LongThreads :
           Decoding(owner[s], u) => Decoding(owner[s], u)' /\ cand'[owner[s]][u] = cand[owner[s]][u]
  PROVE  Owned(s)'
<1>1. PICK t \in LongThreads : Decoding(owner[s], t) /\ cand[owner[s]][t] = s
  BY DEF NoOrphan, Owned
<1> QED
  BY <1>1 DEF Decoding, Owned

LEMMA NoOrphanPreserved ==
  ASSUME SlotTypeOK, NoOrphan, [SlotNext]_slotVars
  PROVE  NoOrphan'
<1> USE SlotsAssumption
<1> SUFFICES ASSUME NEW s \in Slots, owner'[s] # Nobody
             PROVE  Owned(s)'
  BY DEF NoOrphan, Slots
<1>t. /\ owner \in [Slots -> Procs \cup {Nobody}]
      /\ at \in [Procs -> [LongThreads -> SlotStates]]
      /\ cand \in [Procs -> [LongThreads -> 0 .. NSlots]]
  BY DEF SlotTypeOK
<1>a. ASSUME NEW p \in Procs, NEW t \in LongThreads, at[p][t] \notin {"held", "release"},
             owner' = owner,
             \A q \in Procs, u \in LongThreads :
               q # p \/ u # t => at'[q][u] = at[q][u] /\ cand'[q][u] = cand[q][u]
      PROVE  Owned(s)'
  <2>1. owner[s] \in Procs
    BY <1>a, <1>t
  <2>2. \A u \in LongThreads : Decoding(owner[s], u) =>
          Decoding(owner[s], u)' /\ cand'[owner[s]][u] = cand[owner[s]][u]
    BY <1>a, <2>1 DEF Decoding
  <2> QED
    BY <1>a, <2>2, KeptSlot
<1>b. ASSUME NEW p \in Procs, owner'[s] = owner[s], owner[s] # p,
             \A q \in Procs, u \in LongThreads :
               q # p => at'[q][u] = at[q][u] /\ cand'[q][u] = cand[q][u]
      PROVE  Owned(s)'
  <2>1. owner[s] \in Procs
    BY <1>b, <1>t
  <2>2. \A u \in LongThreads : Decoding(owner[s], u) =>
          Decoding(owner[s], u)' /\ cand'[owner[s]][u] = cand[owner[s]][u]
    BY <1>b, <2>1 DEF Decoding
  <2> QED
    BY <1>b, <2>2, KeptSlot
<1>1. ASSUME NEW p \in Procs, NEW t \in LongThreads, Enter(p, t)
      PROVE  Owned(s)'
  BY <1>1, <1>t, <1>a DEF Enter, Goto
<1>2. ASSUME NEW p \in Procs, NEW t \in LongThreads, TryLock(p, t)
      PROVE  Owned(s)'
  <2>1. CASE CanLock(p, cand[p][t])
    <3>1. /\ owner' = [owner EXCEPT ![cand[p][t]] = p]
          /\ at' = [at EXCEPT ![p][t] = "held"]
          /\ cand' = cand
          /\ at[p][t] = "scan"
      BY <1>2, <2>1 DEF TryLock, Goto
    <3>2. CASE s = cand[p][t]
      <4>1. owner'[s] = p /\ at'[p][t] = "held" /\ cand'[p][t] = s
        BY <1>t, <3>1, <3>2
      <4> QED
        BY <4>1 DEF Decoding, Owned
    <3>3. CASE s # cand[p][t]
      <4>1. owner'[s] = owner[s] /\ owner[s] \in Procs
        BY <1>t, <3>1, <3>3
      <4>2. \A u \in LongThreads : Decoding(owner[s], u) =>
              Decoding(owner[s], u)' /\ cand'[owner[s]][u] = cand[owner[s]][u]
        BY <1>t, <3>1, <4>1 DEF Decoding
      <4> QED
        BY <4>1, <4>2, KeptSlot
    <3> QED
      BY <3>2, <3>3
  <2>2. CASE ~CanLock(p, cand[p][t])
    BY <1>2, <1>t, <1>a, <2>2 DEF TryLock
  <2> QED
    BY <2>1, <2>2
<1>3. ASSUME NEW p \in Procs, NEW t \in LongThreads, AllBusy(p, t) \/ Awake(p, t)
      PROVE  Owned(s)'
  <2>1. CASE AllBusy(p, t)
    <3>1. PICK st \in {"close", "sleep"} : at' = [at EXCEPT ![p][t] = st]
      BY <2>1 DEF AllBusy, Goto
    <3>2. /\ owner' = owner /\ cand' = cand
          /\ at[p][t] \notin {"held", "release"}
      BY <2>1 DEF AllBusy
    <3> QED
      BY <1>t, <1>a, <3>1, <3>2
  <2>2. CASE Awake(p, t)
    BY <1>t, <1>a, <2>2 DEF Awake, Goto
  <2> QED
    BY <1>3, <2>1, <2>2
<1>4. ASSUME NEW p \in Procs, NEW t \in LongThreads, Finish(p, t)
      PROVE  Owned(s)'
  <2>1. /\ owner' = owner /\ cand' = cand
        /\ \A q \in Procs, u \in LongThreads :
             at'[q][u] = IF q = p /\ u = t THEN "release" ELSE at[q][u]
    BY <1>4, <1>t DEF Finish, Goto
  <2>2. owner[s] \in Procs
    BY <1>t, <2>1
  <2> QED
    BY <2>1, <2>2, KeptSlot DEF Decoding
<1>5. ASSUME NEW p \in Procs, NEW t \in LongThreads, Release(p, t)
      PROVE  Owned(s)'
  <2>1. /\ owner' = Unlocked(p, cand[p][t]) /\ cand' = cand
        /\ at' = [at EXCEPT ![p][t] = "close"] /\ at[p][t] = "release"
    BY <1>5 DEF Release, Goto
  <2>2. owner'[s] = owner[s]
    BY <1>t, <2>1 DEF Unlocked
  <2>3. owner[s] \in Procs
    BY <1>t, <2>2
  <2>4. PICK u \in LongThreads : Decoding(owner[s], u) /\ cand[owner[s]][u] = s
    BY <2>2 DEF NoOrphan, Owned
  <2>5. owner[s] # p \/ u # t
    BY <1>t, <2>1, <2>2, <2>4 DEF Unlocked
  <2>6. at'[owner[s]][u] = at[owner[s]][u]
    BY <1>t, <2>1, <2>3, <2>5
  <2> QED
    BY <2>1, <2>2, <2>4, <2>6 DEF Decoding, Owned
<1>6. ASSUME NEW p \in Procs, NEW t \in LongThreads, Close(p, t)
      PROVE  Owned(s)'
  <2>1. owner'[s] = owner[s] /\ owner[s] # p
    BY <1>6 DEF Close, LocksDropped
  <2> QED
    BY <1>6, <1>b, <1>t, <2>1 DEF Close, Goto
<1>7. ASSUME NEW p \in Procs, Crash(p)
      PROVE  Owned(s)'
  <2>1. owner'[s] = owner[s] /\ owner[s] # p
    BY <1>7 DEF Crash, LocksDropped
  <2> QED
    BY <1>7, <1>b, <1>t, <2>1 DEF Crash
<1>8. CASE UNCHANGED <<owner, at, cand>>
  <2>1. \A u \in LongThreads : Decoding(owner[s], u) =>
          Decoding(owner[s], u)' /\ cand'[owner[s]][u] = cand[owner[s]][u]
    BY <1>8 DEF Decoding
  <2> QED
    BY <1>8, <2>1, KeptSlot
<1> QED
  <2>1. ASSUME NEW p \in Procs, NEW t \in LongThreads, Step(p, t)
        PROVE  Owned(s)'
    BY <1>2, <1>3, <1>4, <1>5, <1>6, <2>1 DEF Step
  <2>2. ASSUME NEW p \in Procs, Restart(p)
        PROVE  Owned(s)'
    BY <1>8, <2>2 DEF Restart
  <2>3. CASE UNCHANGED slotVars
    BY <1>8, <2>3 DEF slotVars
  <2> QED
    BY <1>1, <1>7, <2>1, <2>2, <2>3 DEF SlotNext

(* The kernel's table and the threads agree, for any number of long        *)
(* decodes per process: an admitted decode keeps its lock until it or      *)
(* another one of its process leaves, and no lock stays behind when a      *)
(* decode ends, times out or its process dies.                             *)
THEOREM TableAgrees == SlotSpec => []LockTableAgrees
<1>1. SlotInit => Admitted /\ HolderOwns /\ NoOrphan
  BY DEF SlotInit, Admitted, HolderOwns, NoOrphan, Decoding
<1>2. SlotTypeOK /\ Admitted /\ HolderOwns /\ NoOrphan /\ [SlotNext]_slotVars
        => (Admitted /\ HolderOwns /\ NoOrphan)'
  BY OwnershipPreserved, NoOrphanPreserved
<1>3. HolderOwns /\ NoOrphan => LockTableAgrees
  BY DEF HolderOwns, NoOrphan, Owned, LockTableAgrees
<1> QED
  BY <1>1, <1>2, <1>3, SlotTypeCorrect, PTL DEF SlotSpec
=============================================================================
