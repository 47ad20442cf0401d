----------------------------- MODULE DecodePool -----------------------------
(***************************************************************************)
(* The priority decode pool (decode_pool.py): worker threads that take the *)
(* queued job of the shortest period, with at most MaxLong of them on long *)
(* jobs, one lock and one condition variable, and a shutdown that drains   *)
(* or cancels what is queued.                                              *)
(*                                                                         *)
(* Each critical section of the pool's lock is one step.  A worker that    *)
(* was notified has to take the lock again before it looks at the queues.  *)
(***************************************************************************)
EXTENDS Integers, FiniteSets

CONSTANTS
  Jobs,         (* decode requests                                         *)
  Workers,      (* worker threads                                          *)
  Period,       (* Period[j]: seconds of audio job j decodes               *)
  MaxLong       (* _max_long_inflight                                      *)

LongPeriodSeconds == 900

ASSUME ConstantsAssumption ==
  /\ IsFiniteSet(Jobs) /\ IsFiniteSet(Workers)
  /\ Period \in [Jobs -> Nat]
  /\ MaxLong \in 1 .. Cardinality(Workers)

VARIABLES
  short, long,    (* the two heaps                                         *)
  seq,            (* seq[j]: the job's submission number, 0 before         *)
  pc,             (* where each worker is in _worker_loop                  *)
  job,            (* the job a worker has taken: at most one               *)
  longInflight,   (* _long_inflight                                        *)
  running,        (* _running                                              *)
  shutdown,       (* _shutdown                                             *)
  finished,       (* history: jobs whose function has returned             *)
  cancelled       (* history: jobs shutdown cancelled                      *)

vars == <<short, long, seq, pc, job, longInflight, running, shutdown, finished, cancelled>>

IsLong(j) == Period[j] >= LongPeriodSeconds

States == {"take", "waiting", "notified", "popped", "running", "ended", "release", "exited"}

TypeOK ==
  /\ short \subseteq {j \in Jobs : ~IsLong(j)}
  /\ long \subseteq {j \in Jobs : IsLong(j)}
  /\ seq \in [Jobs -> 0 .. Cardinality(Jobs)]
  /\ pc \in [Workers -> States]
  /\ job \in [Workers -> SUBSET Jobs]
  /\ \A w \in Workers : Cardinality(job[w]) <= 1
  /\ longInflight \in 0 .. Cardinality(Workers)
  /\ running \in 0 .. Cardinality(Workers)
  /\ shutdown \in BOOLEAN
  /\ finished \subseteq Jobs /\ cancelled \subseteq Jobs

Init ==
  /\ short = {} /\ long = {}
  /\ seq = [j \in Jobs |-> 0]
  /\ pc = [w \in Workers |-> "take"]
  /\ job = [w \in Workers |-> {}]
  /\ longInflight = 0 /\ running = 0
  /\ shutdown = FALSE
  /\ finished = {} /\ cancelled = {}

-----------------------------------------------------------------------------
Waiting == {w \in Workers : pc[w] = "waiting"}

(* notify() picks one waiter, and is lost when there is none.  next is the *)
(* program counter the notifying step leaves behind.                       *)
NotifyNobody(next) == pc' = next
Notify(next) ==
  IF Waiting = {}
  THEN pc' = next
  ELSE \E w \in Waiting : pc' = [next EXCEPT ![w] = "notified"]

Submitted == {j \in Jobs : seq[j] > 0}

Submit(j) ==
  /\ seq[j] = 0 /\ ~shutdown
  /\ seq' = [seq EXCEPT ![j] = Cardinality(Submitted) + 1]
  /\ short' = IF IsLong(j) THEN short ELSE short \cup {j}
  /\ long' = IF IsLong(j) THEN long \cup {j} ELSE long
  /\ Notify(pc)
  /\ UNCHANGED <<job, longInflight, running, shutdown, finished, cancelled>>

(* The heap's minimum: the shortest period, then first come first served.  *)
IsNext(j, heap) ==
  /\ j \in heap
  /\ \A k \in heap :
       Period[j] < Period[k] \/ (Period[j] = Period[k] /\ seq[j] <= seq[k])

(* _take_next, for a worker that has the lock.                             *)
AtQueues(w) == pc[w] \in {"take", "notified"}

Pop(w, j) ==
  /\ job' = [job EXCEPT ![w] = {j}]
  /\ pc' = [pc EXCEPT ![w] = "popped"]
  /\ UNCHANGED <<seq, running, shutdown, finished, cancelled>>

TakeShort(w) ==
  /\ AtQueues(w)
  /\ \E j \in short : IsNext(j, short) /\ Pop(w, j) /\ short' = short \ {j}
  /\ UNCHANGED <<long, longInflight>>

UncappedLong == TRUE
LongAllowed  == longInflight < MaxLong

(* At shutdown the long jobs are run past the cap.                         *)
TakeLong(w) ==
  /\ AtQueues(w) /\ short = {}
  /\ LongAllowed \/ shutdown
  /\ \E j \in long : IsNext(j, long) /\ Pop(w, j) /\ long' = long \ {j}
  /\ longInflight' = longInflight + 1
  /\ UNCHANGED short

NothingRunnable == short = {} /\ (long = {} \/ (~LongAllowed /\ ~shutdown))

Wait(w) ==
  /\ AtQueues(w) /\ NothingRunnable /\ ~shutdown
  /\ pc' = [pc EXCEPT ![w] = "waiting"]
  /\ UNCHANGED <<short, long, seq, job, longInflight, running, shutdown, finished, cancelled>>

LeavingShort == shutdown
Leaving == shutdown /\ NothingRunnable

Exit(w) ==
  /\ AtQueues(w) /\ Leaving
  /\ pc' = [pc EXCEPT ![w] = "exited"]
  /\ UNCHANGED <<short, long, seq, job, longInflight, running, shutdown, finished, cancelled>>

StartUncounted(w) ==
  /\ pc[w] = "popped"
  /\ pc' = [pc EXCEPT ![w] = "running"]
  /\ UNCHANGED <<short, long, seq, job, longInflight, running, shutdown, finished, cancelled>>

(* _running counts a job only after a second turn of the lock.             *)
Start(w) ==
  /\ pc[w] = "popped"
  /\ running' = running + 1
  /\ pc' = [pc EXCEPT ![w] = "running"]
  /\ UNCHANGED <<short, long, seq, job, longInflight, shutdown, finished, cancelled>>

(* The function returns or raises; its result goes to the Future.          *)
Return(w) ==
  /\ pc[w] = "running"
  /\ finished' = finished \cup job[w]
  /\ pc' = [pc EXCEPT ![w] = "ended"]
  /\ UNCHANGED <<short, long, seq, job, longInflight, running, shutdown, cancelled>>

HoldsLong(w) == \E j \in job[w] : IsLong(j)

End(w) ==
  /\ pc[w] = "ended"
  /\ running' = running - 1
  /\ pc' = [pc EXCEPT ![w] = IF HoldsLong(w) THEN "release" ELSE "take"]
  /\ job' = [job EXCEPT ![w] = IF HoldsLong(w) THEN @ ELSE {}]
  /\ UNCHANGED <<short, long, seq, longInflight, shutdown, finished, cancelled>>

ReleaseLong(w) ==
  /\ pc[w] = "release"
  /\ longInflight' = IF longInflight > 0 THEN longInflight - 1 ELSE longInflight
  /\ job' = [job EXCEPT ![w] = {}]
  /\ Notify([pc EXCEPT ![w] = "take"])
  /\ UNCHANGED <<short, long, seq, running, shutdown, finished, cancelled>>

(* shutdown(cancel_futures), called once; notify_all wakes every waiter.   *)
Shutdown(cancel) ==
  /\ ~shutdown
  /\ shutdown' = TRUE
  /\ cancelled' = IF cancel THEN short \cup long ELSE cancelled
  /\ short' = IF cancel THEN {} ELSE short
  /\ long' = IF cancel THEN {} ELSE long
  /\ pc' = [w \in Workers |-> IF w \in Waiting THEN "notified" ELSE pc[w]]
  /\ UNCHANGED <<seq, job, longInflight, running, finished>>

Work(w) ==
  \/ TakeShort(w) \/ TakeLong(w) \/ Wait(w) \/ Exit(w)
  \/ Start(w) \/ Return(w) \/ End(w) \/ ReleaseLong(w)

Next ==
  \/ \E j \in Jobs : Submit(j)
  \/ \E w \in Workers : Work(w)
  \/ \E cancel \in BOOLEAN : Shutdown(cancel)

Spec == Init /\ [][Next]_vars

(* Worker threads run, and a decode returns: the decoders are subprocesses *)
(* with a timeout and the host-wide slot gives up after 600 s.             *)
FairSpec == Spec /\ \A w \in Workers : WF_vars(Work(w))

-----------------------------------------------------------------------------
OnLong == {w \in Workers : HoldsLong(w)}

(* Long decodes never hold more workers than their share, so short work    *)
(* always has workers of its own; the counter the cap is tested against    *)
(* is the number of workers that are really on a long job.                 *)
LongShare ==
  /\ longInflight = Cardinality(OnLong)
  /\ ~shutdown => Cardinality(OnLong) <= MaxLong

(* Jobs a worker could take now.                                           *)
RunnableLong ==
  IF LongAllowed
  THEN LET room == MaxLong - longInflight
       IN  IF Cardinality(long) < room THEN Cardinality(long) ELSE room
  ELSE 0

(* Workers that will look at the queues without being notified again.      *)
Alert == {w \in Workers : pc[w] \in {"take", "notified"}}

(* No wakeup is lost: while a worker sleeps, every job that could run has  *)
(* a worker on its way to the queues.  One notify per submitted job and    *)
(* per freed long slot is enough.                                          *)
NoWakeupLost == Waiting # {} => Cardinality(Alert) >= Cardinality(short) + RunnableLong

(* When every worker has exited nothing is left queued: shutdown(wait)     *)
(* drains, long jobs beyond the cap included.                              *)
ExitDrained ==
  (\A w \in Workers : pc[w] = "exited") => Submitted = finished \cup cancelled

(* Every submitted job is run or cancelled.                                *)
JobsSettle == \A j \in Jobs : seq[j] > 0 ~> j \in finished \cup cancelled
=============================================================================
