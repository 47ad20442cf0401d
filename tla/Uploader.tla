------------------------------ MODULE Uploader ------------------------------
(***************************************************************************)
(* The uploader (hs_uploader_shim.py, upload_wake.py): its pump thread     *)
(* waits for a wake-up or for the polling interval and hands the cycles in *)
(* the sink to wsprdaemon.org and to wsprnet.org, each with a watermark of *)
(* its own, while the recorders commit cycles and wake it - the one it     *)
(* lives in directly, the others with a datagram - and while stop() winds  *)
(* it down or a crash ends it.  Each outcome at wsprnet.org updates the    *)
(* negative cache.  Rows and batches are counted in cycles.                *)
(***************************************************************************)
EXTENDS RejectCache

CONSTANTS
  Receivers,   (* the recorders whose cycles are merged                    *)
  Home,        (* the one whose process runs the uploader                  *)
  MaxCycles,   (* bound on the cycles of each receiver                     *)
  MaxFaults,   (* bound on failed batches, exceptions, stops and crashes   *)
  Off

ASSUME ConstantsAssumption ==
  /\ Home \in Receivers /\ IsFiniteSet(Receivers)
  /\ MaxCycles \in [Receivers -> Nat] /\ MaxFaults \in Nat

Pipelines == {"tar", "net"}

VARIABLES
  committed,  (* the cycles each receiver has committed to the sink        *)
  overdue,    (* those whose completion is no longer waited for            *)
  shipped,    (* watermark of each pipeline                                *)
  backoff,    (* the pipelines whose retry delay runs                      *)
  pc,         (* where the pump thread is                                  *)
  reading,    (* the last cycle of the batch on its way to wsprnet.org     *)
  event,      (* _wake                                                     *)
  stopping,   (* _stop                                                     *)
  stopper,    (* where stop() is                                           *)
  bound,      (* the wake listener has its socket                          *)
  datagram,   (* wake-ups in the socket                                    *)
  unheard,    (* somebody woke the uploader after its last pump began      *)
  cache,      (* wsprnet_reject_cache                                      *)
  taken,      (* calls wsprnet.org added since they have a row there       *)
  vouched,    (* those of them it added in a batch it added whole          *)
  faults

sink   == <<committed, overdue>>
wakes  == <<event, bound, datagram, unheard>>
marks  == <<shipped, backoff>>
calls  == <<cache, taken, vouched>>
vars   == <<sink, marks, pc, reading, wakes, stopping, stopper, calls, faults>>

Largest(S) == CHOOSE n \in S : \A m \in S : m <= n
Least(S)   == CHOOSE n \in S : \A m \in S : n <= m
Commits    == {committed[r] : r \in Receivers}

(* _wsprnet_ship_ceiling and WsprCycleSource's gate: a cycle is shippable  *)
(* when every expected receiver is done with it, or past the backstop.     *)
Ceiling == Largest({Least(Commits), overdue})

Ripe(p) == p \notin backoff /\ shipped[p] < Ceiling

Up == pc \notin {"off", "ended"}

TypeOK ==
  /\ committed \in [Receivers -> Nat] /\ \A r \in Receivers : committed[r] <= MaxCycles[r]
  /\ overdue \in 0 .. Largest(Commits)
  /\ shipped \in [Pipelines -> 0 .. Largest(Commits) \cup {Off}] /\ backoff \subseteq Pipelines
  /\ pc \in {"off", "loop", "waiting", "woken", "cleared", "tar", "net", "posting", "ended"}
  /\ reading \in 0 .. Largest(Commits) /\ (pc = "posting" => reading > shipped["net"])
  /\ {event, stopping, bound, datagram, unheard} \subseteq BOOLEAN
  /\ stopper \in {"idle", "waking", "joining", "closing"}
  /\ Rows(cache) \subseteq Calls /\ taken \subseteq Rows(cache) /\ vouched \subseteq taken
  /\ faults \in 0 .. MaxFaults

Init ==
  /\ committed = [r \in Receivers |-> 0] /\ overdue = 0
  /\ shipped = [p \in Pipelines |-> IF p = "net" THEN Off ELSE 0] /\ backoff = {}
  /\ pc = "off" /\ reading = 0
  /\ event = FALSE /\ bound = FALSE /\ datagram = FALSE /\ unheard = FALSE
  /\ stopping = FALSE /\ stopper = "idle"
  /\ cache = [c \in {} |-> Entry(0)] /\ taken = {} /\ vouched = {}
  /\ faults = 0

-----------------------------------------------------------------------------
(* wake.                                                                   *)
Wake == event' = TRUE /\ unheard' = TRUE

(* A recorder commits a cycle, then wakes the uploader: its own directly,  *)
(* that of another process by notify, of which nobody learns when it is    *)
(* lost.                                                                   *)
Commit(r) ==
  /\ committed[r] < MaxCycles[r] /\ (r = Home => Up /\ stopper = "idle")
  /\ committed' = [committed EXCEPT ![r] = @ + 1]
  /\ IF r = Home THEN Wake /\ UNCHANGED datagram
     ELSE datagram' \in {datagram, bound} /\ UNCHANGED <<event, unheard>>
  /\ UNCHANGED <<overdue, marks, pc, reading, bound, stopping, stopper, calls, faults>>

(* The backstop of a cycle that some receiver never completes.             *)
Backstop ==
  /\ overdue < Largest(Commits) /\ Ceiling < Largest(Commits)
  /\ overdue' = Ceiling + 1
  /\ UNCHANGED <<committed, marks, pc, reading, wakes, stopping, stopper, calls, faults>>

(* WakeListener._run.                                                      *)
Listen ==
  /\ bound /\ datagram /\ datagram' = FALSE
  /\ Wake
  /\ UNCHANGED <<sink, marks, pc, reading, bound, stopping, stopper, calls, faults>>

-----------------------------------------------------------------------------
(* start: a new wake event, the pump thread, then the listener, which may  *)
(* find no place to bind.                                                  *)
Start ==
  /\ pc = "off" /\ pc' = "loop"
  /\ event' = FALSE /\ unheard' = FALSE /\ stopping' = FALSE /\ backoff' = {}
  /\ bound' \in BOOLEAN /\ datagram' = FALSE
  /\ UNCHANGED <<sink, shipped, reading, stopper, calls, faults>>

(* _run, from the test of its loop on.                                     *)
LoopClearing ==
  /\ pc = "loop" /\ pc' = IF stopping THEN "ended" ELSE "waiting"
  /\ event' = FALSE
  /\ UNCHANGED <<sink, marks, reading, bound, datagram, unheard, stopping, stopper, calls, faults>>
Loop ==
  /\ pc = "loop" /\ pc' = IF stopping THEN "ended" ELSE "waiting"
  /\ UNCHANGED <<sink, marks, reading, wakes, stopping, stopper, calls, faults>>

Woken ==
  /\ pc = "waiting" /\ event /\ pc' = "woken"
  /\ UNCHANGED <<sink, marks, reading, wakes, stopping, stopper, calls, faults>>

Never    == FALSE
PollOver == pc = "waiting"
Poll ==
  /\ PollOver /\ pc' = "woken"
  /\ UNCHANGED <<sink, marks, reading, wakes, stopping, stopper, calls, faults>>

Clear ==
  /\ pc = "woken" /\ pc' = "cleared"
  /\ event' = FALSE
  /\ UNCHANGED <<sink, marks, reading, bound, datagram, unheard, stopping, stopper, calls, faults>>

Pump ==
  /\ pc = "cleared"
  /\ IF stopping THEN pc' = "ended" /\ UNCHANGED unheard ELSE pc' = "tar" /\ unheard' = FALSE
  /\ UNCHANGED <<sink, marks, reading, event, bound, datagram, stopping, stopper, calls, faults>>

(* The cycle pipeline: a batch is one cycle, and a pump takes one batch.   *)
Fault == faults < MaxFaults /\ faults' = faults + 1

Trouble(p) == Fault /\ backoff' = backoff \cup {p} /\ UNCHANGED shipped

Tar ==
  /\ pc = "tar" /\ pc' = "net"
  /\ IF ~Ripe("tar") THEN UNCHANGED <<marks, faults>>
     ELSE \/ shipped' = [shipped EXCEPT !["tar"] = @ + 1] /\ UNCHANGED <<backoff, faults>>
          \/ Trouble("tar")
  /\ UNCHANGED <<sink, reading, wakes, stopping, stopper, calls>>

(* The wsprnet pipeline.  The very first read skips what is in the sink.   *)
Net ==
  /\ pc = "net"
  /\ IF shipped["net"] = Off
     THEN shipped' = [shipped EXCEPT !["net"] = Largest(Commits)] /\ pc' = "loop" /\ UNCHANGED reading
     ELSE /\ UNCHANGED shipped
          /\ IF Ripe("net") THEN pc' = "posting" /\ reading' = Ceiling
             ELSE pc' = "loop" /\ UNCHANGED reading
  /\ UNCHANGED <<sink, backoff, wakes, stopping, stopper, calls, faults>>

(* Its outcome, and _on_batch_outcome's part in the negative cache: of the *)
(* calls of the batch wsprnet.org adds the good ones and says how many.    *)
Outcome(batch, good) ==
  /\ cache' = Update(cache, batch, Cardinality(batch), Cardinality(good), Largest(Commits))
  /\ taken' = taken \cup (good \cap Rows(cache'))
  /\ vouched' = IF good = batch THEN vouched \cup (batch \cap Rows(cache')) ELSE vouched

Posted ==
  /\ pc = "posting" /\ pc' = "loop"
  /\ \/ /\ shipped' = [shipped EXCEPT !["net"] = reading] /\ UNCHANGED <<backoff, faults>>
        /\ \E batch \in SUBSET Calls : \E good \in SUBSET batch : batch # {} /\ Outcome(batch, good)
     \/ Trouble("net") /\ UNCHANGED calls
  /\ reading' = 0
  /\ UNCHANGED <<sink, wakes, stopping, stopper>>

(* Whatever pump() raises is logged.                                       *)
Raise ==
  /\ pc \in {"tar", "net", "posting"} /\ pc' = "loop" /\ reading' = 0
  /\ Fault
  /\ UNCHANGED <<sink, marks, wakes, stopping, stopper, calls>>

RetryDue(p) ==
  /\ p \in backoff /\ backoff' = backoff \ {p}
  /\ UNCHANGED <<sink, shipped, pc, reading, wakes, stopping, stopper, calls, faults>>

Rehabilitate(c) ==
  /\ c \in SuppressedCalls(cache) /\ cache' = Rehabilitated(cache, c)
  /\ UNCHANGED <<sink, marks, pc, reading, wakes, stopping, stopper, taken, vouched, faults>>

-----------------------------------------------------------------------------
(* stop: the flag, the wake-up, the join with its timeout, the listener    *)
(* and the transports, whether or not the thread has ended.                *)
KickFirst == <<"wake", "stop">>
StopOrder == <<"stop", "wake">>

SetFlag(flag) ==
  IF flag = "stop" THEN stopping' = TRUE /\ UNCHANGED event ELSE event' = TRUE /\ UNCHANGED stopping

Stop ==
  /\ pc # "off" /\ stopper = "idle" /\ Fault
  /\ stopper' = "waking"
  /\ SetFlag(StopOrder[1])
  /\ UNCHANGED <<sink, marks, pc, reading, bound, datagram, unheard, calls>>

StopWake ==
  /\ stopper = "waking" /\ stopper' = "joining"
  /\ SetFlag(StopOrder[2])
  /\ UNCHANGED <<sink, marks, pc, reading, bound, datagram, unheard, calls, faults>>

Joined ==
  /\ stopper = "joining" /\ stopper' = "closing"
  /\ bound' = FALSE /\ datagram' = FALSE
  /\ UNCHANGED <<sink, marks, pc, reading, event, unheard, stopping, calls, faults>>

(* The process ends; what of the thread is left, ends with it.  The mark   *)
(* of a batch in flight is not moved, whatever the server made of it.      *)
Exit ==
  /\ pc' = "off" /\ reading' = 0 /\ stopper' = "idle" /\ stopping' = FALSE
  /\ event' = FALSE /\ unheard' = FALSE /\ bound' = FALSE /\ datagram' = FALSE /\ backoff' = {}
  /\ UNCHANGED <<sink, shipped, calls>>

Stopped == stopper = "closing" /\ Exit /\ UNCHANGED faults
Crash   == pc # "off" /\ Fault /\ Exit

-----------------------------------------------------------------------------
Thread == Loop \/ Woken \/ Clear \/ Pump \/ Tar \/ Net \/ Posted

Next ==
  \/ \E r \in Receivers : Commit(r)
  \/ Backstop \/ Listen \/ Start \/ Thread \/ Poll \/ Raise
  \/ \E p \in Pipelines : RetryDue(p)
  \/ \E c \in Calls : Rehabilitate(c)
  \/ Stop \/ StopWake \/ Joined \/ Stopped \/ Crash

Spec == Init /\ [][Next]_vars

(* Threads get on, timers fire, and systemd starts the process again.      *)
FairSpec ==
  /\ Spec
  /\ WF_vars(Thread) /\ WF_vars(Poll) /\ WF_vars(Backstop) /\ WF_vars(Listen) /\ WF_vars(Start)
  /\ \A p \in Pipelines : WF_vars(RetryDue(p))
  /\ WF_vars(StopWake \/ Joined \/ Stopped)

-----------------------------------------------------------------------------
(* A wake-up during a pump leads to another pump (hs_uploader_shim.py:490):*)
(* the thread never goes to sleep on one that came after its last look.    *)
NoWakeLost ==
  pc = "waiting" /\ unheard => event

(* stop() does not wait out a polling interval (hs_uploader_shim.py:439):  *)
(* once it joins, the pump thread is not asleep, wherever the two flags    *)
(* met it.                                                                 *)
StopNotSlept ==
  pc = "waiting" /\ stopper = "joining" => event

(* Every cycle reaches both servers' marks, though datagrams are lost, the *)
(* listener may have no socket, batches fail and the uploader is stopped   *)
(* and crashes on the way (hs_uploader_shim.py:63).                        *)
CyclesShip ==
  <>[](\A p \in Pipelines : shipped[p] # Off /\ shipped[p] >= Ceiling)

(* A callsign of a batch that wsprnet.org added whole, once the call has a *)
(* row, is not suppressed (wsprnet_audit.py:207): not by the partly added  *)
(* batches it shares with other calls before and after, nor again once it  *)
(* has been rehabilitated and its count starts over.                       *)
WholeBatchRemembered ==
  vouched \cap SuppressedCalls(cache) = {}

(* "Zero acceptances" (wsprnet_audit.py:207): a callsign wsprnet.org has   *)
(* accepted since its first rejection is not suppressed.  Does not hold    *)
(* for batches of several calls: one that shares them with a rejected call *)
(* is counted as rejected each time.                                       *)
AcceptanceRemembered ==
  taken \cap SuppressedCalls(cache) = {}

(* stop() "flushes in-flight batches" (uploader_daemon.py:134).  Does not  *)
(* hold: the join gives up and the transports are closed under the pump.   *)
StopFlushes ==
  stopper = "closing" => pc \notin {"tar", "net", "posting"}
=============================================================================
