---------------------------- MODULE CycleBatcher ----------------------------
(***************************************************************************)
(* The per-cycle spot batcher of wspr-recorder (spot_sink.py) with its     *)
(* producers and its shutdown:                                             *)
(*                                                                         *)
(*   - decode jobs on pool threads (__main__._run_decoders_for) announce   *)
(*     a band, hand over noise and spots, and report the band done;        *)
(*   - the writer thread (CycleBatcher._run) collects the batches that are *)
(*     complete or past their deadline and flushes each to the sink;       *)
(*   - the thread that shuts the recorder down (CycleBatcher.stop, called  *)
(*     from __main__._shutdown) joins the writer for a bounded time and    *)
(*     flushes what is left itself;                                        *)
(*   - with several receivers the upload wake fires once per cycle, when   *)
(*     the last expected receiver has committed or a backstop expires.     *)
(*                                                                         *)
(* Deadlines are kept as the time that is left, so Tick makes time pass    *)
(* without a bound on the clock.  A job's spots are one unit, named by the *)
(* job.  Noise rows only decide whether the noise writer is opened.        *)
(***************************************************************************)
EXTENDS Integers

CONSTANTS
  Cycles, Rxs, Bands,
  Jobs,          (* decode jobs: one slot of one band of one receiver      *)
  Epoch,         (* Epoch[c]: the epoch second at which cycle c starts      *)
  HighBands,     (* bands that may be above the front end's Nyquist rate    *)
  BandPeriods,   (* BandPeriods[b]: the periods configured for band b       *)
  ExpectedRx,    (* set_expected_rx_sources: {} when there is one source    *)
  FtSettle,      (* whether ft_settle_sec > 0                               *)
  SinkFaults,    (* which sink calls may fail: "insert", "flush", "import"  *)
  IdleCeiling, JoinTimeout, DeadlineSec, BackstopSec

W2Period == 120

ASSUME JobsAssumption ==
  Jobs \subseteq [cycle : Cycles, rx : Rxs, band : Bands, period : Nat \ {0}]

(* A slot of period p starts on a multiple of p and p is configured.       *)
ASSUME SlotsAssumption ==
  \A j \in Jobs : Epoch[j.cycle] % j.period = 0 /\ j.period \in BandPeriods[j.band]

ASSUME ConfigAssumption ==
  /\ Epoch \in [Cycles -> Nat]
  /\ HighBands \subseteq Bands
  /\ BandPeriods \in [Bands -> SUBSET (Nat \ {0})]
  /\ ExpectedRx \subseteq Rxs
  /\ FtSettle \in BOOLEAN
  /\ SinkFaults \subseteq {"insert", "flush", "import"}

ASSUME TimeoutsAssumption ==
  /\ {IdleCeiling, JoinTimeout, DeadlineSec, BackstopSec} \subseteq Nat \ {0}

VARIABLES
  jobPc,         (* where each decode job is in _run_decoders_for           *)
  handed,        (* history: jobs whose spots add() has accepted            *)
  unproducible,  (* _unproducible_bands                                     *)
  batch,         (* _batches: the batch of each (cycle_key, rx_source)      *)
  collected,     (* history: how the writer collected batches of a key      *)
  pc,            (* program counter of the writer and the stopper thread    *)
  hand,          (* batches a thread removed from _batches and must flush   *)
  flushing,      (* the key a thread is flushing: at most one               *)
  inserted,      (* n > 0 in the _flush a thread is running                 *)
  waitLeft,      (* what is left of the writer's condition wait             *)
  notified,      (* the condition was notified while the writer waited      *)
  joinLeft,      (* what is left of stop()'s join timeout                   *)
  stop,          (* the _stop event                                         *)
  callback,      (* _wake_callback is set                                   *)
  committedRx,   (* _cycle_committed_rx                                     *)
  tracked,       (* the keys of _cycle_first_commit_at                      *)
  crossLeft,     (* time left to a tracked cycle's cross-rx backstop        *)
  wakeFired,     (* _cycle_wake_fired                                       *)
  crossFires,    (* cross_rx_backstop_fires of the writer's current round   *)
  timers,        (* _pending_timers, per cycle                              *)
  woken,         (* how often the wake callback ran for a cycle             *)
  sinkOpen,      (* SpotSink.close() has not run                            *)
  buffer,        (* spots inserted in the Writer, not yet flushed           *)
  durable,       (* spots in pending_uploads                                *)
  dropped,       (* spots an insert failed on, or a closed sink refused     *)
  failed,        (* of those, what rows_dropped counts: an insert failed    *)
  overrun        (* history: what the writer still held when stop(), done   *)
                 (* waiting for it, took the batches that were left         *)

producerVars == <<jobPc, handed, unproducible>>
batchVars    == <<batch, collected>>
threadVars   == <<pc, hand, flushing, inserted>>
waitVars     == <<waitLeft, notified, joinLeft, stop>>
wakeVars     == <<callback, committedRx, tracked, crossLeft, wakeFired, crossFires,
                  timers, woken>>
sinkVars     == <<sinkOpen, buffer, durable, dropped, failed, overrun>>
vars == <<producerVars, batchVars, threadVars, waitVars, wakeVars, sinkVars>>

Writer  == "writer"
Stopper == "stopper"
Threads == {Writer, Stopper}

Keys   == Cycles \X Rxs
Key(j) == <<j.cycle, j.rx>>
JobsOf(k) == {j \in Jobs : Key(j) = k}

JobStates     == {"queued", "decoding", "noised", "added", "done"}
FlushStates   == {"next", "noise", "sync", "commit", "wake"}
WriterStates  == FlushStates \cup {"check", "scan", "wait", "exited", "dead"}
StopperStates == FlushStates \cup {"up", "notify", "join", "cancel", "close", "closed"}

Batch == [open : BOOLEAN, left : Nat, expected : SUBSET Bands, completed : SUBSET Bands,
          spots : SUBSET Jobs, noise : BOOLEAN]

NoBatch == [open |-> FALSE, left |-> 0, expected |-> {}, completed |-> {},
            spots |-> {}, noise |-> FALSE]

NewBatch(timeout) == [NoBatch EXCEPT !.open = TRUE, !.left = timeout]

EmptyHand == [k \in Keys |-> NoBatch]

TypeOK ==
  /\ jobPc \in [Jobs -> JobStates]
  /\ handed \subseteq Jobs
  /\ unproducible \in [Rxs -> SUBSET Bands]
  /\ batch \in [Keys -> Batch]
  /\ collected \in [Keys -> SUBSET {"complete", "overdue"}]
  /\ pc \in [Threads -> WriterStates \cup StopperStates]
  /\ pc[Writer] \in WriterStates /\ pc[Stopper] \in StopperStates
  /\ hand \in [Threads -> [Keys -> Batch]]
  /\ flushing \in [Threads -> SUBSET Keys]
  /\ inserted \in [Threads -> BOOLEAN]
  /\ waitLeft \in Nat /\ joinLeft \in Nat
  /\ notified \in BOOLEAN /\ stop \in BOOLEAN /\ callback \in BOOLEAN
  /\ committedRx \in [Cycles -> SUBSET Rxs]
  /\ tracked \subseteq Cycles
  /\ crossLeft \in [Cycles -> Nat]
  /\ wakeFired \subseteq Cycles
  /\ crossFires \subseteq Cycles
  /\ timers \in [Cycles -> Nat] /\ woken \in [Cycles -> Nat]
  /\ sinkOpen \in BOOLEAN
  /\ buffer \subseteq Jobs /\ durable \subseteq Jobs /\ dropped \subseteq Jobs
  /\ failed \subseteq dropped /\ overrun \subseteq Jobs

Init ==
  /\ jobPc = [j \in Jobs |-> "queued"]
  /\ handed = {}
  /\ unproducible = [r \in Rxs |-> {}]
  /\ batch = [k \in Keys |-> NoBatch]
  /\ collected = [k \in Keys |-> {}]
  /\ pc = [t \in Threads |-> IF t = Writer THEN "check" ELSE "up"]
  /\ hand = [t \in Threads |-> EmptyHand]
  /\ flushing = [t \in Threads |-> {}]
  /\ inserted = [t \in Threads |-> FALSE]
  /\ waitLeft = 0 /\ joinLeft = 0
  /\ notified = FALSE /\ stop = FALSE /\ callback = FALSE
  /\ committedRx = [c \in Cycles |-> {}]
  /\ tracked = {}
  /\ crossLeft = [c \in Cycles |-> 0]
  /\ wakeFired = {}
  /\ crossFires = {}
  /\ timers = [c \in Cycles |-> 0]
  /\ woken = [c \in Cycles |-> 0]
  /\ sinkOpen = TRUE
  /\ buffer = {} /\ durable = {} /\ dropped = {}
  /\ failed = {} /\ overrun = {}

-----------------------------------------------------------------------------
(* Producers.                                                              *)

(* notify() wakes the writer if it is waiting and is lost otherwise.       *)
Notify == notified' = (notified \/ pc[Writer] = "wait")

ExpectedBandsOnlyAnnounced(c, r) == {}

(* The bands whose report the cycle waits for: those with a period that    *)
(* divides the epoch second at which the cycle starts.                     *)
ExpectedBandsForCycle(c, r) ==
  {b \in Bands \ unproducible[r] : \E p \in BandPeriods[b] : Epoch[c] % p = 0}

(* The receiver manager reports a band above the ADC's Nyquist frequency   *)
(* whenever it provisions a source.  A restored band's first whole slot is *)
(* of a later cycle than those that are being decoded.                     *)
SetBandProducible(r, b, producible) ==
  /\ producible => \A j \in Jobs : j.rx = r => jobPc[j] = "queued"
  /\ unproducible' = [unproducible EXCEPT ![r] = IF producible THEN @ \ {b} ELSE @ \cup {b}]
  /\ UNCHANGED <<jobPc, handed, batchVars, threadVars, waitVars, wakeVars, sinkVars>>

SetWakeCallback ==
  /\ ~callback /\ pc[Stopper] = "up"
  /\ callback' = TRUE
  /\ UNCHANGED <<producerVars, batchVars, threadVars, waitVars, committedRx, tracked, crossLeft,
                 wakeFired, crossFires, timers, woken, sinkVars>>

(* The first announcement of a cycle fixes the bands it waits for.  No job *)
(* starts once the pool is shut down; one of a band that was just taken    *)
(* out of service may still.                                               *)
ExpectBand(j) ==
  LET k     == Key(j)
      fresh == [NewBatch(BackstopSec) EXCEPT !.expected = ExpectedBandsForCycle(j.cycle, j.rx)]
      b     == IF batch[k].open THEN batch[k] ELSE fresh
  IN
  /\ jobPc[j] = "queued" /\ pc[Stopper] = "up"
  /\ jobPc' = [jobPc EXCEPT ![j] = "decoding"]
  /\ batch' = [batch EXCEPT ![k] = [b EXCEPT !.expected = @ \cup {j.band}]]
  /\ Notify
  /\ UNCHANGED <<collected, handed, unproducible, threadVars, waitLeft, joinLeft, stop, wakeVars, sinkVars>>

(* The batch add() and add_noise() write to: the open one, or a new one    *)
(* under the legacy deadline when the cycle has been flushed already.      *)
BatchForAdd(k) == IF batch[k].open THEN batch[k] ELSE NewBatch(DeadlineSec)

(* Only a 120 s decode measures noise; a failed measurement adds nothing.  *)
AddNoise(j) ==
  /\ jobPc[j] = "decoding" /\ j.period = W2Period
  /\ jobPc' = [jobPc EXCEPT ![j] = "noised"]
  /\ batch' = [batch EXCEPT ![Key(j)] = [BatchForAdd(Key(j)) EXCEPT !.noise = TRUE]]
  /\ Notify
  /\ UNCHANGED <<collected, handed, unproducible, threadVars, waitLeft, joinLeft, stop, wakeVars, sinkVars>>

AddSpotsOverwriting(j) ==
  /\ jobPc[j] \in {"decoding", "noised"}
  /\ jobPc' = [jobPc EXCEPT ![j] = "added"]
  /\ handed' = handed \cup {j}
  /\ batch' = [batch EXCEPT ![Key(j)] = [BatchForAdd(Key(j)) EXCEPT !.spots = {j}]]
  /\ Notify
  /\ UNCHANGED <<collected, unproducible, threadVars, waitLeft, joinLeft, stop, wakeVars, sinkVars>>

(* A decode that found nothing skips this and goes straight to MarkDone.   *)
AddSpots(j) ==
  /\ jobPc[j] \in {"decoding", "noised"}
  /\ jobPc' = [jobPc EXCEPT ![j] = "added"]
  /\ handed' = handed \cup {j}
  /\ batch' = [batch EXCEPT ![Key(j)] = [BatchForAdd(Key(j)) EXCEPT !.spots = @ \cup {j}]]
  /\ Notify
  /\ UNCHANGED <<collected, unproducible, threadVars, waitLeft, joinLeft, stop, wakeVars, sinkVars>>

(* For a batch that was flushed meanwhile mark_done only logs.             *)
MarkDone(j) ==
  /\ jobPc[j] \in {"decoding", "noised", "added"}
  /\ jobPc' = [jobPc EXCEPT ![j] = "done"]
  /\ IF batch[Key(j)].open
     THEN /\ batch' = [batch EXCEPT ![Key(j)].completed = @ \cup {j.band}]
          /\ Notify
     ELSE UNCHANGED <<batch, notified>>
  /\ UNCHANGED <<collected, handed, unproducible, threadVars, waitLeft, joinLeft, stop, wakeVars, sinkVars>>

-----------------------------------------------------------------------------
(* The writer thread: one round of _run.                                   *)

Goto(t, s) == pc' = [pc EXCEPT ![t] = s]

(* The loop condition, read without the lock.                              *)
WriterCheck ==
  /\ pc[Writer] = "check"
  /\ Goto(Writer, IF stop THEN "exited" ELSE "scan")
  /\ UNCHANGED <<producerVars, batchVars, hand, flushing, inserted, waitVars, wakeVars, sinkVars>>

Complete(b) == b.expected # {} /\ b.expected \subseteq b.completed

ReadyWhenComplete(k) == batch[k].open /\ Complete(batch[k])

Ready(k) == batch[k].open /\ (Complete(batch[k]) \/ batch[k].left = 0)

NoneExpired == {}

CrossExpired == {c \in tracked \ wakeFired : ExpectedRx # {} /\ crossLeft[c] = 0}

Remaining ==
  {batch[k].left : k \in {q \in Keys : batch[q].open}}
    \cup {crossLeft[c] : c \in {d \in tracked \ wakeFired : ExpectedRx # {}}}

BackstopUnmarked == wakeFired
BackstopMarked == wakeFired \cup CrossExpired

NothingRemoved == batch

(* What collecting leaves in _batches.                                     *)
Uncollected == [k \in Keys |-> IF Ready(k) THEN NoBatch ELSE batch[k]]

(* Under the lock: take every ready batch and every expired cross-rx wait. *)
WriterCollect ==
  /\ pc[Writer] = "scan"
  /\ (\E k \in Keys : Ready(k)) \/ CrossExpired # {}
  /\ hand' = [hand EXCEPT ![Writer] = [k \in Keys |-> IF Ready(k) THEN batch[k] ELSE NoBatch]]
  /\ batch' = Uncollected
  /\ collected' = [k \in Keys |-> collected[k] \cup
                     IF ~Ready(k) THEN {}
                     ELSE IF Complete(batch[k]) THEN {"complete"} ELSE {"overdue"}]
  /\ crossFires' = CrossExpired
  /\ wakeFired' = BackstopMarked
  /\ tracked' = tracked \ CrossExpired
  /\ crossLeft' = [c \in Cycles |-> IF c \in CrossExpired THEN 0 ELSE crossLeft[c]]
  /\ committedRx' = [c \in Cycles |-> IF c \in CrossExpired THEN {} ELSE committedRx[c]]
  /\ Goto(Writer, "next")
  /\ UNCHANGED <<producerVars, flushing, inserted, waitVars, callback, timers, woken, sinkVars>>

(* Nothing is ready: wait for the nearest deadline, or the idle ceiling if *)
(* there is none.                                                          *)
WriterWait ==
  /\ pc[Writer] = "scan"
  /\ \A k \in Keys : ~Ready(k)
  /\ CrossExpired = {}
  /\ \/ Remaining = {} /\ waitLeft' = IdleCeiling
     \/ /\ waitLeft' \in Remaining
        /\ \A x \in Remaining : waitLeft' <= x
  /\ notified' = FALSE
  /\ Goto(Writer, "wait")
  /\ UNCHANGED <<producerVars, batchVars, hand, flushing, inserted, joinLeft, stop, wakeVars,
                 sinkVars>>

WriterResume ==
  /\ pc[Writer] = "wait"
  /\ notified \/ waitLeft = 0
  /\ notified' = FALSE /\ waitLeft' = 0
  /\ Goto(Writer, "check")
  /\ UNCHANGED <<producerVars, batchVars, hand, flushing, inserted, joinLeft, stop, wakeVars,
                 sinkVars>>

InHand(t)  == {k \in Keys : hand[t][k].open}
InHands(t) == UNION {hand[t][k].spots : k \in Keys}

(* After the batches, the cross-rx backstops of this round.                *)
WriterCrossWake(c) ==
  /\ pc[Writer] = "next" /\ InHand(Writer) = {}
  /\ c \in crossFires
  /\ crossFires' = crossFires \ {c}
  /\ timers' = IF callback /\ FtSettle THEN [timers EXCEPT ![c] = @ + 1] ELSE timers
  /\ woken' = IF callback /\ ~FtSettle THEN [woken EXCEPT ![c] = @ + 1] ELSE woken
  /\ UNCHANGED <<producerVars, batchVars, threadVars, waitVars, callback, committedRx, tracked,
                 crossLeft, wakeFired, sinkVars>>

WriterRoundDone ==
  /\ pc[Writer] = "next" /\ InHand(Writer) = {} /\ crossFires = {}
  /\ Goto(Writer, "check")
  /\ UNCHANGED <<producerVars, batchVars, hand, flushing, inserted, waitVars, wakeVars, sinkVars>>

-----------------------------------------------------------------------------
(* _flush, run by the writer and, for what is left, by the stopper.        *)

(* submit_batches for the next batch in hand: one insert for the whole     *)
(* batch, whose failure is logged and counted.  A closed sink takes        *)
(* nothing, and neither logs nor counts it.                                *)
SubmitSpots(t) ==
  /\ pc[t] = "next"
  /\ \E k \in InHand(t) :
       LET spots == hand[t][k].spots IN
       /\ flushing' = [flushing EXCEPT ![t] = {k}]
       /\ \/ /\ sinkOpen /\ spots # {}
             /\ buffer' = buffer \cup spots
             /\ inserted' = [inserted EXCEPT ![t] = TRUE]
             /\ UNCHANGED <<dropped, failed>>
          \/ /\ sinkOpen /\ "insert" \in SinkFaults
             /\ dropped' = dropped \cup spots
             /\ failed' = failed \cup spots
             /\ UNCHANGED <<buffer, inserted>>
          \/ /\ ~sinkOpen \/ spots = {}
             /\ dropped' = dropped \cup spots
             /\ UNCHANGED <<buffer, inserted, failed>>
       /\ hand' = [hand EXCEPT ![t][k].spots = {}]
       /\ Goto(t, IF hand[t][k].noise /\ sinkOpen THEN "noise" ELSE "sync")
  /\ UNCHANGED <<producerVars, batchVars, waitVars, wakeVars, sinkOpen, durable, overrun>>

(* submit_noise_batches: nothing here depends on what becomes of the rows, *)
(* but opening the noise writer imports sigmond.hamsci_sink outside any    *)
(* try.  Where that package is absent the exception leaves _flush and ends *)
(* the writer thread; in stop() it is caught by _shutdown, which goes on   *)
(* to close the sink.                                                      *)
SubmitNoise(t) ==
  /\ pc[t] = "noise"
  /\ IF "import" \in SinkFaults
     THEN /\ Goto(t, IF t = Writer THEN "dead" ELSE "close")
          /\ hand' = [hand EXCEPT ![t] = EmptyHand]
          /\ flushing' = [flushing EXCEPT ![t] = {}]
          /\ inserted' = [inserted EXCEPT ![t] = FALSE]
     ELSE /\ Goto(t, "sync")
          /\ UNCHANGED <<hand, flushing, inserted>>
  /\ UNCHANGED <<producerVars, batchVars, waitVars, wakeVars, sinkVars>>

(* A flush moves the buffer to pending_uploads; its failure is logged only.*)
FlushSink ==
  \E ok \in IF ~sinkOpen THEN {FALSE} ELSE IF "flush" \in SinkFaults THEN BOOLEAN ELSE {TRUE} :
    /\ durable' = IF ok THEN durable \cup buffer ELSE durable
    /\ buffer' = IF ok THEN {} ELSE buffer

SyncSink(t) ==
  /\ pc[t] = "sync"
  /\ FlushSink
  /\ Goto(t, "commit")
  /\ UNCHANGED <<producerVars, batchVars, hand, flushing, inserted, waitVars, wakeVars, sinkOpen,
                 dropped, failed, overrun>>

Committed(c, r) == committedRx[c] \cup {r}
SomeCommitted(c, r) == TRUE

AllCommitted(c, r) == ExpectedRx \subseteq Committed(c, r)

WakeDecided(c) == c \in wakeFired

Untracked(c) == tracked \ {c}

(* The end of this thread's work on the batch it is flushing.              *)
FlushEnd(t) ==
  /\ hand' = [hand EXCEPT ![t] = [k \in Keys |-> IF k \in flushing[t] THEN NoBatch ELSE @[k]]]
  /\ flushing' = [flushing EXCEPT ![t] = {}]
  /\ inserted' = [inserted EXCEPT ![t] = FALSE]

(* _on_per_rx_committed does not wake: no spots, no callback, the cycle's  *)
(* wake fired before, or receivers are still missing.                      *)
CommitQuietly(t) ==
  /\ pc[t] = "commit"
  /\ \E k \in flushing[t] :
       LET c == k[1]  r == k[2] IN
       \/ /\ ~inserted[t] \/ ~callback \/ (ExpectedRx # {} /\ WakeDecided(c))
          /\ UNCHANGED <<committedRx, tracked, crossLeft>>
       \/ /\ inserted[t] /\ callback
          /\ ExpectedRx # {} /\ ~WakeDecided(c) /\ ~AllCommitted(c, r)
          /\ committedRx' = [committedRx EXCEPT ![c] = Committed(c, r)]
          /\ tracked' = tracked \cup {c}
          /\ crossLeft' = IF c \in tracked THEN crossLeft
                          ELSE [crossLeft EXCEPT ![c] = BackstopSec]
  /\ FlushEnd(t)
  /\ Goto(t, "next")
  /\ UNCHANGED <<producerVars, batchVars, waitVars, callback, wakeFired, crossFires, timers, woken,
                 sinkVars>>

(* It does wake: cross-rx sync is off, or the last receiver has committed. *)
CommitAndWake(t) ==
  /\ pc[t] = "commit" /\ inserted[t] /\ callback
  /\ \E k \in flushing[t] :
       LET c == k[1]  r == k[2] IN
       \/ /\ ExpectedRx = {}
          /\ UNCHANGED <<committedRx, tracked, crossLeft, wakeFired>>
       \/ /\ ExpectedRx # {} /\ ~WakeDecided(c) /\ AllCommitted(c, r)
          /\ wakeFired' = wakeFired \cup {c}
          /\ committedRx' = [committedRx EXCEPT ![c] = {}]
          /\ tracked' = Untracked(c)
          /\ crossLeft' = [crossLeft EXCEPT ![c] = 0]
  /\ Goto(t, "wake")
  /\ UNCHANGED <<producerVars, batchVars, hand, flushing, inserted, waitVars, callback, crossFires,
                 timers, woken, sinkVars>>

(* _schedule_wake: the callback now, or a timer at the FT settle gate.     *)
ScheduleWake(t) ==
  /\ pc[t] = "wake"
  /\ \E k \in flushing[t] :
       IF FtSettle
       THEN timers' = [timers EXCEPT ![k[1]] = @ + 1] /\ UNCHANGED woken
       ELSE woken' = [woken EXCEPT ![k[1]] = @ + 1] /\ UNCHANGED timers
  /\ FlushEnd(t)
  /\ Goto(t, "next")
  /\ UNCHANGED <<producerVars, batchVars, waitVars, callback, committedRx, tracked, crossLeft,
                 wakeFired, crossFires, sinkVars>>

TimerFires(c) ==
  /\ timers[c] > 0
  /\ timers' = [timers EXCEPT ![c] = @ - 1]
  /\ woken' = [woken EXCEPT ![c] = @ + 1]
  /\ UNCHANGED <<producerVars, batchVars, threadVars, waitVars, callback, committedRx, tracked,
                 crossLeft, wakeFired, crossFires, sinkVars>>

-----------------------------------------------------------------------------
(* stop(), called by _shutdown once the decode pool has drained.           *)

StopSet ==
  /\ pc[Stopper] = "up"
  /\ \A j \in Jobs : jobPc[j] \in {"queued", "done"}
  /\ stop' = TRUE
  /\ Goto(Stopper, "notify")
  /\ UNCHANGED <<producerVars, batchVars, hand, flushing, inserted, waitLeft, notified, joinLeft,
                 wakeVars, sinkVars>>

StopNotify ==
  /\ pc[Stopper] = "notify"
  /\ Notify
  /\ joinLeft' = JoinTimeout
  /\ Goto(Stopper, "join")
  /\ UNCHANGED <<producerVars, batchVars, hand, flushing, inserted, waitLeft, stop, wakeVars,
                 sinkVars>>

StopJoined ==
  /\ pc[Stopper] = "join"
  /\ pc[Writer] \in {"exited", "dead"} \/ joinLeft = 0
  /\ joinLeft' = 0
  /\ Goto(Stopper, "cancel")
  /\ UNCHANGED <<producerVars, batchVars, hand, flushing, inserted, waitLeft, notified, stop,
                 wakeVars, sinkVars>>

NoLeftover == EmptyHand
Leftover == batch

(* Under the lock: cancel the timers and take every remaining batch.       *)
StopCancel ==
  /\ pc[Stopper] = "cancel"
  /\ timers' = [c \in Cycles |-> 0]
  /\ hand' = [hand EXCEPT ![Stopper] = Leftover]
  /\ batch' = [k \in Keys |-> NoBatch]
  /\ overrun' = InHands(Writer)
  /\ Goto(Stopper, "next")
  /\ UNCHANGED <<producerVars, collected, flushing, inserted, waitVars, callback, committedRx, tracked,
                 crossLeft, wakeFired, crossFires, woken, sinkOpen, buffer, durable, dropped, failed>>

StopDrained ==
  /\ pc[Stopper] = "next" /\ InHand(Stopper) = {}
  /\ Goto(Stopper, "close")
  /\ UNCHANGED <<producerVars, batchVars, hand, flushing, inserted, waitVars, wakeVars, sinkVars>>

(* _shutdown then flushes and closes the sink.                             *)
CloseSink ==
  /\ pc[Stopper] = "close"
  /\ FlushSink
  /\ sinkOpen' = FALSE
  /\ Goto(Stopper, "closed")
  /\ UNCHANGED <<producerVars, batchVars, hand, flushing, inserted, waitVars, wakeVars, dropped, failed,
                 overrun>>

-----------------------------------------------------------------------------
LessUnchecked(n) == n - 1

(* What is left of a deadline after one unit of time.                      *)
Less(n) == IF n = 0 THEN 0 ELSE n - 1

TimeRuns ==
  \/ \E k \in Keys : batch[k].left > 0
  \/ \E c \in Cycles : crossLeft[c] > 0
  \/ waitLeft > 0
  \/ joinLeft > 0

Tick ==
  /\ TimeRuns
  /\ batch' = [k \in Keys |-> [batch[k] EXCEPT !.left = Less(@)]]
  /\ crossLeft' = [c \in Cycles |-> Less(crossLeft[c])]
  /\ waitLeft' = Less(waitLeft)
  /\ joinLeft' = Less(joinLeft)
  /\ UNCHANGED <<producerVars, collected, threadVars, notified, stop, callback, committedRx, tracked,
                 wakeFired, crossFires, timers, woken, sinkVars>>

Produce(j) == ExpectBand(j) \/ AddNoise(j) \/ AddSpots(j) \/ MarkDone(j)

Flush(t) ==
  \/ SubmitSpots(t) \/ SubmitNoise(t)
  \/ SyncSink(t) \/ CommitQuietly(t) \/ CommitAndWake(t) \/ ScheduleWake(t)

Write ==
  \/ WriterCheck \/ WriterCollect \/ WriterWait \/ WriterResume
  \/ Flush(Writer) \/ (\E c \in Cycles : WriterCrossWake(c)) \/ WriterRoundDone

Stop ==
  \/ StopSet \/ StopNotify \/ StopJoined \/ StopCancel
  \/ Flush(Stopper) \/ StopDrained \/ CloseSink

Next ==
  \/ \E r \in Rxs, b \in HighBands, p \in BOOLEAN : SetBandProducible(r, b, p)
  \/ SetWakeCallback
  \/ \E j \in Jobs : Produce(j)
  \/ Write
  \/ \E c \in Cycles : TimerFires(c)
  \/ Stop
  \/ Tick

Spec == Init /\ [][Next]_vars

(***************************************************************************)
(* The writer and the stopper are threads, timers fire and time passes.    *)
(* Nothing is assumed of the producers: a decode may hang, a slot may be   *)
(* dropped before its decode, and the recorder need not ever be stopped.   *)
(***************************************************************************)
Fairness ==
  /\ WF_vars(Write)
  /\ WF_vars(Stop /\ pc[Stopper] # "up")
  /\ \A c \in Cycles : WF_vars(TimerFires(c))
  /\ WF_vars(Tick)

FairSpec == Spec /\ Fairness

-----------------------------------------------------------------------------
InBatches == UNION {batch[k].spots : k \in Keys}
Places == <<InBatches, InHands(Writer), InHands(Stopper), buffer, durable, dropped>>

(* A job's spots are never in two places at once, whatever order the       *)
(* writer, the stopper and late producers run in: no spot is inserted      *)
(* twice, and none is both shipped and counted as dropped.                 *)
NoSpotTwice == \A a, b \in DOMAIN Places : a # b => Places[a] \cap Places[b] = {}

(* Every spot add() accepted is somewhere: in a batch, with a thread that  *)
(* will flush it, in the sink, or dropped by a sink that failed or closed. *)
NoSpotLost == handed \subseteq UNION {Places[i] : i \in DOMAIN Places}

(* With cross-rx sync the upload wake of a cycle is scheduled or run at    *)
(* most once, however the last commit, the cross-rx backstop, late commits *)
(* and the flushes of stop() interleave.                                   *)
WakeOncePerCycle == ExpectedRx # {} => \A c \in Cycles : timers[c] + woken[c] <= 1

(* Jobs that share the batch of their band with another slot of the band:  *)
(* a slot of another period that starts at the same second.                *)
Doubled(k) == {j \in JobsOf(k) : \E i \in JobsOf(k) : i # j /\ i.band = j.band}

(* No deadline cut the cycle short, and all its bands are in service.      *)
CollectedComplete(k) ==
  collected[k] = {"complete"} /\ \A j \in JobsOf(k) : j.band \notin unproducible[j.rx]

(* A receiver's cycle that no deadline cut short is flushed only after     *)
(* every band in service has reported, whatever order the bands are        *)
(* announced in and wherever the writer is meanwhile.  It is flushed once, *)
(* up to what decodes of a band that had reported add later.               *)
FlushOncePerCycle ==
  \A k \in Keys : CollectedComplete(k) =>
    /\ \A j \in JobsOf(k) : \E i \in JobsOf(k) : i.band = j.band /\ jobPc[i] = "done"
    /\ batch[k].open => Doubled(k) # {}
    /\ batch[k].spots \subseteq Doubled(k)

(* "Flush exactly once per cycle when every band's decode attempt has      *)
(* reported in" (spot_sink.py:749).  Does not hold with F5, F15 and F30.   *)
EveryDecodeReported ==
  \A k \in Keys : CollectedComplete(k) =>
    /\ ~batch[k].open
    /\ \A j \in JobsOf(k) : jobPc[j] = "done"

(* When the last expected receiver's commit decides the wake, spots of     *)
(* every expected receiver for that cycle are durable, so the pump that    *)
(* the wake starts sees them all.                                          *)
WakeAfterDurable ==
  [][\A c \in wakeFired' \ wakeFired : c \notin crossFires' =>
       \A r \in ExpectedRx : \E j \in durable : j.cycle = c /\ j.rx = r]_vars

(* Once stop() has drained and the sink is closed, every spot the          *)
(* producers handed over is durable, an insert of it failed, or the writer *)
(* had it in hand when the join timed out: what stop() takes itself is     *)
(* shipped, and nothing is left where no thread would look for it.         *)
StopDrains == pc[Stopper] = "closed" => handed \subseteq durable \cup failed \cup overrun

(* "Better to ship a partial cycle than to lose the rows", says stop(),    *)
(* and every loss is counted in rows_dropped.  Does not hold when the join *)
(* times out: the sink closes under the writer and silently takes nothing. *)
StopLosesNothing ==
  pc[Stopper] = "closed" /\ pc[Writer] = "exited" => handed \subseteq durable \cup failed

(* stop() leaves no settle timer behind that could wake the uploader after *)
(* the shutdown, as its docstring says.                                    *)
NoTimerAfterStop ==
  pc[Stopper] = "closed" => \A c \in Cycles : timers[c] = 0

(* Spots that were handed over reach the database or are dropped by it,    *)
(* even if the decode that produced them never reports done.               *)
SpotsSettle == \A j \in Jobs : j \in handed ~> j \in durable \cup dropped

(* A cycle with a committed receiver wakes the uploader although other     *)
(* receivers never commit, unless the recorder is stopped first.           *)
CommitWakes ==
  \A c \in Cycles : committedRx[c] # {} ~> (woken[c] > 0 \/ pc[Stopper] # "up")
=============================================================================
