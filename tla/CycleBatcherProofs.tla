------------------------- MODULE CycleBatcherProofs -------------------------
(***************************************************************************)
(* Proofs about CycleBatcher, for every set of cycles, receivers, bands    *)
(* and jobs, every timeout and every choice of sink faults.                *)
(***************************************************************************)
EXTENDS CycleBatcher, TLAPS

(* The parts of TypeOK, one per group of variables.                        *)
ProducerType ==
  /\ jobPc \in [Jobs -> JobStates]
  /\ handed \subseteq Jobs
  /\ unproducible \in [Rxs -> SUBSET Bands]
BatchType ==
  /\ batch \in [Keys -> Batch]
  /\ collected \in [Keys -> SUBSET {"complete", "overdue"}]
PcType ==
  /\ pc \in [Threads -> WriterStates \cup StopperStates]
  /\ pc[Writer] \in WriterStates /\ pc[Stopper] \in StopperStates
HandType ==
  /\ hand \in [Threads -> [Keys -> Batch]]
  /\ flushing \in [Threads -> SUBSET Keys]
  /\ inserted \in [Threads -> BOOLEAN]
WaitType ==
  /\ waitLeft \in Nat /\ joinLeft \in Nat
  /\ notified \in BOOLEAN /\ stop \in BOOLEAN
WakeType ==
  /\ callback \in BOOLEAN
  /\ committedRx \in [Cycles -> SUBSET Rxs]
  /\ tracked \subseteq Cycles
  /\ crossLeft \in [Cycles -> Nat]
  /\ wakeFired \subseteq Cycles
  /\ crossFires \subseteq Cycles
  /\ timers \in [Cycles -> Nat] /\ woken \in [Cycles -> Nat]
SinkType ==
  /\ sinkOpen \in BOOLEAN
  /\ buffer \subseteq Jobs /\ durable \subseteq Jobs /\ dropped \subseteq Jobs
  /\ failed \subseteq dropped /\ overrun \subseteq Jobs

Typed ==
  /\ ProducerType /\ BatchType /\ PcType /\ HandType
  /\ WaitType /\ WakeType /\ SinkType

LEMMA TypedIsTypeOK == Typed <=> TypeOK
BY DEF Typed, TypeOK, ProducerType, BatchType, PcType, HandType, WaitType, WakeType, SinkType

(* A group of variables that a step leaves alone keeps its type.           *)
LEMMA KeptTypes ==
  /\ ProducerType /\ UNCHANGED producerVars => ProducerType'
  /\ BatchType /\ UNCHANGED batchVars => BatchType'
  /\ PcType /\ HandType /\ UNCHANGED threadVars => PcType' /\ HandType'
  /\ WaitType /\ UNCHANGED waitVars => WaitType'
  /\ WakeType /\ UNCHANGED wakeVars => WakeType'
  /\ SinkType /\ UNCHANGED sinkVars => SinkType'
BY DEF ProducerType, BatchType, PcType, HandType, WaitType, WakeType, SinkType,
       producerVars, batchVars, threadVars, waitVars, wakeVars, sinkVars

-----------------------------------------------------------------------------
(* Batches.                                                                *)

LEMMA EmptyBatches ==
  /\ NoBatch \in Batch
  /\ \A n \in Nat : NewBatch(n) \in Batch
  /\ EmptyHand \in [Keys -> Batch]
<1>1. NoBatch \in Batch
  BY DEF NoBatch, Batch
<1> QED
  BY <1>1 DEF NewBatch, NoBatch, Batch, EmptyHand

LEMMA BatchFields ==
  ASSUME NEW b \in Batch
  PROVE  /\ b.open \in BOOLEAN /\ b.left \in Nat /\ b.noise \in BOOLEAN
         /\ b.expected \subseteq Bands /\ b.completed \subseteq Bands
         /\ b.spots \subseteq Jobs
         /\ \A n \in Nat : [b EXCEPT !.left = n] \in Batch
         /\ [b EXCEPT !.noise = TRUE] \in Batch
         /\ \A e \in SUBSET Bands : [b EXCEPT !.expected = e] \in Batch
         /\ \A e \in SUBSET Bands : [b EXCEPT !.completed = e] \in Batch
         /\ \A s \in SUBSET Jobs : [b EXCEPT !.spots = s] \in Batch
BY DEF Batch

LEMMA JobFields ==
  ASSUME NEW j \in Jobs
  PROVE  /\ j.cycle \in Cycles /\ j.rx \in Rxs /\ j.band \in Bands
         /\ Key(j) \in Keys
BY JobsAssumption DEF Key, Keys

LEMMA KeyParts ==
  ASSUME NEW k \in Keys
  PROVE  k[1] \in Cycles /\ k[2] \in Rxs
BY DEF Keys

(* A thread's program counter moves within its own states.                 *)
LEMMA GotoType ==
  ASSUME PcType, NEW t \in Threads, NEW s, Goto(t, s),
         t = Writer => s \in WriterStates,
         t = Stopper => s \in StopperStates
  PROVE  PcType'
BY DEF PcType, Goto, Threads, Writer, Stopper

-----------------------------------------------------------------------------
LEMMA InitType == Init => Typed
<1> SUFFICES ASSUME Init PROVE Typed
  OBVIOUS
<1>1. BatchType
  BY EmptyBatches DEF Init, BatchType
<1>2. PcType
  BY DEF Init, PcType, Threads, Writer, Stopper, WriterStates, StopperStates, FlushStates
<1>3. HandType
  BY EmptyBatches DEF Init, HandType
<1>4. ProducerType /\ WaitType /\ WakeType /\ SinkType
  BY DEF Init, ProducerType, WaitType, WakeType, SinkType, JobStates
<1> QED
  BY <1>1, <1>2, <1>3, <1>4 DEF Typed

(* A producer's call.                                                      *)
LEMMA ProducerTypes ==
  ASSUME Typed, NEW j \in Jobs, Produce(j)
  PROVE  Typed'
<1> USE JobFields, TimeoutsAssumption
<1>1. ProducerType /\ BatchType /\ PcType /\ HandType /\ WaitType /\ WakeType /\ SinkType
  BY DEF Typed
<1>2. BatchForAdd(Key(j)) \in Batch
  BY <1>1, EmptyBatches DEF BatchForAdd, BatchType
<1>3. \A c \in Cycles, r \in Rxs : ExpectedBandsForCycle(c, r) \subseteq Bands
  BY DEF ExpectedBandsForCycle
<1>4. notified' \in BOOLEAN => WaitType' \/ ~UNCHANGED <<waitLeft, joinLeft, stop>>
  BY <1>1 DEF WaitType
<1>5. Notify => notified' \in BOOLEAN
  BY <1>1 DEF Notify, WaitType
<1>6. CASE ExpectBand(j)
  <2>1. [NewBatch(BackstopSec) EXCEPT !.expected = ExpectedBandsForCycle(j.cycle, j.rx)] \in Batch
    BY <1>3, EmptyBatches, BatchFields
  <2>2. BatchType'
    BY <1>1, <1>6, <2>1, BatchFields DEF ExpectBand, BatchType
  <2>3. ProducerType'
    BY <1>1, <1>6 DEF ExpectBand, ProducerType, JobStates
  <2>4. WaitType'
    BY <1>4, <1>5, <1>6 DEF ExpectBand
  <2>6. UNCHANGED <<threadVars, wakeVars, sinkVars>>
    BY <1>6 DEF ExpectBand
  <2> QED
    BY <1>1, <2>2, <2>3, <2>4, <2>6, KeptTypes DEF Typed
<1>7. CASE AddNoise(j)
  <2>1. BatchType'
    BY <1>1, <1>2, <1>7, BatchFields DEF AddNoise, BatchType
  <2>2. ProducerType'
    BY <1>1, <1>7 DEF AddNoise, ProducerType, JobStates
  <2>3. WaitType'
    BY <1>4, <1>5, <1>7 DEF AddNoise
  <2>6. UNCHANGED <<threadVars, wakeVars, sinkVars>>
    BY <1>7 DEF AddNoise
  <2> QED
    BY <1>1, <2>1, <2>2, <2>3, <2>6, KeptTypes DEF Typed
<1>8. CASE AddSpots(j)
  <2>1. BatchForAdd(Key(j)).spots \cup {j} \in SUBSET Jobs
    BY <1>2, BatchFields
  <2>2. BatchType'
    BY <1>1, <1>2, <1>8, <2>1, BatchFields DEF AddSpots, BatchType
  <2>3. ProducerType'
    BY <1>1, <1>8 DEF AddSpots, ProducerType, JobStates
  <2>4. WaitType'
    BY <1>4, <1>5, <1>8 DEF AddSpots
  <2>6. UNCHANGED <<threadVars, wakeVars, sinkVars>>
    BY <1>8 DEF AddSpots
  <2> QED
    BY <1>1, <2>2, <2>3, <2>4, <2>6, KeptTypes DEF Typed
<1>9. CASE MarkDone(j)
  <2>1. batch[Key(j)] \in Batch
    BY <1>1 DEF BatchType
  <2>2. batch[Key(j)].completed \cup {j.band} \in SUBSET Bands
    BY <2>1, BatchFields
  <2>3. BatchType'
    <3>1. [batch[Key(j)] EXCEPT !.completed = @ \cup {j.band}] \in Batch
      BY <2>1, <2>2, BatchFields
    <3> QED
      BY <1>1, <1>9, <3>1 DEF MarkDone, BatchType
  <2>4. ProducerType'
    BY <1>1, <1>9 DEF MarkDone, ProducerType, JobStates
  <2>5. WaitType'
    BY <1>1, <1>4, <1>5, <1>9 DEF MarkDone, WaitType
  <2>6. UNCHANGED <<threadVars, wakeVars, sinkVars>>
    BY <1>9 DEF MarkDone
  <2> QED
    BY <1>1, <2>3, <2>4, <2>5, <2>6, KeptTypes DEF Typed
<1> QED
  BY <1>6, <1>7, <1>8, <1>9 DEF Produce

(* Start-up and provisioning.                                              *)
LEMMA SetupTypes ==
  ASSUME Typed,
         \/ \E r \in Rxs, b \in HighBands, p \in BOOLEAN : SetBandProducible(r, b, p)
         \/ SetWakeCallback
  PROVE  Typed'
<1>1. ASSUME NEW r \in Rxs, NEW b \in HighBands, NEW p \in BOOLEAN, SetBandProducible(r, b, p)
      PROVE  Typed'
  <2>1. b \in Bands
    BY ConfigAssumption
  <2>2. ProducerType'
    BY <1>1, <2>1 DEF SetBandProducible, Typed, ProducerType
  <2>3. UNCHANGED <<batchVars, threadVars, waitVars, wakeVars, sinkVars>>
    BY <1>1 DEF SetBandProducible
  <2> QED
    BY <2>2, <2>3, KeptTypes DEF Typed
<1>2. CASE SetWakeCallback
  <2>1. WakeType'
    BY <1>2 DEF SetWakeCallback, Typed, WakeType
  <2>2. UNCHANGED <<producerVars, batchVars, threadVars, waitVars, sinkVars>>
    BY <1>2 DEF SetWakeCallback
  <2> QED
    BY <2>1, <2>2, KeptTypes DEF Typed
<1> QED
  BY <1>1, <1>2

-----------------------------------------------------------------------------
(* What a step of a thread leaves alone when it only moves on.             *)
LEMMA MoveTypes ==
  ASSUME Typed, NEW t \in Threads, NEW s, Goto(t, s),
         t = Writer => s \in WriterStates,
         t = Stopper => s \in StopperStates,
         UNCHANGED <<producerVars, hand, flushing, inserted>>
  PROVE  ProducerType' /\ PcType' /\ HandType'
<1>1. PcType'
  BY GotoType DEF Typed
<1> QED
  BY <1>1, KeptTypes DEF Typed, HandType

LEMMA WriterTypes ==
  ASSUME Typed,
         \/ WriterCheck \/ WriterCollect \/ WriterWait \/ WriterResume
         \/ (\E c \in Cycles : WriterCrossWake(c)) \/ WriterRoundDone
  PROVE  Typed'
<1> USE DEF WriterStates, StopperStates, FlushStates, Threads, Writer, Stopper
<1>1. CASE WriterCheck
  <2>1. UNCHANGED <<producerVars, batchVars, hand, flushing, inserted, waitVars, wakeVars, sinkVars>>
    BY <1>1 DEF WriterCheck
  <2>2. \E s \in {"exited", "scan"} : Goto(Writer, s)
    BY <1>1 DEF WriterCheck
  <2> QED
    BY <2>1, <2>2, MoveTypes, KeptTypes DEF Typed
<1>2. CASE WriterCollect
  <2>1. UNCHANGED <<producerVars, flushing, inserted, waitVars, sinkVars>>
    BY <1>2 DEF WriterCollect
  <2>2. PcType'
    BY <1>2, GotoType DEF WriterCollect, Typed
  <2>3. HandType'
    <3>1. [k \in Keys |-> IF Ready(k) THEN batch[k] ELSE NoBatch] \in [Keys -> Batch]
      BY EmptyBatches DEF Typed, BatchType
    <3> QED
      BY <1>2, <2>1, <3>1 DEF WriterCollect, Typed, HandType
  <2>4. BatchType'
    BY <1>2, EmptyBatches DEF WriterCollect, BackstopMarked, Uncollected, Typed, BatchType
  <2>5. WakeType'
    <3>1. CrossExpired \subseteq Cycles
      BY DEF CrossExpired, Typed, WakeType
    <3> QED
      BY <1>2, <3>1 DEF WriterCollect, BackstopMarked, Typed, WakeType
  <2> QED
    BY <2>1, <2>2, <2>3, <2>4, <2>5, KeptTypes DEF Typed
<1>3. CASE WriterWait
  <2>1. Remaining \subseteq Nat
    BY BatchFields DEF Remaining, Typed, BatchType, WakeType
  <2>2. waitLeft' \in Nat
    BY <1>3, <2>1, TimeoutsAssumption DEF WriterWait
  <2>3. UNCHANGED <<producerVars, batchVars, hand, flushing, inserted, joinLeft, stop, wakeVars,
                    sinkVars>> /\ notified' = FALSE /\ Goto(Writer, "wait")
    BY <1>3 DEF WriterWait
  <2>4. WaitType'
    BY <2>2, <2>3 DEF Typed, WaitType
  <2> QED
    BY <2>3, <2>4, MoveTypes, KeptTypes DEF Typed
<1>4. CASE WriterResume
  <2>1. UNCHANGED <<producerVars, batchVars, hand, flushing, inserted, joinLeft, stop, wakeVars,
                    sinkVars>> /\ Goto(Writer, "check")
    BY <1>4 DEF WriterResume
  <2>2. WaitType'
    BY <1>4 DEF WriterResume, Typed, WaitType
  <2> QED
    BY <2>1, <2>2, MoveTypes, KeptTypes DEF Typed
<1>5. ASSUME NEW c \in Cycles, WriterCrossWake(c)
      PROVE  Typed'
  <2>1. UNCHANGED <<producerVars, batchVars, threadVars, waitVars, sinkVars>>
    BY <1>5 DEF WriterCrossWake
  <2>2. WakeType'
    BY <1>5 DEF WriterCrossWake, Typed, WakeType
  <2> QED
    BY <2>1, <2>2, KeptTypes DEF Typed
<1>6. CASE WriterRoundDone
  <2>1. UNCHANGED <<producerVars, batchVars, hand, flushing, inserted, waitVars, wakeVars, sinkVars>>
        /\ Goto(Writer, "check")
    BY <1>6 DEF WriterRoundDone
  <2> QED
    BY <2>1, MoveTypes, KeptTypes DEF Typed
<1> QED
  BY <1>1, <1>2, <1>3, <1>4, <1>5, <1>6

-----------------------------------------------------------------------------
LEMMA FlushEndType ==
  ASSUME Typed, NEW t \in Threads, FlushEnd(t)
  PROVE  HandType'
<1>1. [k \in Keys |-> IF k \in flushing[t] THEN NoBatch ELSE hand[t][k]] \in [Keys -> Batch]
  BY EmptyBatches DEF Typed, HandType
<1> QED
  BY <1>1 DEF FlushEnd, Typed, HandType

LEMMA FlushSinkType ==
  ASSUME Typed, FlushSink
  PROVE  buffer' \subseteq Jobs /\ durable' \subseteq Jobs
BY DEF FlushSink, Typed, SinkType

(* The steps of _flush, by either thread.                                  *)
LEMMA FlushTypes ==
  ASSUME Typed, NEW t \in Threads, Flush(t)
  PROVE  Typed'
<1> USE DEF WriterStates, StopperStates, FlushStates, Threads, Writer, Stopper
<1>0. /\ flushing[t] \subseteq Keys
      /\ \A k \in flushing[t] : k[1] \in Cycles /\ k[2] \in Rxs
  BY KeyParts DEF Typed, HandType
<1>1. CASE SubmitSpots(t)
  <2>1. PICK k \in InHand(t) :
          /\ flushing' = [flushing EXCEPT ![t] = {k}]
          /\ buffer' \in {buffer, buffer \cup hand[t][k].spots}
          /\ dropped' \in {dropped, dropped \cup hand[t][k].spots}
          /\ \/ failed' = failed
             \/ failed' = failed \cup hand[t][k].spots /\ dropped' = dropped \cup hand[t][k].spots
          /\ inserted' \in {inserted, [inserted EXCEPT ![t] = TRUE]}
          /\ hand' = [hand EXCEPT ![t][k].spots = {}]
          /\ \E s \in {"noise", "sync"} : Goto(t, s)
    BY <1>1 DEF SubmitSpots
  <2>2. k \in Keys /\ hand[t] \in [Keys -> Batch] /\ hand[t][k] \in Batch
    BY <2>1 DEF InHand, Typed, HandType
  <2>3. /\ hand[t][k].spots \subseteq Jobs
        /\ [hand[t][k] EXCEPT !.spots = {}] \in Batch
    BY <2>2, BatchFields
  <2>4. hand' = [hand EXCEPT ![t] = [hand[t] EXCEPT ![k] = [hand[t][k] EXCEPT !.spots = {}]]]
    BY <2>1
  <2>5. HandType'
    <3>1. [hand[t] EXCEPT ![k] = [hand[t][k] EXCEPT !.spots = {}]] \in [Keys -> Batch]
      BY <2>2, <2>3
    <3>2. hand' \in [Threads -> [Keys -> Batch]]
      BY <2>4, <3>1 DEF Typed, HandType
    <3>3. flushing' \in [Threads -> SUBSET Keys]
      BY <2>1, <2>2 DEF Typed, HandType
    <3>4. inserted' \in [Threads -> BOOLEAN]
      BY <2>1 DEF Typed, HandType
    <3> QED
      BY <3>2, <3>3, <3>4 DEF HandType
  <2>6. UNCHANGED <<producerVars, batchVars, waitVars, wakeVars, sinkOpen, durable, overrun>>
    BY <1>1 DEF SubmitSpots
  <2>7. SinkType'
    BY <2>1, <2>3, <2>6 DEF Typed, SinkType
  <2>8. PcType'
    BY <2>1, GotoType DEF Typed
  <2> QED
    BY <2>5, <2>6, <2>7, <2>8, KeptTypes DEF Typed
<1>2. CASE SubmitNoise(t)
  <2>1. UNCHANGED <<producerVars, batchVars, waitVars, wakeVars, sinkVars>>
    BY <1>2 DEF SubmitNoise
  <2>2. CASE "import" \in SinkFaults
    <3>1. HandType'
      <4>1. /\ hand' = [hand EXCEPT ![t] = EmptyHand]
            /\ flushing' = [flushing EXCEPT ![t] = {}]
            /\ inserted' = [inserted EXCEPT ![t] = FALSE]
        BY <1>2, <2>2 DEF SubmitNoise
      <4> QED
        BY <4>1, EmptyBatches DEF Typed, HandType
    <3>2. Goto(t, IF t = Writer THEN "dead" ELSE "close")
      BY <1>2, <2>2 DEF SubmitNoise
    <3>3. PcType'
      BY <3>2, GotoType DEF Typed
    <3> QED
      BY <2>1, <3>1, <3>3, KeptTypes DEF Typed
  <2>3. CASE "import" \notin SinkFaults
    <3>1. Goto(t, "sync") /\ UNCHANGED <<hand, flushing, inserted>>
      BY <1>2, <2>3 DEF SubmitNoise
    <3> QED
      BY <2>1, <3>1, MoveTypes, KeptTypes DEF Typed
  <2> QED
    BY <2>2, <2>3
<1>3. CASE SyncSink(t)
  <2>1. UNCHANGED <<producerVars, batchVars, hand, flushing, inserted, waitVars, wakeVars, sinkOpen,
                    dropped, failed, overrun>> /\ FlushSink /\ Goto(t, "commit")
    BY <1>3 DEF SyncSink
  <2>2. SinkType'
    BY <2>1, FlushSinkType DEF Typed, SinkType
  <2> QED
    BY <2>1, <2>2, MoveTypes, KeptTypes DEF Typed
<1>4. CASE CommitQuietly(t)
  <2>1. UNCHANGED <<producerVars, batchVars, waitVars, callback, wakeFired, crossFires, timers, woken,
                    sinkVars>> /\ FlushEnd(t) /\ Goto(t, "next")
    BY <1>4 DEF CommitQuietly
  <2>2. /\ committedRx' \in [Cycles -> SUBSET Rxs]
        /\ tracked' \subseteq Cycles
        /\ crossLeft' \in [Cycles -> Nat]
    BY <1>0, <1>4, TimeoutsAssumption DEF CommitQuietly, Committed, Typed, WakeType
  <2>3. WakeType'
    BY <2>1, <2>2 DEF Typed, WakeType
  <2>4. HandType' /\ PcType'
    BY <2>1, FlushEndType, GotoType DEF Typed
  <2> QED
    BY <2>1, <2>3, <2>4, KeptTypes DEF Typed
<1>5. CASE CommitAndWake(t)
  <2>1. UNCHANGED <<producerVars, batchVars, hand, flushing, inserted, waitVars, callback, crossFires,
                    timers, woken, sinkVars>> /\ Goto(t, "wake")
    BY <1>5 DEF CommitAndWake
  <2>2. /\ committedRx' \in [Cycles -> SUBSET Rxs]
        /\ tracked' \subseteq Cycles
        /\ crossLeft' \in [Cycles -> Nat]
        /\ wakeFired' \subseteq Cycles
    BY <1>0, <1>5 DEF CommitAndWake, Untracked, Typed, WakeType
  <2>3. WakeType'
    BY <2>1, <2>2 DEF Typed, WakeType
  <2> QED
    BY <2>1, <2>3, MoveTypes, KeptTypes DEF Typed
<1>6. CASE ScheduleWake(t)
  <2>1. UNCHANGED <<producerVars, batchVars, waitVars, callback, committedRx, tracked, crossLeft,
                    wakeFired, crossFires, sinkVars>> /\ FlushEnd(t) /\ Goto(t, "next")
    BY <1>6 DEF ScheduleWake
  <2>2. timers' \in [Cycles -> Nat] /\ woken' \in [Cycles -> Nat]
    BY <1>0, <1>6 DEF ScheduleWake, Typed, WakeType
  <2>3. WakeType'
    BY <2>1, <2>2 DEF Typed, WakeType
  <2>4. HandType' /\ PcType'
    BY <2>1, FlushEndType, GotoType DEF Typed
  <2> QED
    BY <2>1, <2>3, <2>4, KeptTypes DEF Typed
<1> QED
  BY <1>1, <1>2, <1>3, <1>4, <1>5, <1>6 DEF Flush

-----------------------------------------------------------------------------
LEMMA StopperTypes ==
  ASSUME Typed,
         StopSet \/ StopNotify \/ StopJoined \/ StopCancel \/ StopDrained \/ CloseSink
  PROVE  Typed'
<1> USE DEF WriterStates, StopperStates, FlushStates, Threads, Writer, Stopper
<1>1. CASE StopSet
  <2>1. UNCHANGED <<producerVars, batchVars, hand, flushing, inserted, waitLeft, notified, joinLeft,
                    wakeVars, sinkVars>> /\ stop' = TRUE /\ Goto(Stopper, "notify")
    BY <1>1 DEF StopSet
  <2>2. WaitType'
    BY <2>1 DEF Typed, WaitType
  <2> QED
    BY <2>1, <2>2, MoveTypes, KeptTypes DEF Typed
<1>2. CASE StopNotify
  <2>1. UNCHANGED <<producerVars, batchVars, hand, flushing, inserted, waitLeft, stop, wakeVars,
                    sinkVars>> /\ joinLeft' = JoinTimeout /\ Notify /\ Goto(Stopper, "join")
    BY <1>2 DEF StopNotify
  <2>2. WaitType'
    BY <2>1, TimeoutsAssumption DEF Notify, Typed, WaitType
  <2> QED
    BY <2>1, <2>2, MoveTypes, KeptTypes DEF Typed
<1>3. CASE StopJoined
  <2>1. UNCHANGED <<producerVars, batchVars, hand, flushing, inserted, waitLeft, notified, stop,
                    wakeVars, sinkVars>> /\ joinLeft' = 0 /\ Goto(Stopper, "cancel")
    BY <1>3 DEF StopJoined
  <2>2. WaitType'
    BY <2>1 DEF Typed, WaitType
  <2> QED
    BY <2>1, <2>2, MoveTypes, KeptTypes DEF Typed
<1>4. CASE StopCancel
  <2>1. UNCHANGED <<producerVars, collected, flushing, inserted, waitVars, callback, committedRx,
                    tracked, crossLeft, wakeFired, crossFires, woken,
                    sinkOpen, buffer, durable, dropped, failed>>
    BY <1>4 DEF StopCancel
  <2>2. WakeType'
    BY <1>4, <2>1 DEF StopCancel, Typed, WakeType
  <2>3. BatchType'
    BY <1>4, <2>1, EmptyBatches DEF StopCancel, Typed, BatchType
  <2>4. HandType'
    BY <1>4, <2>1 DEF StopCancel, Leftover, Typed, BatchType, HandType
  <2>5. PcType'
    BY <1>4, GotoType DEF StopCancel, Typed
  <2>6. SinkType'
    <3>1. \A k \in Keys : hand[Writer][k].spots \subseteq Jobs
      BY BatchFields DEF Typed, HandType, Threads
    <3>2. overrun' \subseteq Jobs
      BY <1>4, <3>1 DEF StopCancel, InHands
    <3> QED
      BY <2>1, <3>2 DEF Typed, SinkType
  <2> QED
    BY <2>1, <2>2, <2>3, <2>4, <2>5, <2>6, KeptTypes DEF Typed
<1>5. CASE StopDrained
  <2>1. UNCHANGED <<producerVars, batchVars, hand, flushing, inserted, waitVars, wakeVars, sinkVars>>
        /\ Goto(Stopper, "close")
    BY <1>5 DEF StopDrained
  <2> QED
    BY <2>1, MoveTypes, KeptTypes DEF Typed
<1>6. CASE CloseSink
  <2>1. UNCHANGED <<producerVars, batchVars, hand, flushing, inserted, waitVars, wakeVars,
                    dropped, failed, overrun>>
        /\ FlushSink /\ sinkOpen' = FALSE /\ Goto(Stopper, "closed")
    BY <1>6 DEF CloseSink
  <2>2. SinkType'
    BY <2>1, FlushSinkType DEF Typed, SinkType
  <2> QED
    BY <2>1, <2>2, MoveTypes, KeptTypes DEF Typed
<1> QED
  BY <1>1, <1>2, <1>3, <1>4, <1>5, <1>6

(* Timers and time.  Deadlines stop at zero.                               *)
LEMMA TimeTypes ==
  ASSUME Typed, (\E c \in Cycles : TimerFires(c)) \/ Tick
  PROVE  Typed'
<1>1. ASSUME NEW c \in Cycles, TimerFires(c)
      PROVE  Typed'
  <2>1. UNCHANGED <<producerVars, batchVars, threadVars, waitVars, callback, committedRx, tracked,
                    crossLeft, wakeFired, crossFires, sinkVars>>
    BY <1>1 DEF TimerFires
  <2>2. timers[c] \in Nat /\ woken[c] \in Nat
    BY DEF Typed, WakeType
  <2>3. timers[c] - 1 \in Nat /\ woken[c] + 1 \in Nat
    BY <1>1, <2>2 DEF TimerFires
  <2>4. WakeType'
    BY <1>1, <2>1, <2>3 DEF TimerFires, Typed, WakeType
  <2> QED
    BY <2>1, <2>4, KeptTypes DEF Typed
<1>2. CASE Tick
  <2>1. \A n \in Nat : Less(n) \in Nat
    BY DEF Less
  <2>2. UNCHANGED <<producerVars, collected, threadVars, notified, stop, callback, committedRx,
                    tracked, wakeFired, crossFires, timers, woken, sinkVars>>
    BY <1>2 DEF Tick
  <2>3. BatchType'
    <3>1. \A k \in Keys : [batch[k] EXCEPT !.left = Less(@)] \in Batch
      BY <2>1, BatchFields DEF Typed, BatchType
    <3> QED
      BY <1>2, <2>2, <3>1 DEF Tick, Typed, BatchType
  <2>4. WaitType'
    BY <1>2, <2>1, <2>2 DEF Tick, Typed, WaitType
  <2>5. WakeType'
    BY <1>2, <2>1, <2>2 DEF Tick, Typed, WakeType
  <2> QED
    BY <2>2, <2>3, <2>4, <2>5, KeptTypes DEF Typed
<1> QED
  BY <1>1, <1>2

(* Every variable keeps its type.                                          *)
LEMMA NextType == Typed /\ [Next]_vars => Typed'
<1> SUFFICES ASSUME Typed, [Next]_vars
             PROVE  Typed'
  OBVIOUS
<1>1. CASE UNCHANGED vars
  BY <1>1, KeptTypes DEF vars, Typed
<1>2. ASSUME NEW t \in Threads, Flush(t)
      PROVE  Typed'
  BY <1>2, FlushTypes
<1>3. Writer \in Threads /\ Stopper \in Threads
  BY DEF Threads
<1>4. CASE Write
  BY <1>2, <1>3, <1>4, WriterTypes DEF Write
<1>5. CASE Stop
  BY <1>2, <1>3, <1>5, StopperTypes DEF Stop
<1> QED
  BY <1>1, <1>4, <1>5, SetupTypes, ProducerTypes, TimeTypes DEF Next

(* TypeOK is an invariant of the batcher for every instance.               *)
THEOREM TypeCorrect == Spec => []TypeOK
<1>1. Init => Typed
  BY InitType
<1>2. Typed /\ [Next]_vars => Typed'
  BY NextType
<1>3. Typed => TypeOK
  BY TypedIsTypeOK
<1> QED
  BY <1>1, <1>2, <1>3, PTL DEF Spec

-----------------------------------------------------------------------------
(***************************************************************************)
(* The wake of a cycle, once.  A cycle's wake is on its way in one of four *)
(* forms: a thread that decided it and is about to schedule it, an entry   *)
(* of the writer's cross-rx backstops, a settle timer, or a call that was  *)
(* made.  _cycle_wake_fired is set when the first form appears, and each   *)
(* form excludes the others.                                               *)
(***************************************************************************)
AtWake(t, c) == pc[t] = "wake" /\ \E k \in flushing[t] : k[1] = c

OneFlush == \A t \in Threads : \A k, l \in flushing[t] : k = l

NoCall(c) == timers[c] = 0 /\ woken[c] = 0

WakeInv ==
  /\ OneFlush
  /\ \A c \in Cycles : timers[c] + woken[c] <= 1
  /\ \A c \in Cycles \ wakeFired :
       NoCall(c) /\ c \notin crossFires /\ \A t \in Threads : ~AtWake(t, c)
  /\ \A c \in crossFires : NoCall(c) /\ \A t \in Threads : ~AtWake(t, c)
  /\ \A t \in Threads, c \in Cycles : AtWake(t, c) => NoCall(c)
  /\ \A t, u \in Threads, c \in Cycles : AtWake(t, c) /\ AtWake(u, c) => t = u

(* A step that decides no wake and starts no flush.                        *)
LEMMA WakeKept ==
  ASSUME Typed, WakeInv, OneFlush',
         UNCHANGED <<wakeFired, timers, woken>>, crossFires' \subseteq crossFires,
         \A t \in Threads, c \in Cycles : AtWake(t, c)' => AtWake(t, c)
  PROVE  WakeInv'
<1>1. crossFires \subseteq Cycles
  BY DEF Typed, WakeType
<1> QED
  BY <1>1 DEF WakeInv, NoCall

(* Outside ScheduleWake and CommitAndWake a thread that moves does not     *)
(* come to stand at a wake.                                                *)
LEMMA ElsewhereKept ==
  ASSUME Typed, WakeInv, NEW t \in Threads, NEW s, s # "wake", Goto(t, s),
         UNCHANGED <<wakeFired, timers, woken>>, crossFires' \subseteq crossFires,
         OneFlush', \A u \in Threads : u # t => flushing'[u] = flushing[u]
  PROVE  WakeInv'
<1>1. \A u \in Threads : pc'[u] = IF u = t THEN s ELSE pc[u]
  BY DEF Goto, Typed, PcType
<1>2. \A u \in Threads, c \in Cycles : AtWake(u, c)' => AtWake(u, c)
  BY <1>1 DEF AtWake
<1> QED
  BY <1>2, WakeKept

LEMMA StillKept ==
  ASSUME Typed, WakeInv, UNCHANGED <<threadVars, wakeFired, timers, woken>>,
         crossFires' \subseteq crossFires
  PROVE  WakeInv'
<1>1. OneFlush'
  BY DEF threadVars, WakeInv, OneFlush
<1>2. \A t \in Threads, c \in Cycles : AtWake(t, c)' => AtWake(t, c)
  BY DEF threadVars, AtWake
<1> QED
  BY <1>1, <1>2, WakeKept DEF threadVars

LEMMA FlushEnds ==
  ASSUME Typed, WakeInv, NEW t \in Threads, FlushEnd(t)
  PROVE  OneFlush' /\ \A u \in Threads : flushing'[u] = IF u = t THEN {} ELSE flushing[u]
<1>1. \A u \in Threads : flushing'[u] = IF u = t THEN {} ELSE flushing[u]
  BY DEF FlushEnd, Typed, HandType
<1> QED
  BY <1>1 DEF WakeInv, OneFlush

LEMMA FlushKeepsWakeInv ==
  ASSUME ExpectedRx # {}, Typed, WakeInv, NEW t \in Threads, Flush(t)
  PROVE  WakeInv'
<1>1. CASE SubmitSpots(t)
  <2>1. PICK k \in InHand(t) : /\ flushing' = [flushing EXCEPT ![t] = {k}]
                               /\ \E s \in {"noise", "sync"} : Goto(t, s)
    BY <1>1 DEF SubmitSpots
  <2>2. \A u \in Threads : flushing'[u] = IF u = t THEN {k} ELSE flushing[u]
    BY <2>1 DEF Typed, HandType
  <2>3. OneFlush'
    BY <2>2 DEF WakeInv, OneFlush
  <2>4. UNCHANGED <<wakeFired, timers, woken, crossFires>>
    BY <1>1 DEF SubmitSpots, wakeVars
  <2> QED
    BY <2>1, <2>2, <2>3, <2>4, ElsewhereKept
<1>2. CASE SubmitNoise(t)
  <2>1. UNCHANGED <<wakeFired, timers, woken, crossFires>>
    BY <1>2 DEF SubmitNoise, wakeVars
  <2>2. CASE "import" \in SinkFaults
    <3>1. flushing' = [flushing EXCEPT ![t] = {}]
      BY <1>2, <2>2 DEF SubmitNoise
    <3>2. \E s \in {"dead", "close"} : Goto(t, s)
      BY <1>2, <2>2 DEF SubmitNoise
    <3>3. \A u \in Threads : flushing'[u] = IF u = t THEN {} ELSE flushing[u]
      BY <3>1 DEF Typed, HandType
    <3>4. OneFlush'
      BY <3>3 DEF WakeInv, OneFlush
    <3> QED
      BY <2>1, <3>2, <3>3, <3>4, ElsewhereKept
  <2>3. CASE "import" \notin SinkFaults
    <3>1. Goto(t, "sync") /\ flushing' = flushing
      BY <1>2, <2>3 DEF SubmitNoise
    <3>2. OneFlush'
      BY <3>1 DEF WakeInv, OneFlush
    <3> QED
      BY <2>1, <3>1, <3>2, ElsewhereKept
  <2> QED
    BY <2>2, <2>3
<1>3. CASE SyncSink(t)
  <2>1. Goto(t, "commit") /\ flushing' = flushing
    BY <1>3 DEF SyncSink
  <2>2. UNCHANGED <<wakeFired, timers, woken, crossFires>>
    BY <1>3 DEF SyncSink, wakeVars
  <2>3. OneFlush'
    BY <2>1 DEF WakeInv, OneFlush
  <2> QED
    BY <2>1, <2>2, <2>3, ElsewhereKept
<1>4. CASE CommitQuietly(t)
  <2>1. Goto(t, "next") /\ FlushEnd(t) /\ UNCHANGED <<wakeFired, timers, woken, crossFires>>
    BY <1>4 DEF CommitQuietly
  <2> QED
    BY <2>1, FlushEnds, ElsewhereKept
<1>5. CASE CommitAndWake(t)
  <2>1. PICK k \in flushing[t] : /\ k[1] \notin wakeFired
                                 /\ wakeFired' = wakeFired \cup {k[1]}
    BY <1>5 DEF CommitAndWake, WakeDecided
  <2>2. UNCHANGED <<flushing, timers, woken, crossFires>>
    BY <1>5 DEF CommitAndWake
  <2>3. \A u \in Threads : pc'[u] = IF u = t THEN "wake" ELSE pc[u]
    BY <1>5 DEF CommitAndWake, Goto, Typed, PcType
  <2>4. k[1] \in Cycles
    BY <2>1, KeyParts DEF Typed, HandType
  <2>5. \A c \in Cycles : AtWake(t, c)' => c = k[1]
    BY <2>1, <2>2 DEF AtWake, WakeInv, OneFlush
  <2>6. \A u \in Threads, c \in Cycles : u # t => (AtWake(u, c)' <=> AtWake(u, c))
    BY <2>2, <2>3 DEF AtWake
  <2>7. NoCall(k[1]) /\ k[1] \notin crossFires /\ \A u \in Threads : ~AtWake(u, k[1])
    BY <2>1, <2>4 DEF WakeInv
  <2>8. OneFlush'
    BY <2>2 DEF WakeInv, OneFlush
  <2>9. crossFires \subseteq Cycles
    BY DEF Typed, WakeType
  <2>10. pc[t] # "wake"
    BY <1>5 DEF CommitAndWake
  <2>11. \A c \in Cycles : ~AtWake(t, c)
    BY <2>10 DEF AtWake
  <2>12. /\ \A c \in Cycles : timers'[c] + woken'[c] <= 1
         /\ \A c \in Cycles \ wakeFired' :
              NoCall(c)' /\ c \notin crossFires' /\ \A u \in Threads : ~AtWake(u, c)'
    BY <2>1, <2>2, <2>5, <2>6 DEF WakeInv, NoCall
  <2>13. \A c \in crossFires' : NoCall(c)' /\ \A u \in Threads : ~AtWake(u, c)'
    BY <2>2, <2>5, <2>6, <2>7, <2>9 DEF WakeInv, NoCall
  <2>14. \A u \in Threads, c \in Cycles : AtWake(u, c)' => NoCall(c)'
    BY <2>2, <2>5, <2>6, <2>7 DEF WakeInv, NoCall
  <2>15. \A u, v \in Threads, c \in Cycles : AtWake(u, c)' /\ AtWake(v, c)' => u = v
    BY <2>5, <2>6, <2>7 DEF WakeInv
  <2> QED
    BY <2>8, <2>12, <2>13, <2>14, <2>15 DEF WakeInv
<1>6. CASE ScheduleWake(t)
  <2>1. PICK k \in flushing[t] :
          \/ timers' = [timers EXCEPT ![k[1]] = @ + 1] /\ woken' = woken
          \/ woken' = [woken EXCEPT ![k[1]] = @ + 1] /\ timers' = timers
    BY <1>6 DEF ScheduleWake
  <2>2. k[1] \in Cycles
    BY <2>1, KeyParts DEF Typed, HandType
  <2>3. UNCHANGED <<wakeFired, crossFires>> /\ FlushEnd(t)
    BY <1>6 DEF ScheduleWake
  <2>4. AtWake(t, k[1])
    BY <1>6, <2>1 DEF ScheduleWake, AtWake
  <2>5. /\ NoCall(k[1]) /\ k[1] \in wakeFired /\ k[1] \notin crossFires
        /\ \A u \in Threads : AtWake(u, k[1]) => u = t
    BY <2>2, <2>4 DEF WakeInv
  <2>6. \A u \in Threads, c \in Cycles : AtWake(u, c)' => AtWake(u, c) /\ u # t
    <3>1. \A u \in Threads : pc'[u] = IF u = t THEN "next" ELSE pc[u]
      BY <1>6 DEF ScheduleWake, Goto, Typed, PcType
    <3> QED
      BY <2>3, <3>1, FlushEnds DEF AtWake
  <2>7. \A c \in Cycles : c # k[1] => timers'[c] = timers[c] /\ woken'[c] = woken[c]
    BY <2>1 DEF Typed, WakeType
  <2>8. timers'[k[1]] + woken'[k[1]] = 1
    BY <2>1, <2>2, <2>5 DEF NoCall, Typed, WakeType
  <2>9. OneFlush'
    BY <2>3, FlushEnds
  <2>10. crossFires \subseteq Cycles
    BY DEF Typed, WakeType
  <2>11. \A c \in Cycles : timers'[c] + woken'[c] <= 1
    BY <2>7, <2>8 DEF WakeInv
  <2>12. \A c \in Cycles : c # k[1] /\ NoCall(c) => NoCall(c)'
    BY <2>7 DEF NoCall
  <2> QED
    BY <2>3, <2>5, <2>6, <2>9, <2>10, <2>11, <2>12 DEF WakeInv
<1> QED
  BY <1>1, <1>2, <1>3, <1>4, <1>5, <1>6 DEF Flush

LEMMA WriterKeepsWakeInv ==
  ASSUME Typed, WakeInv,
         \/ WriterCheck \/ WriterCollect \/ WriterWait \/ WriterResume
         \/ (\E c \in Cycles : WriterCrossWake(c)) \/ WriterRoundDone
  PROVE  WakeInv'
<1> DEFINE Moves(s) == /\ Goto(Writer, s) /\ flushing' = flushing
                       /\ UNCHANGED <<wakeFired, timers, woken, crossFires>>
<1>1. ASSUME \E s \in {"exited", "scan", "wait", "check"} : Moves(s)
      PROVE  WakeInv'
  <2>1. OneFlush'
    BY <1>1 DEF WakeInv, OneFlush
  <2>2. Writer \in Threads
    BY DEF Threads
  <2> QED
    BY <1>1, <2>1, <2>2, ElsewhereKept
<1>2. CASE WriterCheck
  BY <1>1, <1>2 DEF WriterCheck, wakeVars
<1>3. CASE WriterCollect
  <2>1. /\ wakeFired' = wakeFired \cup CrossExpired
        /\ crossFires' = CrossExpired
        /\ UNCHANGED <<flushing, timers, woken>>
        /\ Goto(Writer, "next")
    BY <1>3 DEF WriterCollect, BackstopMarked
  <2>2. CrossExpired \subseteq Cycles \ wakeFired
    BY DEF CrossExpired, Typed, WakeType
  <2>3. \A t \in Threads : pc'[t] = "wake" => pc[t] = "wake"
    BY <2>1 DEF Goto, Threads, Typed, PcType
  <2>4. \A t \in Threads, c \in Cycles : AtWake(t, c)' => AtWake(t, c)
    BY <2>1, <2>3 DEF AtWake
  <2>5. \A c \in Cycles : NoCall(c)' <=> NoCall(c)
    BY <2>1 DEF NoCall
  <2>6. OneFlush'
    BY <2>1 DEF WakeInv, OneFlush
  <2>7. \A c \in Cycles : timers'[c] + woken'[c] <= 1
    BY <2>1 DEF WakeInv
  <2> QED
    BY <2>1, <2>2, <2>4, <2>5, <2>6, <2>7 DEF WakeInv
<1>4. CASE WriterWait
  BY <1>1, <1>4 DEF WriterWait, wakeVars
<1>5. CASE WriterResume
  BY <1>1, <1>5 DEF WriterResume, wakeVars
<1>6. ASSUME NEW c \in Cycles, WriterCrossWake(c)
      PROVE  WakeInv'
  <2>1. /\ c \in crossFires /\ crossFires' = crossFires \ {c}
        /\ UNCHANGED <<pc, flushing, wakeFired>>
    BY <1>6 DEF WriterCrossWake, threadVars
  <2>2. /\ NoCall(c) /\ c \in wakeFired
        /\ \A t \in Threads : ~AtWake(t, c)
    BY <2>1 DEF WakeInv
  <2>3. /\ timers' \in {timers, [timers EXCEPT ![c] = timers[c] + 1]}
        /\ woken' \in {woken, [woken EXCEPT ![c] = woken[c] + 1]}
        /\ timers' = timers \/ woken' = woken
    BY <1>6 DEF WriterCrossWake
  <2>4. \A d \in Cycles : d # c => timers'[d] = timers[d] /\ woken'[d] = woken[d]
    BY <2>3 DEF Typed, WakeType
  <2>5. timers'[c] + woken'[c] <= 1
    BY <2>2, <2>3 DEF NoCall, Typed, WakeType
  <2>6. \A t \in Threads, d \in Cycles : AtWake(t, d)' <=> AtWake(t, d)
    BY <2>1 DEF AtWake
  <2>7. \A d \in Cycles : d # c => (NoCall(d)' <=> NoCall(d))
    BY <2>4 DEF NoCall
  <2>8. OneFlush'
    BY <2>1 DEF WakeInv, OneFlush
  <2>9. crossFires \subseteq Cycles
    BY DEF Typed, WakeType
  <2>10. \A d \in Cycles : timers'[d] + woken'[d] <= 1
    BY <2>4, <2>5 DEF WakeInv
  <2> QED
    BY <2>1, <2>2, <2>6, <2>7, <2>8, <2>9, <2>10 DEF WakeInv
<1>7. CASE WriterRoundDone
  BY <1>1, <1>7 DEF WriterRoundDone, wakeVars
<1> QED
  BY <1>2, <1>3, <1>4, <1>5, <1>6, <1>7

LEMMA StopperKeepsWakeInv ==
  ASSUME Typed, WakeInv,
         StopSet \/ StopNotify \/ StopJoined \/ StopCancel \/ StopDrained \/ CloseSink
  PROVE  WakeInv'
<1>1. CASE StopCancel
  <2>1. /\ timers' = [c \in Cycles |-> 0]
        /\ UNCHANGED <<flushing, wakeFired, crossFires, woken>>
        /\ Goto(Stopper, "next")
    BY <1>1 DEF StopCancel
  <2>2. \A t \in Threads : pc'[t] = "wake" => pc[t] = "wake"
    BY <2>1 DEF Goto, Threads, Typed, PcType
  <2>3. \A t \in Threads, c \in Cycles : AtWake(t, c)' => AtWake(t, c)
    BY <2>1, <2>2 DEF AtWake
  <2>4. \A c \in Cycles : /\ timers'[c] + woken'[c] <= 1
                          /\ NoCall(c) => NoCall(c)'
    BY <2>1 DEF NoCall, WakeInv, Typed, WakeType
  <2>5. OneFlush'
    BY <2>1 DEF WakeInv, OneFlush
  <2>6. crossFires \subseteq Cycles
    BY DEF Typed, WakeType
  <2> QED
    BY <2>1, <2>3, <2>4, <2>5, <2>6 DEF WakeInv
<1>2. CASE StopSet \/ StopNotify \/ StopJoined \/ StopDrained \/ CloseSink
  <2>1. UNCHANGED <<flushing, wakeFired, timers, woken, crossFires>>
    BY <1>2 DEF StopSet, StopNotify, StopJoined, StopDrained, CloseSink, wakeVars
  <2>2. \E s \in {"notify", "join", "cancel", "close", "closed"} : Goto(Stopper, s)
    BY <1>2 DEF StopSet, StopNotify, StopJoined, StopDrained, CloseSink
  <2>3. OneFlush'
    BY <2>1 DEF WakeInv, OneFlush
  <2>4. Stopper \in Threads
    BY DEF Threads
  <2> QED
    BY <2>1, <2>2, <2>3, <2>4, ElsewhereKept
<1> QED
  BY <1>1, <1>2

LEMMA TimerKeepsWakeInv ==
  ASSUME Typed, WakeInv, NEW c \in Cycles, TimerFires(c)
  PROVE  WakeInv'
<1>1. /\ timers[c] > 0
      /\ timers' = [timers EXCEPT ![c] = timers[c] - 1]
      /\ woken' = [woken EXCEPT ![c] = woken[c] + 1]
      /\ UNCHANGED <<pc, flushing, wakeFired, crossFires>>
  BY DEF TimerFires, threadVars
<1>2. timers[c] \in Nat /\ woken[c] \in Nat
  BY DEF Typed, WakeType
<1>3. ~NoCall(c)
  BY <1>1, <1>2 DEF NoCall
<1>4. /\ c \in wakeFired /\ c \notin crossFires
      /\ \A t \in Threads : ~AtWake(t, c)
  BY <1>3 DEF WakeInv
<1>5. \A d \in Cycles : d # c => (timers'[d] = timers[d] /\ woken'[d] = woken[d])
  BY <1>1 DEF Typed, WakeType
<1>6. timers'[c] + woken'[c] = timers[c] + woken[c]
  BY <1>1, <1>2 DEF Typed, WakeType
<1>7. \A d \in Cycles : timers'[d] + woken'[d] <= 1
  BY <1>5, <1>6 DEF WakeInv
<1>8. \A d \in Cycles : d # c => (NoCall(d)' <=> NoCall(d))
  BY <1>5 DEF NoCall
<1>9. \A t \in Threads, d \in Cycles : AtWake(t, d)' <=> AtWake(t, d)
  BY <1>1 DEF AtWake
<1>10. OneFlush'
  BY <1>1 DEF WakeInv, OneFlush
<1>11. crossFires \subseteq Cycles
  BY DEF Typed, WakeType
<1> QED
  BY <1>1, <1>4, <1>7, <1>8, <1>9, <1>10, <1>11 DEF WakeInv

LEMMA NextKeepsWakeInv == ExpectedRx # {} /\ Typed /\ WakeInv /\ [Next]_vars => WakeInv'
<1> SUFFICES ASSUME ExpectedRx # {}, Typed, WakeInv, [Next]_vars
             PROVE  WakeInv'
  OBVIOUS
<1>1. ASSUME UNCHANGED <<threadVars, wakeFired, timers, woken, crossFires>>
      PROVE  WakeInv'
  BY <1>1, StillKept
<1>2. CASE UNCHANGED vars
  BY <1>1, <1>2 DEF vars, wakeVars
<1>3. CASE \E r \in Rxs, b \in HighBands, p \in BOOLEAN : SetBandProducible(r, b, p)
  BY <1>1, <1>3 DEF SetBandProducible, wakeVars
<1>4. CASE SetWakeCallback
  BY <1>1, <1>4 DEF SetWakeCallback
<1>5. ASSUME NEW j \in Jobs, Produce(j)
      PROVE  WakeInv'
  BY <1>1, <1>5 DEF Produce, ExpectBand, AddNoise, AddSpots, MarkDone, wakeVars
<1>6. CASE Tick
  BY <1>1, <1>6 DEF Tick
<1>7. ASSUME NEW t \in Threads, Flush(t)
      PROVE  WakeInv'
  BY <1>7, FlushKeepsWakeInv
<1>8. Writer \in Threads /\ Stopper \in Threads
  BY DEF Threads
<1>9. CASE Write
  BY <1>7, <1>8, <1>9, WriterKeepsWakeInv DEF Write
<1>10. CASE Stop
  BY <1>7, <1>8, <1>10, StopperKeepsWakeInv DEF Stop
<1> QED
  BY <1>2, <1>3, <1>4, <1>5, <1>6, <1>9, <1>10, TimerKeepsWakeInv DEF Next

(* With cross-rx sync a cycle wakes the uploader at most once, for any     *)
(* number of receivers, whatever faults the sink has and whichever of the  *)
(* last commit, the backstop and stop()'s flushes comes first.             *)
THEOREM WakesOnce == Spec => []WakeOncePerCycle
<1>1. CASE ExpectedRx = {}
  <2>1. WakeOncePerCycle
    BY <1>1 DEF WakeOncePerCycle
  <2> QED
    BY <2>1, PTL
<1>2. CASE ExpectedRx # {}
  <2>1. Init => WakeInv
    BY DEF Init, WakeInv, OneFlush, AtWake, NoCall, Threads
  <2>2. Init => Typed
    BY InitType
  <2>3. Typed /\ WakeInv /\ [Next]_vars => (Typed /\ WakeInv)'
    BY <1>2, NextType, NextKeepsWakeInv
  <2>4. WakeInv => WakeOncePerCycle
    BY DEF WakeInv, WakeOncePerCycle
  <2> QED
    BY <2>1, <2>2, <2>3, <2>4, PTL DEF Spec
<1> QED
  BY <1>1, <1>2
-----------------------------------------------------------------------------
(***************************************************************************)
(* A job's spots in one place at a time.  The places are disjoint because  *)
(* each step takes spots out of one place before it puts them into another *)
(* (Moved), because a batch holds only the spots of its own key, so that   *)
(* taking some keys' batches splits a place cleanly (OwnKeys), and because *)
(* a job hands over once, when none of its spots is anywhere (Handed).     *)
(***************************************************************************)
Handed ==
  /\ \A i \in 1 .. 6 : Places[i] \subseteq handed
  /\ \A j \in handed : jobPc[j] \in {"added", "done"}

OwnKeys ==
  /\ \A k \in Keys : batch[k].spots \subseteq JobsOf(k)
  /\ \A t \in Threads, k \in Keys : hand[t][k].spots \subseteq JobsOf(k)

SpotInv == Handed /\ OwnKeys /\ NoSpotTwice

LEMMA PlacesAre ==
  /\ DOMAIN Places = 1 .. 6 /\ Places \in [1 .. 6 -> {Places[i] : i \in 1 .. 6}]
  /\ Places[1] = InBatches /\ Places[2] = InHands(Writer) /\ Places[3] = InHands(Stopper)
  /\ Places[4] = buffer /\ Places[5] = durable /\ Places[6] = dropped
BY DEF Places

LEMMA Inside ==
  /\ \A j : j \in InBatches <=> \E k \in Keys : j \in batch[k].spots
  /\ \A t, j : j \in InHands(t) <=> \E k \in Keys : j \in hand[t][k].spots
BY DEF InBatches, InHands

LEMMA KeysApart ==
  ASSUME NEW k \in Keys, NEW l \in Keys, k # l
  PROVE  JobsOf(k) \cap JobsOf(l) = {}
BY DEF JobsOf

(* Spots that leave the places they were in and enter one.                 *)
LEMMA Moved ==
  ASSUME NoSpotTwice, NEW M, NEW p \in 1 .. 6,
         Places'[p] \subseteq Places[p] \cup M,
         \A i \in 1 .. 6 : i # p => Places'[i] \subseteq Places[i] \ M
  PROVE  NoSpotTwice'
<1>1. DOMAIN Places = 1 .. 6 /\ DOMAIN Places' = 1 .. 6
  BY DEF Places
<1>2. \A a, b \in 1 .. 6 : a # b => Places[a] \cap Places[b] = {}
  BY <1>1 DEF NoSpotTwice
<1>3. ASSUME NEW a \in 1 .. 6, NEW b \in 1 .. 6, a # b
      PROVE  Places'[a] \cap Places'[b] = {}
  <2>1. CASE a = p
    BY <1>2, <1>3, <2>1
  <2>2. CASE b = p
    BY <1>2, <1>3, <2>2
  <2>3. CASE a # p /\ b # p
    BY <1>2, <1>3, <2>3
  <2> QED
    BY <2>1, <2>2, <2>3
<1> QED
  BY <1>1, <1>3 DEF NoSpotTwice

(* The same, with what it does to the history.                             *)
LEMMA MovedHanded ==
  ASSUME Typed, SpotInv, OwnKeys', NEW M, NEW p \in 1 .. 6, M \subseteq handed,
         UNCHANGED handed, \A j \in handed : jobPc'[j] = jobPc[j] \/ jobPc'[j] = "done",
         Places'[p] \subseteq Places[p] \cup M,
         \A i \in 1 .. 6 : i # p => Places'[i] \subseteq Places[i] \ M
  PROVE  SpotInv'
<1>1. NoSpotTwice'
  BY Moved DEF SpotInv
<1>2. \A i \in 1 .. 6 : Places'[i] \subseteq handed'
  BY DEF SpotInv, Handed
<1>3. \A j \in handed' : jobPc'[j] \in {"added", "done"}
  BY DEF SpotInv, Handed
<1> QED
  BY <1>1, <1>2, <1>3 DEF SpotInv, Handed

(* A step that only lets go of spots, or does not touch them.              *)
LEMMA NoneMoved ==
  ASSUME Typed, SpotInv, OwnKeys',
         UNCHANGED handed, \A j \in handed : jobPc'[j] = jobPc[j] \/ jobPc'[j] = "done",
         \A i \in 1 .. 6 : Places'[i] \subseteq Places[i]
  PROVE  SpotInv'
<1>1. DOMAIN Places = 1 .. 6 /\ DOMAIN Places' = 1 .. 6
  BY DEF Places
<1>2. NoSpotTwice'
  BY <1>1 DEF SpotInv, NoSpotTwice
<1>3. \A i \in 1 .. 6 : Places'[i] \subseteq handed'
  BY DEF SpotInv, Handed
<1>4. \A j \in handed' : jobPc'[j] \in {"added", "done"}
  BY DEF SpotInv, Handed
<1> QED
  BY <1>2, <1>3, <1>4 DEF SpotInv, Handed

-----------------------------------------------------------------------------
(* Producers: only AddSpots touches spots, and they were nowhere before.   *)
LEMMA ProducerKeepsSpots ==
  ASSUME Typed, SpotInv, NEW j \in Jobs, Produce(j)
  PROVE  SpotInv'
<1> USE JobFields
<1>1. UNCHANGED <<hand, sinkVars>>
  BY DEF Produce, ExpectBand, AddNoise, AddSpots, MarkDone, threadVars
<1>2. \A t : InHands(t)' = InHands(t)
  BY <1>1 DEF InHands
<1>3. \A i \in 2 .. 6 : Places'[i] = Places[i]
  BY <1>1, <1>2 DEF Places, sinkVars
<1>4. /\ BatchForAdd(Key(j)).spots \subseteq batch[Key(j)].spots
      /\ BatchForAdd(Key(j)) \in Batch /\ batch[Key(j)] \in Batch
  BY EmptyBatches, TimeoutsAssumption DEF BatchForAdd, NewBatch, NoBatch, Typed, BatchType
<1>5. \A i \in handed : i \in Jobs
  BY DEF Typed, ProducerType
<1>6. CASE ExpectBand(j) \/ AddNoise(j) \/ MarkDone(j)
  <2>1. \A k \in Keys : batch'[k].spots \subseteq batch[k].spots
    <3>1. CASE ExpectBand(j)
      <4>1. PICK b : /\ b = IF batch[Key(j)].open THEN batch[Key(j)] ELSE
                              [NewBatch(BackstopSec) EXCEPT !.expected = ExpectedBandsForCycle(j.cycle, j.rx)]
                     /\ batch' = [batch EXCEPT ![Key(j)] = [b EXCEPT !.expected = @ \cup {j.band}]]
        BY <3>1 DEF ExpectBand
      <4>2. b.spots \subseteq batch[Key(j)].spots /\ [b EXCEPT !.expected = @ \cup {j.band}].spots = b.spots
        BY <1>4, <4>1 DEF NewBatch, NoBatch, Batch
      <4> QED
        BY <4>1, <4>2 DEF Typed, BatchType
    <3>2. CASE AddNoise(j)
      <4>1. batch' = [batch EXCEPT ![Key(j)] = [BatchForAdd(Key(j)) EXCEPT !.noise = TRUE]]
        BY <3>2 DEF AddNoise
      <4>2. [BatchForAdd(Key(j)) EXCEPT !.noise = TRUE].spots = BatchForAdd(Key(j)).spots
        BY <1>4 DEF Batch
      <4> QED
        BY <1>4, <4>1, <4>2 DEF Typed, BatchType
    <3>3. CASE MarkDone(j)
      BY <1>4, <3>3 DEF MarkDone, Typed, BatchType, Batch
    <3> QED
      BY <1>6, <3>1, <3>2, <3>3
  <2>2. InBatches' \subseteq InBatches
    BY <2>1 DEF InBatches
  <2>3. \A i \in 1 .. 6 : Places'[i] \subseteq Places[i]
    BY <1>3, <2>2, PlacesAre DEF Places
  <2>4. OwnKeys'
    BY <1>1, <2>1 DEF SpotInv, OwnKeys
  <2>5. /\ UNCHANGED handed
        /\ j \in handed => jobPc'[j] = "done" \/ jobPc'[j] = jobPc[j]
        /\ \A i \in Jobs : i # j => jobPc'[i] = jobPc[i]
    BY <1>6 DEF ExpectBand, AddNoise, MarkDone, SpotInv, Handed, Typed, ProducerType
  <2> QED
    BY <1>5, <2>3, <2>4, <2>5, NoneMoved
<1>7. CASE AddSpots(j)
  <2>1. /\ handed' = handed \cup {j}
        /\ batch' = [batch EXCEPT ![Key(j)] = [BatchForAdd(Key(j)) EXCEPT !.spots = @ \cup {j}]]
        /\ \A i \in Jobs : jobPc'[i] = IF i = j THEN "added" ELSE jobPc[i]
    BY <1>7 DEF AddSpots, Typed, ProducerType
  <2>2. j \notin handed
    BY <1>7 DEF AddSpots, SpotInv, Handed
  <2>3. \A i \in 1 .. 6 : j \notin Places[i]
    BY <2>2 DEF SpotInv, Handed
  <2>4. \A k \in Keys : batch'[k].spots \subseteq batch[k].spots \cup {j}
    <3>1. [BatchForAdd(Key(j)) EXCEPT !.spots = @ \cup {j}].spots = BatchForAdd(Key(j)).spots \cup {j}
      BY <1>4 DEF Batch
    <3> QED
      BY <1>4, <2>1, <3>1 DEF Typed, BatchType
  <2>5. \A k \in Keys : k # Key(j) => batch'[k] = batch[k]
    BY <2>1 DEF Typed, BatchType
  <2>6. j \in JobsOf(Key(j))
    BY DEF JobsOf
  <2>7. OwnKeys'
    <3>1. \A k \in Keys : batch'[k].spots \subseteq JobsOf(k)
      BY <2>4, <2>5, <2>6 DEF SpotInv, OwnKeys
    <3> QED
      BY <1>1, <3>1 DEF SpotInv, OwnKeys
  <2>8. Places'[1] \subseteq Places[1] \cup {j}
    BY <2>4 DEF Places, InBatches
  <2>9. \A i \in 1 .. 6 : i # 1 => Places'[i] \subseteq Places[i] \ {j}
    <3>1. \A i \in 1 .. 6 : i # 1 => i \in 2 .. 6
      OBVIOUS
    <3>2. \A i \in 1 .. 6 : i # 1 => Places'[i] = Places[i]
      BY <1>3, <3>1
    <3> QED
      BY <2>3, <3>2, Zenon
  <2>10. NoSpotTwice'
    <3>1. NoSpotTwice /\ 1 \in 1 .. 6
      BY DEF SpotInv
    <3> QED
      BY <2>8, <2>9, <3>1, Moved, Zenon
  <2>11. Handed'
    <3>1. \A i \in 1 .. 6 : Places'[i] \subseteq handed'
      BY <2>1, <2>8, <2>9 DEF SpotInv, Handed
    <3>2. \A i \in handed' : jobPc'[i] \in {"added", "done"}
      BY <1>5, <2>1 DEF SpotInv, Handed
    <3> QED
      BY <3>1, <3>2 DEF Handed
  <2> QED
    BY <2>7, <2>10, <2>11 DEF SpotInv
<1> QED
  BY <1>6, <1>7 DEF Produce

(* Steps that change neither batches nor hands nor the sink.               *)
LEMMA UntouchedSpots ==
  ASSUME Typed, SpotInv, UNCHANGED <<jobPc, handed, hand, buffer, durable, dropped>>,
         \A k \in Keys : batch'[k].spots = batch[k].spots
  PROVE  SpotInv'
<1>1. InBatches' = InBatches /\ \A t : InHands(t)' = InHands(t)
  BY DEF InBatches, InHands
<1>2. \A i \in 1 .. 6 : Places'[i] \subseteq Places[i]
  BY <1>1 DEF Places
<1>3. OwnKeys'
  BY DEF SpotInv, OwnKeys
<1> QED
  BY <1>2, <1>3, NoneMoved

(* A thread that lets go of what it has in hand.                           *)
LEMMA HandShrinks ==
  ASSUME Typed, SpotInv, UNCHANGED <<jobPc, handed, batch, buffer, durable, dropped>>,
         \A t \in Threads, k \in Keys : hand'[t][k].spots \subseteq hand[t][k].spots
  PROVE  SpotInv'
<1>1. InBatches' = InBatches /\ \A t \in Threads : InHands(t)' \subseteq InHands(t)
  BY DEF InBatches, InHands
<1>2. Writer \in Threads /\ Stopper \in Threads
  BY DEF Threads
<1>3. \A i \in 1 .. 6 : Places'[i] \subseteq Places[i]
  BY <1>1, <1>2 DEF Places
<1>4. OwnKeys'
  BY DEF SpotInv, OwnKeys
<1> QED
  BY <1>3, <1>4, NoneMoved

-----------------------------------------------------------------------------
(* Collecting splits the batches by key between the writer and the table.  *)
LEMMA CollectKeepsSpots ==
  ASSUME Typed, SpotInv, WriterCollect
  PROVE  SpotInv'
<1>1. /\ UNCHANGED <<jobPc, handed, buffer, durable, dropped>>
      /\ hand' = [hand EXCEPT ![Writer] = [k \in Keys |-> IF Ready(k) THEN batch[k] ELSE NoBatch]]
      /\ batch' = [k \in Keys |-> IF Ready(k) THEN NoBatch ELSE batch[k]]
  BY DEF WriterCollect, Uncollected, producerVars, sinkVars
<1>2. /\ \A k \in Keys : hand'[Writer][k] = IF Ready(k) THEN batch[k] ELSE NoBatch
      /\ \A k \in Keys : hand'[Stopper][k] = hand[Stopper][k]
      /\ \A k \in Keys : batch'[k] = IF Ready(k) THEN NoBatch ELSE batch[k]
  BY <1>1 DEF Typed, HandType, Threads, Writer, Stopper
<1>3. NoBatch.spots = {}
  BY DEF NoBatch
<1>4. OwnKeys'
  <2>1. \A k \in Keys : batch'[k].spots \subseteq JobsOf(k)
    BY <1>2, <1>3 DEF SpotInv, OwnKeys
  <2>2. \A k \in Keys : hand'[Writer][k].spots \subseteq JobsOf(k)
    BY <1>2, <1>3 DEF SpotInv, OwnKeys
  <2>3. \A k \in Keys : hand'[Stopper][k].spots \subseteq JobsOf(k)
    BY <1>2 DEF SpotInv, OwnKeys, Threads
  <2> QED
    BY <2>1, <2>2, <2>3 DEF OwnKeys, Threads
<1> DEFINE M == UNION {batch[k].spots : k \in {q \in Keys : Ready(q)}}
<1>5. \A j : j \in M <=> \E k \in Keys : Ready(k) /\ j \in batch[k].spots
  OBVIOUS
<1> HIDE DEF M
<1>6. InHands(Writer)' \subseteq M
  BY <1>2, <1>3, <1>5 DEF InHands
<1>7. M \subseteq InBatches
  BY <1>5, Inside
<1>8. InBatches' \subseteq InBatches \ M
  <2>1. ASSUME NEW j \in InBatches'
        PROVE  j \in InBatches \ M
    <3>1. PICK k \in Keys : j \in batch'[k].spots
      BY <2>1 DEF InBatches
    <3>2. ~Ready(k) /\ j \in batch[k].spots
      BY <1>2, <1>3, <3>1
    <3>3. \A l \in Keys : j \in batch[l].spots => l = k
      BY <3>2, KeysApart DEF SpotInv, OwnKeys
    <3> QED
      BY <1>5, <3>2, <3>3, Inside
  <2> QED
    BY <2>1
<1>9. InHands(Stopper)' = InHands(Stopper)
  BY <1>2 DEF InHands
<1>10. InHands(Stopper) \cap M = {} /\ buffer \cap M = {} /\ durable \cap M = {} /\ dropped \cap M = {}
  <2>1. \A i \in {3, 4, 5, 6} : Places[1] \cap Places[i] = {}
    BY PlacesAre DEF SpotInv, NoSpotTwice
  <2> QED
    BY <1>7, <2>1, PlacesAre
<1>11. /\ Places'[1] = InBatches' /\ Places'[2] = InHands(Writer)' /\ Places'[3] = InHands(Stopper)'
       /\ Places'[4] = buffer' /\ Places'[5] = durable' /\ Places'[6] = dropped'
  BY DEF Places
<1>12. \A i \in 1 .. 6 : i # 2 => Places'[i] \subseteq Places[i] \ M
  <2>1. \A i \in {1, 3, 4, 5, 6} : Places'[i] \subseteq Places[i] \ M
    BY <1>1, <1>8, <1>9, <1>10, <1>11, PlacesAre
  <2> QED
    BY <2>1
<1>13. 2 \in 1 .. 6 /\ Places'[2] \subseteq Places[2] \cup M
  BY <1>6, <1>11
<1>14. M \subseteq handed
  BY <1>7, PlacesAre DEF SpotInv, Handed
<1>15. \A j \in handed : jobPc'[j] = jobPc[j] \/ jobPc'[j] = "done"
  BY <1>1
<1>16. UNCHANGED handed
  BY <1>1
<1> QED
  BY <1>4, <1>12, <1>13, <1>14, <1>15, <1>16, MovedHanded, Zenon

(* stop() takes all that is left.                                          *)
LEMMA CancelKeepsSpots ==
  ASSUME Typed, SpotInv, StopCancel
  PROVE  SpotInv'
<1>1. /\ UNCHANGED <<jobPc, handed, buffer, durable, dropped>>
      /\ \A k \in Keys : hand'[Stopper][k] = batch[k] /\ hand'[Writer][k] = hand[Writer][k]
      /\ \A k \in Keys : batch'[k] = NoBatch
  BY DEF StopCancel, Leftover, producerVars, sinkVars, Typed, HandType, BatchType, Threads, Writer,
         Stopper
<1>2. NoBatch.spots = {}
  BY DEF NoBatch
<1>3. OwnKeys'
  BY <1>1, <1>2 DEF SpotInv, OwnKeys, Threads
<1>4. InHands(Stopper)' = InBatches /\ InHands(Writer)' = InHands(Writer) /\ InBatches' = {}
  BY <1>1, <1>2 DEF InHands, InBatches
<1>5. \A i \in {2, 4, 5, 6} : Places[i] \cap Places[1] = {}
  BY PlacesAre DEF SpotInv, NoSpotTwice
<1>6. /\ Places'[1] = InBatches' /\ Places'[2] = InHands(Writer)' /\ Places'[3] = InHands(Stopper)'
      /\ Places'[4] = buffer' /\ Places'[5] = durable' /\ Places'[6] = dropped'
  BY DEF Places
<1>7. \A i \in 1 .. 6 : i # 3 => Places'[i] \subseteq Places[i] \ InBatches
  <2>1. \A i \in {1, 2, 4, 5, 6} : Places'[i] \subseteq Places[i] \ InBatches
    BY <1>1, <1>4, <1>5, <1>6, PlacesAre
  <2> QED
    BY <2>1
<1>8. 3 \in 1 .. 6 /\ Places'[3] \subseteq Places[3] \cup InBatches
  BY <1>4, <1>6
<1>9. InBatches \subseteq handed
  BY PlacesAre DEF SpotInv, Handed
<1>10. UNCHANGED handed /\ \A j \in handed : jobPc'[j] = jobPc[j] \/ jobPc'[j] = "done"
  BY <1>1
<1> QED
  BY <1>3, <1>7, <1>8, <1>9, <1>10, MovedHanded, Zenon

(* From the writer's buffer to the database, or nowhere.                   *)
LEMMA SinkKeepsSpots ==
  ASSUME Typed, SpotInv, FlushSink, UNCHANGED <<jobPc, handed, batch, hand, dropped>>
  PROVE  SpotInv'
<1>1. \/ UNCHANGED <<buffer, durable>>
      \/ buffer' = {} /\ durable' = durable \cup buffer
  BY DEF FlushSink
<1>2. OwnKeys'
  BY DEF SpotInv, OwnKeys
<1>3. InBatches' = InBatches /\ \A t : InHands(t)' = InHands(t)
  BY DEF InBatches, InHands
<1>4. \A i \in {1, 2, 3, 6} : Places[i] \cap Places[4] = {}
  BY PlacesAre DEF SpotInv, NoSpotTwice
<1>5. CASE UNCHANGED <<buffer, durable>>
  BY <1>5, UntouchedSpots
<1>6. CASE buffer' = {} /\ durable' = durable \cup buffer
  <2>0. PICK M : M = buffer
    OBVIOUS
  <2>1. /\ Places'[1] = InBatches' /\ Places'[2] = InHands(Writer)' /\ Places'[3] = InHands(Stopper)'
        /\ Places'[4] = buffer' /\ Places'[5] = durable' /\ Places'[6] = dropped'
    BY DEF Places
  <2>2. \A i \in 1 .. 6 : i # 5 => Places'[i] \subseteq Places[i] \ M
    <3>1. \A i \in {1, 2, 3, 4, 6} : Places'[i] \subseteq Places[i] \ M
      BY <1>3, <1>4, <1>6, <2>0, <2>1, PlacesAre
    <3> QED
      BY <3>1
  <2>3. 5 \in 1 .. 6 /\ Places'[5] \subseteq Places[5] \cup M
    BY <1>6, <2>0, <2>1, PlacesAre
  <2>4. M \subseteq handed
    BY <2>0, PlacesAre DEF SpotInv, Handed
  <2>5. UNCHANGED handed /\ \A j \in handed : jobPc'[j] = jobPc[j] \/ jobPc'[j] = "done"
    OBVIOUS
  <2>6. NoSpotTwice'
    <3>1. NoSpotTwice
      BY DEF SpotInv
    <3> QED
      BY <2>2, <2>3, <3>1, Moved
  <2>7. \A i \in 1 .. 6 : Places'[i] \subseteq handed
    BY <2>2, <2>3, <2>4 DEF SpotInv, Handed
  <2> QED
    BY <1>2, <2>5, <2>6, <2>7 DEF SpotInv, Handed
<1> QED
  BY <1>1, <1>5, <1>6

(* From a hand to the buffer, or to the dropped.                           *)
LEMMA SubmitKeepsSpots ==
  ASSUME Typed, SpotInv, NEW t \in Threads, SubmitSpots(t)
  PROVE  SpotInv'
<1>1. PICK k \in InHand(t) :
        /\ \/ buffer' = buffer \cup hand[t][k].spots /\ dropped' = dropped
           \/ dropped' = dropped \cup hand[t][k].spots /\ buffer' = buffer
        /\ hand' = [hand EXCEPT ![t][k].spots = {}]
  BY DEF SubmitSpots
<1>2. UNCHANGED <<jobPc, handed, batch, durable>>
  BY DEF SubmitSpots, producerVars, batchVars
<1>3. k \in Keys
  BY <1>1 DEF InHand
<1> DEFINE M == hand[t][k].spots
<1>4. /\ hand'[t][k].spots = {}
      /\ \A l \in Keys : l # k => hand'[t][l] = hand[t][l]
      /\ \A u \in Threads, l \in Keys : u # t => hand'[u][l] = hand[u][l]
  BY <1>1, <1>3 DEF Typed, HandType, Batch
<1>5. M \subseteq InHands(t)
  BY <1>3 DEF InHands
<1>6. M \subseteq JobsOf(k)
  BY <1>3 DEF SpotInv, OwnKeys
<1> HIDE DEF M
<1>7. InHands(t)' \subseteq InHands(t) \ M
  <2>1. ASSUME NEW j \in InHands(t)'
        PROVE  j \in InHands(t) \ M
    <3>1. PICK l \in Keys : j \in hand'[t][l].spots
      BY <2>1 DEF InHands
    <3>2. l # k /\ j \in hand[t][l].spots
      BY <1>4, <3>1
    <3>3. j \in JobsOf(l)
      BY <3>2 DEF SpotInv, OwnKeys
    <3> QED
      BY <1>3, <1>6, <3>2, <3>3, KeysApart, Inside
  <2> QED
    BY <2>1
<1>8. \A u \in Threads : u # t => InHands(u)' = InHands(u)
  BY <1>4 DEF InHands
<1>9. InBatches' = InBatches
  BY <1>2 DEF InBatches
<1>10. OwnKeys'
  <2>1. \A l \in Keys : hand'[t][l].spots \subseteq JobsOf(l)
    BY <1>4 DEF SpotInv, OwnKeys
  <2>2. \A u \in Threads, l \in Keys : u # t => hand'[u][l].spots \subseteq JobsOf(l)
    BY <1>4 DEF SpotInv, OwnKeys
  <2>3. \A l \in Keys : batch'[l].spots \subseteq JobsOf(l)
    BY <1>2 DEF SpotInv, OwnKeys
  <2> QED
    BY <2>1, <2>2, <2>3 DEF OwnKeys
<1>11. PICK h \in {2, 3} : Places[h] = InHands(t) /\ Places'[h] = InHands(t)'
                           /\ \A i \in {1, 2, 3} : i # h => Places'[i] = Places[i]
  <2>1. Writer \in Threads /\ Stopper \in Threads /\ Writer # Stopper
    BY DEF Threads, Writer, Stopper
  <2>2. CASE t = Writer
    BY <1>8, <1>9, <2>1, <2>2 DEF Places
  <2>3. CASE t = Stopper
    BY <1>8, <1>9, <2>1, <2>3 DEF Places
  <2> QED
    BY <2>2, <2>3 DEF Threads
<1>12. \A i \in 1 .. 6 : i # h => Places[i] \cap M = {}
  <2>1. \A i \in 1 .. 6 : i # h => Places[i] \cap Places[h] = {}
    BY <1>11, PlacesAre DEF SpotInv, NoSpotTwice
  <2> QED
    BY <1>5, <1>11, <2>1
<1>13. PICK p \in {4, 6} : /\ Places'[p] = Places[p] \cup M
                           /\ \A i \in {4, 5, 6} : i # p => Places'[i] = Places[i]
  <2>1. CASE buffer' = buffer \cup M /\ dropped' = dropped
    BY <1>2, <2>1 DEF Places
  <2>2. CASE dropped' = dropped \cup M /\ buffer' = buffer
    BY <1>2, <2>2 DEF Places
  <2> QED
    BY <1>1, <2>1, <2>2 DEF M
<1>14. \A i \in 1 .. 6 : i # p => Places'[i] \subseteq Places[i] \ M
  <2>1. \A i \in 1 .. 6 : i # p /\ i # h => Places'[i] = Places[i]
    BY <1>11, <1>13
  <2>2. Places'[h] \subseteq Places[h] \ M
    BY <1>7, <1>11
  <2>3. \A i \in 1 .. 6 : i # p /\ i # h => Places'[i] \subseteq Places[i] \ M
    BY <1>12, <2>1
  <2> QED
    BY <2>2, <2>3
<1>15. p \in 1 .. 6 /\ Places'[p] \subseteq Places[p] \cup M
  BY <1>13
<1>16. M \subseteq handed
  BY <1>5, <1>11 DEF SpotInv, Handed
<1>17. UNCHANGED handed /\ \A j \in handed : jobPc'[j] = jobPc[j] \/ jobPc'[j] = "done"
  BY <1>2
<1> QED
  BY <1>10, <1>14, <1>15, <1>16, <1>17, MovedHanded, Zenon

LEMMA FlushKeepsSpots ==
  ASSUME Typed, SpotInv, NEW t \in Threads, Flush(t)
  PROVE  SpotInv'
<1>1. CASE SubmitSpots(t)
  BY <1>1, SubmitKeepsSpots
<1>2. CASE SyncSink(t)
  BY <1>2, SinkKeepsSpots DEF SyncSink, producerVars, batchVars
<1>3. CASE CommitAndWake(t)
  BY <1>3, UntouchedSpots DEF CommitAndWake, producerVars, batchVars, sinkVars
<1>4. CASE SubmitNoise(t)
  <2>1. UNCHANGED <<jobPc, handed, batch, buffer, durable, dropped>>
    BY <1>4 DEF SubmitNoise, producerVars, batchVars, sinkVars
  <2>2. hand' = hand \/ hand' = [hand EXCEPT ![t] = EmptyHand]
    BY <1>4 DEF SubmitNoise
  <2>3. \A u \in Threads, k \in Keys : hand'[u][k].spots \subseteq hand[u][k].spots
    BY <2>2 DEF EmptyHand, NoBatch, Typed, HandType
  <2> QED
    BY <2>1, <2>3, HandShrinks
<1>5. CASE CommitQuietly(t) \/ ScheduleWake(t)
  <2>1. UNCHANGED <<jobPc, handed, batch, buffer, durable, dropped>> /\ FlushEnd(t)
    BY <1>5 DEF CommitQuietly, ScheduleWake, producerVars, batchVars, sinkVars
  <2>2. hand' = [hand EXCEPT ![t] = [k \in Keys |-> IF k \in flushing[t] THEN NoBatch ELSE hand[t][k]]]
    BY <2>1 DEF FlushEnd
  <2>3. \A u \in Threads, k \in Keys : hand'[u][k].spots \subseteq hand[u][k].spots
    BY <2>2 DEF NoBatch, Typed, HandType
  <2> QED
    BY <2>1, <2>3, HandShrinks
<1> QED
  BY <1>1, <1>2, <1>3, <1>4, <1>5 DEF Flush

LEMMA NextKeepsSpots == Typed /\ SpotInv /\ [Next]_vars => SpotInv'
<1> SUFFICES ASSUME Typed, SpotInv, [Next]_vars
             PROVE  SpotInv'
  OBVIOUS
<1>1. ASSUME UNCHANGED <<jobPc, handed, hand, batch, sinkVars>>
      PROVE  SpotInv'
  BY <1>1, UntouchedSpots DEF sinkVars
<1>2. CASE UNCHANGED vars
  BY <1>1, <1>2 DEF vars, producerVars, batchVars, threadVars
<1>3. CASE (\E r \in Rxs, b \in HighBands, p \in BOOLEAN : SetBandProducible(r, b, p)) \/ SetWakeCallback
  BY <1>1, <1>3 DEF SetBandProducible, SetWakeCallback, producerVars, batchVars, threadVars
<1>4. CASE \E c \in Cycles : TimerFires(c)
  BY <1>1, <1>4 DEF TimerFires, producerVars, batchVars, threadVars
<1>5. CASE Tick
  <2>1. UNCHANGED <<jobPc, handed, hand, buffer, durable, dropped>>
    BY <1>5 DEF Tick, producerVars, threadVars, sinkVars
  <2>2. \A k \in Keys : batch'[k].spots = batch[k].spots
    BY <1>5 DEF Tick, Typed, BatchType, Batch
  <2> QED
    BY <2>1, <2>2, UntouchedSpots
<1>6. CASE Write
  <2>1. CASE WriterCheck \/ WriterWait \/ WriterResume \/ WriterRoundDone
    BY <1>1, <2>1 DEF WriterCheck, WriterWait, WriterResume, WriterRoundDone, producerVars, batchVars
  <2>2. CASE \E c \in Cycles : WriterCrossWake(c)
    BY <1>1, <2>2 DEF WriterCrossWake, producerVars, batchVars, threadVars
  <2>3. Writer \in Threads
    BY DEF Threads
  <2> QED
    BY <1>6, <2>1, <2>2, <2>3, CollectKeepsSpots, FlushKeepsSpots DEF Write
<1>7. CASE Stop
  <2>1. CASE StopSet \/ StopNotify \/ StopJoined \/ StopDrained
    BY <1>1, <2>1 DEF StopSet, StopNotify, StopJoined, StopDrained, producerVars, batchVars
  <2>2. CASE CloseSink
    BY <2>2, SinkKeepsSpots DEF CloseSink, producerVars, batchVars
  <2>3. Stopper \in Threads
    BY DEF Threads
  <2> QED
    BY <1>7, <2>1, <2>2, <2>3, CancelKeepsSpots, FlushKeepsSpots DEF Stop
<1> QED
  BY <1>2, <1>3, <1>4, <1>5, <1>6, <1>7, ProducerKeepsSpots DEF Next

LEMMA InitSpots == Init => SpotInv
<1> SUFFICES ASSUME Init PROVE SpotInv
  OBVIOUS
<1>1. \A k \in Keys : batch[k].spots = {} /\ \A t \in Threads : hand[t][k].spots = {}
  BY DEF Init, EmptyHand, NoBatch
<1>2. buffer = {} /\ durable = {} /\ dropped = {} /\ handed = {}
  BY DEF Init
<1>3. InBatches = {} /\ InHands(Writer) = {} /\ InHands(Stopper) = {}
  BY <1>1 DEF InBatches, InHands, Threads
<1>4. \A i \in 1 .. 6 : Places[i] = {}
  BY <1>2, <1>3, PlacesAre
<1>5. NoSpotTwice
  BY <1>4, PlacesAre DEF NoSpotTwice
<1> QED
  BY <1>1, <1>2, <1>4, <1>5 DEF SpotInv, Handed, OwnKeys

(* No spot is submitted twice or both shipped and counted as dropped, for  *)
(* any receivers, bands, cycles and jobs, whichever sink calls fail and    *)
(* however stop() overlaps the writer and late producers.                  *)
THEOREM SpotsOnce == Spec => []NoSpotTwice
<1>1. Init => SpotInv
  BY InitSpots
<1>2. Init => Typed
  BY InitType
<1>3. Typed /\ SpotInv /\ [Next]_vars => (Typed /\ SpotInv)'
  BY NextType, NextKeepsSpots
<1>4. SpotInv => NoSpotTwice
  BY DEF SpotInv
<1> QED
  BY <1>1, <1>2, <1>3, <1>4, PTL DEF Spec

-----------------------------------------------------------------------------
(***************************************************************************)
(* No spot lost, where the noise writer can be imported.  A spot can only  *)
(* vanish where a thread overwrites what it has in hand, so a thread that  *)
(* is not flushing must have nothing left (Tidy), and a batch that is not  *)
(* open must be empty, because add() replaces it.                          *)
(***************************************************************************)
InFlush == {"noise", "sync", "commit", "wake"}

Tidy(t) ==
  /\ \A k \in Keys : ~hand[t][k].open \/ k \in flushing[t] => hand[t][k].spots = {}
  /\ pc[t] \notin InFlush => flushing[t] = {}
  /\ pc[t] \notin FlushStates => \A k \in Keys : hand[t][k].spots = {}

Somewhere == InBatches \cup InHands(Writer) \cup InHands(Stopper) \cup buffer \cup durable \cup dropped

KeepInv ==
  /\ \A k \in Keys : ~batch[k].open => batch[k].spots = {}
  /\ \A t \in Threads : Tidy(t)
  /\ handed \subseteq Somewhere

LEMMA LostNowhere == NoSpotLost <=> handed \subseteq Somewhere
<1>1. UNION {Places[i] : i \in DOMAIN Places} = Somewhere
  <2>1. \A j : j \in UNION {Places[i] : i \in DOMAIN Places} <=> \E i \in 1 .. 6 : j \in Places[i]
    BY PlacesAre
  <2>2. \A j : (\E i \in 1 .. 6 : j \in Places[i]) <=> j \in Somewhere
    <3>1. \A i \in 1 .. 6 : i \in {1, 2, 3, 4, 5, 6}
      OBVIOUS
    <3> QED
      BY <3>1, PlacesAre DEF Somewhere
  <2> QED
    BY <2>1, <2>2
<1> QED
  BY <1>1 DEF NoSpotLost

(* A thread that moves on with what it has.                                *)
LEMMA TidyMove ==
  ASSUME Typed, NEW t \in Threads, NEW s, Goto(t, s), Tidy(t), UNCHANGED <<hand, flushing>>,
         s \notin InFlush => pc[t] \notin InFlush,
         s \notin FlushStates => pc[t] \notin FlushStates \/ InHand(t) = {}
  PROVE  Tidy(t)'
<1>1. pc'[t] = s
  BY DEF Goto, Typed, PcType
<1>2. InHand(t) = {} => \A k \in Keys : hand[t][k].spots = {}
  BY DEF InHand, Tidy
<1> QED
  BY <1>1, <1>2 DEF Tidy

LEMMA TidyOther ==
  ASSUME Typed, NEW t \in Threads, NEW u \in Threads, u # t, NEW s, Goto(t, s), Tidy(u),
         \A k \in Keys : hand'[u][k] = hand[u][k], flushing'[u] = flushing[u]
  PROVE  Tidy(u)'
<1>1. pc'[u] = pc[u]
  BY DEF Goto, Typed, PcType
<1> QED
  BY <1>1 DEF Tidy

(* A step of one thread that leaves batches and hands as they are.         *)
LEMMA MoveKeeps ==
  ASSUME Typed, KeepInv, NEW t \in Threads, NEW s, Goto(t, s), UNCHANGED <<handed, batch, hand, flushing>>,
         s \notin InFlush => pc[t] \notin InFlush,
         s \notin FlushStates => pc[t] \notin FlushStates \/ InHand(t) = {},
         buffer \cup durable \cup dropped \subseteq buffer' \cup durable' \cup dropped'
  PROVE  KeepInv'
<1>1. InBatches' = InBatches /\ \A u : InHands(u)' = InHands(u)
  BY DEF InBatches, InHands
<1>2. handed' \subseteq Somewhere'
  BY <1>1 DEF KeepInv, Somewhere
<1>3. Tidy(t)'
  BY TidyMove DEF KeepInv
<1>4. \A u \in Threads : u # t => Tidy(u)'
  BY TidyOther DEF KeepInv
<1> QED
  BY <1>2, <1>3, <1>4 DEF KeepInv

(* A step of a producer, or of time.                                       *)
LEMMA BatchesKeep ==
  ASSUME Typed, KeepInv, UNCHANGED <<threadVars, sinkVars>>,
         \A k \in Keys : /\ ~batch'[k].open => batch'[k].spots = {}
                         /\ batch[k].spots \subseteq batch'[k].spots,
         handed' \subseteq handed \cup InBatches'
  PROVE  KeepInv'
<1>1. InBatches \subseteq InBatches' /\ \A u : InHands(u)' = InHands(u)
  BY DEF InBatches, InHands, threadVars
<1>2. handed' \subseteq Somewhere'
  BY <1>1 DEF KeepInv, Somewhere, sinkVars
<1>3. \A t \in Threads : Tidy(t)'
  BY DEF KeepInv, Tidy, threadVars
<1> QED
  BY <1>2, <1>3 DEF KeepInv

LEMMA ProducerKeeps ==
  ASSUME Typed, KeepInv, NEW j \in Jobs, Produce(j)
  PROVE  KeepInv'
<1> USE JobFields
<1>1. UNCHANGED <<threadVars, sinkVars>>
  BY DEF Produce, ExpectBand, AddNoise, AddSpots, MarkDone
<1>2. /\ batch[Key(j)] \in Batch /\ \A k \in Keys : ~batch[k].open => batch[k].spots = {}
      /\ batch \in [Keys -> Batch]
  BY DEF Typed, BatchType, KeepInv
<1>3. \A n \in Nat : NewBatch(n) \in Batch /\ NewBatch(n).open /\ NewBatch(n).spots = {}
  BY EmptyBatches DEF NewBatch, NoBatch
<1>4. DeadlineSec \in Nat /\ BackstopSec \in Nat
  BY TimeoutsAssumption
<1>5. /\ BatchForAdd(Key(j)) \in Batch /\ BatchForAdd(Key(j)).open
      /\ batch[Key(j)].spots = BatchForAdd(Key(j)).spots
  BY <1>2, <1>3, <1>4 DEF BatchForAdd
<1>6. ASSUME NEW b \in Batch, b.open, batch[Key(j)].spots \subseteq b.spots,
             batch' = [batch EXCEPT ![Key(j)] = b]
      PROVE  \A k \in Keys : /\ ~batch'[k].open => batch'[k].spots = {}
                             /\ batch[k].spots \subseteq batch'[k].spots
  BY <1>2, <1>6
<1>7. CASE ExpectBand(j)
  <2>1. PICK b \in Batch :
          /\ b.open /\ batch[Key(j)].spots = b.spots
          /\ batch' = [batch EXCEPT ![Key(j)] = [b EXCEPT !.expected = @ \cup {j.band}]]
    <3> DEFINE fresh == [NewBatch(BackstopSec) EXCEPT !.expected = ExpectedBandsForCycle(j.cycle, j.rx)]
    <3>1. fresh \in Batch /\ fresh.open /\ fresh.spots = {}
      <4>1. ExpectedBandsForCycle(j.cycle, j.rx) \subseteq Bands
        BY DEF ExpectedBandsForCycle
      <4> QED
        BY <1>3, <1>4, <4>1, BatchFields DEF Batch
    <3>2. batch' = [batch EXCEPT ![Key(j)] =
                      [(IF batch[Key(j)].open THEN batch[Key(j)] ELSE fresh) EXCEPT !.expected = @ \cup {j.band}]]
      BY <1>7 DEF ExpectBand
    <3> HIDE DEF fresh
    <3> QED
      BY <1>2, <3>1, <3>2
  <2>2. b.expected \cup {j.band} \in SUBSET Bands
    BY BatchFields
  <2>3. /\ [b EXCEPT !.expected = @ \cup {j.band}] \in Batch
        /\ [b EXCEPT !.expected = @ \cup {j.band}].open
        /\ [b EXCEPT !.expected = @ \cup {j.band}].spots = b.spots
    BY <2>1, <2>2, BatchFields DEF Batch
  <2>4. handed' = handed
    BY <1>7 DEF ExpectBand
  <2> QED
    BY <1>1, <1>6, <2>1, <2>3, <2>4, BatchesKeep
<1>8. CASE AddNoise(j)
  <2>1. batch' = [batch EXCEPT ![Key(j)] = [BatchForAdd(Key(j)) EXCEPT !.noise = TRUE]] /\ handed' = handed
    BY <1>8 DEF AddNoise
  <2>2. /\ [BatchForAdd(Key(j)) EXCEPT !.noise = TRUE] \in Batch
        /\ [BatchForAdd(Key(j)) EXCEPT !.noise = TRUE].open
        /\ [BatchForAdd(Key(j)) EXCEPT !.noise = TRUE].spots = BatchForAdd(Key(j)).spots
    BY <1>5, BatchFields DEF Batch
  <2> QED
    BY <1>1, <1>5, <1>6, <2>1, <2>2, BatchesKeep
<1>9. CASE AddSpots(j)
  <2>1. /\ batch' = [batch EXCEPT ![Key(j)] = [BatchForAdd(Key(j)) EXCEPT !.spots = @ \cup {j}]]
        /\ handed' = handed \cup {j}
    BY <1>9 DEF AddSpots
  <2>2. BatchForAdd(Key(j)).spots \cup {j} \in SUBSET Jobs
    BY <1>5, BatchFields
  <2>3. /\ [BatchForAdd(Key(j)) EXCEPT !.spots = @ \cup {j}] \in Batch
        /\ [BatchForAdd(Key(j)) EXCEPT !.spots = @ \cup {j}].open
        /\ [BatchForAdd(Key(j)) EXCEPT !.spots = @ \cup {j}].spots = BatchForAdd(Key(j)).spots \cup {j}
    BY <1>5, <2>2, BatchFields DEF Batch
  <2>4. batch'[Key(j)].spots = BatchForAdd(Key(j)).spots \cup {j}
    BY <1>2, <2>1, <2>3
  <2>5. j \in InBatches'
    BY <2>4 DEF InBatches
  <2>6. \A k \in Keys : /\ ~batch'[k].open => batch'[k].spots = {}
                        /\ batch[k].spots \subseteq batch'[k].spots
    BY <1>5, <1>6, <2>1, <2>3
  <2> QED
    BY <1>1, <2>1, <2>5, <2>6, BatchesKeep
<1>10. CASE MarkDone(j)
  <2>1. \A k \in Keys : batch'[k].open = batch[k].open /\ batch'[k].spots = batch[k].spots
    BY <1>2, <1>10 DEF MarkDone, Batch
  <2>2. handed' = handed
    BY <1>10 DEF MarkDone
  <2> QED
    BY <1>1, <1>2, <2>1, <2>2, BatchesKeep
<1> QED
  BY <1>7, <1>8, <1>9, <1>10 DEF Produce

(* Batches change hands: the writer had nothing in hand, nor had stop().   *)
LEMMA HandOver ==
  ASSUME Typed, KeepInv, NEW t \in Threads, pc[t] \notin FlushStates, Goto(t, "next"),
         NEW take \in SUBSET Keys, UNCHANGED <<handed, flushing, buffer, durable, dropped>>,
         hand' = [hand EXCEPT ![t] = [k \in Keys |-> IF k \in take THEN batch[k] ELSE NoBatch]],
         batch' = [k \in Keys |-> IF k \in take THEN NoBatch ELSE batch[k]]
  PROVE  KeepInv'
<1>1. NoBatch.spots = {} /\ ~NoBatch.open
  BY DEF NoBatch
<1>2. /\ \A k \in Keys : hand'[t][k] = IF k \in take THEN batch[k] ELSE NoBatch
      /\ \A u \in Threads : u # t => hand'[u] = hand[u]
      /\ \A k \in Keys : batch'[k] = IF k \in take THEN NoBatch ELSE batch[k]
  BY DEF Typed, HandType
<1>3. InHands(t) = {}
  BY DEF KeepInv, Tidy, InHands
<1>4. InBatches \subseteq InBatches' \cup InHands(t)'
  <2>1. ASSUME NEW j \in InBatches
        PROVE  j \in InBatches' \cup InHands(t)'
    <3>1. PICK k \in Keys : j \in batch[k].spots
      BY <2>1 DEF InBatches
    <3>2. CASE k \in take
      BY <1>2, <3>1, <3>2 DEF InHands
    <3>3. CASE k \notin take
      BY <1>2, <3>1, <3>3 DEF InBatches
    <3> QED
      BY <3>2, <3>3
  <2> QED
    BY <2>1
<1>5. \A u \in Threads : u # t => InHands(u)' = InHands(u)
  BY <1>2 DEF InHands
<1>6. handed' \subseteq Somewhere'
  BY <1>3, <1>4, <1>5 DEF KeepInv, Somewhere, Threads
<1>7. Tidy(t)'
  <2>1. pc'[t] = "next" /\ flushing'[t] = {}
    BY DEF Goto, Typed, PcType, KeepInv, Tidy, FlushStates, InFlush
  <2> QED
    BY <1>1, <1>2, <2>1 DEF Tidy, KeepInv, FlushStates
<1>8. \A u \in Threads : u # t => Tidy(u)'
  BY <1>2, TidyOther DEF KeepInv
<1>9. \A k \in Keys : ~batch'[k].open => batch'[k].spots = {}
  BY <1>1, <1>2 DEF KeepInv
<1> QED
  BY <1>6, <1>7, <1>8, <1>9 DEF KeepInv

LEMMA SubmitKeeps ==
  ASSUME Typed, KeepInv, NEW t \in Threads, SubmitSpots(t)
  PROVE  KeepInv'
<1>1. PICK k \in InHand(t), s \in {"noise", "sync"} :
        /\ buffer' \cup dropped' = buffer \cup dropped \cup hand[t][k].spots
        /\ hand' = [hand EXCEPT ![t][k].spots = {}]
        /\ flushing' = [flushing EXCEPT ![t] = {k}]
        /\ Goto(t, s)
  BY DEF SubmitSpots
<1>2. UNCHANGED <<handed, batch, durable>>
  BY DEF SubmitSpots, producerVars, batchVars
<1>3. k \in Keys /\ hand[t][k].open
  BY <1>1 DEF InHand
<1>4. /\ hand'[t][k].spots = {}
      /\ \A l \in Keys : l # k => hand'[t][l] = hand[t][l]
      /\ \A u \in Threads, l \in Keys : u # t => hand'[u][l] = hand[u][l]
  BY <1>1, <1>3 DEF Typed, HandType, Batch
<1>5. flushing'[t] = {k} /\ \A u \in Threads : u # t => flushing'[u] = flushing[u]
  BY <1>1 DEF Typed, HandType
<1>6. InHands(t) \subseteq InHands(t)' \cup hand[t][k].spots
  BY <1>4 DEF InHands
<1>7. InBatches' = InBatches /\ \A u \in Threads : u # t => InHands(u)' = InHands(u)
  BY <1>2, <1>4 DEF InHands, InBatches
<1>8. handed' \subseteq Somewhere'
  <2>1. Somewhere \subseteq Somewhere'
    BY <1>1, <1>2, <1>6, <1>7 DEF Somewhere, Threads
  <2> QED
    BY <1>2, <2>1 DEF KeepInv
<1>9. Tidy(t)'
  <2>1. pc'[t] = s
    BY <1>1 DEF Goto, Typed, PcType
  <2>2. \A l \in Keys : ~hand'[t][l].open \/ l \in flushing'[t] => hand'[t][l].spots = {}
    BY <1>4, <1>5 DEF KeepInv, Tidy
  <2> QED
    BY <1>1, <2>1, <2>2 DEF Tidy, InFlush, FlushStates
<1>10. \A u \in Threads : u # t => Tidy(u)'
  BY <1>1, <1>4, <1>5, TidyOther DEF KeepInv
<1> QED
  BY <1>2, <1>8, <1>9, <1>10 DEF KeepInv

LEMMA EndKeeps ==
  ASSUME Typed, KeepInv, NEW t \in Threads, FlushEnd(t), Goto(t, "next"),
         UNCHANGED <<handed, batch, sinkVars>>
  PROVE  KeepInv'
<1>1. NoBatch.spots = {} /\ ~NoBatch.open
  BY DEF NoBatch
<1>2. /\ \A k \in Keys : hand'[t][k] = IF k \in flushing[t] THEN NoBatch ELSE hand[t][k]
      /\ \A u \in Threads : u # t => hand'[u] = hand[u]
      /\ flushing'[t] = {} /\ \A u \in Threads : u # t => flushing'[u] = flushing[u]
  BY DEF FlushEnd, Typed, HandType
<1>3. \A k \in Keys : hand'[t][k].spots = hand[t][k].spots
  BY <1>1, <1>2 DEF KeepInv, Tidy
<1>4. InBatches' = InBatches /\ \A u \in Threads : InHands(u)' = InHands(u)
  BY <1>2, <1>3 DEF InHands, InBatches
<1>5. handed' \subseteq Somewhere'
  BY <1>4 DEF KeepInv, Somewhere, sinkVars, Threads
<1>6. Tidy(t)'
  <2>1. pc'[t] = "next"
    BY DEF Goto, Typed, PcType
  <2> QED
    BY <1>1, <1>2, <2>1 DEF KeepInv, Tidy, FlushStates
<1>7. \A u \in Threads : u # t => Tidy(u)'
  BY <1>2, TidyOther DEF KeepInv
<1> QED
  BY <1>5, <1>6, <1>7 DEF KeepInv

LEMMA FlushKeeps ==
  ASSUME "import" \notin SinkFaults, Typed, KeepInv, NEW t \in Threads, Flush(t)
  PROVE  KeepInv'
<1> USE DEF InFlush, FlushStates
<1>1. CASE SubmitSpots(t)
  BY <1>1, SubmitKeeps
<1>2. CASE SubmitNoise(t)
  <2>1. UNCHANGED <<handed, batch, hand, flushing, sinkVars>> /\ Goto(t, "sync")
    BY <1>2 DEF SubmitNoise, producerVars, batchVars
  <2> QED
    BY <2>1, MoveKeeps DEF sinkVars
<1>3. CASE SyncSink(t)
  <2>1. UNCHANGED <<handed, batch, hand, flushing, dropped>> /\ Goto(t, "commit") /\ FlushSink
    BY <1>3 DEF SyncSink, producerVars, batchVars
  <2>2. buffer \cup durable \cup dropped \subseteq buffer' \cup durable' \cup dropped'
    BY <2>1 DEF FlushSink
  <2> QED
    BY <2>1, <2>2, MoveKeeps
<1>4. CASE CommitAndWake(t)
  <2>1. UNCHANGED <<handed, batch, hand, flushing, sinkVars>> /\ Goto(t, "wake")
    BY <1>4 DEF CommitAndWake, producerVars, batchVars
  <2> QED
    BY <2>1, MoveKeeps DEF sinkVars
<1>5. CASE CommitQuietly(t) \/ ScheduleWake(t)
  BY <1>5, EndKeeps DEF CommitQuietly, ScheduleWake, producerVars, batchVars
<1> QED
  BY <1>1, <1>2, <1>3, <1>4, <1>5 DEF Flush

LEMMA WriterKeeps ==
  ASSUME Typed, KeepInv,
         \/ WriterCheck \/ WriterCollect \/ WriterWait \/ WriterResume
         \/ (\E c \in Cycles : WriterCrossWake(c)) \/ WriterRoundDone
  PROVE  KeepInv'
<1> USE DEF InFlush, FlushStates
<1>1. Writer \in Threads
  BY DEF Threads
<1>2. CASE WriterCheck \/ WriterWait \/ WriterResume \/ WriterRoundDone
  <2>1. /\ UNCHANGED <<handed, batch, hand, flushing, sinkVars>>
        /\ \E s \in {"exited", "scan", "wait", "check"} : Goto(Writer, s)
        /\ pc[Writer] \in {"check", "scan", "wait"} \/ (pc[Writer] = "next" /\ InHand(Writer) = {})
    BY <1>2 DEF WriterCheck, WriterWait, WriterResume, WriterRoundDone, producerVars, batchVars
  <2> QED
    BY <1>1, <2>1, MoveKeeps DEF sinkVars
<1>3. CASE WriterCollect
  <2> DEFINE take == {k \in Keys : Ready(k)}
  <2>1. /\ UNCHANGED <<handed, flushing, buffer, durable, dropped>> /\ Goto(Writer, "next")
        /\ pc[Writer] = "scan"
        /\ hand' = [hand EXCEPT ![Writer] = [k \in Keys |-> IF k \in take THEN batch[k] ELSE NoBatch]]
        /\ batch' = [k \in Keys |-> IF k \in take THEN NoBatch ELSE batch[k]]
    BY <1>3 DEF WriterCollect, Uncollected, producerVars, sinkVars
  <2>2. take \in SUBSET Keys /\ pc[Writer] \notin FlushStates
    BY <2>1
  <2> HIDE DEF take
  <2> QED
    BY <1>1, <2>1, <2>2, HandOver
<1>4. CASE \E c \in Cycles : WriterCrossWake(c)
  <2>1. UNCHANGED <<handed, batch, threadVars, sinkVars>>
    BY <1>4 DEF WriterCrossWake, producerVars, batchVars
  <2> QED
    BY <2>1, BatchesKeep DEF KeepInv
<1> QED
  BY <1>2, <1>3, <1>4

LEMMA StopperKeeps ==
  ASSUME Typed, KeepInv,
         StopSet \/ StopNotify \/ StopJoined \/ StopCancel \/ StopDrained \/ CloseSink
  PROVE  KeepInv'
<1> USE DEF InFlush, FlushStates
<1>1. Stopper \in Threads
  BY DEF Threads
<1>2. CASE StopSet \/ StopNotify \/ StopJoined \/ StopDrained
  <2>1. /\ UNCHANGED <<handed, batch, hand, flushing, sinkVars>>
        /\ \E s \in {"notify", "join", "cancel", "close"} : Goto(Stopper, s)
        /\ pc[Stopper] \in {"up", "notify", "join"} \/ (pc[Stopper] = "next" /\ InHand(Stopper) = {})
    BY <1>2 DEF StopSet, StopNotify, StopJoined, StopDrained, producerVars, batchVars
  <2> QED
    BY <1>1, <2>1, MoveKeeps DEF sinkVars
<1>3. CASE StopCancel
  <2>1. /\ UNCHANGED <<handed, flushing, buffer, durable, dropped>> /\ Goto(Stopper, "next")
        /\ pc[Stopper] \notin FlushStates
        /\ hand' = [hand EXCEPT ![Stopper] = batch]
        /\ batch' = [k \in Keys |-> NoBatch]
    BY <1>3 DEF StopCancel, Leftover, producerVars
  <2>2. batch = [k \in Keys |-> IF k \in Keys THEN batch[k] ELSE NoBatch]
    BY DEF Typed, BatchType
  <2>3. batch' = [k \in Keys |-> IF k \in Keys THEN NoBatch ELSE batch[k]]
    BY <2>1
  <2>4. hand' = [hand EXCEPT ![Stopper] = [k \in Keys |-> IF k \in Keys THEN batch[k] ELSE NoBatch]]
    BY <2>1, <2>2
  <2>5. Keys \in SUBSET Keys
    OBVIOUS
  <2> QED
    BY <1>1, <2>1, <2>3, <2>4, <2>5, HandOver
<1>4. CASE CloseSink
  <2>1. /\ UNCHANGED <<handed, batch, hand, flushing, dropped>> /\ Goto(Stopper, "closed")
        /\ FlushSink /\ pc[Stopper] = "close"
    BY <1>4 DEF CloseSink, producerVars, batchVars
  <2>2. buffer \cup durable \cup dropped \subseteq buffer' \cup durable' \cup dropped'
    BY <2>1 DEF FlushSink
  <2> QED
    BY <1>1, <2>1, <2>2, MoveKeeps
<1> QED
  BY <1>2, <1>3, <1>4

LEMMA NextKeeps == "import" \notin SinkFaults /\ Typed /\ KeepInv /\ [Next]_vars => KeepInv'
<1> SUFFICES ASSUME "import" \notin SinkFaults, Typed, KeepInv, [Next]_vars
             PROVE  KeepInv'
  OBVIOUS
<1>1. ASSUME UNCHANGED <<handed, batch, threadVars, sinkVars>>
      PROVE  KeepInv'
  BY <1>1, BatchesKeep DEF KeepInv
<1>2. CASE UNCHANGED vars
  BY <1>1, <1>2 DEF vars, producerVars, batchVars
<1>3. CASE (\E r \in Rxs, b \in HighBands, p \in BOOLEAN : SetBandProducible(r, b, p)) \/ SetWakeCallback
  BY <1>1, <1>3 DEF SetBandProducible, SetWakeCallback, producerVars, batchVars
<1>4. CASE \E c \in Cycles : TimerFires(c)
  BY <1>1, <1>4 DEF TimerFires, producerVars, batchVars
<1>5. CASE Tick
  <2>1. UNCHANGED <<handed, threadVars, sinkVars>>
    BY <1>5 DEF Tick, producerVars
  <2>2. \A k \in Keys : batch'[k].spots = batch[k].spots /\ batch'[k].open = batch[k].open
    BY <1>5 DEF Tick, Typed, BatchType, Batch
  <2> QED
    BY <2>1, <2>2, BatchesKeep DEF KeepInv
<1>6. Writer \in Threads /\ Stopper \in Threads
  BY DEF Threads
<1>7. CASE Write
  BY <1>6, <1>7, WriterKeeps, FlushKeeps DEF Write
<1>8. CASE Stop
  BY <1>6, <1>8, StopperKeeps, FlushKeeps DEF Stop
<1> QED
  BY <1>2, <1>3, <1>4, <1>5, <1>7, <1>8, ProducerKeeps DEF Next

LEMMA InitKeeps == Init => KeepInv
<1> SUFFICES ASSUME Init PROVE KeepInv
  OBVIOUS
<1>1. \A k \in Keys : batch[k].spots = {} /\ \A t \in Threads : hand[t][k].spots = {}
  BY DEF Init, EmptyHand, NoBatch
<1>2. handed = {} /\ \A t \in Threads : flushing[t] = {}
  BY DEF Init
<1> QED
  BY <1>1, <1>2 DEF KeepInv, Tidy

(* Where the noise writer can be imported, what add() accepted is never    *)
(* lost, for any receivers, bands, cycles and jobs, also when inserts and  *)
(* flushes fail and stop() meets the writer inside a batch.                *)
THEOREM NothingLost == "import" \notin SinkFaults => (Spec => []NoSpotLost)
<1> SUFFICES ASSUME "import" \notin SinkFaults
             PROVE  Spec => []NoSpotLost
  OBVIOUS
<1>1. Init => KeepInv
  BY InitKeeps
<1>2. Init => Typed
  BY InitType
<1>3. Typed /\ KeepInv /\ [Next]_vars => (Typed /\ KeepInv)'
  BY NextType, NextKeeps
<1>4. KeepInv => NoSpotLost
  BY LostNowhere DEF KeepInv
<1> QED
  BY <1>1, <1>2, <1>3, <1>4, PTL DEF Spec

-----------------------------------------------------------------------------
(***************************************************************************)
(* What stop() leaves behind.  From the moment it sets the flag no decode  *)
(* runs, so no batch opens once it has taken the ones that were left, and  *)
(* the sink that was flushed as it closed takes nothing more.              *)
(***************************************************************************)
Drained == FlushStates \cup {"close", "closed"}

DrainInv ==
  /\ pc[Stopper] # "up" => \A j \in Jobs : jobPc[j] \in {"queued", "done"}
  /\ pc[Stopper] \in Drained => \A k \in Keys : ~batch[k].open
  /\ sinkOpen <=> pc[Stopper] # "closed"
  /\ ~sinkOpen => buffer = {}

LEMMA DrainMove ==
  ASSUME DrainInv, UNCHANGED <<jobPc, batch>>,
         \/ pc'[Stopper] = pc[Stopper]
         \/ /\ pc[Stopper] # "up" /\ pc[Stopper] # "closed" /\ pc'[Stopper] # "closed"
            /\ pc'[Stopper] \in Drained => pc[Stopper] \in Drained,
         sinkOpen' = sinkOpen, ~sinkOpen => buffer' \subseteq buffer
  PROVE  DrainInv'
BY DEF DrainInv

LEMMA FlushDrain ==
  ASSUME "import" \notin SinkFaults, Typed, DrainInv, NEW t \in Threads, Flush(t)
  PROVE  DrainInv'
<1>1. /\ UNCHANGED <<jobPc, batch, sinkOpen>>
      /\ ~sinkOpen => buffer' \subseteq buffer
      /\ pc[t] \in FlushStates
      /\ \E s \in FlushStates : Goto(t, s)
  <2>1. CASE SubmitSpots(t)
    BY <2>1 DEF SubmitSpots, FlushStates, producerVars, batchVars
  <2>2. CASE SubmitNoise(t)
    BY <2>2 DEF SubmitNoise, FlushStates, producerVars, batchVars, sinkVars
  <2>3. CASE SyncSink(t)
    BY <2>3 DEF SyncSink, FlushSink, FlushStates, producerVars, batchVars
  <2>4. CASE CommitQuietly(t)
    BY <2>4 DEF CommitQuietly, FlushStates, producerVars, batchVars, sinkVars
  <2>5. CASE CommitAndWake(t)
    BY <2>5 DEF CommitAndWake, FlushStates, producerVars, batchVars, sinkVars
  <2>6. CASE ScheduleWake(t)
    BY <2>6 DEF ScheduleWake, FlushStates, producerVars, batchVars, sinkVars
  <2> QED
    BY <2>1, <2>2, <2>3, <2>4, <2>5, <2>6 DEF Flush
<1>2. PICK s \in FlushStates : Goto(t, s)
  BY <1>1
<1>3. pc'[t] = s /\ \A u \in Threads : u # t => pc'[u] = pc[u]
  BY <1>2 DEF Goto, Typed, PcType
<1>4. CASE t = Stopper
  BY <1>1, <1>3, <1>4, DrainMove DEF FlushStates, Drained
<1>5. CASE t # Stopper
  BY <1>1, <1>3, <1>5, DrainMove DEF Threads
<1> QED  BY <1>4, <1>5

LEMMA ProducerDrain ==
  ASSUME Typed, DrainInv, NEW j \in Jobs, Produce(j)
  PROVE  DrainInv'
<1>1. pc[Stopper] = "up"
  BY DEF DrainInv, Produce, ExpectBand, AddNoise, AddSpots, MarkDone
<1>2. UNCHANGED <<pc, sinkOpen, buffer>>
  BY DEF Produce, ExpectBand, AddNoise, AddSpots, MarkDone, threadVars, sinkVars
<1> QED
  BY <1>1, <1>2 DEF DrainInv, Drained, FlushStates

LEMMA WriterDrain ==
  ASSUME Typed, DrainInv,
         \/ WriterCheck \/ WriterCollect \/ WriterWait \/ WriterResume
         \/ (\E c \in Cycles : WriterCrossWake(c)) \/ WriterRoundDone
  PROVE  DrainInv'
<1>1. UNCHANGED <<jobPc, sinkOpen, buffer>>
  BY DEF WriterCheck, WriterCollect, WriterWait, WriterResume, WriterCrossWake, WriterRoundDone,
         producerVars, sinkVars
<1>2. pc'[Stopper] = pc[Stopper]
  <2>1. pc' = pc \/ \E s : Goto(Writer, s)
    BY DEF WriterCheck, WriterCollect, WriterWait, WriterResume, WriterCrossWake, WriterRoundDone,
           threadVars
  <2> QED
    BY <2>1 DEF Goto, Typed, PcType, Threads, Writer, Stopper
<1>3. \A k \in Keys : ~batch[k].open => ~batch'[k].open
  <2>1. UNCHANGED batch \/ batch' = Uncollected
    BY DEF WriterCheck, WriterCollect, WriterWait, WriterResume, WriterCrossWake, WriterRoundDone,
           batchVars
  <2> QED
    BY <2>1 DEF Uncollected, NoBatch
<1> QED  BY <1>1, <1>2, <1>3 DEF DrainInv

LEMMA StopperDrain ==
  ASSUME "flush" \notin SinkFaults, Typed, DrainInv,
         StopSet \/ StopNotify \/ StopJoined \/ StopCancel \/ StopDrained \/ CloseSink
  PROVE  DrainInv'
<1> USE DEF Drained, FlushStates
<1>1. \A s : Goto(Stopper, s) => pc'[Stopper] = s
  BY DEF Goto, Typed, PcType, Threads
<1>2. CASE StopSet
  <2>1. /\ \A j \in Jobs : jobPc[j] \in {"queued", "done"}
        /\ pc[Stopper] = "up" /\ pc'[Stopper] = "notify"
        /\ UNCHANGED <<jobPc, sinkOpen, buffer>>
    BY <1>1, <1>2 DEF StopSet, producerVars, sinkVars
  <2> QED
    BY <2>1 DEF DrainInv
<1>3. CASE StopNotify \/ StopJoined \/ StopDrained
  <2>1. /\ UNCHANGED <<jobPc, batch, sinkOpen, buffer>>
        /\ \/ pc[Stopper] \in {"notify", "join"} /\ pc'[Stopper] \in {"join", "cancel"}
           \/ pc[Stopper] = "next" /\ pc'[Stopper] = "close"
    BY <1>1, <1>3 DEF StopNotify, StopJoined, StopDrained, producerVars, batchVars, sinkVars
  <2> QED
    BY <2>1, DrainMove
<1>4. CASE StopCancel
  <2>1. /\ UNCHANGED <<jobPc, sinkOpen, buffer>>
        /\ pc[Stopper] = "cancel" /\ pc'[Stopper] = "next"
        /\ batch' = [k \in Keys |-> NoBatch]
    BY <1>1, <1>4 DEF StopCancel, producerVars, sinkVars
  <2>2. \A k \in Keys : ~batch'[k].open
    BY <2>1 DEF NoBatch
  <2> QED
    BY <2>1, <2>2 DEF DrainInv
<1>5. CASE CloseSink
  <2>1. /\ UNCHANGED <<jobPc, batch>>
        /\ pc[Stopper] = "close" /\ pc'[Stopper] = "closed"
        /\ ~sinkOpen'
    BY <1>1, <1>5 DEF CloseSink, producerVars, batchVars
  <2>2. sinkOpen
    BY <2>1 DEF DrainInv
  <2>3. buffer' = {}
    BY <1>5, <2>2 DEF CloseSink, FlushSink
  <2> QED
    BY <2>1, <2>3 DEF DrainInv
<1> QED
  BY <1>2, <1>3, <1>4, <1>5

LEMMA NextDrain ==
  ASSUME "import" \notin SinkFaults, "flush" \notin SinkFaults, Typed, DrainInv, [Next]_vars
  PROVE  DrainInv'
<1>1. CASE UNCHANGED <<jobPc, batch, pc, sinkOpen, buffer>>
  BY <1>1, DrainMove
<1>2. CASE UNCHANGED vars
  BY <1>1, <1>2 DEF vars, producerVars, batchVars, threadVars, sinkVars
<1>3. CASE (\E r \in Rxs, b \in HighBands, p \in BOOLEAN : SetBandProducible(r, b, p)) \/ SetWakeCallback
  BY <1>1, <1>3 DEF SetBandProducible, SetWakeCallback, producerVars, batchVars, threadVars, sinkVars
<1>4. CASE \E c \in Cycles : TimerFires(c)
  BY <1>1, <1>4 DEF TimerFires, producerVars, batchVars, threadVars, sinkVars
<1>5. CASE Tick
  <2>1. UNCHANGED <<jobPc, pc, sinkOpen, buffer>>
    BY <1>5 DEF Tick, producerVars, threadVars, sinkVars
  <2>2. \A k \in Keys : batch'[k].open = batch[k].open
    BY <1>5 DEF Tick, Typed, BatchType, Batch
  <2> QED
    BY <2>1, <2>2 DEF DrainInv
<1>6. Writer \in Threads /\ Stopper \in Threads
  BY DEF Threads
<1>7. CASE Write
  BY <1>6, <1>7, WriterDrain, FlushDrain DEF Write
<1>8. CASE Stop
  BY <1>6, <1>8, StopperDrain, FlushDrain DEF Stop
<1> QED
  BY <1>2, <1>3, <1>4, <1>5, <1>7, <1>8, ProducerDrain DEF Next

(* What a closed sink refused was in the writer's hand when stop() took    *)
(* the batches; after that the writer gets no other.                       *)
LossInv ==
  /\ dropped \subseteq failed \cup overrun
  /\ pc[Stopper] \in Drained => InHands(Writer) \subseteq overrun
  /\ pc[Stopper] \notin Drained => overrun = {}

LEMMA LossKept ==
  ASSUME LossInv, UNCHANGED <<dropped, failed, overrun>>, InHands(Writer)' \subseteq InHands(Writer),
         pc'[Stopper] \in Drained <=> pc[Stopper] \in Drained
  PROVE  LossInv'
BY DEF LossInv

LEMMA SubmitLoss ==
  ASSUME Typed, DrainInv, LossInv, NEW t \in Threads, SubmitSpots(t)
  PROVE  LossInv'
<1>1. PICK k \in InHand(t) :
        /\ hand' = [hand EXCEPT ![t][k].spots = {}]
        /\ \/ dropped' = dropped /\ failed' = failed
           \/ dropped' = dropped \cup hand[t][k].spots /\ failed' = failed \cup hand[t][k].spots
           \/ /\ dropped' = dropped \cup hand[t][k].spots /\ failed' = failed
              /\ ~sinkOpen \/ hand[t][k].spots = {}
  BY DEF SubmitSpots
<1>2. /\ overrun' = overrun /\ pc[t] = "next"
      /\ \E s \in {"noise", "sync"} : Goto(t, s)
  BY DEF SubmitSpots
<1>3. k \in Keys
  BY <1>1 DEF InHand
<1>4. pc'[Stopper] \in Drained <=> pc[Stopper] \in Drained
  BY <1>2 DEF Goto, Typed, PcType, Threads, Drained, FlushStates
<1>5. InHands(Writer)' \subseteq InHands(Writer)
  <2>1. \A l \in Keys : hand'[Writer][l].spots \subseteq hand[Writer][l].spots
    BY <1>1, <1>3 DEF Typed, HandType, Batch, Threads
  <2> QED
    BY <2>1 DEF InHands
<1>6. ~sinkOpen => hand[t][k].spots \subseteq overrun
  <2>1. ~sinkOpen => pc[Stopper] = "closed" /\ t = Writer
    BY <1>2 DEF DrainInv, Threads
  <2>2. hand[t][k].spots \subseteq InHands(t)
    BY <1>3 DEF InHands
  <2> QED
    BY <2>1, <2>2 DEF LossInv, Drained
<1>7. dropped' \subseteq failed' \cup overrun'
  BY <1>1, <1>2, <1>6 DEF LossInv
<1> QED
  BY <1>2, <1>4, <1>5, <1>7 DEF LossInv

LEMMA FlushLoss ==
  ASSUME "import" \notin SinkFaults, Typed, DrainInv, LossInv, NEW t \in Threads, Flush(t)
  PROVE  LossInv'
<1>1. ASSUME UNCHANGED <<dropped, failed, overrun>>, pc[t] \in FlushStates,
             \E s \in FlushStates : Goto(t, s), hand' = hand \/ FlushEnd(t)
      PROVE  LossInv'
  <2>1. pc'[Stopper] \in Drained <=> pc[Stopper] \in Drained
    BY <1>1 DEF Goto, Typed, PcType, Threads, Drained
  <2>2. \A k \in Keys : hand'[Writer][k] \in {hand[Writer][k], NoBatch}
    BY <1>1 DEF FlushEnd, Typed, HandType, Threads
  <2>3. InHands(Writer)' \subseteq InHands(Writer)
    BY <2>2 DEF InHands, NoBatch
  <2> QED
    BY <1>1, <2>1, <2>3, LossKept
<1>2. CASE SubmitNoise(t)
  BY <1>1, <1>2 DEF SubmitNoise, FlushStates, sinkVars
<1>3. CASE SyncSink(t)
  BY <1>1, <1>3 DEF SyncSink, FlushStates
<1>4. CASE CommitQuietly(t)
  BY <1>1, <1>4 DEF CommitQuietly, FlushStates, sinkVars
<1>5. CASE CommitAndWake(t)
  BY <1>1, <1>5 DEF CommitAndWake, FlushStates, sinkVars
<1>6. CASE ScheduleWake(t)
  BY <1>1, <1>6 DEF ScheduleWake, FlushStates, sinkVars
<1> QED
  BY <1>2, <1>3, <1>4, <1>5, <1>6, SubmitLoss DEF Flush

LEMMA CollectLoss ==
  ASSUME Typed, DrainInv, LossInv, WriterCollect
  PROVE  LossInv'
<1>1. /\ UNCHANGED <<dropped, failed, overrun>> /\ pc'[Stopper] = pc[Stopper]
      /\ \A k \in Keys : hand'[Writer][k] = IF Ready(k) THEN batch[k] ELSE NoBatch
  BY DEF WriterCollect, sinkVars, Goto, Typed, PcType, HandType, Threads, Writer, Stopper
<1>2. ASSUME pc[Stopper] \in Drained
      PROVE  InHands(Writer)' = {}
  <2>1. \A k \in Keys : hand'[Writer][k] = NoBatch
    BY <1>1, <1>2 DEF DrainInv, Ready
  <2> QED
    BY <2>1 DEF InHands, NoBatch
<1> QED
  BY <1>1, <1>2 DEF LossInv

LEMMA CancelLoss ==
  ASSUME Typed, LossInv, StopCancel
  PROVE  LossInv'
<1>1. /\ UNCHANGED <<dropped, failed>> /\ overrun' = InHands(Writer)
      /\ pc[Stopper] = "cancel" /\ pc'[Stopper] = "next"
      /\ hand'[Writer] = hand[Writer]
  BY DEF StopCancel, Goto, Typed, PcType, HandType, Threads, Writer, Stopper
<1>2. InHands(Writer)' = InHands(Writer)
  BY <1>1 DEF InHands
<1> QED
  BY <1>1, <1>2 DEF LossInv, Drained, FlushStates

LEMMA NextLoss ==
  ASSUME "import" \notin SinkFaults, Typed, DrainInv, LossInv, [Next]_vars
  PROVE  LossInv'
<1>1. CASE UNCHANGED <<hand, pc, sinkVars>>
  BY <1>1, LossKept DEF InHands, sinkVars
<1>2. CASE UNCHANGED vars
  BY <1>1, <1>2 DEF vars, threadVars
<1>3. CASE (\E r \in Rxs, b \in HighBands, p \in BOOLEAN : SetBandProducible(r, b, p)) \/ SetWakeCallback
  BY <1>1, <1>3 DEF SetBandProducible, SetWakeCallback, threadVars
<1>4. CASE (\E c \in Cycles : TimerFires(c) \/ WriterCrossWake(c)) \/ Tick
  BY <1>1, <1>4 DEF TimerFires, WriterCrossWake, Tick, threadVars
<1>5. CASE \E j \in Jobs : Produce(j)
  BY <1>1, <1>5 DEF Produce, ExpectBand, AddNoise, AddSpots, MarkDone, threadVars
<1>6. Writer \in Threads /\ Stopper \in Threads
  BY DEF Threads
<1>7. CASE WriterCheck \/ WriterWait \/ WriterResume \/ WriterRoundDone
  <2>1. UNCHANGED <<hand, sinkVars>> /\ pc'[Stopper] = pc[Stopper]
    BY <1>7 DEF WriterCheck, WriterWait, WriterResume, WriterRoundDone, Goto, Typed, PcType, Threads,
                Writer, Stopper
  <2> QED
    BY <2>1, LossKept DEF InHands, sinkVars
<1>8. CASE StopSet \/ StopNotify \/ StopJoined \/ StopDrained \/ CloseSink
  <2>1. /\ UNCHANGED <<hand, dropped, failed, overrun>>
        /\ \E s : Goto(Stopper, s) /\ (s \in Drained <=> pc[Stopper] \in Drained)
    BY <1>8 DEF StopSet, StopNotify, StopJoined, StopDrained, CloseSink, sinkVars, Drained, FlushStates
  <2>2. pc'[Stopper] \in Drained <=> pc[Stopper] \in Drained
    BY <1>6, <2>1 DEF Goto, Typed, PcType
  <2> QED
    BY <2>1, <2>2, LossKept DEF InHands
<1>9. CASE Write
  BY <1>4, <1>6, <1>7, <1>9, FlushLoss, CollectLoss DEF Write
<1>10. CASE Stop
  BY <1>6, <1>8, <1>10, FlushLoss, CancelLoss DEF Stop
<1> QED
  BY <1>2, <1>3, <1>4, <1>5, <1>9, <1>10 DEF Next

(* Once stop() has drained what was left and the sink is closed, every     *)
(* spot the producers handed over is durable, an insert of it failed, or   *)
(* the writer held it when stop() gave up waiting (spot_sink.py:1528), for *)
(* any jobs and timeouts, however stop, writer and producers interleave.   *)
(* If the writer had ended by then nothing was in its hand, so nothing is  *)
(* lost without a failed insert.                                           *)
THEOREM StopLeavesNothing ==
  SinkFaults \subseteq {"insert"} => (Spec => []StopDrains)
<1> SUFFICES ASSUME SinkFaults \subseteq {"insert"}
             PROVE  Spec => []StopDrains
  OBVIOUS
<1>0. "import" \notin SinkFaults /\ "flush" \notin SinkFaults
  OBVIOUS
<1>1. Init => Typed /\ KeepInv
  BY InitType, InitKeeps
<1>2. Init => DrainInv /\ LossInv
  BY DEF Init, DrainInv, LossInv, Threads, Writer, Stopper, Drained, FlushStates
<1>3. Typed /\ KeepInv /\ DrainInv /\ LossInv /\ [Next]_vars => (Typed /\ KeepInv /\ DrainInv /\ LossInv)'
  BY <1>0, NextType, NextKeeps, NextDrain, NextLoss
<1>4. KeepInv /\ DrainInv /\ LossInv => StopDrains
  <2> SUFFICES ASSUME KeepInv, DrainInv, LossInv, pc[Stopper] = "closed"
               PROVE  handed \subseteq durable \cup failed \cup overrun
    BY DEF StopDrains
  <2>1. buffer = {} /\ \A k \in Keys : batch[k].spots = {}
    BY DEF DrainInv, Drained, KeepInv
  <2>2. \A k \in Keys : hand[Stopper][k].spots = {}
    BY DEF KeepInv, Tidy, Threads, FlushStates
  <2>3. InBatches = {} /\ InHands(Stopper) = {}
    BY <2>1, <2>2 DEF InBatches, InHands
  <2>4. InHands(Writer) \subseteq overrun /\ dropped \subseteq failed \cup overrun
    BY DEF LossInv, Drained
  <2> QED
    BY <2>1, <2>3, <2>4 DEF KeepInv, Somewhere
<1> QED
  BY <1>1, <1>2, <1>3, <1>4, PTL DEF Spec

-----------------------------------------------------------------------------
(***************************************************************************)
(* What a commit rests on, where a flush of the sink does not fail: a      *)
(* thread that inserted something has it in the buffer until it has        *)
(* flushed, and in pending_uploads after that, also when the sink was      *)
(* closed in between; a receiver that counts as committed has spots of     *)
(* that cycle there.                                                       *)
(***************************************************************************)
Shipped(k) == \E j \in durable : Key(j) = k
Taken(k)   == \E j \in durable \cup buffer : Key(j) = k

InsertedKept(t) ==
  inserted[t] =>
    /\ pc[t] \in InFlush
    /\ \A k \in flushing[t] : IF pc[t] \in {"commit", "wake"} THEN Shipped(k) ELSE Taken(k)

ShipInv ==
  /\ ~sinkOpen => buffer = {}
  /\ \A c \in Cycles : \A r \in committedRx[c] : Shipped(<<c, r>>)
  /\ \A t \in Threads : InsertedKept(t)

(* What is in the sink stays there or moves on to pending_uploads.         *)
Forward ==
  /\ durable \subseteq durable' /\ durable \cup buffer \subseteq durable' \cup buffer'
  /\ ~sinkOpen' => buffer' = {}

LEMMA StaysShipped ==
  ASSUME Forward, NEW k
  PROVE  (Shipped(k) => Shipped(k)') /\ (Taken(k) => Taken(k)')
BY DEF Forward, Shipped, Taken

LEMMA OtherShips ==
  ASSUME ShipInv, Forward, NEW u \in Threads,
         pc'[u] = pc[u] /\ inserted'[u] = inserted[u] /\ flushing'[u] = flushing[u]
  PROVE  InsertedKept(u)'
<1>1. InsertedKept(u)
  BY DEF ShipInv
<1> QED
  BY <1>1, StaysShipped DEF InsertedKept

LEMMA FewerCommitted ==
  ASSUME ShipInv, Forward, \A c \in Cycles : committedRx'[c] \subseteq committedRx[c],
         \A t \in Threads : InsertedKept(t)'
  PROVE  ShipInv'
<1>1. \A c \in Cycles : \A r \in committedRx'[c] : Shipped(<<c, r>>)'
  BY StaysShipped DEF ShipInv
<1> QED
  BY <1>1 DEF ShipInv, Forward

(* A step of a thread that is not flushing.                                *)
LEMMA IdleShips ==
  ASSUME Typed, ShipInv, Forward, NEW t \in Threads, NEW s, pc[t] \notin InFlush, Goto(t, s),
         UNCHANGED <<inserted, flushing>>,
         \A c \in Cycles : committedRx'[c] \subseteq committedRx[c]
  PROVE  ShipInv'
<1>1. \A u \in Threads : u # t => pc'[u] = pc[u]
  BY DEF Goto, Typed, PcType
<1>2. InsertedKept(t)'
  BY DEF ShipInv, InsertedKept
<1>3. \A u \in Threads : u # t => InsertedKept(u)'
  BY <1>1, OtherShips
<1> QED
  BY <1>2, <1>3, FewerCommitted

LEMMA ElsewhereShips ==
  ASSUME ShipInv, UNCHANGED <<pc, inserted, flushing, committedRx, sinkVars>>
  PROVE  ShipInv'
<1>1. Forward
  BY DEF Forward, sinkVars, ShipInv
<1> QED
  BY <1>1, OtherShips, FewerCommitted

LEMMA SubmitShips ==
  ASSUME Typed, SpotInv, ShipInv, NEW t \in Threads, SubmitSpots(t)
  PROVE  ShipInv'
<1>1. PICK k \in InHand(t) :
        /\ flushing' = [flushing EXCEPT ![t] = {k}]
        /\ \/ /\ sinkOpen /\ hand[t][k].spots # {}
              /\ buffer' = buffer \cup hand[t][k].spots
              /\ inserted' = [inserted EXCEPT ![t] = TRUE]
           \/ UNCHANGED <<buffer, inserted>>
        /\ \E s \in {"noise", "sync"} : Goto(t, s)
  BY DEF SubmitSpots
<1>2. pc[t] = "next" /\ UNCHANGED <<committedRx, sinkOpen, durable>>
  BY DEF SubmitSpots, wakeVars
<1>3. /\ pc'[t] \in {"noise", "sync"} /\ flushing'[t] = {k}
      /\ \A u \in Threads : u # t => /\ pc'[u] = pc[u] /\ flushing'[u] = flushing[u]
                                     /\ inserted'[u] = inserted[u]
  BY <1>1 DEF Goto, Typed, PcType, HandType
<1>4. Forward
  BY <1>1, <1>2 DEF Forward, ShipInv
<1>5. ~inserted[t]
  BY <1>2 DEF ShipInv, InsertedKept, InFlush
<1>6. ASSUME inserted'[t] PROVE Taken(k)'
  <2>1. hand[t][k].spots # {} /\ buffer' = buffer \cup hand[t][k].spots
    BY <1>1, <1>5, <1>6
  <2>2. hand[t][k].spots \subseteq JobsOf(k)
    BY <1>1 DEF SpotInv, OwnKeys, InHand
  <2> QED
    BY <2>1, <2>2 DEF Taken, JobsOf
<1>7. InsertedKept(t)'
  BY <1>3, <1>6 DEF InsertedKept, InFlush
<1>8. \A u \in Threads : u # t => InsertedKept(u)'
  BY <1>3, <1>4, OtherShips
<1> QED
  BY <1>2, <1>4, <1>7, <1>8, FewerCommitted

LEMMA SinkForward ==
  ASSUME "flush" \notin SinkFaults, ShipInv, FlushSink, sinkOpen' \in {sinkOpen, FALSE}
  PROVE  Forward /\ durable' = durable \cup buffer
BY DEF FlushSink, ShipInv, Forward

LEMMA FlushShips ==
  ASSUME "flush" \notin SinkFaults, Typed, SpotInv, ShipInv, NEW t \in Threads, Flush(t)
  PROVE  ShipInv'
<1>1. \A s : Goto(t, s) => pc'[t] = s /\ \A u \in Threads : u # t => pc'[u] = pc[u]
  BY DEF Goto, Typed, PcType
<1>2. ASSUME UNCHANGED sinkVars PROVE Forward
  BY <1>2 DEF sinkVars, ShipInv, Forward
<1>3. CASE SubmitSpots(t)
  BY <1>3, SubmitShips
<1>4. CASE SubmitNoise(t)
  <2>1. UNCHANGED <<committedRx, sinkVars>> /\ pc[t] = "noise"
    BY <1>4 DEF SubmitNoise, wakeVars
  <2>2. \/ UNCHANGED <<flushing, inserted>> /\ Goto(t, "sync")
        \/ /\ flushing' = [flushing EXCEPT ![t] = {}] /\ inserted' = [inserted EXCEPT ![t] = FALSE]
           /\ \E s : Goto(t, s)
    BY <1>4 DEF SubmitNoise
  <2>3. InsertedKept(t)'
    <3>1. CASE ~inserted'[t]
      BY <3>1 DEF InsertedKept
    <3>2. CASE inserted'[t]
      <4>1. UNCHANGED <<flushing, inserted>> /\ pc'[t] = "sync"
        BY <1>1, <2>2, <3>2 DEF Typed, HandType
      <4>2. InsertedKept(t)
        BY DEF ShipInv
      <4> QED
        BY <1>2, <2>1, <4>1, <4>2, StaysShipped DEF InsertedKept, InFlush
    <3> QED  BY <3>1, <3>2
  <2>4. \A u \in Threads : u # t => InsertedKept(u)'
    <3>1. \A u \in Threads : u # t => /\ pc'[u] = pc[u] /\ flushing'[u] = flushing[u]
                                      /\ inserted'[u] = inserted[u]
      BY <1>1, <2>2 DEF Typed, HandType
    <3> QED
      BY <1>2, <2>1, <3>1, OtherShips
  <2> QED
    BY <1>2, <2>1, <2>3, <2>4, FewerCommitted
<1>5. CASE SyncSink(t)
  <2>1. UNCHANGED <<committedRx, flushing, inserted, sinkOpen>> /\ pc[t] = "sync"
        /\ pc'[t] = "commit" /\ FlushSink /\ \A u \in Threads : u # t => pc'[u] = pc[u]
    BY <1>1, <1>5 DEF SyncSink, wakeVars
  <2>2. Forward /\ durable' = durable \cup buffer
    BY <2>1, SinkForward
  <2>3. InsertedKept(t)'
    <3>1. InsertedKept(t)
      BY DEF ShipInv
    <3>2. \A k : Taken(k) => Shipped(k)'
      BY <2>2 DEF Taken, Shipped
    <3> QED
      BY <2>1, <3>1, <3>2 DEF InsertedKept, InFlush
  <2>4. \A u \in Threads : u # t => InsertedKept(u)'
    BY <2>1, <2>2, OtherShips
  <2> QED
    BY <2>1, <2>2, <2>3, <2>4, FewerCommitted
<1>6. CASE CommitAndWake(t)
  <2>1. UNCHANGED <<flushing, inserted, sinkVars>> /\ pc[t] = "commit"
        /\ pc'[t] = "wake" /\ \A u \in Threads : u # t => pc'[u] = pc[u]
    BY <1>1, <1>6 DEF CommitAndWake
  <2>2. \A c \in Cycles : committedRx'[c] \subseteq committedRx[c]
    BY <1>6 DEF CommitAndWake, Typed, WakeType
  <2>3. InsertedKept(t)'
    <3>1. InsertedKept(t)
      BY DEF ShipInv
    <3> QED
      BY <1>2, <2>1, <3>1, StaysShipped DEF InsertedKept, InFlush
  <2>4. \A u \in Threads : u # t => InsertedKept(u)'
    BY <1>2, <2>1, OtherShips
  <2> QED
    BY <1>2, <2>1, <2>2, <2>3, <2>4, FewerCommitted
<1>7. ASSUME FlushEnd(t), Goto(t, "next"), UNCHANGED sinkVars
      PROVE  \A u \in Threads : InsertedKept(u)'
  <2>1. /\ ~inserted'[t]
        /\ \A u \in Threads : u # t => /\ pc'[u] = pc[u] /\ flushing'[u] = flushing[u]
                                       /\ inserted'[u] = inserted[u]
    BY <1>1, <1>7 DEF FlushEnd, Typed, HandType
  <2>2. InsertedKept(t)'
    BY <2>1 DEF InsertedKept
  <2>3. \A u \in Threads : u # t => InsertedKept(u)'
    BY <1>2, <1>7, <2>1, OtherShips
  <2> QED  BY <2>2, <2>3
<1>8. CASE ScheduleWake(t)
  BY <1>2, <1>7, <1>8, FewerCommitted DEF ScheduleWake
<1>9. CASE CommitQuietly(t)
  <2>1. UNCHANGED sinkVars /\ pc[t] = "commit" /\ FlushEnd(t) /\ Goto(t, "next")
    BY <1>9 DEF CommitQuietly
  <2>2. PICK k \in flushing[t] :
          \/ UNCHANGED committedRx
          \/ inserted[t] /\ committedRx' = [committedRx EXCEPT ![k[1]] = committedRx[k[1]] \cup {k[2]}]
    BY <1>9 DEF CommitQuietly, Committed
  <2>3. CASE UNCHANGED committedRx
    BY <1>2, <1>7, <2>1, <2>3, FewerCommitted
  <2>4. CASE inserted[t] /\ committedRx' = [committedRx EXCEPT ![k[1]] = committedRx[k[1]] \cup {k[2]}]
    <3>1. k = <<k[1], k[2]>> /\ k[1] \in Cycles
      BY DEF Typed, HandType, Keys
    <3>2. Shipped(<<k[1], k[2]>>)
      <4>1. InsertedKept(t)
        BY DEF ShipInv
      <4> QED
        BY <2>1, <2>4, <3>1, <4>1 DEF InsertedKept
    <3>3. \A c \in Cycles : \A r \in committedRx'[c] : Shipped(<<c, r>>)
      BY <2>4, <3>1, <3>2 DEF ShipInv, Typed, WakeType
    <3>4. \A c \in Cycles : \A r \in committedRx'[c] : Shipped(<<c, r>>)'
      BY <1>2, <2>1, <3>3, StaysShipped
    <3>5. ~sinkOpen' => buffer' = {}
      BY <1>2, <2>1 DEF Forward
    <3> QED
      BY <1>7, <2>1, <3>4, <3>5 DEF ShipInv
  <2> QED  BY <2>2, <2>3, <2>4
<1> QED
  BY <1>3, <1>4, <1>5, <1>6, <1>8, <1>9 DEF Flush

LEMMA NextShips ==
  ASSUME "flush" \notin SinkFaults, Typed, SpotInv, ShipInv, [Next]_vars
  PROVE  ShipInv'
<1>1. CASE UNCHANGED vars
  BY <1>1, ElsewhereShips DEF vars, threadVars, wakeVars
<1>2. CASE (\E r \in Rxs, b \in HighBands, p \in BOOLEAN : SetBandProducible(r, b, p)) \/ SetWakeCallback
  BY <1>2, ElsewhereShips DEF SetBandProducible, SetWakeCallback, threadVars, wakeVars
<1>3. CASE (\E c \in Cycles : TimerFires(c)) \/ Tick
  BY <1>3, ElsewhereShips DEF TimerFires, Tick, threadVars
<1>4. ASSUME NEW j \in Jobs, Produce(j) PROVE ShipInv'
  BY <1>4, ElsewhereShips DEF Produce, ExpectBand, AddNoise, AddSpots, MarkDone, threadVars, wakeVars
<1>5. Writer \in Threads /\ Stopper \in Threads
  BY DEF Threads
<1>6. UNCHANGED <<sinkOpen, buffer, durable>> => Forward
  BY DEF Forward, ShipInv
<1>7. CASE WriterCheck \/ WriterCollect \/ WriterWait \/ WriterResume \/ WriterRoundDone
  <2>1. /\ UNCHANGED <<inserted, flushing, sinkVars>>
        /\ pc[Writer] \notin InFlush /\ \E s : Goto(Writer, s)
    BY <1>7 DEF WriterCheck, WriterCollect, WriterWait, WriterResume, WriterRoundDone, InFlush
  <2>2. \A c \in Cycles : committedRx'[c] \subseteq committedRx[c]
    <3>1. UNCHANGED committedRx
          \/ committedRx' = [c \in Cycles |-> IF c \in CrossExpired THEN {} ELSE committedRx[c]]
      BY <1>7 DEF WriterCheck, WriterCollect, WriterWait, WriterResume, WriterRoundDone, wakeVars
    <3> QED  BY <3>1
  <2> QED
    BY <1>5, <1>6, <2>1, <2>2, IdleShips DEF sinkVars
<1>8. CASE \E c \in Cycles : WriterCrossWake(c)
  BY <1>8, ElsewhereShips DEF WriterCrossWake, threadVars
<1>9. CASE StopSet \/ StopNotify \/ StopJoined \/ StopCancel \/ StopDrained \/ CloseSink
  <2>1. /\ UNCHANGED <<inserted, flushing, committedRx>>
        /\ pc[Stopper] \notin InFlush /\ \E s : Goto(Stopper, s)
    BY <1>9 DEF StopSet, StopNotify, StopJoined, StopCancel, StopDrained, CloseSink, wakeVars, InFlush
  <2>2. UNCHANGED <<sinkOpen, buffer, durable>> \/ (FlushSink /\ sinkOpen' = FALSE)
    BY <1>9 DEF StopSet, StopNotify, StopJoined, StopCancel, StopDrained, CloseSink, sinkVars
  <2>3. Forward
    BY <1>6, <2>2, SinkForward
  <2> QED
    BY <1>5, <2>1, <2>3, IdleShips
<1> QED
  BY <1>1, <1>2, <1>3, <1>4, <1>5, <1>7, <1>8, <1>9, FlushShips DEF Next, Write, Stop

LEMMA WakeStep ==
  ASSUME ShipInv, Typed, [Next]_vars, NEW c \in wakeFired' \ wakeFired, c \notin crossFires',
         NEW r \in ExpectedRx
  PROVE  \E j \in durable : j.cycle = c /\ j.rx = r
<1>1. CASE WriterCollect
  <2>1. crossFires' = CrossExpired /\ wakeFired' = wakeFired \cup CrossExpired
    BY <1>1 DEF WriterCollect, BackstopMarked
  <2> QED  BY <2>1
<1>2. CASE \E t \in Threads : CommitAndWake(t)
  <2>1. PICK t \in Threads : CommitAndWake(t)
    BY <1>2
  <2>2. PICK k \in flushing[t] : k[1] = c /\ AllCommitted(c, k[2])
    BY <2>1 DEF CommitAndWake
  <2>3. pc[t] = "commit" /\ inserted[t]
    BY <2>1 DEF CommitAndWake
  <2>4. k = <<c, k[2]>> /\ c \in Cycles
    BY <2>2 DEF Typed, HandType, Keys
  <2>5. Shipped(<<c, k[2]>>)
    <3>1. InsertedKept(t)
      BY DEF ShipInv
    <3> QED
      BY <2>3, <2>4, <3>1 DEF InsertedKept
  <2>6. r \in committedRx[c] \cup {k[2]}
    BY <2>2 DEF AllCommitted, Committed
  <2>7. Shipped(<<c, r>>)
    BY <2>4, <2>5, <2>6 DEF ShipInv
  <2> QED
    BY <2>7 DEF Shipped, Key
<1>3. CASE UNCHANGED wakeFired
  BY <1>3
<1>4. Writer \in Threads /\ Stopper \in Threads
  BY DEF Threads
<1> QED
  BY <1>1, <1>2, <1>3, <1>4
     DEF Next, vars, Produce, Write, Stop, Flush, SetBandProducible, SetWakeCallback, ExpectBand,
         AddNoise, AddSpots, MarkDone, WriterCheck, WriterWait, WriterResume, WriterCrossWake,
         WriterRoundDone, SubmitSpots, SubmitNoise, SyncSink, CommitQuietly, ScheduleWake,
         TimerFires, StopSet, StopNotify, StopJoined, StopCancel, StopDrained, CloseSink, Tick,
         wakeVars

(* Where no flush of the sink fails, the commit that decides a cycle's     *)
(* wake (spot_sink.py:1460) finds spots of every expected receiver in      *)
(* pending_uploads, for any receivers, cycles and jobs, also when inserts  *)
(* fail, the noise writer cannot be imported, or stop() flushes at the     *)
(* same time as the writer.                                                *)
THEOREM WakesWhenDurable == "flush" \notin SinkFaults => (Spec => WakeAfterDurable)
<1> SUFFICES ASSUME "flush" \notin SinkFaults
             PROVE  Spec => WakeAfterDurable
  OBVIOUS
<1> DEFINE Inv == Typed /\ SpotInv /\ ShipInv
<1>1. Init => Inv
  <2>1. Init => ShipInv
    BY DEF Init, ShipInv, InsertedKept
  <2> QED
    BY <2>1, InitType, InitSpots
<1>2. Inv /\ [Next]_vars => Inv'
  BY NextType, NextKeepsSpots, NextShips
<1>3. Inv /\ [Next]_vars
      => [\A c \in wakeFired' \ wakeFired : c \notin crossFires' =>
            \A r \in ExpectedRx : \E j \in durable : j.cycle = c /\ j.rx = r]_vars
  BY WakeStep
<1> QED
  BY <1>1, <1>2, <1>3, PTL DEF Spec, WakeAfterDurable

-----------------------------------------------------------------------------
(***************************************************************************)
(* One flush per cycle.  The batch that the first announcement opened      *)
(* waits for every band in service, a band counts as completed only once a *)
(* job of it is done, and until the first collection a job in progress     *)
(* keeps its batch open.  After a collection that was complete a job that  *)
(* still adds something has a done job of its band beside it.              *)
(***************************************************************************)
AllAwaited(k) ==
  batch[k].open /\ collected[k] = {} =>
    \A j \in JobsOf(k) : j.band \notin unproducible[j.rx] => j.band \in batch[k].expected

BandDone(k, b) == \E i \in JobsOf(k) : i.band = b /\ jobPc[i] = "done"

CompletedDone(k) == \A b \in batch[k].completed : BandDone(k, b)

HeldOpen(j) == jobPc[j] \notin {"queued", "done"} /\ collected[Key(j)] = {} => batch[Key(j)].open

Begun(k) == batch[k].open \/ collected[k] # {} => \E j \in JobsOf(k) : jobPc[j] # "queued"

CycleDone(k) ==
  CollectedComplete(k) =>
    /\ \A j \in JobsOf(k) : BandDone(k, j.band)
    /\ batch[k].open => Doubled(k) # {}
    /\ batch[k].spots \subseteq Doubled(k)

OnceInv ==
  /\ \A k \in Keys : AllAwaited(k) /\ CompletedDone(k) /\ Begun(k) /\ CycleDone(k)
  /\ \A j \in Jobs : HeldOpen(j)
  /\ pc[Stopper] # "up" => \A j \in Jobs : jobPc[j] \in {"queued", "done"}

(* Steps that leave the jobs, and what their batches wait for, alone.      *)
LEMMA OnceKept ==
  ASSUME OnceInv, UNCHANGED <<jobPc, unproducible, collected>>,
         \A k \in Keys : /\ batch'[k].open = batch[k].open
                         /\ batch'[k].expected = batch[k].expected
                         /\ batch'[k].completed = batch[k].completed
                         /\ batch'[k].spots = batch[k].spots,
         pc'[Stopper] # "up" => pc[Stopper] # "up" \/ \A j \in Jobs : jobPc[j] \in {"queued", "done"}
  PROVE  OnceInv'
<1>1. \A k \in Keys : AllAwaited(k)' /\ CompletedDone(k)' /\ Begun(k)' /\ CycleDone(k)'
  BY DEF OnceInv, AllAwaited, CompletedDone, BandDone, Begun, CycleDone, CollectedComplete
<1>2. \A j \in Jobs : HeldOpen(j)'
  BY JobFields DEF OnceInv, HeldOpen
<1> QED  BY <1>1, <1>2 DEF OnceInv

LEMMA BandOnce ==
  ASSUME Typed, OnceInv, NEW r \in Rxs, NEW b \in HighBands, NEW p \in BOOLEAN,
         SetBandProducible(r, b, p)
  PROVE  OnceInv'
<1>1. /\ UNCHANGED <<jobPc, collected, batch, pc>>
      /\ p => \A j \in Jobs : j.rx = r => jobPc[j] = "queued"
      /\ \A s \in Rxs : s # r \/ ~p => unproducible[s] \subseteq unproducible'[s]
  BY DEF SetBandProducible, batchVars, threadVars, Typed, ProducerType
<1>2. ASSUME NEW k \in Keys
      PROVE  AllAwaited(k)' /\ CompletedDone(k)' /\ Begun(k)' /\ CycleDone(k)'
  <2>1. AllAwaited(k) /\ CompletedDone(k) /\ Begun(k) /\ CycleDone(k)
    BY DEF OnceInv
  <2>2. \A j \in JobsOf(k) : j.rx = k[2] /\ j.rx \in Rxs /\ j \in Jobs
    BY JobFields DEF JobsOf, Key
  <2>3. CASE p /\ k[2] = r
    <3>1. \A j \in JobsOf(k) : jobPc[j] = "queued"
      BY <1>1, <2>2, <2>3
    <3>2. ~batch[k].open /\ collected[k] = {}
      BY <2>1, <3>1 DEF Begun
    <3> QED
      BY <1>1, <2>1, <3>2 DEF AllAwaited, CompletedDone, BandDone, Begun, CycleDone, CollectedComplete
  <2>4. CASE ~(p /\ k[2] = r)
    <3>1. \A j \in JobsOf(k) : unproducible[j.rx] \subseteq unproducible'[j.rx]
      BY <1>1, <2>2, <2>4
    <3>2. AllAwaited(k)'
      BY <1>1, <2>1, <3>1 DEF AllAwaited
    <3>3. CompletedDone(k)' /\ Begun(k)'
      BY <1>1, <2>1 DEF CompletedDone, BandDone, Begun
    <3>4. CycleDone(k)'
      <4>1. CollectedComplete(k)' => CollectedComplete(k)
        BY <1>1, <3>1 DEF CollectedComplete
      <4> QED
        BY <1>1, <2>1, <4>1 DEF CycleDone, BandDone
    <3> QED
      BY <3>2, <3>3, <3>4
  <2> QED  BY <2>3, <2>4
<1>3. \A j \in Jobs : HeldOpen(j)'
  BY <1>1 DEF OnceInv, HeldOpen
<1> QED  BY <1>1, <1>2, <1>3 DEF OnceInv

(* What a producer's call does to the batch of its key.                    *)
LEMMA ProducerBatch ==
  ASSUME Typed, NEW j \in Jobs, Produce(j)
  PROVE  LET q == Key(j) IN
         /\ UNCHANGED <<collected, unproducible, pc>>
         /\ \A i \in Jobs : i # j => jobPc'[i] = jobPc[i]
         /\ jobPc[j] # "done" /\ jobPc'[j] # "queued"
         /\ jobPc[j] = "queued" => jobPc'[j] # "done" /\ pc[Stopper] = "up"
         /\ \A k \in Keys : k # q => batch'[k] = batch[k]
         /\ batch'[q].completed \subseteq
              batch[q].completed \cup IF jobPc'[j] = "done" THEN {j.band} ELSE {}
         /\ batch'[q].spots \subseteq batch[q].spots \cup {j}
         /\ batch[q].open => batch'[q].open /\ batch[q].expected \subseteq batch'[q].expected
         /\ jobPc[j] = "queued" =>
              /\ batch'[q].open /\ j.band \in batch'[q].expected
              /\ batch[q].open \/ ExpectedBandsForCycle(j.cycle, j.rx) \subseteq batch'[q].expected
<1> USE JobFields, TimeoutsAssumption
<1> DEFINE q == Key(j)
<1>1. /\ UNCHANGED <<collected, unproducible, pc>>
      /\ \A i \in Jobs : i # j => jobPc'[i] = jobPc[i]
      /\ jobPc[j] # "done" /\ jobPc'[j] # "queued"
      /\ jobPc[j] = "queued" => jobPc'[j] # "done" /\ pc[Stopper] = "up"
  BY DEF Produce, ExpectBand, AddNoise, AddSpots, MarkDone, threadVars, Typed, ProducerType
<1>2. /\ batch[q] \in Batch /\ batch \in [Keys -> Batch] /\ q \in Keys
      /\ BatchForAdd(q) \in Batch
      /\ BatchForAdd(q).completed \subseteq batch[q].completed
      /\ BatchForAdd(q).spots \subseteq batch[q].spots
      /\ batch[q].open => BatchForAdd(q) = batch[q]
  BY EmptyBatches DEF BatchForAdd, NewBatch, NoBatch, Typed, BatchType
<1>3. CASE ExpectBand(j)
  <2> DEFINE fresh == [NewBatch(BackstopSec) EXCEPT !.expected = ExpectedBandsForCycle(j.cycle, j.rx)]
             b     == IF batch[q].open THEN batch[q] ELSE fresh
  <2>1. /\ fresh \in Batch /\ fresh.open /\ fresh.completed = {} /\ fresh.spots = {}
        /\ fresh.expected = ExpectedBandsForCycle(j.cycle, j.rx)
    <3>1. ExpectedBandsForCycle(j.cycle, j.rx) \subseteq Bands
      BY DEF ExpectedBandsForCycle
    <3> QED
      BY <3>1, EmptyBatches, BatchFields DEF NewBatch, NoBatch, Batch
  <2>2. batch' = [batch EXCEPT ![q] = [b EXCEPT !.expected = @ \cup {j.band}]] /\ jobPc[j] = "queued"
    BY <1>3 DEF ExpectBand
  <2> HIDE DEF fresh
  <2>3. b \in Batch /\ b.open /\ b.completed \subseteq batch[q].completed /\ b.spots \subseteq batch[q].spots
    BY <1>2, <2>1
  <2>4. /\ batch'[q].open /\ batch'[q].expected = b.expected \cup {j.band}
        /\ batch'[q].completed = b.completed /\ batch'[q].spots = b.spots
        /\ \A k \in Keys : k # q => batch'[k] = batch[k]
    BY <1>2, <2>2, <2>3 DEF Batch
  <2> QED
    BY <1>1, <2>1, <2>2, <2>3, <2>4
<1>4. CASE AddNoise(j) \/ AddSpots(j)
  <2>1. PICK b \in Batch :
          /\ batch' = [batch EXCEPT ![q] = b] /\ jobPc[j] # "queued"
          /\ b.open = BatchForAdd(q).open /\ b.expected = BatchForAdd(q).expected
          /\ b.completed = BatchForAdd(q).completed
          /\ b.spots \subseteq BatchForAdd(q).spots \cup {j}
    <3>1. CASE AddNoise(j)
      <4>1. [BatchForAdd(q) EXCEPT !.noise = TRUE] \in Batch
        BY <1>2, BatchFields
      <4> QED
        BY <1>2, <3>1, <4>1 DEF AddNoise, Batch
    <3>2. CASE AddSpots(j)
      <4>1. [BatchForAdd(q) EXCEPT !.spots = @ \cup {j}] \in Batch
        <5>1. BatchForAdd(q).spots \cup {j} \in SUBSET Jobs
          BY <1>2, BatchFields
        <5> QED
          BY <1>2, <5>1, BatchFields
      <4> QED
        BY <1>2, <3>2, <4>1 DEF AddSpots, Batch
    <3> QED  BY <1>4, <3>1, <3>2
  <2> QED
    BY <1>1, <1>2, <2>1
<1>5. CASE MarkDone(j)
  <2>1. jobPc'[j] = "done" /\ jobPc[j] # "queued"
    BY <1>5 DEF MarkDone, Typed, ProducerType
  <2>2. CASE batch[q].open
    <3>1. batch' = [batch EXCEPT ![q].completed = @ \cup {j.band}]
      BY <1>5, <2>2 DEF MarkDone
    <3> QED
      BY <1>1, <1>2, <2>1, <3>1 DEF Batch
  <2>3. CASE ~batch[q].open
    <3>1. batch' = batch
      BY <1>5, <2>3 DEF MarkDone
    <3> QED
      BY <1>1, <2>1, <2>3, <3>1
  <2> QED  BY <2>2, <2>3
<1> QED
  BY <1>3, <1>4, <1>5 DEF Produce

LEMMA ProducerOnce ==
  ASSUME Typed, OnceInv, NEW j \in Jobs, Produce(j)
  PROVE  OnceInv'
<1> USE JobFields
<1> DEFINE q == Key(j)
<1>1. /\ UNCHANGED <<collected, unproducible, pc>>
      /\ \A i \in Jobs : i # j => jobPc'[i] = jobPc[i]
      /\ jobPc[j] # "done" /\ jobPc'[j] # "queued"
      /\ jobPc[j] = "queued" => jobPc'[j] # "done" /\ pc[Stopper] = "up"
  BY ProducerBatch
<1>2. /\ \A k \in Keys : k # q => batch'[k] = batch[k]
      /\ batch'[q].completed \subseteq
           batch[q].completed \cup IF jobPc'[j] = "done" THEN {j.band} ELSE {}
      /\ batch'[q].spots \subseteq batch[q].spots \cup {j}
      /\ batch[q].open => batch'[q].open /\ batch[q].expected \subseteq batch'[q].expected
      /\ jobPc[j] = "queued" =>
           /\ batch'[q].open /\ j.band \in batch'[q].expected
           /\ batch[q].open \/ ExpectedBandsForCycle(j.cycle, j.rx) \subseteq batch'[q].expected
  BY ProducerBatch
<1>3. pc[Stopper] = "up"
  BY <1>1 DEF OnceInv
<1>4. /\ \A k \in Keys : AllAwaited(k) /\ CompletedDone(k) /\ Begun(k) /\ CycleDone(k)
      /\ \A i \in Jobs : HeldOpen(i)
      /\ q \in Keys
  BY DEF OnceInv
<1>5. \A k \in Keys : \A i \in JobsOf(k) : i \in Jobs /\ Key(i) = k /\ (i = j => k = q)
  BY DEF JobsOf
<1>6. j \in JobsOf(q)
  BY DEF JobsOf
<1> HIDE DEF q
<1>7. ASSUME collected[q] = {}, ~batch[q].open
      PROVE  jobPc[j] = "queued"
  BY <1>1, <1>4, <1>7 DEF HeldOpen, q
<1>8. AllAwaited(q)'
  <2> SUFFICES ASSUME collected[q] = {}, NEW i \in JobsOf(q), i.band \notin unproducible[i.rx]
               PROVE  i.band \in batch'[q].expected
    BY <1>1 DEF AllAwaited
  <2>1. CASE batch[q].open
    BY <1>2, <1>4, <2>1 DEF AllAwaited
  <2>2. CASE ~batch[q].open
    <3>1. i.band \in ExpectedBandsForCycle(i.cycle, i.rx)
      <4>1. i \in Jobs /\ i.band \in Bands
        BY <1>4, <1>5
      <4>2. i.period \in BandPeriods[i.band] /\ Epoch[i.cycle] % i.period = 0
        BY <4>1, SlotsAssumption
      <4>3. \E p \in BandPeriods[i.band] : Epoch[i.cycle] % p = 0
        BY <4>2, Zenon
      <4> QED
        BY <4>1, <4>3, Zenon DEF ExpectedBandsForCycle
    <3>2. i.cycle = j.cycle /\ i.rx = j.rx
      BY <1>5 DEF Key, q
    <3> QED
      BY <1>2, <1>7, <2>2, <3>1, <3>2
  <2> QED  BY <2>1, <2>2
<1>9. \A k \in Keys : \A b : BandDone(k, b) => BandDone(k, b)'
  BY <1>1, <1>5 DEF BandDone
<1>10. CompletedDone(q)'
  <2> SUFFICES ASSUME NEW b \in batch'[q].completed
               PROVE  BandDone(q, b)'
    BY DEF CompletedDone
  <2>1. CASE b \in batch[q].completed
    BY <1>4, <1>9, <2>1 DEF CompletedDone
  <2>2. CASE b \notin batch[q].completed
    <3>1. jobPc'[j] = "done" /\ b = j.band
      BY <1>2, <2>2
    <3> QED
      BY <1>6, <3>1 DEF BandDone
  <2> QED  BY <2>1, <2>2
<1>11. CycleDone(q)'
  <2> SUFFICES ASSUME CollectedComplete(q)
               PROVE  /\ \A i \in JobsOf(q) : BandDone(q, i.band)'
                      /\ Doubled(q) # {}
                      /\ batch'[q].spots \subseteq Doubled(q)
    BY <1>1 DEF CycleDone, CollectedComplete
  <2>1. /\ \A i \in JobsOf(q) : BandDone(q, i.band)
        /\ batch[q].spots \subseteq Doubled(q)
    BY <1>4 DEF CycleDone
  <2>2. j \in Doubled(q)
    <3>1. PICK i \in JobsOf(q) : i.band = j.band /\ jobPc[i] = "done"
      BY <1>6, <2>1 DEF BandDone
    <3>2. i # j
      BY <1>1, <3>1
    <3> QED
      BY <1>6, <3>1, <3>2 DEF Doubled
  <2> QED
    BY <1>2, <1>4, <1>9, <2>1, <2>2
<1>12. ASSUME NEW k \in Keys, k # q
       PROVE  AllAwaited(k)' /\ CompletedDone(k)' /\ CycleDone(k)'
  <2>1. batch'[k] = batch[k] /\ \A i \in JobsOf(k) : jobPc'[i] = jobPc[i]
    BY <1>1, <1>2, <1>5, <1>12
  <2> QED
    BY <1>1, <1>4, <1>9, <2>1 DEF AllAwaited, CompletedDone, CycleDone, CollectedComplete
<1>13. ASSUME NEW k \in Keys
       PROVE  Begun(k)'
  <2>1. CASE k = q
    BY <1>1, <1>6, <2>1 DEF Begun
  <2>2. CASE k # q
    BY <1>1, <1>2, <1>4, <1>5, <2>2 DEF Begun
  <2> QED  BY <2>1, <2>2
<1>14. ASSUME NEW i \in Jobs
       PROVE  HeldOpen(i)'
  <2> SUFFICES ASSUME jobPc'[i] \notin {"queued", "done"}, collected[Key(i)] = {}
               PROVE  batch'[Key(i)].open
    BY <1>1 DEF HeldOpen
  <2>1. CASE jobPc[i] \notin {"queued", "done"}
    <3>1. batch[Key(i)].open
      BY <1>4, <2>1 DEF HeldOpen
    <3> QED
      BY <1>2, <3>1
  <2>2. CASE jobPc[i] \in {"queued", "done"}
    <3>1. i = j /\ jobPc[j] = "queued"
      BY <1>1, <2>2
    <3> QED
      BY <1>2, <3>1 DEF q
  <2> QED  BY <2>1, <2>2
<1> QED
  BY <1>1, <1>3, <1>8, <1>10, <1>11, <1>12, <1>13, <1>14 DEF OnceInv

LEMMA CollectOnce ==
  ASSUME Typed, OnceInv, WriterCollect
  PROVE  OnceInv'
<1>1. /\ UNCHANGED <<jobPc, unproducible>> /\ pc'[Stopper] = pc[Stopper]
      /\ \A k \in Keys : batch'[k] = IF Ready(k) THEN NoBatch ELSE batch[k]
      /\ \A k \in Keys : collected'[k] = collected[k] \cup
                           IF ~Ready(k) THEN {}
                           ELSE IF Complete(batch[k]) THEN {"complete"} ELSE {"overdue"}
  BY DEF WriterCollect, Uncollected, producerVars, Goto, Typed, PcType, Threads, Writer, Stopper
<1>2. ~NoBatch.open /\ NoBatch.completed = {} /\ NoBatch.spots = {}
  BY DEF NoBatch
<1>3. \A k \in Keys : collected'[k] = {} => ~Ready(k) /\ collected[k] = {}
  BY <1>1
<1>4. \A k \in Keys : AllAwaited(k) /\ CompletedDone(k) /\ Begun(k) /\ CycleDone(k)
  BY DEF OnceInv
<1>5. ASSUME NEW k \in Keys
      PROVE  AllAwaited(k)' /\ CompletedDone(k)' /\ Begun(k)'
  <2>1. AllAwaited(k)'
    BY <1>1, <1>3, <1>4 DEF AllAwaited
  <2>2. CompletedDone(k)'
    BY <1>1, <1>2, <1>4 DEF CompletedDone, BandDone
  <2>3. Begun(k)'
    BY <1>1, <1>2, <1>4 DEF Begun, Ready
  <2> QED  BY <2>1, <2>2, <2>3
<1>6. ASSUME NEW k \in Keys
      PROVE  CycleDone(k)'
  <2>1. CASE Ready(k)
    <3> SUFFICES ASSUME collected'[k] = {"complete"},
                        \A j \in JobsOf(k) : j.band \notin unproducible[j.rx],
                        NEW j \in JobsOf(k)
                 PROVE  BandDone(k, j.band)
      BY <1>1, <1>2, <2>1 DEF CycleDone, CollectedComplete, BandDone
    <3>1. Complete(batch[k]) /\ batch[k].open /\ collected[k] \subseteq {"complete"}
      BY <1>1, <2>1 DEF Ready
    <3>2. CASE collected[k] = {}
      <4>1. j.band \in batch[k].completed
        BY <1>4, <3>1, <3>2 DEF AllAwaited, Complete
      <4> QED
        BY <1>4, <4>1 DEF CompletedDone
    <3>3. CASE collected[k] = {"complete"}
      BY <1>4, <3>3 DEF CycleDone, CollectedComplete
    <3> QED
      BY <3>1, <3>2, <3>3
  <2>2. CASE ~Ready(k)
    <3>1. collected'[k] = collected[k] /\ batch'[k] = batch[k]
      BY <1>1, <2>2
    <3> QED
      BY <1>1, <1>4, <3>1 DEF CycleDone, CollectedComplete, BandDone
  <2> QED  BY <2>1, <2>2
<1>7. ASSUME NEW j \in Jobs
      PROVE  HeldOpen(j)'
  <2>1. Key(j) \in Keys
    BY JobFields
  <2> QED
    BY <1>1, <1>3, <2>1 DEF OnceInv, HeldOpen
<1> QED
  BY <1>1, <1>5, <1>6, <1>7 DEF OnceInv

LEMMA CancelOnce ==
  ASSUME Typed, OnceInv, StopCancel
  PROVE  OnceInv'
<1>1. /\ UNCHANGED <<jobPc, unproducible, collected>>
      /\ \A k \in Keys : batch'[k] = NoBatch
      /\ \A j \in Jobs : jobPc[j] \in {"queued", "done"}
  BY DEF StopCancel, OnceInv, producerVars
<1>2. ~NoBatch.open /\ NoBatch.completed = {} /\ NoBatch.spots = {}
  BY DEF NoBatch
<1>3. \A k \in Keys : AllAwaited(k)' /\ CompletedDone(k)' /\ Begun(k)' /\ CycleDone(k)'
  BY <1>1, <1>2 DEF OnceInv, AllAwaited, CompletedDone, BandDone, Begun, CycleDone, CollectedComplete
<1>4. \A j \in Jobs : HeldOpen(j)'
  BY <1>1 DEF HeldOpen
<1> QED  BY <1>1, <1>3, <1>4 DEF OnceInv

LEMMA NextOnce == Typed /\ OnceInv /\ [Next]_vars => OnceInv'
<1> SUFFICES ASSUME Typed, OnceInv, [Next]_vars
             PROVE  OnceInv'
  OBVIOUS
<1>1. ASSUME UNCHANGED <<jobPc, unproducible, collected, batch>>,
             pc'[Stopper] # "up" => pc[Stopper] # "up" \/ \A j \in Jobs : jobPc[j] \in {"queued", "done"}
      PROVE  OnceInv'
  BY <1>1, OnceKept
<1>2. CASE UNCHANGED vars
  BY <1>1, <1>2 DEF vars, producerVars, batchVars, threadVars
<1>3. CASE SetWakeCallback \/ (\E c \in Cycles : TimerFires(c) \/ WriterCrossWake(c))
  BY <1>1, <1>3 DEF SetWakeCallback, TimerFires, WriterCrossWake, producerVars, batchVars, threadVars
<1>4. CASE Tick
  <2>1. UNCHANGED <<jobPc, unproducible, collected, pc>>
    BY <1>4 DEF Tick, producerVars, threadVars
  <2>2. \A k \in Keys : /\ batch'[k].open = batch[k].open
                        /\ batch'[k].expected = batch[k].expected
                        /\ batch'[k].completed = batch[k].completed
                        /\ batch'[k].spots = batch[k].spots
    BY <1>4 DEF Tick, Typed, BatchType, Batch
  <2> QED
    BY <2>1, <2>2, OnceKept
<1>5. ASSUME NEW t \in Threads, NEW s, pc[t] # "up", Goto(t, s), UNCHANGED <<producerVars, batchVars>>
      PROVE  OnceInv'
  <2>1. pc'[Stopper] # "up" => pc[Stopper] # "up"
    BY <1>5 DEF Goto, Typed, PcType, Threads
  <2> QED
    BY <1>1, <1>5, <2>1 DEF producerVars, batchVars
<1>6. Writer \in Threads /\ Stopper \in Threads
  BY DEF Threads
<1>7. ASSUME NEW t \in Threads, Flush(t)
      PROVE  OnceInv'
  <2>1. /\ UNCHANGED <<producerVars, batchVars>> /\ pc[t] # "up"
        /\ \E s : Goto(t, s)
    BY <1>7 DEF Flush, SubmitSpots, SubmitNoise, SyncSink, CommitQuietly, CommitAndWake, ScheduleWake
  <2> QED
    BY <1>5, <2>1
<1>8. CASE WriterCheck \/ WriterWait \/ WriterResume \/ WriterRoundDone
  <2>1. UNCHANGED <<producerVars, batchVars>> /\ pc[Writer] # "up" /\ \E s : Goto(Writer, s)
    BY <1>8 DEF WriterCheck, WriterWait, WriterResume, WriterRoundDone
  <2> QED
    BY <1>5, <1>6, <2>1
<1>9. CASE StopNotify \/ StopJoined \/ StopDrained \/ CloseSink
  <2>1. UNCHANGED <<producerVars, batchVars>> /\ pc[Stopper] # "up" /\ \E s : Goto(Stopper, s)
    BY <1>9 DEF StopNotify, StopJoined, StopDrained, CloseSink
  <2> QED
    BY <1>5, <1>6, <2>1
<1>10. CASE StopSet
  BY <1>1, <1>10 DEF StopSet, producerVars, batchVars
<1>11. CASE Write
  BY <1>3, <1>6, <1>7, <1>8, <1>11, CollectOnce DEF Write
<1>12. CASE Stop
  BY <1>6, <1>7, <1>9, <1>10, <1>12, CancelOnce DEF Stop
<1> QED
  BY <1>2, <1>3, <1>4, <1>11, <1>12, BandOnce, ProducerOnce DEF Next

(* A cycle of a receiver that no deadline cut short is flushed after every *)
(* band in service has reported, and what is added to it later is of jobs  *)
(* whose band has a second slot on the key (spot_sink.py:1216), for any    *)
(* receivers, bands, periods and deadlines.                                *)
THEOREM FlushedOnce == Spec => []FlushOncePerCycle
<1>1. Init => OnceInv
  <2> SUFFICES ASSUME Init PROVE OnceInv
    OBVIOUS
  <2>1. /\ \A j \in Jobs : jobPc[j] = "queued"
        /\ \A k \in Keys : /\ collected[k] = {} /\ ~batch[k].open
                           /\ batch[k].completed = {}
    BY DEF Init, NoBatch
  <2> QED
    BY <2>1, JobFields DEF OnceInv, AllAwaited, CompletedDone, Begun, CycleDone, CollectedComplete, HeldOpen, Init,
                         Threads, Writer, Stopper
<1>2. Typed /\ OnceInv /\ [Next]_vars => (Typed /\ OnceInv)'
  BY NextType, NextOnce
<1>3. OnceInv => FlushOncePerCycle
  BY DEF OnceInv, CycleDone, BandDone, FlushOncePerCycle
<1> QED
  BY <1>1, <1>2, <1>3, InitType, PTL DEF Spec
=============================================================================
