# wspr-recorder in TLA+

TLA+ models of the concurrent core of wspr-recorder, checked with TLC on small
instances and, where it matters most, proved with TLAPS for every instance.
Paths and line numbers are those of `src/`; package files are named without the
`src/wspr_recorder/` prefix.

## 1. The system

wspr-recorder receives the audio of up to some twenty amateur bands from one or
more `radiod` instances, cuts it into slots of 2, 5, 15 and 30 minutes that
start on clean UTC multiples, decodes every slot with `wsprd` or `jt9`, writes
the spots of a cycle into a local database and wakes an uploader. A host may
run a dozen such processes.

    radiod ==RTP==> on_samples --> RingBuffer --> DecodeRequest
    (ReceiverManager)  (BandRecorder, one per band)      |
                                                   PriorityDecodePool
                                                         | worker threads
                                          host_wide_slot | (F15, F30 only)
                                                         v
                                    expect_band / add_noise / add / mark_done
                                                         |
                                            CycleBatcher (writer thread)
                                                         | SpotSink
                                                 pending_uploads
                                                         | wake
                                            WsprUploaderHs (pump thread)

### Inventory

For each component: the state it keeps, its operations, whom it meets, what is
hard, and what makes it correct.

**Cycle batcher** (`spot_sink.py` 690-1537, `__main__.py` 655-762, 2321-2381).
State: batches per (cycle, receiver) with a deadline, the bands expected and
completed; for several receivers, who has committed a cycle, since when, and
whether its upload wake has fired; pending settle timers; the stop event.
Operations: `expect_band`, `add_noise`, `add`, `mark_done` on pool threads;
`_run` and `_flush` on the writer thread; `stop` on the thread that shuts down;
`set_band_producible` from the receiver manager; timers. Hard: batches are
removed under a lock and flushed outside it, late producers reopen a batch that
is gone, two paths decide about one wake, `stop` flushes beside a writer whose
join timed out. Correct if: no accepted spot is lost unaccounted for or written
twice, a cycle is flushed only when its bands reported, the wake of a cycle fires
once and not before the rows exist, whatever was handed over settles.

**Decode pool** (`decode_pool.py`). State: two heaps, the count of long jobs in
flight, the shutdown flag, the threads asleep on one condition variable. Hard:
one `notify` per event, and a worker that wakes may find something else than
what it was woken for; a capped job is runnable only after somebody releases a
long slot. Correct if no wakeup is lost, the long share holds, shutdown drains.

**Host-wide slots** (`host_slot.py`). State: byte-range locks of a shared file,
which the kernel keeps per process. Hard: several processes, polling with a
deadline, processes that die, locks whose owner is not the thread that took
them. Correct if processes do not share a slot and no slot stays locked; what the
code achieves of the first is in section 3.

**Sample ring** (`ring_buffer.py`). State: a circular array, its write position,
the absolute sample count, minute marks with their gaps. Operations: writes and
`close_minute` by the ingest thread, extraction by the ingest thread (W2, F5)
and, deferred, by decode threads (F15, F30). Hard: wrap-around, eviction while a
slice waits for its slot, a copy concurrent with writes. Correct if an extracted
window holds exactly the samples of its offsets, or nothing.

**Band recorder** (`band_recorder.py`, `decode_mode.py`). State: the anchor (RTP
timestamp and UTC of sample 0), the next slot of each period, divergence and
tier strikes. Operations: `on_samples` on the stream's thread, the harvest,
`reset` from the event loop, stream callbacks and recovery. Hard: the anchor
slides with radiod's mapping between two harvests; a reset between two
statements of the ingest thread. Correct if every slot is emitted once, in
order, and cut at its UTC boundary.

**RTP synchronisation** (`sync_strategy.py`). State: the correlation of RTP time
with UTC. Hard: 32-bit wrap, stale `channel_info` after a restart.

**Timing guards** (`timing_guard.py`, `__main__.py` 814-1057). State: strikes of
each receiver, one recovery ladder per receiver, the slot judged last. Operations:
the dt hook on the batcher's writer thread, the wall-clock hook on decode threads,
re-anchor, a SIGTERM to the process itself. Hard: two guards with different blind
spots report to one ladder, from threads that share no lock. Correct if a sound
anchor is left alone and one that runs away ends in a new process.
`timing_service.py` estimates offsets for the status reports.

**Receiver manager and health ladder** (`receiver_manager.py`, `__main__.py`
1377-1541). State: channels, slots and multicast groups of a source, the
front-end rate, consecutive degraded checks. Operations: provision, verify and
retry, re-provision, full reset, restores, shutdown. Hard: blocking recovery on
executor threads beside the event loop, a band that comes back under another
SSRC, MultiStream's own restores. Correct if one slot holds a band's ring, the
check is not fooled and all bands come back once radiod behaves.

**Recorder process** (`__main__.py` 1852-2012, 2040-2400, the unit file). State:
start-up attempts, the chrony gate, progress gate, shutdown event; systemd's
timers. Hard: the start timeout and the watchdog against retries that may take
for ever, a stall that must not be petted away. Correct if the process is killed
for a cause only, a stop is heard and a stalled recorder restarted.

**Uploader** (`hs_uploader_shim.py`, `uploader_daemon.py`, `upload_wake.py`).
State: the wake and stop events of the pump, the watermarks of two pipelines, the
datagram socket between processes, the negative cache. Hard: a wake during a
pump, stop during a wait, datagrams that nobody hears, outcomes that say how many
spots were added and not which. Correct if no wake-up is slept over and every
cycle reaches both servers' marks.

**Upload verification and audit** (`wsprnet_verifier.py`,
`wsprnet_mirror_backstop.py`, `wsprnet_audit.py`). State: the rows of the upload
queue, the audit table. Operations: a verifier's pass and a backstop's pass, each
of several transactions, acknowledgements of the pump, the prune. Hard: two
passes and the pump change one table, a restart between two transactions, rows
of two receivers in one queue. Correct if nothing is deleted early or for another
receiver, no verdict is taken back and no spot stays in flight for ever.

**The rest** is I/O, formatting or queries: WAV files, the decoders' subprocesses
and parsers, decode health, configuration and CLI, IPC status. It is not
modelled; `PROJECT.json` lists every part.

## 2. Plan

Order, most important behaviour first; all of it is done.

1. `CycleBatcher` with its producers, sink and shutdown.
2. `HostSlot`, the host-wide semaphore over the kernel's record locks.
3. `DecodePool`, the pool that runs the jobs.
4. `RingBuffer`: ingest against a deferred extraction; an extract returns
   the window asked for, or nothing.
5. `BandRecorder`: RTP synchronisation (32-bit unwrapping, start of a minute),
   minute boundary, harvest, slides, resets; it uses the ring's interface.
6. Recovery, in three modules: `TimingGuard` (guards and their ladder),
   `ReceiverManager` (a source, its health loop and radiod), `RecorderProcess`
   (start-up, watchdog and shutdown under systemd).
7. `Uploader` over `RejectCache`: pump loop, wake, stop, the datagram wake, two
   pipelines, the negative cache.
8. `AuditLedger`, an abstract specification of what the audit table promises,
   and `UploadAudit`, the passes over queue and table, which implements it
   (`INSTANCE AuditLedger WITH verdict <- ..., indexed <- ...`).

Proofs live in modules of their own: `CycleBatcherProofs`, `DecodeProofs` (the
pool and the host-wide slots), `RingBufferProofs`, `BandRecorderProofs`,
`TimingGuardProofs`, `RecoveryProofs` (receiver manager and recorder process),
`UploaderProofs` and `UploadAuditProofs`. Every safety property of a passing run
has a theorem.

What would come next: the refinement of a cycle's promise (every spot accepted
ends durable or dropped) by `CycleBatcher`; `WithinLimits` of the band recorder
counted since the last reset instead of in all; type correctness of receiver
manager and uploader; the batch table and its reports; decode health.

## 3. The models and the code

### CycleBatcher

Time is kept as what is left of each deadline, so `Tick` needs no clock and no
bound on it; the constants `IdleCeiling`, `JoinTimeout`, `DeadlineSec` and
`BackstopSec` are the 5 s, 10 s, 30 s and 180 s of the code. A decode job is one slot of
one band of one receiver, its spots one unit named by the job: a 120 s job whose
two modes both find spots calls `add` twice with the same effect. Whether a batch
has noise rows is kept because it decides whether the noise writer is opened;
what becomes of the rows is not.

| actor | code | actions |
|---|---|---|
| decode job | `_run_decoders_for` | `ExpectBand`, `AddNoise`, `AddSpots`, `MarkDone` |
| receiver manager | `_provision` | `SetBandProducible` |
| start-up | `_start_uploader` | `SetWakeCallback` |
| writer thread | `_run` | `WriterCheck`, `WriterCollect`, `WriterWait`, `WriterResume`, `WriterCrossWake`, `WriterRoundDone` |
| writer or stopper | `_flush` | `SubmitSpots`, `SubmitNoise`, `SyncSink`, `CommitQuietly`, `CommitAndWake`, `ScheduleWake` |
| timer thread | `_fire_wake` | `TimerFires` |
| shutdown | `stop`, `_shutdown` | `StopSet`, `StopNotify`, `StopJoined`, `StopCancel`, `StopDrained`, `CloseSink` |

Each critical section of the code's lock is one action, each sink call another,
so everything the code does outside the lock interleaves. `SinkFaults` names the
sink calls that may fail: `insert` (logged and counted by `SpotSink`), `flush`
(logged only) and `import` (the package of the noise writer is absent).

A spot that leaves memory without being written is in `dropped`. Two ways lead
there: a failed insert, which `rows_dropped` counts (`failed`), and a sink that
was closed already, which says nothing. `overrun` is a history variable: what the
writer had in hand when `stop` took the batches that were left. `StopDrains` says
that these are the only losses at shutdown; `StopLosesNothing`, what the comments
say, fails by the second way.

Two slots of a band that start at one second share a batch (`Doubled`): an F5 and
the W2 slot it begins with, or an F15 and an F5. The band counts as reported with
the first of them, so the batch is flushed without the second, which opens the
key again. `FlushOncePerCycle` says what is true all the same: no flush before
every band has reported, and no second one but for such a slot.

### HostSlot

`owner` is the kernel's lock table of one file. `TryLock` is one `lockf` call,
`AllBusy` the end of a fruitless scan, `Finish` the return of the decode,
`Release` and `Close` the two system calls of the `finally`; `Crash` may come
between any two steps and `Restart` after it. A deadline of 600 s with a poll
every 0.5 s is `MaxPolls` fruitless scans. Errors of `lockf` other than
"would block", and of `open`, end the decode before it has a slot and are not
modelled.

The kernel's locks belong to processes, so two long decodes of one process take
one slot, and the first to leave drops the lock of the other. `alone` is a
history variable: no other long decode of the process has left since a thread was
admitted. A decode that is alone in this sense has its lock, and two processes
share a slot only if one of the two decodes is not (`SlotSharedForCause`); with
one long decode per process that is exclusion, with the two of the unit file it
is all there is.

### DecodePool

Each turn of the pool's lock is an action: `Submit`, `TakeShort`, `TakeLong`,
`Wait` and `Exit` (the cases of `_take_next`), `Start` and `End` (the two updates
of `_running`), `ReleaseLong`, `Shutdown`. `notify` chooses any waiter, and the
chosen one must take the lock again before it looks at the queues, so another
worker may overtake it. Cancelled futures leave the queues in the same critical
section, so a worker never meets one.

### RingBuffer

A cell holds the offset of its sample, so "the right sample" can be said; a
minute's gaps are positions in it. The ingest thread's part is `on_samples`,
`_add_samples`, `write_samples` and `close_minute`: `Deliver`, `StartChunk`, one
`CopyIn` per cell, `Count`, `CountMinute`, `AppendMark`, `ResetMinute`,
`ForgetGaps`. `ExtractByOffset` is what the ingest thread gets when it cuts a
short slot itself, as a function of the state where it harvests. The decode
thread's part is the deferred `extract_by_offset`: `Request` (the harvest fixes
the offset), `TestResident`, one `CopyOut` per cell, then `IterateMarks` and
`MarksIterated` (Python raises if the deque was changed meanwhile), `ReadBase`,
`ReadGaps`, `Dispose`. Copies go cell by cell because numpy copies without the
interpreter lock. A reset allocates a new ring and leaves the old one to the
extracts that hold it, so a ring has no reset; `clear` and `extract_slice` have
no caller in the package. Sample values, wall-clock times and gap durations are
left out.

### BandRecorder

A sample is its number and one sample stands for one second; UTC is number plus
`mapping`, an RTP timestamp is a number modulo `Modulus`. The ring is the
sequence of the numbers written since it was allocated, so "this slot holds the
audio its label names" can be said; its layout is `RingBuffer`'s business. The
ingest thread's steps are `Deliver` (`on_samples`), `Sync` (`should_start_minute`
with `_unwrap` and `_correlate`), `SetSynced` and `SetAnchor`, `Write` (a turn of
the loop), `Boundary` (`_on_minute_boundary`: divergence strikes, epoch, close of
the minute), `Resync` or `Resume`, `WritePathHarvest`, `HarvestRead` (the anchor
and the leading edge, read once) and an `Emit` per period. A deferred slice is
cut at its dispatch. `BoundaryRaises` and `EmitRaises` are the exceptions of an
anchor cleared under the thread. `Slide`, `Authority` and `Restored` are radiod,
hf-timestd and a restart of radiod; ka9q's `rtp_to_utc` and `acquire_anchor_utc`
are external, taken from how the recorder calls them. `_reanchor_rx` runs
`reset` on another thread, in five steps in the order of the assignments.

`torn` remembers that such a reset met the ingest thread inside a batch; it is
lifted by the reset of a restored stream, which runs on the ingest thread.

### TimingGuard

The unit of time is a cycle. `Harvest` is what the band recorders of a receiver
hand over in one: a wall-clock request per band and slot length, and what the
decodes say of dt (`good`, `off`, or `quiet` when there are too few). Both the
ladder and the strikes count as in the code. `CycleDt` and `CycleAct` are
`_on_cycle_dt` on the writer thread, before and after its lock; `Check`,
`LookUp`, `Judge` and `Act` the steps of `_wallclock_guard_check` and
`_wallclock_ladder_observe` on a decode thread, which looks the last judged slot
up in one step and marks it in another. `Reanchor` is `_reanchor_rx`,
`RequestRestart` is `_request_self_restart`. `Fault` is the world: a small error,
one far ahead, one far behind; a `stuck` one is not cured by a re-anchor. A sound
anchor may give an odd cycle now and then, but fewer than `DtCycles` of them
between two good ones: otherwise no threshold could tell it from a wrong one.

### ReceiverManager

One source. A channel is an SSRC, which carries its band; asking for a band
again may give another. `radiod` is external: `Crash`, `ComeBack` (maybe at
another front-end rate), `Revert` of a channel, calls that fail. `Restore` is
MultiStream's own monitor. A recovery call (`connect`, `full_reset`,
`reprovision_stale`) is a program counter on the executor thread, one call of
radiod per step: `ResetStop`, `Open`, `SkipAboveNyquist`, `EnsureFails`,
`SinkFails`, `Provision` (with `prune_frequency`), `Verify`, `StartStreams`.
`CheckHealthy`, `CheckDegraded`, `CheckNeverProvisioned` and `Awaited` are
`_health_check_loop`; `Shutdown` does not wait for the executor thread.

### RecorderProcess

Units of 30 s; what is due is done before time passes (`OwnDue`, `Overdue`).
`Run` to `Started` are `main`, `run` and `_connect_with_backoff` with the chrony
gate, `Feed` the task that extends the start timeout, `GuardPets` the episode
guard's thread, `Watch` a turn of `_watchdog_loop` with the `_ProgressGate`,
`Stop` and `Exit` the shutdown, whose decodes block the event loop.
`Kill` is systemd, `Boot` its `Restart=always`. `Replaced` is a recorder that
takes the place of one with the same SSRC, so that the sum of samples, which the
gate compares, changes without samples.

### Uploader and RejectCache

`RejectCache` has the counting of `wsprnet_audit.py` as operators. In `Uploader`
`Loop`, `Woken`, `Poll`, `Clear`, `Pump` are the pump thread between its calls,
`Tar`, `Net` and `Posted` the two pipelines of a pump; rows are counted in
cycles, and a pipeline's state is the last cycle it shipped. `Commit` is a
recorder that wakes its own uploader, or another process's with a datagram;
`Listen` the listener. `Stop`, `StopWake`, `Joined`, `Stopped` are `stop()`
statement by statement, `Crash` the end of the process at any point. The history
variables `taken` and `vouched` hold the calls wsprnet.org has added since they
have a row in the cache: the first all of them, the second those of batches it
added whole. `hs_uploader`
is a library: what a source and a transport do is taken from how the shim
configures them.

### UploadAudit and AuditLedger

A row is one spot of one receiver; two receivers that hear the same beacon have
rows with one key. `Send`, `Indexed`, `Acked` and `Failed` are the post to
wsprnet.org, whose index fills when it likes. The verifier's pass is `Fetch`,
`Flush`, `DropOld` and two `VerifierMarks`, the backstop's `Load`, `Ask` and two
`BackstopMarks`: one step per transaction, in the order of the code, so a restart
may fall between any two. `AuditLedger` knows a verdict per spot and the ways it
may change; `Verdict` is the mapping from the two flags of a table row.

## 4. What the runs check

| run | instance | shows |
|---|---|---|
| `batcher_cross` | two receivers, one band, cross-rx sync, settle timers, failing inserts, from the started recorder | `TypeOK`, `NoSpotTwice`, `WakeOncePerCycle`, `WakeAfterDurable`, `CommitWakes`, `SpotsSettle` |
| `batcher_single` | one receiver, two bands with F5 slots, one of which may go above the Nyquist rate and has an F15 slot on the key of its F5 slot, failing inserts, from process start | `FlushOncePerCycle`, `NoSpotLost`, `StopDrains` |
| `host_slot` | two processes with two long decodes each, two slots, two polls | `SlotTypeOK`, `SlotSharedForCause`, `LockTableAgrees`, `NobodyWaitsForever` |
| `decode_pool` | three workers; a W2, an F15 and an F30 job; one long slot | `TypeOK`, `LongShare`, `NoWakeupLost`, `ExitDrained`, `JobsSettle` |
| `ring_buffer` | two minutes of two samples, batches of up to three, a window of three | `IngestSliceExact`, `DeferredExactIfResident` |
| `band_recorder` | minutes of three samples, slots of two and three minutes, a counter of 24, two events among slides, steps, offsets, restart, reset | `SlotsExact`, `SlotsInOrder`, `NoHole`, `Prompt` |
| `timing_guard` | both guards of two receivers with one band each, two decode threads, two strikes, one fault or outage | `NoFalseAlarm`, `RunawayReplaced` |
| `timing_shared` | one receiver with two bands, two faults or outages, among them a small error that re-anchoring does not cure | `DtFaultReplaced` is violated |
| `receiver_manager` | a band below and one above the Nyquist rate of a low-rate front end, three SSRCs in two groups | `OneSlotPerBand`, `HealthyMeansActive`, `BandsRecover` |
| `recorder_process` | the numbers of the unit file and of the code in units of 30 s | `KilledForCause`, `StopHeard`, `StallRestarts` |
| `uploader` | three cycles of one receiver and one of another, which falls silent, both pipelines, one failed call, a negative cache with two call signs | `NoWakeLost`, `StopNotSlept`, `CyclesShip`, `WholeBatchRemembered` |
| `upload_audit` | one spot heard by two receivers, one of which uploads it; one pass interrupted by a restart | `NoEarlyDelete`, `AuditRefines`, `RowsLeave`, `VerdictsCome` |

`timing_shared` is one of the disagreements of the code with its documentation;
`PROJECT.json` lists them all with the lines quoted. Each other one that names a
property is the violation of that property, and most can be reproduced by hand
with the configurations that are kept beside the runs:

| to reproduce | property | the disagreement |
|---|---|---|
| `MCCycleBatcher`, `CycleBatcherImport.cfg` | `SpotsSettle` | the noise writer's import can end the writer thread |
| `MCCycleBatcher`, `CycleBatcherOverrun.cfg` | `StopLosesNothing` | a writer that outlasts the join meets a closed sink, which takes its batch silently for nothing |
| `MCCycleBatcher`, `CycleBatcherLong.cfg` | `EveryDecodeReported` | an F5 shares the cycle key of its W2 slots: the second flush carries the late spots, nothing is lost |
| `MCCycleBatcher`, `CycleBatcherTimers.cfg` | `NoTimerAfterStop` | `stop` may leave a timer behind |
| `MCHostSlot`, `HostSlotThreads.cfg` | `OneProcessPerSlot` | record locks do not separate processes that run more than one long decode, which pools of four CPUs and more do by default |
| `RingBuffer`, `RingBufferTorn.cfg` | `DeferredExactOrNothing` | a deferred slice is tested for residency once and copied without a lock, so a window the ingest thread is about to lap may be mixed with later audio |
| `MCBandRecorder`, `BandRecorderReset.cfg` | `SlotsExactAlways` | a guard's `reset` takes no lock: if it meets the ingest thread inside a batch, slots may be cut from a ring that does not start at the anchor, until the next reset |
| `TimingGuard`, `TimingGuardShared.cfg` with `CurableNotReplaced` | | the last judged slot is looked up and marked outside the lock, so one slot's bands may count twice |
| `ReceiverManager.cfg` with `ActiveExpected`, `RateLearned`, `NoSupersededRing`, `ShutdownFinal` | | the front-end rate is learned once; recorders of pruned slots stay in memory; a recovery that overlaps shutdown opens the control again |
| `RecorderProcess.cfg` with `NoRequestDropped`, `DrainNotCut` | | a stop before `run()` has made its event is dropped; nobody pets the watchdog while the last decodes drain after a self-restart |
| `MCUploader`, `Uploader.cfg` with `StopFlushes`, `AcceptanceRemembered` | | `stop()` flushes nothing; a batch of which a part was added forgets who was accepted |
| `UploadAudit.cfg` with `BothServed`, `DroppedWasPosted`, `LostNotIndexed` | | the verifier deletes what wsprdaemon.org may not have, drops what was never posted; the backstop condemns rows outside the span it asked for |

In the race of `DeferredExactOrNothing` a gap list may also miss a gap or hold one
twice, which the model has and no property is about. After the overlapping reset
the recorder may instead stay "synced" without an anchor and raise at each of its
minutes.

**Bounds.** All counts of time are 1: what matters is which of two deadlines
comes first, and as every deadline starts at its own moment all orders occur.
One cycle is enough for the batcher's properties because keys of different
cycles share only the writer's round (two batches in one round occur with two
receivers) and each property speaks of one cycle. Two receivers are the least
for cross-rx sync; "some but not all have committed" then occurs. Two bands are
the least for an early flush; the one with an F5 and an F15 slot on one key
opens it again after a flush (1,973,633 states). Two processes with two long
decodes on two slots make somebody wait while a slot is handed from one to
another, take a slot from a decode whose neighbour left, and find it free while a
decode still runs in it (123,260 states). One long slot with two long jobs,
three workers and a short job make a worker sleep while a job is queued and be
overtaken after its wakeup. A ring of four samples under eight delivered is
lapped once, a batch of three splits at a minute and wraps around, and a window
of three of four leaves one sample of headroom; the proofs have no such bounds.
The band recorder's sixteen samples wrap its counter, give three minutes to a
long slot after a slide or a re-synchronisation, which takes two minutes of an
authority offset above the threshold, and batches of four span a minute. Slides
are smaller than a period, as in the code's comments ("a few seconds"), and the
headroom holds a minute and what two events move (the instance satisfies the
hypothesis of the theorems, `WithinLimits`); two events meet in every order,
except that what follows an overlapping reset is explored without a second one
(`MCTornAlone`; 741,722 states).

A fault at a time is enough for the timing guards' promises (78,752 states): a
guard errs by what it adds up for one receiver while another is at fault. The
receiver manager's two faults (506,682 states) are the least for a stream that is
lost while radiod itself comes back; its third SSRC lies in another multicast
group. The recorder process counts in units of 30 s (339,248 states), of which the
unit file's 180 s of start timeout and of watchdog are multiples, as are the
code's 45 s between feeds (rounded up to 60 s) and 90 s without samples; shorter delays are rounded
up; the drain may last longer than the watchdog and the
stop timeout. The uploader's three cycles (884,995 states) let a cycle be
committed while the one before is pumped and a third wait, and a call be rejected,
accepted and rejected again; the second receiver commits one, so that later cycles
need the backstop. The audit's span is shorter than its ages, so the backstop
condemns rows it did not ask for, and the ages are bounded (96,756 states): a row older than `Retention` is pruned, so nothing
distinguishes higher ages.

Deadlock is not checked where the model really stops: the batcher with settle
timers and the pool after a shutdown, the receiver manager when it is shut down,
a timing guard whose process has ended, and the band recorder, whose deliveries
are bounded. The other passing runs check it.

**Fairness.** Weak fairness of every thread's steps, of timers and of time: they
are operating-system threads and nothing in the code blocks them except the
condition waits the models contain. Nothing is assumed of producers of the
batcher (a decode may hang, hence the backstops), of the arrival of jobs, of
crashes, restarts and shutdown. A decode returns in `HostSlot` and `DecodePool`:
`wsprd` and `jt9` run with a subprocess timeout and the slot wait gives up after
600 s. Where a bound of the code cuts a wait short, the model has it.
- `TimingGuard`: radiod streams on (`Harvest` of each receiver), hooks go on.
  Strong fairness says that the writer flushes every receiver's cycles in turn
  (`CycleDt`) and that a queued slot of each receiver is taken (`TakeOf`): the
  pool serves slots of one length in the order they came.
- `ReceiverManager`: radiod comes back, the executor thread and the loop that
  awaits it get on, the check is made every so often. Nothing is asked of
  MultiStream's restores.
- `RecorderProcess`: time passes, and process and systemd do what is due. A start
  or a decode may take up to `MaxStart` and `MaxDrain`.
- `Uploader`: threads get on, timers (poll, backstop, retry) fire and systemd
  starts the process again. Outcomes of a post are free; faults are bounded by
  `MaxFaults`.
- `UploadAudit`: time passes and a pass that began goes on. Strong fairness of
  `Fetch`, `Load` and an `Ask` that is answered: a server that is up again and
  again does answer at last. Otherwise no code could bring a verdict.

## 5. What is proved

The theorems hold for every value of the constants that satisfies the named
assumptions of the modules; where a property is true only of some instances, its
theorem says so in a hypothesis. These hypotheses are:

| hypothesis | of | why, and where it fails |
|---|---|---|
| `"import" \notin SinkFaults` | `NothingLost` | the noise writer's package is installed; otherwise `SpotsSettle` and spots are lost with it (a finding) |
| `SinkFaults \subseteq {"insert"}` | `StopLeavesNothing` | a failed `flush` leaves rows in the sink's buffer, which `stop` does not try again |
| `"flush" \notin SinkFaults` | `WakesWhenDurable` | the batcher takes a logged flush error for a flush |
| `WithinLimits` | the band recorder's four properties | see below |

### CycleBatcherProofs

- `TypeCorrect`: `Spec => []TypeOK`. `Typed` adds to `TypeOK` that the two
  program counters stay in their own ranges; one step per action.
- `WakesOnce`: `Spec => []WakeOncePerCycle`. The property is not inductive: it
  counts timers and calls and says nothing of a wake that is decided and not yet
  scheduled. `WakeInv` follows the wake of a cycle through its whole life: it is
  with a thread at `wake`, or an entry of `crossFires`, or a timer, or a call
  that was made, at most one of these at a time, and any of them implies that
  `wakeFired` holds the cycle. `OneFlush` says a thread flushes at most one
  batch. Deciding requires the cycle not to be in `wakeFired` and puts it there;
  every other step moves the wake from one form to the next or drops it.
- `SpotsOnce`: `Spec => []NoSpotTwice`. `SpotInv` adds that a job's spot exists
  only once the job has added it (`Handed`) and lies under its own key wherever
  it is (`OwnKeys`); then a step moves it from one of six places to another.
- `NothingLost`: `Spec => []NoSpotLost`. `KeepInv` says that batches and hands
  that are closed are empty, so that nothing is dropped with them.
- `StopLeavesNothing`: `Spec => []StopDrains`. On `SpotInv` and `KeepInv`: once
  the stopper has drained, no batch is open, its own hand is empty and the sink's
  buffer was emptied by the last flush. `LossInv` says that what a closed sink
  refused was in the writer's hand when the batches were taken, after which the
  writer gets no other.
- `WakesWhenDurable`: `Spec => WakeAfterDurable`, an action property. `ShipInv`
  says what a thread that has inserted may rely on from one sink call to the
  next: its spots are in the buffer or beyond (`Taken`), after the flush they are
  durable (`Shipped`), and every receiver in `committedRx` is so.
- `FlushedOnce`: `Spec => []FlushOncePerCycle`, for any slot lengths. `OnceInv`: the
  batch that the first announcement opened waits for every band in service, a
  band counts as completed only once a job of it is done, and a job in progress
  whose band has no other slot on the key keeps its batch from being collected as
  complete, so only the others can open a second.

### DecodeProofs

Of `HostSlot` it proves `SlotTypeCorrect`, `SlotExclusion`:
`SlotSpec => []SlotSharedForCause`, and `TableAgrees`:
`SlotSpec => []LockTableAgrees`, for any number of processes and of long decodes in
each. The inductive invariant is that a decode which is alone since it was admitted
is the owner of its byte in the kernel's table (two processes cannot both own
it), and the converse, `NoOrphan`: every locked byte has a decode that was
admitted to it. A `LOCK_UN` or close frees bytes under other decodes of the
process and clears their `alone` with it.

Of `DecodePool` it proves `TypeCorrect` and `ShareKept`: `Spec => []LongShare`.
`PoolInv` says what each worker has in hand where it stands in its loop
(`JobsMatch`), that `running` counts the workers between `Start` and `End`, and
that `longInflight` counts those whose job is long; every step adds one worker
to such a set, removes one, or leaves it alone (`WorkerSets`). So the test
`if self._long_inflight > 0` of `_release_long` is never false. On it rest:

- `PoolDrains`: `Spec => []ExitDrained`. `JobsTracked` follows every submitted job
  from a heap through a worker's hand to finished or cancelled; a worker exits
  only on empty heaps, so the last one leaves nothing behind.
- `WakeupsKept`: `Spec => []NoWakeupLost`, which counts the jobs that could run
  against the workers on their way to the queues. The count is inductive
  together with "nobody sleeps once the pool shuts down"; the steps need
  lemmas on how taking a job, a notify or a freed long slot changes it.

### RingBufferProofs

For every capacity, minute, batch and window size:

- `TypeCorrect`: both threads stay inside the array and the deque of marks stays
  bounded. `IngestProgress` relates the program counter of the ingest thread to
  its counts (the write position is the absolute count modulo the capacity, a
  chunk never crosses a minute), `ReaderProgress` says a request's window was
  complete when it was handed out.
- `ResidentExact`: `Spec => []DeferredExactIfResident`. The strengthening is
  `RingContent`: the last `Capacity` samples written are in the cells of their
  offsets. It rests on lemmas about division: two offsets less than a capacity
  apart have different remainders (`DistinctPositions`), so a write spoils only
  what it evicts, and a copy that wraps around visits the cells of its offsets
  (`WrapPosition`). With `RingBufferTorn.cfg` this locates the hazard exactly: a
  deferred slice is wrong only if the ring laps it.
- `IngestExact`: `Spec => []IngestSliceExact`: what the ingest thread cuts has the
  samples of its offsets and exactly the gaps that lie in its window. `GapInv`
  adds to `RingContent` that the marks in the deque are the last minutes, in order
  and without a hole (`MarksInOrder`), that a mark's list and the list of the
  minute in progress hold exactly the gaps recorded there (`MarksHold`,
  `MinuteHolds`).

### BandRecorderProofs

`BandTypeCorrect`: `Spec => []TypeOK` for all constants. `Typed` adds to the types
`InStep`: what the ingest thread has in hand fits where it stands.

The other theorems need a hypothesis about how far UTC moves, because the code has
one: it cuts each slot by the anchor of the moment and walks a cursor of UTC
labels, and a mapping that moves by more than a slot makes the cursor overtake
the ring or fall out of it. `WithinLimits` says there is a step `n` such that each
slide of the mapping and each change of the authority's offset is at most `n`, and
the `n * MaxEvents` of all of them is less than every period and less than half
the RTP counter, a minute more than it fits into the headroom of the ring, and a
batch is less than half a turn. The code has a headroom of 600 s, minutes of 60 s,
periods from 120 s up and a counter of 2^32, so it admits nearly two minutes of
movement in all, where radiod's slides are "a few seconds". The bound is on a
behaviour, not since the last reset; that is more than is needed and keeps the
invariant readable. What a reset that overlaps the ingest thread does (`torn`)
is outside these properties: `BandRecorderReset.cfg` shows that they fail there.

- `SlotsAreExact`: `WithinLimits => (Spec => SlotsExact)`
- `OrderKept`: `WithinLimits => (Spec => SlotsInOrder)`
- `NoSlotSkipped`: `WithinLimits => (Spec => []NoHole)`
- `HandedOutPromptly`: `WithinLimits => (Spec => []Prompt)`

All rest on `BandInvariant`, whose `Inductive` has five layers, each proved from
those before it:

1. `Typed`, as above.
2. `Control`: a guard's reset that overlaps nothing clears the fields in its order
   (`ResetInOrder`), before there is an anchor there is no sample and no slot
   (`Fresh`), and with one the thread is past the synchronisation (`Settled`).
3. `Place`: the offset in force is the sum of small changes (`OffsetSmall`), the
   minute the strategy remembers starts at the sample it says (`Synchronising`),
   the anchor is the timestamp of the sample at offset 0 and, but for what has
   moved, its UTC (`Pinned`), the ring is contiguous (`Contiguous`). This is where
   the 32-bit wrap is dealt with: a hint less than half a turn away picks the
   right turn, so `rtp_to_utc` of the frozen anchor gives today's UTC
   (`AnchorIs`).
4. `Harvested`: a harvest at the close of a minute finds it closed (`Minutes`), one
   in hand has the anchor and the leading edge of its moment (`HarvestRight`),
   and the throttle leaves less than `HarvestEvery` unseen (`Throttled`).
5. `Cursor`: for each period the cursor is less than a slot and the drift behind
   the last closed minute (`Behind`), follows the last slot handed out, whose start is
   not before the ring's by more than the drift (`Followed`), or that slot ended
   before the ring began (`Before`), and no slot was due at the last harvest unless
   the mapping moved since (`NotDue`); slots are clean multiples (`Clean`) and over
   when handed out (`PastSlots`), with `NoHole`. Each is said of the mapping now
   and of the one a harvest in progress has read. So the ring still holds a window
   when it is cut: a slot waits at most a minute and what has moved, and the
   headroom is wider.

TLC checked the invariant on an instance larger than the run's (1.7 million
states) before it was proved.

### TimingGuardProofs

`TypeCorrect` and `SoundLeftAlone`: `Spec => []NoFalseAlarm`, for any receivers,
bands, threads and thresholds. `GuardInv` says that the anchor of a receiver that
was never at fault is right, that no slot of it ends early in the queue
(`SlotsOnTime`) or is a strike in some thread's hand (`ThreadsFair`), that its dt
strikes are odd cycles since its last good one and so fewer than `DtCycles`
(`StrikesAreRogues`), and that the writer carries no action against it
(`WriterFair`). The ladder and the last judged slot do not occur in it: they decide
how hard a guard acts, not against whom.

### RecoveryProofs

Of `ReceiverManager`, for any bands, SSRCs and groups, whatever restores itself
while a recovery runs:

- `SingleSlots`: `Spec => []OneSlotPerBand`. A provision drops the band's other
  slots before it adds one, and a restore keeps the band of the slot it replaces;
  `SlotInv` adds only that slots are records of the right shape.
- `CheckNotFooled`: `Spec => []HealthyMeansActive`. The check compares two numbers.
  By `SlotInv` an active channel has a slot of its own whose band the front end
  can produce, so channel to band is an injection into the bands expected; of
  finite sets of one size it is onto.

Of `RecorderProcess`, for all intervals, start and drain times that satisfy
`StartAssumption` (two starts fit into the start timeout, a start and a feed into
what `EXTEND_TIMEOUT_USEC` asks for, a start and a pet into the watchdog's time;
TLC evaluates it with the unit file's numbers):

- `ProcessTypeCorrect`: every timer stays within its bound.
- `KilledForCauseAlways`: `ProcessSpec => []KilledForCause`. `PhaseSafe` relates
  what systemd takes the process for to where it is; `StartSafe` says that the
  start timeout always leaves time for the next feed and a start after it;
  `DogSafe` that the watchdog does so for the next pet while start-up retries,
  and that once the loop pets it, what it has run down is time without samples.
- `StopHeardAlways`: `ProcessSpec => []StopHeard`.

### UploaderProofs

`WakesKept`: `Spec => []NoWakeLost` and `StopPrompt`: `Spec => []StopNotSlept`.
`WakeHeld` says that a wake-up nobody has heard is in the event, unless the thread
is between clearing it and looking at the sink; `StopSeen` that the flag is set
before the event and nothing clears both. `AcceptedNotSuppressed`:
`Spec => []WholeBatchRemembered`, for batches of any size; `Remembered` says that
every call vouched for has a row in the cache, not suppressed and with its
acceptance counted. It is kept by each of the three ways an outcome is counted
(`AcceptedBatch`, nothing, `RejectedBatch`) and by a rehabilitation.

### UploadAuditProofs

For any rows, reporters, windows and ages:

- `TypeCorrect`, and `AuditInv`: what the passes carry from one transaction to
  the next (`SeenIndexed`, `MatchedIndexed`, `FoundIndexed`) is indexed by
  wsprnet.org whatever happened in between;
- `TableIsLedger`: `Spec => AuditRefines`, the refinement. Each step of the pump,
  of a pass or of the prune is a step of `AuditLedger` or leaves its two
  variables alone; the lemmas say what each statement on the table does to the
  verdicts of its rows;
- `NothingDeletedEarly`: `Spec => []NoEarlyDelete`, and `VerdictsTruthful`, the
  ledger's promise that what is reported as verified was indexed.

### Only model-checked

Liveness under fairness is beyond the prover and stays with TLC: `CommitWakes`,
`SpotsSettle`, `NobodyWaitsForever`, `JobsSettle`, `RunawayReplaced`,
`BandsRecover`, `StallRestarts`, `CyclesShip`, `RowsLeave`, `VerdictsCome`. The
receiver manager's and the uploader's variables have no type invariant beyond
what their proofs need. Every invariant and action property of a passing run has a
theorem, for some of them under a hypothesis of the table above. The proofs are
about the same definitions the runs check: no configuration replaces a definition.

## 6. What is not modelled

- The contents of spots, noise rows and WAV files; names and clean-up of WAV
  files (`wav_writer.py`) and what a decoder's subprocess prints
  (`decoder.py`, `noise.py`): the batcher sees whether there were spots.
- Of the band recorder the timing-tier alarm, which only logs, statistics, and
  recorders without radiod's mapping (wall-clock fallback, clock strategies).
- Of the timing guards `timing_service.py`, whose estimates nobody acts on.
- Of the uploader the library `hs_uploader` but for what the shim asks of it, the
  PSK reporter pipeline, which nothing constructs, the FTP fallback, and the
  batch table of the audit with its reports.
- `wsprdaemon_verifier.py`, which observes and changes nothing the others read.
  The mirror backstop is modelled as a pass that is run again and again; the
  repository holds its entry point and no unit that starts it.
- Decode health and backlog (`decode_health.py`): counters and latched alarms
  behind one lock.
- Configuration, CLI, prompts and the IPC status (read-only queries).
- `set_bands_by_source` and `set_expected_rx_sources` as operations, because they
  are called once before any thread uses them (they are constants).
- Errors of the operating system other than those named, and what happens after
  a process is killed, except for the locks, the watchdog's restart, the uploader's
  marks and the upload tables. The batcher keeps nothing on disk itself: rows in
  memory at a crash are lost by design, and the audio that would give them back
  is gone too.
