---------------------------- MODULE BandRecorder ----------------------------
(***************************************************************************)
(* One band's recorder (band_recorder.py) with its RTP synchronisation     *)
(* (sync_strategy.py): the ingest thread waits for a clean UTC minute,     *)
(* anchors the ring there, writes batches, checks the anchor at every      *)
(* minute and cuts slots that start on clean multiples of their period,    *)
(* pinned to radiod's live mapping of RTP to UTC.  A timing guard resets   *)
(* the recorder from another thread; that reset takes no lock.             *)
(*                                                                         *)
(* Time is in samples: one sample is one second, UTC is RTP + mapping, and *)
(* an RTP timestamp is a sample's number modulo Modulus.  The ring is the  *)
(* sequence of the numbers of the samples written; how it is laid out in   *)
(* an array is the business of RingBuffer.                                 *)
(***************************************************************************)
EXTENDS Integers, Sequences

CONSTANTS
  SamplesPerMinute,
  Periods,          (* slot lengths, multiples of a minute                  *)
  LongPeriod,       (* from here on the copy of a slot is deferred          *)
  Headroom,         (* RING_HEADROOM_SECONDS                                *)
  HarvestEvery,     (* the write path harvests at most this often           *)
  Modulus,          (* 2^32 in the code                                     *)
  DivThreshold,     (* _abs_div_threshold                                   *)
  DivAfter,         (* _abs_div_after                                       *)
  BatchSizes,       (* how many samples a batch may hold                    *)
  InitRtp, InitUtc, (* the first sample's number and its UTC                *)
  Slides,           (* how far radiod's mapping moves at once               *)
  Offsets,          (* what the authority adds to it                        *)
  RestartRtp,       (* where radiod's counter starts after a restart        *)
  MaxSamples,       (* bound on the samples delivered                       *)
  MaxEvents,        (* bound on slides, restarts and guard resets           *)
  None

ASSUME ConstantsAssumption ==
  /\ {SamplesPerMinute, HarvestEvery, Modulus, DivAfter} \cup BatchSizes \subseteq Nat \ {0}
  /\ Periods \subseteq {SamplesPerMinute * k : k \in 1 .. LongPeriod}
  /\ {LongPeriod, Headroom, DivThreshold, MaxSamples, MaxEvents} \subseteq Nat
  /\ {InitRtp, InitUtc, RestartRtp} \subseteq Nat
  /\ Slides \subseteq Int /\ Offsets \subseteq Int /\ 0 \in Offsets
  /\ \E p \in Periods : \A q \in Periods : q <= p
  /\ None \notin Int

VARIABLES
  next, mapping, epoch,   (* radiod: number of the next sample, UTC - RTP,  *)
                          (* anchor_epoch                                   *)
  offset,                 (* what the authority adds                        *)
  delivered, events,      (* counted for the bounds                         *)
  synced,                 (* _synced                                        *)
  firstWallclock,         (* _first_wallclock                               *)
  firstRtp,               (* _first_rtp_timestamp                           *)
  minuteCount,            (* _minute_count                                  *)
  slotNext,               (* _slot_next_utc                                 *)
  lastHarvest,            (* _last_harvest_off                              *)
  resyncRequested,        (* _resync_requested                              *)
  anchorEpoch,            (* _anchor_epoch                                  *)
  divStrikes,             (* _abs_div_strikes                               *)
  ring,                   (* the samples written to _ring, by number        *)
  minuteSamples,          (* its _current_minute_sample_count               *)
  strategy,               (* RtpSyncStrategy                                *)
  ingest,                 (* where the ingest thread is                     *)
  batch,                  (* what is left of its batch: first number, size  *)
  decision,               (* the SyncDecision in hand                       *)
  harvest,                (* anchor, leading edge and periods left          *)
  guard,                  (* where the guard's reset is                     *)
  last,                   (* history: each period's last slot, unless torn   *)
  since,                  (* history: its last slot since the last reset    *)
  slid,                   (* history: the mapping moved since a harvest     *)
  torn                    (* history: a guard's reset met the ingest thread *)

radiod   == <<next, mapping, epoch, offset, delivered, events>>
anchored == <<synced, firstWallclock, firstRtp, minuteCount, lastHarvest, resyncRequested,
              anchorEpoch>>
history  == <<last, since>>
vars == <<radiod, anchored, slotNext, divStrikes, ring, minuteSamples, strategy, ingest, batch,
          decision, harvest, guard, history, slid, torn>>

IngestStates == {"idle", "sync", "decided", "marked", "write", "boundary", "resync", "tail",
                 "harvest", "emit"}
GuardStates  == {"idle", "anchor", "cursor", "strategy", "ring"}

IntOrNone == Int \cup {None}

(* The strategy before it has correlated.                                  *)
Uncorrelated ==
  [correlated |-> FALSE, boundary |-> None, minute |-> None, lastRaw |-> None, unwrapped |-> 0]

NoDecision == [wallclock |-> None, rtp |-> None, skip |-> 0]
NoHarvest  == [anchor |-> 0, leading |-> 0, todo |-> {}, then |-> "idle", shift |-> 0]

Strategies ==
  [correlated : BOOLEAN, boundary : IntOrNone, minute : IntOrNone, lastRaw : IntOrNone,
   unwrapped : Int]
Decisions == [wallclock : IntOrNone, rtp : IntOrNone, skip : 0 .. MaxSamples]
Harvests ==
  [anchor : Int, leading : Nat, todo : SUBSET Periods, then : {"idle", "resync"}, shift : Int]

RadiodOK ==
  /\ next \in Nat /\ mapping \in Int /\ epoch \in Nat /\ offset \in Offsets
  /\ delivered \in 0 .. MaxSamples /\ events \in 0 .. MaxEvents

AnchorOK ==
  /\ synced \in BOOLEAN /\ resyncRequested \in BOOLEAN
  /\ firstWallclock \in IntOrNone
  /\ firstRtp \in (0 .. Modulus - 1) \cup {None}
  /\ minuteCount \in Nat
  /\ lastHarvest \in Nat /\ anchorEpoch \in Nat \cup {None}
  /\ divStrikes \in 0 .. DivAfter - 1

SlotsOK ==
  /\ slotNext \in [Periods -> IntOrNone]
  /\ last \in [Periods -> IntOrNone] /\ since \in [Periods -> IntOrNone]

RingOK == ring \in Seq(Nat) /\ minuteSamples \in 0 .. SamplesPerMinute

InHandOK ==
  /\ strategy \in Strategies
  /\ ingest \in IngestStates /\ guard \in GuardStates
  /\ batch \in [first : Nat, size : 0 .. MaxSamples]
  /\ decision \in Decisions
  /\ harvest \in Harvests
  /\ slid \in BOOLEAN /\ torn \in BOOLEAN

TypeOK == RadiodOK /\ AnchorOK /\ SlotsOK /\ RingOK /\ InHandOK

Init ==
  /\ next = InitRtp /\ mapping = InitUtc - InitRtp /\ epoch = 0 /\ offset = 0
  /\ delivered = 0 /\ events = 0
  /\ synced = FALSE /\ firstWallclock = None /\ firstRtp = None /\ minuteCount = 0
  /\ lastHarvest = 0 /\ resyncRequested = FALSE /\ anchorEpoch = None
  /\ slotNext = [p \in Periods |-> None]
  /\ divStrikes = 0
  /\ ring = <<>> /\ minuteSamples = 0
  /\ strategy = Uncorrelated
  /\ ingest = "idle" /\ batch = [first |-> 0, size |-> 0]
  /\ decision = NoDecision /\ harvest = NoHarvest
  /\ guard = "idle"
  /\ last = [p \in Periods |-> None] /\ since = [p \in Periods |-> None]
  /\ slid = FALSE /\ torn = FALSE

-----------------------------------------------------------------------------
(* Outside the recorder: ka9q's rtp_to_utc reads the live mapping and      *)
(* picks the turn of the 32-bit counter that is closest to a hint.         *)
RtpToUtc(rtp, hint) ==
  LET ahead == (rtp + mapping - hint) % Modulus
  IN  hint + IF 2 * ahead > Modulus THEN ahead - Modulus ELSE ahead

(* acquire_anchor_utc adds the authority's offset to that.                 *)
AnchorUtc(rtp, hint) == RtpToUtc(rtp, hint) + offset

(* radiod's mapping slides; ka9q may see a step and bump the epoch.        *)
Slide(d, seen) ==
  /\ events < MaxEvents
  /\ mapping' = mapping + d
  /\ epoch' = IF seen THEN epoch + 1 ELSE epoch
  /\ events' = events + 1
  /\ slid' = TRUE
  /\ UNCHANGED <<next, offset, delivered, anchored, slotNext, divStrikes, ring, minuteSamples,
                 strategy, ingest, batch, decision, harvest, guard, history, torn>>

Authority(o) ==
  /\ events < MaxEvents /\ o # offset
  /\ offset' = o
  /\ events' = events + 1
  /\ slid' = TRUE
  /\ UNCHANGED <<next, mapping, epoch, delivered, anchored, slotNext, divStrikes, ring,
                 minuteSamples, strategy, ingest, batch, decision, harvest, guard, history, torn>>

-----------------------------------------------------------------------------
(* reset(), in the order of its assignments.                               *)
ClearFlags ==
  /\ synced' = FALSE /\ lastHarvest' = 0 /\ resyncRequested' = FALSE /\ anchorEpoch' = None

ClearAnchor == minuteCount' = 0 /\ firstWallclock' = None /\ firstRtp' = None

ClearCursor == slotNext' = [p \in Periods |-> None]

ClearStrategy == strategy' = Uncorrelated

NewRing ==
  /\ ring' = <<>> /\ minuteSamples' = 0
  /\ since' = [p \in Periods |-> None]

Reset == ClearFlags /\ ClearAnchor /\ ClearCursor /\ ClearStrategy /\ NewRing

(* After a silence radiod is back, its counter starts elsewhere and the    *)
(* stream is restored.                                                     *)
Restored ==
  /\ ingest = "idle" /\ guard = "idle" /\ events < MaxEvents
  /\ next' = RestartRtp /\ mapping' = next + mapping + 1 - RestartRtp
  /\ events' = events + 1
  /\ Reset
  /\ torn' = FALSE /\ slid' = FALSE
  /\ UNCHANGED <<epoch, offset, delivered, divStrikes, ingest, batch, decision, harvest, guard,
                 last>>

(* A timing guard re-anchors the recorder from a decode or writer thread.  *)
GuardStep(from, to) ==
  /\ guard = from /\ guard' = to
  /\ torn' = (torn \/ ingest # "idle")
  /\ UNCHANGED <<next, mapping, epoch, offset, delivered, divStrikes, ingest, batch, decision,
                 harvest, last, slid>>

GuardFlags ==
  /\ events < MaxEvents /\ events' = events + 1
  /\ GuardStep("idle", "anchor") /\ ClearFlags
  /\ UNCHANGED <<minuteCount, firstWallclock, firstRtp, slotNext, strategy, ring, minuteSamples,
                 since>>

GuardAnchor ==
  /\ GuardStep("anchor", "cursor") /\ ClearAnchor
  /\ UNCHANGED <<events, synced, lastHarvest, resyncRequested, anchorEpoch, slotNext, strategy,
                 ring, minuteSamples, since>>

GuardCursor ==
  /\ GuardStep("cursor", "strategy") /\ ClearCursor
  /\ UNCHANGED <<events, anchored, strategy, ring, minuteSamples, since>>

GuardStrategy ==
  /\ GuardStep("strategy", "ring") /\ ClearStrategy
  /\ UNCHANGED <<events, anchored, slotNext, ring, minuteSamples, since>>

GuardRing ==
  /\ GuardStep("ring", "idle") /\ NewRing
  /\ UNCHANGED <<events, anchored, slotNext, strategy>>

-----------------------------------------------------------------------------
(* The ingest thread.  Where it goes next, and that a reset of the guard   *)
(* is under way meanwhile.                                                 *)
Goto(s) ==
  /\ ingest' = s
  /\ torn' = (torn \/ guard # "idle")
  /\ UNCHANGED <<mapping, epoch, offset, events, guard>>

Deliver(n) ==
  /\ ingest = "idle" /\ delivered + n <= MaxSamples
  /\ batch' = [first |-> next, size |-> n]
  /\ next' = next + n /\ delivered' = delivered + n
  /\ Goto(IF synced THEN "write" ELSE "sync")
  /\ UNCHANGED <<anchored, slotNext, divStrikes, ring, minuteSamples, strategy, decision,
                 harvest, history, slid>>

(* _unwrap: the packet's number, up to a multiple of the modulus.          *)
Unwrap(s, raw) ==
  LET delta == (raw - s.lastRaw) % Modulus
  IN  IF s.lastRaw = None THEN raw
      ELSE s.unwrapped + IF 2 * delta > Modulus THEN delta - Modulus ELSE delta

(* _correlate: the next clean minute at or after this packet's first       *)
(* sample, whose arrival time serves as the hint.                          *)
Correlate(s, raw, now) ==
  LET utc  == AnchorUtc(raw, now)
      left == (-utc) % SamplesPerMinute
  IN  [s EXCEPT !.correlated = TRUE, !.boundary = s.unwrapped + left, !.minute = utc + left]

(* should_start_minute.                                                    *)
Sync ==
  LET raw == batch.first % Modulus
      s1  == [strategy EXCEPT !.unwrapped = Unwrap(strategy, raw), !.lastRaw = raw]
      s2  == IF s1.correlated THEN s1 ELSE Correlate(s1, raw, batch.first + mapping)
      skip == s2.boundary - s2.unwrapped
  IN  /\ ingest = "sync"
      /\ strategy' = s2
      /\ IF skip \in 0 .. batch.size - 1
         THEN /\ decision' = [wallclock |-> s2.minute, rtp |-> (raw + skip) % Modulus, skip |-> skip]
              /\ Goto("decided")
         ELSE Goto("idle") /\ UNCHANGED decision
      /\ UNCHANGED <<next, delivered, anchored, slotNext, divStrikes, ring, minuteSamples, batch,
                     harvest, history, slid>>

SetSynced ==
  /\ ingest = "decided"
  /\ synced' = TRUE
  /\ Goto("marked")
  /\ UNCHANGED <<next, delivered, firstWallclock, firstRtp, minuteCount, lastHarvest,
                 resyncRequested, anchorEpoch, slotNext, divStrikes, ring, minuteSamples,
                 strategy, batch, decision, harvest, history, slid>>

(* The anchor, on_minute_started, and the samples before it are skipped.   *)
SetAnchor ==
  /\ ingest = "marked"
  /\ firstWallclock' = decision.wallclock /\ firstRtp' = decision.rtp
  /\ strategy' = IF strategy.boundary = None THEN strategy
                 ELSE [strategy EXCEPT !.boundary = @ + SamplesPerMinute,
                                       !.minute = @ + SamplesPerMinute]
  /\ batch' = [first |-> batch.first + decision.skip, size |-> batch.size - decision.skip]
  /\ decision' = NoDecision
  /\ Goto("write")
  /\ UNCHANGED <<next, delivered, synced, minuteCount, lastHarvest, resyncRequested,
                 anchorEpoch, slotNext, divStrikes, ring, minuteSamples, harvest, history, slid>>

Numbers(first, n) == [i \in 1 .. n |-> first + i - 1]

(* One turn of the loop of _add_samples.                                   *)
Write ==
  LET space == SamplesPerMinute - minuteSamples
      n     == IF batch.size < space THEN batch.size ELSE space
  IN  /\ ingest = "write"
      /\ ring' = ring \o Numbers(batch.first, n)
      /\ minuteSamples' = minuteSamples + n
      /\ batch' = [first |-> batch.first + n, size |-> batch.size - n]
      /\ Goto(IF minuteSamples + n = SamplesPerMinute THEN "boundary"
              ELSE IF batch.size > n THEN "write" ELSE "tail")
      /\ UNCHANGED <<next, delivered, anchored, slotNext, divStrikes, strategy, decision,
                     harvest, history, slid>>

(* _anchor_utc_now: the anchor's UTC by the live mapping.                  *)
AnchorFrozen == firstWallclock
AnchorNow == AnchorUtc(firstRtp, firstWallclock)

AnchorLost == firstWallclock = None

(* What a minute's check of the anchor finds: the label of the minute      *)
(* against radiod's reference, and the epoch of radiod's mapping.          *)
Divergence(k) ==
  LET label == AnchorNow + SamplesPerMinute * k
      ref   == RtpToUtc((firstRtp + SamplesPerMinute * k) % Modulus, label)
  IN  IF label > ref THEN label - ref ELSE ref - label

Diverged == synced /\ Divergence(minuteCount + 1) > DivThreshold
Stepped  == synced /\ anchorEpoch \notin {None, epoch}

(* Enough strikes ask for a re-synchronisation and start afresh.           *)
StrikesAfter(struck) == IF struck >= DivAfter THEN 0 ELSE struck

(* _on_minute_boundary up to the close of the minute.                      *)
Boundary ==
  LET struck == IF Diverged THEN divStrikes + 1 ELSE IF synced THEN 0 ELSE divStrikes
      resync == struck >= DivAfter \/ Stepped
  IN  /\ ingest = "boundary" /\ ~AnchorLost
      /\ minuteCount' = minuteCount + 1
      /\ divStrikes' = StrikesAfter(struck)
      /\ anchorEpoch' = IF synced /\ struck < DivAfter THEN epoch ELSE anchorEpoch
      /\ resyncRequested' = (resyncRequested \/ resync)
      /\ minuteSamples' = IF resync THEN minuteSamples ELSE 0
      /\ harvest' = [harvest EXCEPT !.then = "resync"]
      /\ Goto(IF resync THEN "resync" ELSE "harvest")
      /\ UNCHANGED <<next, delivered, synced, firstWallclock, firstRtp, lastHarvest, slotNext,
                     ring, strategy, batch, decision, history, slid>>

(* With no anchor the callback raises, and the rest of the batch is gone.  *)
BoundaryRaises ==
  /\ ingest = "boundary" /\ AnchorLost
  /\ minuteCount' = minuteCount + 1
  /\ Goto("idle")
  /\ UNCHANGED <<next, delivered, synced, firstWallclock, firstRtp, lastHarvest, resyncRequested,
                 anchorEpoch, slotNext, divStrikes, ring, minuteSamples, strategy, batch,
                 decision, harvest, history, slid>>

(* A requested re-synchronisation drops the rest of the batch.             *)
Resync ==
  /\ ingest = "resync" /\ resyncRequested
  /\ Reset
  /\ Goto("idle")
  /\ slid' = FALSE
  /\ UNCHANGED <<next, delivered, divStrikes, batch, decision, harvest, last>>

Resume ==
  /\ ingest = "resync" /\ ~resyncRequested
  /\ Goto(IF batch.size > 0 THEN "write" ELSE "tail")
  /\ UNCHANGED <<next, delivered, anchored, slotNext, divStrikes, ring, minuteSamples, strategy,
                 batch, decision, harvest, history, slid>>

MinuteCloseOnly == FALSE
HarvestDue == synced /\ Len(ring) - lastHarvest >= HarvestEvery

(* After the batch: harvest, unless this was done a moment ago.            *)
WritePathHarvest ==
  /\ ingest = "tail"
  /\ lastHarvest' = IF HarvestDue THEN Len(ring) ELSE lastHarvest
  /\ harvest' = [harvest EXCEPT !.then = "idle"]
  /\ Goto(IF HarvestDue THEN "harvest" ELSE "idle")
  /\ UNCHANGED <<next, delivered, synced, firstWallclock, firstRtp, minuteCount, resyncRequested,
                 anchorEpoch, slotNext, divStrikes, ring, minuteSamples, strategy, batch,
                 decision, history, slid>>

(* _harvest_ready_slots reads the anchor and the leading edge once.        *)
HarvestRead ==
  /\ ingest = "harvest"
  /\ IF AnchorLost
     THEN Goto(harvest.then) /\ UNCHANGED <<harvest, slid>>
     ELSE /\ harvest' = [anchor |-> AnchorNow, leading |-> Len(ring), todo |-> Periods,
                         then |-> harvest.then, shift |-> mapping + offset]
          /\ slid' = FALSE
          /\ Goto("emit")
  /\ UNCHANGED <<next, delivered, anchored, slotNext, divStrikes, ring, minuteSamples, strategy,
                 batch, decision, history>>

(* The first multiple of p that is at or after u.                          *)
CleanFrom(u, p) == u + ((-u) % p)

(* The next slot of a period that starts at or after the anchor.           *)
FirstSlot(p) ==
  LET nxt == IF slotNext[p] = None THEN CleanFrom(harvest.anchor, p) ELSE slotNext[p]
  IN  IF nxt < harvest.anchor THEN nxt + CleanFrom(harvest.anchor - nxt, p) ELSE nxt

(* How many slots from there have arrived in full.                         *)
Ready(p) ==
  LET room == harvest.leading - (FirstSlot(p) - harvest.anchor)
  IN  IF room < p THEN 0 ELSE room \div p

Capacity ==
  Headroom + (CHOOSE p \in Periods : \A q \in Periods : q <= p)

(* extract_by_offset.                                                      *)
Slice(off, n) ==
  IF off >= Len(ring) - Capacity /\ off + n <= Len(ring) THEN SubSeq(ring, off + 1, off + n)
  ELSE <<>>

Request(p, wall) ==
  LET off == wall - harvest.anchor
  IN  [period |-> p, wallclock |-> wall, rtp |-> (firstRtp + off) % Modulus,
       samples |-> Slice(off, p), shift |-> harvest.shift]

(* A short slot that is no longer resident is skipped; a long one is       *)
(* handed out, and tested when its copy is made.                           *)
Dispatched(p) ==
  {r \in {Request(p, FirstSlot(p) + (k - 1) * p) : k \in 1 .. Ready(p)} :
     p >= LongPeriod \/ r.samples # <<>>}

LastSlot(p) == FirstSlot(p) + (Ready(p) - 1) * p

(* Slots leave the ring oldest first, so if any is dispatched the last is. *)
Latest(p, sofar) == IF Dispatched(p) = {} THEN sofar[p] ELSE LastSlot(p)

CursorKept(p) == FirstSlot(p)
CursorAtEdge(p) ==
  IF Ready(p) = 0 THEN FirstSlot(p) ELSE CleanFrom(harvest.anchor + harvest.leading, p)
CursorAfter(p) == FirstSlot(p) + p * Ready(p)

Left(p) == harvest.todo \ {p}

Emit(p) ==
  /\ ingest = "emit" /\ p \in harvest.todo
  /\ Ready(p) > 0 => ~AnchorLost
  /\ last' = IF torn THEN last ELSE [last EXCEPT ![p] = Latest(p, last)]
  /\ since' = [since EXCEPT ![p] = Latest(p, since)]
  /\ slotNext' = [slotNext EXCEPT ![p] = CursorAfter(p)]
  /\ harvest' = [harvest EXCEPT !.todo = Left(p)]
  /\ Goto(IF Left(p) = {} THEN harvest.then ELSE "emit")
  /\ UNCHANGED <<next, delivered, anchored, divStrikes, ring, minuteSamples, strategy, batch,
                 decision, slid>>

(* With no anchor the callback raises.                                     *)
EmitRaises(p) ==
  /\ ingest = "emit" /\ p \in harvest.todo
  /\ Ready(p) > 0 /\ AnchorLost
  /\ Goto("idle")
  /\ UNCHANGED <<next, delivered, anchored, slotNext, divStrikes, ring, minuteSamples, strategy,
                 batch, decision, harvest, history, slid>>

Ingest ==
  \/ Sync \/ SetSynced \/ SetAnchor \/ Write \/ Boundary \/ BoundaryRaises \/ Resync \/ Resume
  \/ WritePathHarvest \/ HarvestRead
  \/ \E p \in Periods : Emit(p) \/ EmitRaises(p)

Guard == GuardFlags \/ GuardAnchor \/ GuardCursor \/ GuardStrategy \/ GuardRing

Next ==
  \/ \E n \in BatchSizes : Deliver(n)
  \/ Ingest
  \/ \E d \in Slides, seen \in BOOLEAN : Slide(d, seen)
  \/ \E o \in Offsets : Authority(o)
  \/ Restored
  \/ Guard

Spec == Init /\ [][Next]_vars

-----------------------------------------------------------------------------
(* A request holds the samples it says: its slot is a clean multiple of    *)
(* its period, its first sample is the one whose UTC, by the mapping of    *)
(* the harvest, is the slot's start, its RTP timestamp is that sample's,   *)
(* and no sample is missing.                                               *)
Exact(r) ==
  /\ r.wallclock % r.period = 0
  /\ Len(r.samples) = r.period
  /\ r.wallclock = r.samples[1] + r.shift
  /\ r.rtp = r.samples[1] % Modulus
  /\ \A k \in 1 .. r.period : r.samples[k] = r.samples[1] + k - 1

(* Every slot that is dispatched is exact, unless a guard's reset          *)
(* overlapped the ingest thread: through wraps of the RTP counter, slides, *)
(* steps, restarts of radiod and re-synchronisation.                       *)
SlotsExact ==
  [][\A p \in Periods : Emit(p) /\ ~torn' => \A r \in Dispatched(p) : Exact(r)]_vars

(* The same whatever overlaps.                                             *)
SlotsExactAlways ==
  [][\A p \in Periods : Emit(p) => \A r \in Dispatched(p) : Exact(r)]_vars

(* No slot is dispatched twice, or after a later one: across slides,       *)
(* restarts of radiod and resets too, unless a guard's reset overlapped    *)
(* the ingest thread.                                                      *)
SlotsInOrder ==
  [][\A p \in Periods : Emit(p) /\ ~torn' /\ last[p] # None =>
       \A r \in Dispatched(p) : r.wallclock > last[p]]_vars

(* No slot is left out between two resets: the walk of the cursor follows  *)
(* the mapping without a hole.                                             *)
NoHole ==
  ~torn => \A p \in Periods :
    since[p] # None /\ slotNext[p] # None => since[p] + p = slotNext[p]

(* A slot is dispatched as soon as the write path's throttle allows, and   *)
(* does not wait for the end of a minute.                                  *)
Prompt ==
  ingest = "idle" /\ synced /\ ~torn /\ ~slid /\ guard = "idle" =>
    \A p \in Periods :
      LET nxt == IF slotNext[p] = None THEN CleanFrom(AnchorNow, p) ELSE slotNext[p]
      IN  Len(ring) < (nxt - AnchorNow) + p + HarvestEvery - 1
=============================================================================
