----------------------------- MODULE RingBuffer -----------------------------
(***************************************************************************)
(* The sample ring of one band (ring_buffer.py): the ingest thread of the  *)
(* stream writes batches, closes minutes and cuts short slots itself; the  *)
(* slice of an F15 or F30 slot is deferred (band_recorder.py) and copied   *)
(* by a decode thread when it has its host-wide slot.  There is no lock.   *)
(*                                                                         *)
(* A cell holds the offset of its sample, counted from the anchor.  numpy  *)
(* copies without the interpreter lock, so cells are copied one at a time  *)
(* on both sides; other statements that touch shared state are one step    *)
(* each.  A minute's gaps are the set of their positions.                  *)
(***************************************************************************)
EXTENDS Integers, Sequences

CONSTANTS
  CapacityMinutes,   (* capacity of the ring in minutes                     *)
  SamplesPerMinute,
  MaxBatch,          (* samples of one on_samples call, at most             *)
  Window,            (* samples of the deferred period                      *)
  Slack,             (* how late after the window's end a harvest may be    *)
  MaxSamples         (* bound on the samples delivered                      *)

Capacity == CapacityMinutes * SamplesPerMinute

ASSUME SizesAssumption ==
  /\ CapacityMinutes \in Nat \ {0, 1}
  /\ {SamplesPerMinute, MaxBatch, Window} \subseteq Nat \ {0}
  /\ {Slack, MaxSamples} \subseteq Nat
  /\ Capacity \in Nat
  /\ SamplesPerMinute <= Capacity
  /\ Window <= Capacity

VARIABLES
  cells,         (* _samples                                                *)
  writePos,      (* _write_pos                                              *)
  absCount,      (* _absolute_sample_count                                  *)
  minuteCount,   (* _current_minute_sample_count                            *)
  minuteGaps,    (* _current_minute_gaps                                    *)
  marks,         (* _minute_marks: each minute's first offset and its gaps  *)
  ingest,        (* where the ingest thread is                              *)
  rest,          (* samples of its batch not yet given to write_samples     *)
  copied,        (* samples of the current chunk already in the array       *)
  recorded,      (* history: the offsets at which a gap was recorded        *)
  reader,        (* where the decode thread is in extract_by_offset         *)
  from,          (* start_offset of the deferred window                     *)
  taken,         (* samples of the window already copied                    *)
  got,           (* the copy                                                *)
  seen,          (* the marks, and then the gaps, the reader has collected  *)
  base           (* cur_base                                                *)

ringVars   == <<cells, writePos, absCount, minuteCount, minuteGaps, marks>>
ingestVars == <<ringVars, ingest, rest, copied, recorded>>
readerVars == <<reader, from, taken, got, seen, base>>
vars == <<ingestVars, readerVars>>

Positions == 0 .. Capacity - 1
Silence   == -1
Samples   == Nat \cup {Silence}

IngestStates == {"idle", "chunk", "copy", "count", "minute", "mark", "reset", "forget"}
ReaderStates == {"none", "queued", "copy", "marks", "iterate", "base", "gaps",
                 "done", "empty", "raised"}

Mark == [start : Nat, gaps : SUBSET Nat]

TypeOK ==
  /\ cells \in [Positions -> Samples]
  /\ writePos \in Positions
  /\ absCount \in Nat
  /\ minuteCount \in 0 .. SamplesPerMinute
  /\ minuteGaps \subseteq Nat
  /\ marks \in Seq(Mark) /\ Len(marks) <= CapacityMinutes
  /\ ingest \in IngestStates
  /\ rest \in Nat
  /\ copied \in 0 .. SamplesPerMinute
  /\ recorded \subseteq Nat
  /\ reader \in ReaderStates
  /\ from \in Nat
  /\ taken \in 0 .. Window
  /\ got \in [0 .. Window - 1 -> Samples]
  /\ seen \in Seq(Mark)
  /\ base \in Nat

Init ==
  /\ cells = [p \in Positions |-> Silence]
  /\ writePos = 0 /\ absCount = 0 /\ minuteCount = 0
  /\ minuteGaps = {} /\ marks = <<>>
  /\ ingest = "idle" /\ rest = 0 /\ copied = 0
  /\ recorded = {}
  /\ reader = "none" /\ from = 0 /\ taken = 0
  /\ got = [i \in 0 .. Window - 1 |-> Silence]
  /\ seen = <<>> /\ base = 0

-----------------------------------------------------------------------------
(* The ingest thread.                                                      *)

(* on_samples: a batch arrives; a gap before it is recorded at the current *)
(* position of the minute.                                                 *)
Deliver(n, gap) ==
  /\ ingest = "idle"
  /\ absCount + n <= MaxSamples
  /\ rest' = n
  /\ minuteGaps' = IF gap THEN minuteGaps \cup {minuteCount} ELSE minuteGaps
  /\ recorded' = IF gap THEN recorded \cup {absCount} ELSE recorded
  /\ ingest' = "chunk"
  /\ UNCHANGED <<cells, writePos, absCount, minuteCount, marks, copied, readerVars>>

Space == SamplesPerMinute - minuteCount

(* _add_samples splits a batch at the minute boundary.                     *)
Chunk == IF rest < Space THEN rest ELSE Space

StartChunk ==
  /\ ingest = "chunk"
  /\ copied' = 0
  /\ ingest' = "copy"
  /\ UNCHANGED <<ringVars, rest, recorded, readerVars>>

(* A slice that reaches the end of the array goes on at its beginning.     *)
Wrap(pos, i) == IF pos + i < Capacity THEN pos + i ELSE pos + i - Capacity

CopyIn ==
  /\ ingest = "copy"
  /\ cells' = [cells EXCEPT ![Wrap(writePos, copied)] = absCount + copied]
  /\ copied' = copied + 1
  /\ ingest' = IF copied + 1 = Chunk THEN "count" ELSE "copy"
  /\ UNCHANGED <<writePos, absCount, minuteCount, minuteGaps, marks, rest, recorded, readerVars>>

Count ==
  /\ ingest = "count"
  /\ writePos' = (writePos + copied) % Capacity
  /\ absCount' = absCount + copied
  /\ ingest' = "minute"
  /\ UNCHANGED <<cells, minuteCount, minuteGaps, marks, rest, copied, recorded, readerVars>>

NextBatch(left) == IF left = 0 THEN "idle" ELSE "chunk"

CountMinute ==
  /\ ingest = "minute"
  /\ minuteCount' = minuteCount + copied
  /\ rest' = rest - copied
  /\ copied' = 0
  /\ ingest' = IF minuteCount + copied = SamplesPerMinute THEN "mark" ELSE NextBatch(rest - copied)
  /\ UNCHANGED <<cells, writePos, absCount, minuteGaps, marks, recorded, readerVars>>


(* A deque of at most CapacityMinutes marks.                               *)
MarksWith(m) ==
  IF Len(marks) < CapacityMinutes THEN Append(marks, m) ELSE Append(Tail(marks), m)

(* close_minute.                                                           *)
AppendMark ==
  /\ ingest = "mark"
  /\ marks' = MarksWith([start |-> absCount - minuteCount, gaps |-> minuteGaps])
  /\ ingest' = "reset"
  /\ UNCHANGED <<cells, writePos, absCount, minuteCount, minuteGaps, rest, copied, recorded,
                 readerVars>>

ResetMinute ==
  /\ ingest = "reset"
  /\ minuteCount' = 0
  /\ ingest' = "forget"
  /\ UNCHANGED <<cells, writePos, absCount, minuteGaps, marks, rest, copied, recorded, readerVars>>

ForgetGaps ==
  /\ ingest = "forget"
  /\ minuteGaps' = {}
  /\ ingest' = NextBatch(rest)
  /\ UNCHANGED <<cells, writePos, absCount, minuteCount, marks, rest, copied, recorded, readerVars>>

-----------------------------------------------------------------------------
(* extract_by_offset.                                                      *)

ResidentUnevicted(s, n) == s + n <= absCount

(* Written, and not yet evicted.                                           *)
Resident(s, n) == s >= absCount - Capacity /\ s + n <= absCount

LatestStart(s) == (absCount - Window) % Capacity
RingStart(s) == s % Capacity

SampleAt(s, i) == cells[Wrap(RingStart(s), i)]

(* The gaps of the given minutes that lie in the window, rebased to it.    *)
GapsIn(minutes, s, n) ==
  {g \in 0 .. n - 1 : \E m \in minutes : \E p \in m.gaps : m.start + p = s + g}

RangeOf(q) == {q[i] : i \in DOMAIN q}

CurrentMinute == [start |-> absCount - minuteCount, gaps |-> minuteGaps]

(* What the ingest thread gets for a short slot.                           *)
ExtractByOffset(s, n) ==
  IF Resident(s, n)
  THEN <<[i \in 0 .. n - 1 |-> SampleAt(s, i)],
         GapsIn(RangeOf(marks) \cup {CurrentMinute}, s, n)>>
  ELSE <<>>

(* Where the ingest thread may harvest.                                    *)
AtHarvest == ingest \in {"idle", "chunk"}

(* The harvest finds the window complete and hands out a deferred request. *)
Request(late) ==
  /\ AtHarvest /\ reader = "none"
  /\ Window + late <= absCount
  /\ from' = absCount - Window - late
  /\ reader' = "queued"
  /\ UNCHANGED <<ingestVars, taken, got, seen, base>>

(* The decode thread has its slot and tests the window once.               *)
TestResident ==
  /\ reader = "queued"
  /\ reader' = IF Resident(from, Window) THEN "copy" ELSE "empty"
  /\ UNCHANGED <<ingestVars, from, taken, got, seen, base>>

CopyOut ==
  /\ reader = "copy"
  /\ got' = [got EXCEPT ![taken] = SampleAt(from, taken)]
  /\ taken' = taken + 1
  /\ reader' = IF taken + 1 = Window THEN "marks" ELSE "copy"
  /\ UNCHANGED <<ingestVars, from, seen, base>>

(* Iterating over a deque raises if it was changed meanwhile.              *)
IterateMarks ==
  /\ reader = "marks"
  /\ seen' = marks
  /\ reader' = "iterate"
  /\ UNCHANGED <<ingestVars, from, taken, got, base>>

MarksIterated ==
  /\ reader = "iterate"
  /\ reader' = IF marks = seen THEN "base" ELSE "raised"
  /\ UNCHANGED <<ingestVars, from, taken, got, seen, base>>

ReadBase ==
  /\ reader = "base"
  /\ base' = absCount - minuteCount
  /\ reader' = "gaps"
  /\ UNCHANGED <<ingestVars, from, taken, got, seen>>

ReadGaps ==
  /\ reader = "gaps"
  /\ seen' = Append(seen, [start |-> base, gaps |-> minuteGaps])
  /\ reader' = "done"
  /\ UNCHANGED <<ingestVars, from, taken, got, base>>

(* The request is decoded and gone; the next one may come.                 *)
Dispose ==
  /\ reader \in {"done", "empty", "raised"}
  /\ reader' = "none" /\ from' = 0 /\ taken' = 0
  /\ got' = [i \in 0 .. Window - 1 |-> Silence]
  /\ seen' = <<>> /\ base' = 0
  /\ UNCHANGED ingestVars

Ingest ==
  \/ StartChunk \/ CopyIn \/ Count \/ CountMinute
  \/ AppendMark \/ ResetMinute \/ ForgetGaps

Extract ==
  \/ TestResident \/ CopyOut \/ IterateMarks \/ MarksIterated \/ ReadBase \/ ReadGaps
  \/ Dispose

Next ==
  \/ \E n \in 1 .. MaxBatch, gap \in BOOLEAN : Deliver(n, gap)
  \/ Ingest
  \/ \E late \in 0 .. Slack : Request(late)
  \/ Extract

Spec == Init /\ [][Next]_vars

-----------------------------------------------------------------------------
(* What a window should hold.                                              *)
TrueGaps(s, n) == {g \in 0 .. n - 1 : s + g \in recorded}
TrueSlice(s, n) == <<[i \in 0 .. n - 1 |-> s + i], TrueGaps(s, n)>>

(* A slot the ingest thread cuts itself holds exactly the samples and gaps *)
(* of its offsets, or it is refused because it has not been written or has *)
(* been overwritten: through wrap-around, splits at minutes and evicted    *)
(* marks.                                                                  *)
IngestSliceExact ==
  AtHarvest => \A s \in 0 .. absCount, n \in 1 .. Capacity :
    ExtractByOffset(s, n) =
      IF s + Capacity >= absCount /\ s + n <= absCount THEN TrueSlice(s, n) ELSE <<>>

(* Samples the ingest thread has written over or is about to count.        *)
Written == absCount + IF ingest \in {"copy", "count"} THEN copied ELSE 0

(* A deferred copy can only be wrong where the ring has lapped it: if its  *)
(* window still is in the ring, what was copied is what was asked for.     *)
DeferredExactIfResident ==
  from + Capacity >= Written => \A i \in 0 .. taken - 1 : got[i] = from + i

(* A deferred extract returns its window or nothing, "rather than stale or *)
(* garbage audio".                                                         *)
DeferredExactOrNothing ==
  reader = "done" => \A i \in 0 .. Window - 1 : got[i] = from + i
=============================================================================
