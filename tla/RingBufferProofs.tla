-------------------------- MODULE RingBufferProofs --------------------------
(***************************************************************************)
(* Proofs about RingBuffer, for every capacity, batch and window.  The     *)
(* argument is arithmetic: offsets less than a capacity apart lie in       *)
(* different cells, so a write spoils only what it evicts.                 *)
(***************************************************************************)
EXTENDS RingBuffer, TLAPS

(* Where the ingest thread is in a chunk bounds what it has counted.       *)
IngestProgress ==
  /\ writePos = absCount % Capacity
  /\ minuteCount <= absCount
  /\ ingest \in {"idle", "chunk", "copy", "forget"} => minuteCount < SamplesPerMinute
  /\ ingest \in {"chunk", "copy"} => rest > 0
  /\ ingest = "copy" => copied < Chunk
  /\ ingest \in {"count", "minute"} => copied <= Chunk
  /\ ingest = "minute" => minuteCount + copied <= absCount

(* The last Capacity samples written are in their cells.                   *)
RingContent ==
  \A k \in Nat : k < Written /\ Written <= k + Capacity => cells[k % Capacity] = k

(* A request was handed out for a window already complete.                 *)
ReaderProgress ==
  /\ reader # "none" => from + Window <= absCount
  /\ reader \in {"none", "queued", "empty"} => taken = 0
  /\ reader = "copy" => taken < Window

-----------------------------------------------------------------------------
(* Division: a number is a quotient and a remainder.                       *)
LEMMA Division ==
  ASSUME NEW C \in Nat \ {0}, NEW a \in Nat
  PROVE  \E q \in Int, r \in 0 .. C - 1 : a = C * q + r /\ r = a % C
<1>1. /\ a % C \in 0 .. C - 1
      /\ a = C * (a \div C) + (a % C)
      /\ a \div C \in Int
  OBVIOUS
<1> WITNESS a \div C \in Int, a % C \in 0 .. C - 1
<1> QED
  BY <1>1

(* Quotient and remainder are determined by the number they make.          *)
LEMMA UniqueRemainder ==
  ASSUME NEW C \in Nat \ {0}, NEW q \in Int, NEW p \in Int,
         NEW r \in 0 .. C - 1, NEW s \in 0 .. C - 1,
         C * q + r = C * p + s
  PROVE  r = s
<1>1. C * (q - p) = s - r
  OBVIOUS
<1>2. CASE q - p >= 1
  <2>1. C * (q - p) >= C
    BY <1>2
  <2> QED
    BY <1>1, <2>1
<1>3. CASE q - p <= -1
  <2>1. C * (q - p) <= -C
    BY <1>3
  <2> QED
    BY <1>1, <2>1
<1>4. CASE q = p
  BY <1>4
<1> QED
  BY <1>2, <1>3, <1>4

(* A number written as a quotient and a remainder.                         *)
LEMMA RemainderOf ==
  ASSUME NEW C \in Nat \ {0}, NEW n \in Nat, NEW q \in Int, NEW r \in 0 .. C - 1,
         n = C * q + r
  PROVE  n % C = r
<1>1. PICK p \in Int, s \in 0 .. C - 1 : n = C * p + s /\ s = n % C
  BY Division
<1>2. C * p + s = C * q + r
  BY <1>1
<1>3. s = r
  BY <1>2, UniqueRemainder
<1> QED
  BY <1>1, <1>3

(* Offsets less than a capacity apart are in different cells.              *)
LEMMA DistinctPositions ==
  ASSUME NEW C \in Nat \ {0}, NEW a \in Nat, NEW b \in Nat, a < b, b < a + C
  PROVE  a % C # b % C
<1> SUFFICES ASSUME a % C = b % C
             PROVE  FALSE
  OBVIOUS
<1>1. PICK qa \in Int : a = C * qa + (a % C)
  BY Division
<1>2. PICK qb \in Int : b = C * qb + (b % C)
  BY Division
<1>3. b - a = C * (qb - qa)
  BY <1>1, <1>2
<1>4. CASE qb - qa <= 0
  <2>1. C * (qb - qa) <= 0
    BY <1>4
  <2> QED
    BY <1>3, <2>1
<1>5. CASE qb - qa >= 1
  <2>1. C * (qb - qa) >= C
    BY <1>5
  <2> QED
    BY <1>3, <2>1
<1> QED
  BY <1>4, <1>5

(* A position advanced by a chunk modulo the capacity.                     *)
LEMMA AdvancePosition ==
  ASSUME NEW C \in Nat \ {0}, NEW a \in Nat, NEW n \in Nat
  PROVE  ((a % C) + n) % C = (a + n) % C
<1>1. PICK q \in Int, r \in 0 .. C - 1 : a = C * q + r /\ r = a % C
  BY Division
<1>2. PICK t \in Int, s \in 0 .. C - 1 : r + n = C * t + s /\ s = (r + n) % C
  <2>1. r + n \in Nat
    OBVIOUS
  <2> QED
    BY <2>1, Division
<1>3. a + n = C * (q + t) + s
  <2>1. C * (q + t) = C * q + C * t
    OBVIOUS
  <2> QED
    BY <1>1, <1>2, <2>1
<1>4. a + n \in Nat /\ q + t \in Int
  OBVIOUS
<1>5. (a + n) % C = s
  BY <1>3, <1>4, RemainderOf
<1> QED
  BY <1>1, <1>2, <1>5

(* A slice that wraps around reads and writes the cells of its offsets.    *)
LEMMA WrapPosition ==
  ASSUME NEW a \in Nat, NEW i \in 0 .. Capacity - 1, Capacity \in Nat \ {0}
  PROVE  /\ Wrap(a % Capacity, i) = (a + i) % Capacity
         /\ (a + i) % Capacity \in Positions
<1>1. PICK C \in Nat \ {0} : C = Capacity
  OBVIOUS
<1>2. PICK q \in Int, r \in 0 .. C - 1 : a = C * q + r /\ r = a % C
  BY Division
<1>3. a + i \in Nat /\ i \in 0 .. C - 1 /\ q + 1 \in Int
  BY <1>1
<1>4. CASE r + i < C
  <2>1. r + i \in 0 .. C - 1 /\ a + i = C * q + (r + i)
    BY <1>2, <1>3, <1>4
  <2>2. (a + i) % C = r + i
    BY <1>3, <2>1, RemainderOf
  <2> QED
    BY <1>1, <1>2, <1>4, <2>1, <2>2 DEF Wrap, Positions
<1>5. CASE ~(r + i < C)
  <2>1. C * (q + 1) = C * q + C
    OBVIOUS
  <2>2. r + i - C \in 0 .. C - 1 /\ a + i = C * (q + 1) + (r + i - C)
    BY <1>2, <1>3, <1>5, <2>1
  <2>3. (a + i) % C = r + i - C
    BY <1>3, <2>2, RemainderOf
  <2> QED
    BY <1>1, <1>2, <1>5, <2>2, <2>3 DEF Wrap, Positions
<1> QED
  BY <1>4, <1>5

-----------------------------------------------------------------------------
TypeInv == TypeOK /\ IngestProgress /\ ReaderProgress

LEMMA CapacityPositive == Capacity \in Nat \ {0} /\ SamplesPerMinute \in Nat \ {0}
                          /\ Window \in Nat \ {0} /\ CapacityMinutes \in Nat \ {0, 1}
  BY SizesAssumption

(* A bounded deque of marks stays one.                                     *)
LEMMA MarksWithType ==
  ASSUME NEW q \in Seq(Mark), Len(q) <= CapacityMinutes, NEW m \in Mark, marks = q
  PROVE  MarksWith(m) \in Seq(Mark) /\ Len(MarksWith(m)) <= CapacityMinutes
<1> USE CapacityPositive
<1>1. CASE Len(q) < CapacityMinutes
  BY <1>1 DEF MarksWith
<1>2. CASE ~(Len(q) < CapacityMinutes)
  <2>1. Len(q) \in Nat /\ q # <<>>
    BY <1>2
  <2>2. Tail(q) \in Seq(Mark) /\ Len(Tail(q)) = Len(q) - 1
    BY <2>1
  <2>3. Append(Tail(q), m) \in Seq(Mark) /\ Len(Append(Tail(q), m)) = Len(q)
    BY <2>1, <2>2
  <2> QED
    BY <1>2, <2>3 DEF MarksWith
<1> QED
  BY <1>1, <1>2

LEMMA TypeInvInit == Init => TypeInv
<1> SUFFICES ASSUME Init
             PROVE  TypeInv
  OBVIOUS
<1> USE CapacityPositive
<1>1. 0 % Capacity = 0
  BY RemainderOf
<1>2. TypeOK
  BY DEF Init, TypeOK, Positions, Samples, Silence, IngestStates, ReaderStates
<1>3. IngestProgress
  BY <1>1 DEF Init, IngestProgress
<1>4. ReaderProgress
  BY DEF Init, ReaderProgress
<1> QED
  BY <1>2, <1>3, <1>4 DEF TypeInv

(* The ingest thread's steps.                                              *)
LEMMA TypeInvDeliver ==
  ASSUME TypeInv, NEW n \in 1 .. MaxBatch, NEW gap \in BOOLEAN, Deliver(n, gap)
  PROVE  TypeInv'
<1> USE CapacityPositive DEF Deliver, readerVars
<1>0. n \in Nat /\ n > 0
  BY SizesAssumption
<1>1. TypeOK'
  BY <1>0 DEF TypeInv, TypeOK, IngestStates
<1>2. IngestProgress'
  BY <1>0 DEF TypeInv, IngestProgress
<1>3. ReaderProgress'
  BY DEF TypeInv, ReaderProgress
<1> QED
  BY <1>1, <1>2, <1>3 DEF TypeInv

LEMMA TypeInvIngest ==
  ASSUME TypeInv, Ingest
  PROVE  TypeInv'
<1> USE CapacityPositive DEF TypeInv, readerVars
<1>0. Chunk \in Nat /\ Chunk <= rest /\ minuteCount + Chunk <= SamplesPerMinute
      /\ Chunk <= SamplesPerMinute
  BY DEF TypeOK, Chunk, Space
<1>r. ReaderProgress'
  <2>1. UNCHANGED readerVars /\ absCount' \in Nat /\ absCount' >= absCount
    BY DEF Ingest, StartChunk, CopyIn, Count, CountMinute, AppendMark, ResetMinute, ForgetGaps,
           TypeOK, ringVars
  <2> QED
    BY <2>1 DEF ReaderProgress, TypeOK
<1>1. CASE StartChunk
  <2>1. TypeOK'
    BY <1>1 DEF StartChunk, TypeOK, ringVars, IngestStates
  <2>2. IngestProgress'
    BY <1>1 DEF StartChunk, TypeOK, IngestProgress, ringVars, Chunk, Space
  <2> QED
    BY <1>r, <2>1, <2>2
<1>2. CASE CopyIn
  <2>1. absCount + copied \in Samples
    BY DEF TypeOK, Samples
  <2>2. copied + 1 \in 0 .. SamplesPerMinute /\ copied + 1 <= Chunk
    BY <1>0, <1>2 DEF CopyIn, TypeOK, IngestProgress
  <2>3. TypeOK'
    BY <1>2, <2>1, <2>2 DEF CopyIn, TypeOK, IngestStates
  <2>4. Chunk' = Chunk
    BY <1>2 DEF CopyIn, Chunk, Space
  <2>5. IngestProgress'
    BY <1>0, <1>2, <2>2, <2>4 DEF CopyIn, TypeOK, IngestProgress
  <2> QED
    BY <1>r, <2>3, <2>5
<1>3. CASE Count
  <2>0. (writePos + copied) % Capacity = (absCount + copied) % Capacity
    <3>1. absCount \in Nat /\ copied \in Nat /\ writePos = absCount % Capacity
      BY DEF TypeOK, IngestProgress
    <3>2. ((absCount % Capacity) + copied) % Capacity = (absCount + copied) % Capacity
      BY <3>1, CapacityPositive, AdvancePosition
    <3> QED
      BY <3>1, <3>2
  <2>1. (absCount + copied) % Capacity \in Positions
    <3>1. absCount + copied \in Nat
      BY DEF TypeOK
    <3> QED
      BY <3>1, Division DEF Positions
  <2>2. TypeOK'
    BY <1>3, <2>0, <2>1 DEF Count, TypeOK, IngestStates
  <2>3. Chunk' = Chunk
    BY <1>3 DEF Count, Chunk, Space
  <2>4. IngestProgress'
    BY <1>3, <2>0, <2>3 DEF Count, TypeOK, IngestProgress
  <2> QED
    BY <1>r, <2>2, <2>4
<1>4. CASE CountMinute
  <2>1. copied <= Chunk /\ minuteCount + copied <= absCount
    BY <1>4 DEF CountMinute, IngestProgress
  <2>2. minuteCount + copied \in 0 .. SamplesPerMinute /\ rest - copied \in Nat
    BY <1>0, <2>1 DEF TypeOK
  <2>3. TypeOK'
    BY <1>4, <2>2 DEF CountMinute, TypeOK, IngestStates, NextBatch
  <2>4. IngestProgress'
    BY <1>4, <2>1, <2>2 DEF CountMinute, TypeOK, IngestProgress, NextBatch, Chunk, Space
  <2> QED
    BY <1>r, <2>3, <2>4
<1>5. CASE AppendMark
  <2>1. [start |-> absCount - minuteCount, gaps |-> minuteGaps] \in Mark
    BY DEF TypeOK, IngestProgress, Mark
  <2>2. marks' \in Seq(Mark) /\ Len(marks') <= CapacityMinutes
    BY <1>5, <2>1, MarksWithType DEF AppendMark, TypeOK
  <2>3. TypeOK'
    BY <1>5, <2>2 DEF AppendMark, TypeOK, IngestStates
  <2>4. IngestProgress'
    BY <1>5 DEF AppendMark, TypeOK, IngestProgress
  <2> QED
    BY <1>r, <2>3, <2>4
<1>6. CASE ResetMinute
  <2>1. TypeOK'
    BY <1>6 DEF ResetMinute, TypeOK, IngestStates
  <2>2. IngestProgress'
    BY <1>6 DEF ResetMinute, TypeOK, IngestProgress
  <2> QED
    BY <1>r, <2>1, <2>2
<1>7. CASE ForgetGaps
  <2>1. TypeOK'
    BY <1>7 DEF ForgetGaps, TypeOK, IngestStates, NextBatch
  <2>2. IngestProgress'
    BY <1>7 DEF ForgetGaps, TypeOK, IngestProgress, NextBatch, Chunk, Space
  <2> QED
    BY <1>r, <2>1, <2>2
<1> QED
  BY <1>1, <1>2, <1>3, <1>4, <1>5, <1>6, <1>7 DEF Ingest

(* The decode thread's steps.                                              *)
LEMMA TypeInvReader ==
  ASSUME TypeInv, (\E late \in 0 .. Slack : Request(late)) \/ Extract
  PROVE  TypeInv'
<1> USE CapacityPositive DEF TypeInv
<1>i. UNCHANGED ingestVars
  BY DEF Request, Extract, TestResident, CopyOut, IterateMarks, MarksIterated, ReadBase,
         ReadGaps, Dispose
<1>j. IngestProgress'
  BY <1>i DEF IngestProgress, ingestVars, ringVars, Chunk, Space
<1> USE DEF ingestVars, ringVars
<1>1. ASSUME NEW late \in 0 .. Slack, Request(late)
      PROVE  TypeInv'
  <2>0. late \in Nat /\ from' \in Nat /\ from' + Window <= absCount
    BY <1>1, SizesAssumption DEF Request, TypeOK
  <2>1. TypeOK'
    BY <1>1, <2>0 DEF Request, TypeOK, ReaderStates
  <2>2. ReaderProgress'
    BY <1>1, <2>0 DEF Request, TypeOK, ReaderProgress
  <2> QED
    BY <1>j, <2>1, <2>2
<1>2. CASE TestResident
  <2>1. TypeOK'
    BY <1>2 DEF TestResident, TypeOK, ReaderStates
  <2>2. ReaderProgress'
    BY <1>2 DEF TestResident, TypeOK, ReaderProgress
  <2> QED
    BY <1>j, <2>1, <2>2
<1>3. CASE CopyOut
  <2>0. taken \in 0 .. Window - 1
    BY <1>3 DEF CopyOut, TypeOK, ReaderProgress
  <2>1. SampleAt(from, taken) \in Samples
    <3>1. from \in Nat /\ taken \in 0 .. Capacity - 1
      BY <2>0, SizesAssumption DEF TypeOK
    <3>2. Wrap(RingStart(from), taken) \in Positions
      BY <3>1, WrapPosition DEF RingStart
    <3> QED
      BY <3>2 DEF SampleAt, TypeOK
  <2>2. TypeOK'
    BY <1>3, <2>0, <2>1 DEF CopyOut, TypeOK, ReaderStates
  <2>3. ReaderProgress'
    BY <1>3, <2>0 DEF CopyOut, TypeOK, ReaderProgress
  <2> QED
    BY <1>j, <2>2, <2>3
<1>4. CASE IterateMarks
  <2>1. TypeOK'
    BY <1>4 DEF IterateMarks, TypeOK, ReaderStates
  <2>2. ReaderProgress'
    BY <1>4 DEF IterateMarks, TypeOK, ReaderProgress
  <2> QED
    BY <1>j, <2>1, <2>2
<1>5. CASE MarksIterated
  <2>1. TypeOK'
    BY <1>5 DEF MarksIterated, TypeOK, ReaderStates
  <2>2. ReaderProgress'
    BY <1>5 DEF MarksIterated, TypeOK, ReaderProgress
  <2> QED
    BY <1>j, <2>1, <2>2
<1>6. CASE ReadBase
  <2>1. absCount - minuteCount \in Nat
    BY DEF TypeOK, IngestProgress
  <2>2. TypeOK'
    BY <1>6, <2>1 DEF ReadBase, TypeOK, ReaderStates
  <2>3. ReaderProgress'
    BY <1>6 DEF ReadBase, TypeOK, ReaderProgress
  <2> QED
    BY <1>j, <2>2, <2>3
<1>7. CASE ReadGaps
  <2>1. [start |-> base, gaps |-> minuteGaps] \in Mark
    BY DEF TypeOK, Mark
  <2>2. Append(seen, [start |-> base, gaps |-> minuteGaps]) \in Seq(Mark)
    BY <2>1 DEF TypeOK
  <2>3. TypeOK'
    BY <1>7, <2>2 DEF ReadGaps, TypeOK, ReaderStates
  <2>4. ReaderProgress'
    BY <1>7 DEF ReadGaps, TypeOK, ReaderProgress
  <2> QED
    BY <1>j, <2>3, <2>4
<1>8. CASE Dispose
  <2>1. TypeOK'
    BY <1>8 DEF Dispose, TypeOK, ReaderStates, Samples, Silence
  <2>2. ReaderProgress'
    BY <1>8 DEF Dispose, TypeOK, ReaderProgress
  <2> QED
    BY <1>j, <2>1, <2>2
<1> QED
  BY <1>1, <1>2, <1>3, <1>4, <1>5, <1>6, <1>7, <1>8 DEF Extract

LEMMA TypeInvStep == TypeInv /\ [Next]_vars => TypeInv'
<1> SUFFICES ASSUME TypeInv, [Next]_vars
             PROVE  TypeInv'
  OBVIOUS
<1>1. CASE UNCHANGED vars
  BY <1>1 DEF TypeInv, TypeOK, IngestProgress, ReaderProgress, Chunk, Space, vars, ingestVars,
              ringVars, readerVars
<1>2. CASE Next
  BY <1>2, TypeInvDeliver, TypeInvIngest, TypeInvReader DEF Next
<1> QED
  BY <1>1, <1>2

LEMMA TypeInvHolds == Spec => []TypeInv
  BY TypeInvInit, TypeInvStep, PTL DEF Spec

(* Every variable keeps its type: both threads stay inside the array and   *)
(* the deque of marks never outgrows the ring, however batches split.      *)
THEOREM TypeCorrect == Spec => []TypeOK
<1>1. TypeInv => TypeOK
  BY DEF TypeInv
<1> QED
  BY <1>1, TypeInvHolds, PTL

-----------------------------------------------------------------------------
ContentInv == RingContent /\ DeferredExactIfResident

(* What a step of the ingest thread does to the count of written samples.  *)
LEMMA WrittenStep ==
  ASSUME TypeInv, Next
  PROVE  /\ Written \in Nat /\ Written' \in Nat
         /\ absCount <= Written
         /\ ~CopyIn => Written' = Written /\ cells' = cells
         /\ CopyIn => Written' = Written + 1 /\ Written = absCount + copied
<1> USE DEF TypeInv, TypeOK, Written, ingestVars, ringVars
<1>1. CASE \E n \in 1 .. MaxBatch, gap \in BOOLEAN : Deliver(n, gap)
  BY <1>1 DEF Deliver, CopyIn
<1>2. CASE Ingest
  <2>1. CASE CopyIn
    BY <2>1 DEF CopyIn
  <2>2. CASE StartChunk \/ AppendMark \/ ResetMinute
    BY <2>2 DEF StartChunk, AppendMark, ResetMinute, CopyIn
  <2>3. CASE Count
    BY <2>3 DEF Count, CopyIn
  <2>4. CASE CountMinute \/ ForgetGaps
    BY <2>4 DEF CountMinute, ForgetGaps, NextBatch, CopyIn
  <2> QED
    BY <1>2, <2>1, <2>2, <2>3, <2>4 DEF Ingest
<1>3. CASE (\E late \in 0 .. Slack : Request(late)) \/ Extract
  <2>1. UNCHANGED ingestVars
    BY <1>3 DEF Request, Extract, TestResident, CopyOut, IterateMarks, MarksIterated, ReadBase,
                ReadGaps, Dispose
  <2> QED
    BY <2>1 DEF CopyIn
<1> HIDE DEF TypeInv, TypeOK, Written, ingestVars, ringVars
<1>4. \/ \E n \in 1 .. MaxBatch, gap \in BOOLEAN : Deliver(n, gap)
      \/ Ingest
      \/ (\E late \in 0 .. Slack : Request(late)) \/ Extract
  BY DEF Next
<1> QED
  BY <1>1, <1>2, <1>3, <1>4

(* Writing the next sample spoils only the oldest one.                     *)
LEMMA RingContentStep ==
  ASSUME TypeInv, RingContent, Next
  PROVE  RingContent'
<1> USE CapacityPositive
<1>1. CASE ~CopyIn
  BY <1>1, WrittenStep DEF RingContent
<1>2. CASE CopyIn
  <2>1. /\ Written \in Nat /\ Written' = Written + 1
        /\ Written = absCount + copied
    BY <1>2, WrittenStep
  <2>2. absCount \in Nat /\ copied \in 0 .. Capacity - 1 /\ writePos = absCount % Capacity
    BY <1>2, SizesAssumption DEF CopyIn, TypeInv, TypeOK, IngestProgress, Chunk, Space
  <2>3. Wrap(writePos, copied) = Written % Capacity /\ Written % Capacity \in Positions
    BY <2>1, <2>2, WrapPosition
  <2>4. cells' = [cells EXCEPT ![Written % Capacity] = Written]
    BY <1>2, <2>1, <2>3 DEF CopyIn
  <2>5. cells \in [Positions -> Samples]
    BY DEF TypeInv, TypeOK
  <2> SUFFICES ASSUME NEW k \in Nat, k < Written + 1, Written + 1 <= k + Capacity
               PROVE  cells'[k % Capacity] = k
    BY <2>1 DEF RingContent
  <2>6. CASE k = Written
    BY <2>3, <2>4, <2>5, <2>6
  <2>7. CASE k # Written
    <3>1. k < Written /\ Written < k + Capacity
      BY <2>1, <2>7
    <3>2. k % Capacity # Written % Capacity
      BY <2>1, <3>1, DistinctPositions
    <3>3. cells[k % Capacity] = k
      BY <2>1, <3>1 DEF RingContent
    <3>4. k % Capacity \in Positions
      BY Division DEF Positions
    <3> QED
      BY <2>4, <2>5, <3>2, <3>3, <3>4
  <2> QED
    BY <2>6, <2>7
<1> QED
  BY <1>1, <1>2

(* A sample is copied right as long as its window is resident.             *)
LEMMA DeferredStep ==
  ASSUME TypeInv, RingContent, DeferredExactIfResident, Next
  PROVE  DeferredExactIfResident'
<1> USE CapacityPositive
<1>0. /\ Written \in Nat /\ Written' \in Nat /\ absCount <= Written
      /\ Written <= Written'
  BY WrittenStep
<1>t. /\ from \in Nat /\ taken \in 0 .. Window /\ got \in [0 .. Window - 1 -> Samples]
      /\ absCount \in Nat
  BY DEF TypeInv, TypeOK
<1>1. CASE UNCHANGED readerVars
  BY <1>0, <1>1, <1>t DEF DeferredExactIfResident, readerVars
<1>2. ASSUME NEW late \in 0 .. Slack, Request(late)
      PROVE  DeferredExactIfResident'
  <2>1. taken' = 0
    BY <1>2 DEF Request, TypeInv, ReaderProgress
  <2> QED
    BY <2>1 DEF DeferredExactIfResident
<1>3. CASE Dispose
  BY <1>3 DEF Dispose, DeferredExactIfResident
<1>4. CASE CopyOut
  <2>1. taken \in 0 .. Window - 1 /\ from + Window <= absCount
    BY <1>4, <1>t DEF CopyOut, TypeInv, ReaderProgress
  <2>2. /\ from' = from /\ taken' = taken + 1
        /\ got' = [got EXCEPT ![taken] = SampleAt(from, taken)]
    BY <1>4 DEF CopyOut
  <2>3. ASSUME from + Capacity >= Written
        PROVE  SampleAt(from, taken) = from + taken
    <3>1. taken \in 0 .. Capacity - 1 /\ from + taken \in Nat
      BY <1>t, <2>1, SizesAssumption
    <3>2. Wrap(RingStart(from), taken) = (from + taken) % Capacity
      BY <1>t, <3>1, WrapPosition DEF RingStart
    <3>3. from + taken < Written /\ Written <= (from + taken) + Capacity
      BY <1>0, <1>t, <2>1, <2>3
    <3>4. cells[(from + taken) % Capacity] = from + taken
      BY <3>1, <3>3 DEF RingContent
    <3> QED
      BY <3>2, <3>4 DEF SampleAt
  <2> SUFFICES ASSUME from + Capacity >= Written', NEW i \in 0 .. taken
               PROVE  got'[i] = from + i
    BY <1>t, <2>2 DEF DeferredExactIfResident
  <2>4. from + Capacity >= Written
    BY <1>0, <1>t
  <2>5. CASE i = taken
    BY <1>t, <2>1, <2>2, <2>3, <2>4, <2>5
  <2>6. CASE i # taken
    <3>1. i \in 0 .. taken - 1 /\ i \in 0 .. Window - 1
      BY <1>t, <2>6
    <3>2. got[i] = from + i
      BY <2>4, <3>1 DEF DeferredExactIfResident
    <3> QED
      BY <1>t, <2>2, <2>6, <3>1, <3>2
  <2> QED
    BY <2>5, <2>6
<1>5. CASE TestResident \/ IterateMarks \/ MarksIterated \/ ReadBase \/ ReadGaps
  <2>1. UNCHANGED <<from, taken, got>>
    BY <1>5 DEF TestResident, IterateMarks, MarksIterated, ReadBase, ReadGaps
  <2> QED
    BY <1>0, <1>t, <2>1 DEF DeferredExactIfResident
<1>6. (\E n \in 1 .. MaxBatch, gap \in BOOLEAN : Deliver(n, gap)) \/ Ingest
        => UNCHANGED readerVars
  BY DEF Deliver, Ingest, StartChunk, CopyIn, Count, CountMinute, AppendMark, ResetMinute,
         ForgetGaps
<1> QED
  BY <1>1, <1>2, <1>3, <1>4, <1>5, <1>6 DEF Next, Extract

LEMMA InitContent == Init => ContentInv
BY DEF Init, ContentInv, RingContent, DeferredExactIfResident, Written

LEMMA ContentStep == TypeInv /\ ContentInv /\ [Next]_vars => ContentInv'
<1> SUFFICES ASSUME TypeInv, ContentInv, [Next]_vars
             PROVE  ContentInv'
  OBVIOUS
<1>1. CASE UNCHANGED vars
  BY <1>1 DEF ContentInv, RingContent, DeferredExactIfResident, Written, vars, ingestVars,
              ringVars, readerVars
<1>2. CASE Next
  BY <1>2, RingContentStep, DeferredStep DEF ContentInv
<1> QED  BY <1>1, <1>2

(* A deferred slot is wrong only where the ring lapped its window: what a  *)
(* decode thread copied, whatever the ingest thread wrote meanwhile, is    *)
(* what was asked for as long as the window's first sample is resident.    *)
THEOREM ResidentExact == Spec => []DeferredExactIfResident
<1>1. Init => ContentInv
  BY InitContent
<1>2. TypeInv /\ ContentInv /\ [Next]_vars => ContentInv'
  BY ContentStep
<1>3. ContentInv => DeferredExactIfResident
  BY DEF ContentInv
<1> QED
  BY <1>1, <1>2, <1>3, TypeInvHolds, PTL DEF Spec

-----------------------------------------------------------------------------
(***************************************************************************)
(* Slices with their gaps.  The marks are consecutive minutes up to the    *)
(* one that is being filled, each holds the gaps recorded in it, and the   *)
(* minute in progress holds the rest.  A mark is lost only with the whole  *)
(* minute it describes, because the ring holds whole minutes.              *)
(***************************************************************************)
Minutes(k) == k * SamplesPerMinute

(* Where the minute in progress starts: absCount runs ahead of minuteCount *)
(* while a chunk is counted, and the mark ahead of both when one closes.   *)
MinuteStart ==
  CASE ingest = "minute" -> absCount - minuteCount - copied
    [] ingest = "reset"  -> absCount
    [] OTHER             -> absCount - minuteCount

Covers(m, x) == m.start <= x /\ x < m.start + SamplesPerMinute

MarksInOrder ==
  /\ Len(marks) < CapacityMinutes => MinuteStart = Minutes(Len(marks))
  /\ \A i \in 1 .. Len(marks) :
       /\ marks[i].start + Minutes(Len(marks) - i + 1) = MinuteStart
       /\ marks[i].start + SamplesPerMinute <= MinuteStart

MarksHold ==
  /\ \A i \in 1 .. Len(marks) : \A p \in Nat :
       p \in marks[i].gaps <=> p < SamplesPerMinute /\ marks[i].start + p \in recorded
  /\ \A x \in recorded :
       /\ x < MinuteStart
       /\ Len(marks) < CapacityMinutes \/ MinuteStart <= x + Capacity
       => \E i \in 1 .. Len(marks) : Covers(marks[i], x)

MinuteHolds ==
  /\ ingest \notin {"reset", "forget"} =>
       \A p \in Nat : p \in minuteGaps <=> MinuteStart + p \in recorded
  /\ \A x \in recorded : IF ingest \in {"chunk", "copy", "count"} THEN x <= absCount ELSE x < absCount
  /\ ingest \in {"mark", "reset"} => minuteCount = SamplesPerMinute
  /\ ingest = "forget" => minuteCount = 0
  /\ ingest \in {"count", "minute"} => copied > 0

GapInv == MarksInOrder /\ MarksHold /\ MinuteHolds

LEMMA MinutesAdd ==
  /\ \A k \in Nat : Minutes(k) \in Nat /\ Minutes(k + 1) = Minutes(k) + SamplesPerMinute
  /\ Minutes(0) = 0 /\ Minutes(CapacityMinutes) = Capacity
<1> USE CapacityPositive
<1>1. ASSUME NEW k \in Nat
      PROVE  Minutes(k) \in Nat /\ Minutes(k + 1) = Minutes(k) + SamplesPerMinute
  BY DEF Minutes
<1>2. Minutes(0) = 0 /\ Minutes(CapacityMinutes) = Capacity
  BY DEF Minutes, Capacity
<1> QED  BY <1>1, <1>2

(* What the proofs below need of the types.                                *)
LEMMA MarkTypes ==
  ASSUME TypeInv
  PROVE  /\ Len(marks) \in Nat /\ Len(marks) <= CapacityMinutes
         /\ absCount \in Nat /\ minuteCount \in Nat /\ copied \in Nat /\ MinuteStart \in Nat
         /\ recorded \subseteq Nat /\ minuteGaps \subseteq Nat
         /\ \A i \in 1 .. Len(marks) : marks[i] \in Mark /\ marks[i].start \in Nat
<1> USE DEF TypeInv, TypeOK
<1>1. /\ absCount \in Nat /\ minuteCount \in Nat /\ copied \in Nat
      /\ recorded \subseteq Nat /\ minuteGaps \subseteq Nat
  BY CapacityPositive
<1>2. MinuteStart \in Nat
  BY <1>1, CapacityPositive DEF MinuteStart, IngestProgress
<1>3. \A i \in 1 .. Len(marks) : marks[i] \in Mark
  OBVIOUS
<1>4. Len(marks) \in Nat /\ Len(marks) <= CapacityMinutes
  OBVIOUS
<1> QED
  BY <1>1, <1>2, <1>3, <1>4 DEF Mark

(* Steps that neither close a minute nor record a gap.                     *)
LEMMA MarksKept ==
  ASSUME GapInv, UNCHANGED <<marks, recorded>>, MinuteStart' = MinuteStart
  PROVE  MarksInOrder' /\ MarksHold'
BY DEF GapInv, MarksInOrder, MarksHold

LEMMA DeliverGaps ==
  ASSUME TypeInv, GapInv, NEW n, NEW gap \in BOOLEAN, Deliver(n, gap)
  PROVE  GapInv'
<1>1. /\ UNCHANGED <<absCount, minuteCount, marks, copied>>
      /\ ingest = "idle" /\ ingest' = "chunk"
      /\ minuteGaps' = IF gap THEN minuteGaps \cup {minuteCount} ELSE minuteGaps
      /\ recorded' = IF gap THEN recorded \cup {absCount} ELSE recorded
  BY DEF Deliver
<1>2. MinuteStart' = MinuteStart /\ MinuteStart = absCount - minuteCount
  BY <1>1 DEF MinuteStart
<1>3. CASE ~gap
  <2>1. MarksInOrder' /\ MarksHold'
    BY <1>1, <1>2, <1>3, MarksKept
  <2>2. MinuteHolds'
    BY <1>1, <1>2, <1>3, MarkTypes DEF GapInv, MinuteHolds
  <2> QED
    BY <2>1, <2>2 DEF GapInv
<1>4. CASE gap
  <2>0. recorded' = recorded \cup {absCount} /\ minuteGaps' = minuteGaps \cup {minuteCount}
    BY <1>1, <1>4
  <2>1. MarksInOrder'
    BY <1>1, <1>2 DEF GapInv, MarksInOrder
  <2>2. ASSUME NEW i \in 1 .. Len(marks), NEW p \in Nat
        PROVE  p \in marks[i].gaps <=> p < SamplesPerMinute /\ marks[i].start + p \in recorded'
    <3>1. marks[i].start + SamplesPerMinute <= absCount
      BY <1>2, MarkTypes, CapacityPositive DEF GapInv, MarksInOrder
    <3>2. p < SamplesPerMinute => marks[i].start + p # absCount
      BY <3>1, MarkTypes, CapacityPositive
    <3>3. p \in marks[i].gaps <=> p < SamplesPerMinute /\ marks[i].start + p \in recorded
      BY DEF GapInv, MarksHold
    <3> QED
      BY <2>0, <3>2, <3>3
  <2>3. ASSUME NEW x \in recorded', x < MinuteStart
        PROVE  x \in recorded
    BY <1>2, <2>0, <2>3, MarkTypes
  <2>4. MarksHold'
    BY <1>1, <1>2, <2>2, <2>3 DEF GapInv, MarksHold
  <2>5. ASSUME NEW p \in Nat
        PROVE  p \in minuteGaps' <=> MinuteStart + p \in recorded'
    <3>1. p \in minuteGaps <=> MinuteStart + p \in recorded
      BY <1>1 DEF GapInv, MinuteHolds
    <3>2. p = minuteCount <=> MinuteStart + p = absCount
      BY <1>2, MarkTypes
    <3> QED
      BY <2>0, <3>1, <3>2
  <2>6. \A x \in recorded' : x <= absCount
    BY <1>1, <2>0, MarkTypes DEF GapInv, MinuteHolds
  <2>7. MinuteHolds'
    BY <1>1, <1>2, <2>5, <2>6 DEF MinuteHolds
  <2> QED
    BY <2>1, <2>4, <2>7 DEF GapInv
<1> QED  BY <1>3, <1>4

LEMMA CountGaps ==
  ASSUME TypeInv, GapInv,
         StartChunk \/ CopyIn \/ Count \/ CountMinute \/ ResetMinute \/ ForgetGaps
  PROVE  GapInv'
<1>1. UNCHANGED <<marks, recorded>>
  BY DEF StartChunk, CopyIn, Count, CountMinute, ResetMinute, ForgetGaps, ringVars
<1> DEFINE Gaps == \A p \in Nat : p \in minuteGaps <=> MinuteStart + p \in recorded
<1>2. CASE StartChunk \/ CopyIn
  <2>1. /\ UNCHANGED <<absCount, minuteCount, minuteGaps>>
        /\ ingest \in {"chunk", "copy"} /\ ingest' \in {"copy", "count"}
        /\ ingest' = "count" => copied' > 0
    BY <1>2, MarkTypes DEF StartChunk, CopyIn, ringVars
  <2>2. MinuteStart' = MinuteStart
    BY <2>1 DEF MinuteStart
  <2> QED
    BY <1>1, <2>1, <2>2, MarksKept DEF GapInv, MinuteHolds
<1>3. CASE Count
  <2>1. /\ UNCHANGED <<minuteCount, minuteGaps, copied>> /\ absCount' = absCount + copied
        /\ ingest = "count" /\ ingest' = "minute"
    BY <1>3 DEF Count
  <2>2. MinuteStart' = MinuteStart
    BY <2>1, MarkTypes DEF MinuteStart
  <2>3. copied > 0 /\ \A x \in recorded : x < absCount'
    BY <2>1, MarkTypes DEF GapInv, MinuteHolds
  <2> QED
    BY <1>1, <2>1, <2>2, <2>3, MarksKept DEF GapInv, MinuteHolds
<1>4. CASE CountMinute
  <2>1. /\ UNCHANGED <<absCount, minuteGaps>> /\ minuteCount' = minuteCount + copied
        /\ ingest = "minute" /\ ingest' \in {"mark", "idle", "chunk"}
        /\ ingest' = "mark" => minuteCount' = SamplesPerMinute
    BY <1>4 DEF CountMinute, NextBatch
  <2>2. MinuteStart' = MinuteStart
    BY <2>1, MarkTypes DEF MinuteStart
  <2>3. \A x \in recorded : x < absCount /\ x <= absCount
    BY <2>1, MarkTypes DEF GapInv, MinuteHolds
  <2> QED
    BY <1>1, <2>1, <2>2, <2>3, MarksKept DEF GapInv, MinuteHolds
<1>5. CASE ResetMinute
  <2>1. /\ UNCHANGED <<absCount, minuteGaps>> /\ minuteCount' = 0
        /\ ingest = "reset" /\ ingest' = "forget"
    BY <1>5 DEF ResetMinute
  <2>2. MinuteStart' = MinuteStart
    BY <2>1, MarkTypes DEF MinuteStart
  <2> QED
    BY <1>1, <2>1, <2>2, MarksKept DEF GapInv, MinuteHolds
<1>6. CASE ForgetGaps
  <2>1. /\ UNCHANGED <<absCount, minuteCount>> /\ minuteGaps' = {}
        /\ ingest = "forget" /\ ingest' \in {"idle", "chunk"}
    BY <1>6 DEF ForgetGaps, NextBatch
  <2>2. MinuteStart' = MinuteStart /\ MinuteStart = absCount
    BY <2>1, MarkTypes DEF MinuteStart, GapInv, MinuteHolds
  <2>3. \A x \in recorded : x < absCount /\ x <= absCount
    BY <2>1, MarkTypes DEF GapInv, MinuteHolds
  <2>4. \A p \in Nat : MinuteStart + p \notin recorded
    BY <2>2, <2>3, MarkTypes
  <2> QED
    BY <1>1, <2>1, <2>2, <2>3, <2>4, MarksKept DEF GapInv, MinuteHolds
<1> QED
  BY <1>2, <1>3, <1>4, <1>5, <1>6

(* close_minute: a new last mark, and the oldest goes if the deque is full.*)
LEMMA CloseGaps ==
  ASSUME TypeInv, GapInv, AppendMark
  PROVE  GapInv'
<1> USE CapacityPositive
<1> DEFINE m == [start |-> absCount - minuteCount, gaps |-> minuteGaps]
           full == ~(Len(marks) < CapacityMinutes)
           shift == IF full THEN 1 ELSE 0
<1>1. /\ UNCHANGED <<absCount, minuteCount, minuteGaps, copied, recorded>>
      /\ ingest = "mark" /\ ingest' = "reset"
      /\ marks' = MarksWith(m)
  BY DEF AppendMark
<1>2. /\ MinuteStart = m.start /\ minuteCount = SamplesPerMinute
      /\ MinuteStart' = absCount /\ MinuteStart' = MinuteStart + SamplesPerMinute
  BY <1>1, MarkTypes DEF MinuteStart, GapInv, MinuteHolds
<1>3. m \in Mark /\ marks \in Seq(Mark)
  BY <1>2, MarkTypes DEF Mark, TypeInv, TypeOK
<1>4. /\ Len(marks') = Len(marks) + 1 - shift
      /\ marks'[Len(marks')] = m
      /\ \A i \in 1 .. Len(marks') - 1 : i + shift \in 1 .. Len(marks) /\ marks'[i] = marks[i + shift]
  <2>1. CASE full
    <3>1. Tail(marks) \in Seq(Mark) /\ Len(Tail(marks)) = Len(marks) - 1
          /\ \A i \in 1 .. Len(marks) - 1 : Tail(marks)[i] = marks[i + 1]
      BY <1>3, <2>1, MarkTypes
    <3>2. marks' = Append(Tail(marks), m)
      BY <1>1, <2>1 DEF MarksWith
    <3> QED
      BY <1>3, <2>1, <3>1, <3>2, MarkTypes
  <2>2. CASE ~full
    <3>1. marks' = Append(marks, m)
      BY <1>1, <2>2 DEF MarksWith
    <3> QED
      BY <1>3, <2>2, <3>1, MarkTypes
  <2> QED  BY <2>1, <2>2
<1>5. /\ m.start \in Nat /\ m.gaps = minuteGaps /\ shift \in {0, 1}
      /\ Len(marks) \in Nat /\ Len(marks') \in Nat \ {0}
      /\ full => shift = 1 /\ Len(marks) = CapacityMinutes /\ Len(marks') = CapacityMinutes
      /\ ~full => shift = 0 /\ Len(marks) < CapacityMinutes
  BY <1>2, <1>4, MarkTypes
<1> HIDE DEF m, full, shift
<1>6. MarksInOrder'
  <2>1. ASSUME Len(marks') < CapacityMinutes
        PROVE  MinuteStart' = Minutes(Len(marks'))
    <3>1. ~full /\ Len(marks') = Len(marks) + 1 /\ Len(marks) < CapacityMinutes
      BY <1>4, <1>5, <2>1
    <3> QED
      BY <1>2, <1>5, <3>1, MinutesAdd DEF GapInv, MarksInOrder
  <2>2. ASSUME NEW i \in 1 .. Len(marks')
        PROVE  /\ marks'[i].start + Minutes(Len(marks') - i + 1) = MinuteStart'
               /\ marks'[i].start + SamplesPerMinute <= MinuteStart'
    <3>1. CASE i = Len(marks')
      <4>1. Minutes(Len(marks') - i + 1) = SamplesPerMinute
        <5>1. Len(marks') - i + 1 = 0 + 1
          BY <1>5, <3>1
        <5>2. Minutes(0 + 1) = Minutes(0) + SamplesPerMinute /\ Minutes(0) = 0
          BY MinutesAdd
        <5> QED  BY <5>1, <5>2
      <4> QED
        BY <1>2, <1>4, <1>5, <3>1, <4>1, MarkTypes
    <3>2. CASE i # Len(marks')
      <4> DEFINE k == i + shift
      <4>1. k \in 1 .. Len(marks) /\ marks'[i] = marks[k]
        BY <1>4, <1>5, <2>2, <3>2
      <4>2. Len(marks) - k + 1 \in Nat /\ Len(marks') - i + 1 = (Len(marks) - k + 1) + 1
        BY <1>4, <1>5, <2>2, <4>1
      <4>3. Minutes(Len(marks') - i + 1) = Minutes(Len(marks) - k + 1) + SamplesPerMinute
            /\ Minutes(Len(marks) - k + 1) \in Nat
        BY <4>2, MinutesAdd
      <4> HIDE DEF k
      <4>4. /\ marks[k].start + Minutes(Len(marks) - k + 1) = MinuteStart
            /\ marks[k].start + SamplesPerMinute <= MinuteStart
            /\ marks[k].start \in Nat
        BY <4>1, MarkTypes DEF GapInv, MarksInOrder
      <4>5. /\ marks'[i].start = marks[k].start
            /\ MinuteStart' = MinuteStart + SamplesPerMinute /\ MinuteStart \in Nat
        BY <1>2, <4>1, MarkTypes
      <4> QED
        BY <4>3, <4>4, <4>5, SMTT(30)
    <3> QED  BY <3>1, <3>2
  <2> QED
    BY <2>1, <2>2 DEF MarksInOrder
<1>7. ASSUME NEW i \in 1 .. Len(marks'), NEW p \in Nat
      PROVE  p \in marks'[i].gaps <=> p < SamplesPerMinute /\ marks'[i].start + p \in recorded
  <2>1. CASE i = Len(marks')
    <3>1. marks'[i] = m
      BY <1>4, <2>1
    <3>2. p \in minuteGaps <=> MinuteStart + p \in recorded
      BY <1>1 DEF GapInv, MinuteHolds
    <3>3. MinuteStart + p \in recorded => p < SamplesPerMinute
      BY <1>1, <1>2, MarkTypes DEF GapInv, MinuteHolds
    <3> QED
      BY <1>2, <1>5, <3>1, <3>2, <3>3
  <2>2. CASE i # Len(marks')
    <3>1. i + shift \in 1 .. Len(marks) /\ marks'[i] = marks[i + shift]
      BY <1>4, <1>5, <1>7, <2>2
    <3> QED
      BY <3>1 DEF GapInv, MarksHold
  <2> QED  BY <2>1, <2>2
<1>8. ASSUME NEW x \in recorded, x < MinuteStart',
             Len(marks') < CapacityMinutes \/ MinuteStart' <= x + Capacity
      PROVE  \E i \in 1 .. Len(marks') : Covers(marks'[i], x)
  <2>1. CASE MinuteStart <= x
    <3>1. Covers(m, x)
      BY <1>2, <1>8, <2>1 DEF Covers
    <3> QED
      BY <1>4, <1>5, <3>1
  <2>2. CASE ~(MinuteStart <= x)
    <3>0. x \in Nat /\ x < MinuteStart
      BY <2>2, MarkTypes
    <3>1. Len(marks) < CapacityMinutes \/ MinuteStart <= x + Capacity
      BY <1>2, <1>5, <1>8, <3>0, MarkTypes
    <3>2. PICK k \in 1 .. Len(marks) : Covers(marks[k], x)
      BY <3>0, <3>1 DEF GapInv, MarksHold
    <3>3. k # shift
      <4> SUFFICES ASSUME k = shift PROVE FALSE
        OBVIOUS
      <4>1. full /\ k = 1 /\ Len(marks) - k + 1 = CapacityMinutes
        BY <1>5, <3>2
      <4>2. marks[1].start + Capacity = MinuteStart /\ marks[1].start \in Nat
        BY <3>2, <4>1, MinutesAdd, MarkTypes DEF GapInv, MarksInOrder
      <4>3. MinuteStart + SamplesPerMinute <= x + Capacity
        BY <1>2, <1>5, <1>8, <4>1
      <4>4. x < marks[1].start + SamplesPerMinute
        BY <3>2, <4>1 DEF Covers
      <4> QED
        BY <3>0, <4>2, <4>3, <4>4, MarkTypes
    <3>4. k - shift \in 1 .. Len(marks') - 1
      BY <1>4, <1>5, <3>2, <3>3
    <3>5. marks'[k - shift] = marks[k]
      <4>1. (k - shift) + shift = k
        BY <1>5, <3>2
      <4> QED
        BY <1>4, <3>4, <4>1
    <3>6. k - shift \in 1 .. Len(marks')
      BY <1>5, <3>4
    <3> QED
      BY <3>2, <3>5, <3>6
  <2> QED  BY <2>1, <2>2
<1>9. MarksHold'
  BY <1>1, <1>7, <1>8 DEF MarksHold
<1>10. MinuteHolds'
  BY <1>1, <1>2, MarkTypes DEF GapInv, MinuteHolds
<1> QED
  BY <1>6, <1>9, <1>10 DEF GapInv

LEMMA GapStep == TypeInv /\ GapInv /\ [Next]_vars => GapInv'
<1> SUFFICES ASSUME TypeInv, GapInv, [Next]_vars
             PROVE  GapInv'
  OBVIOUS
<1>1. CASE UNCHANGED ingestVars
  <2>1. UNCHANGED <<marks, recorded, minuteGaps, absCount, minuteCount, copied, ingest>>
    BY <1>1 DEF ingestVars, ringVars
  <2>2. MinuteStart' = MinuteStart
    BY <2>1 DEF MinuteStart
  <2> QED
    BY <2>1, <2>2, MarksKept DEF GapInv, MinuteHolds
<1>2. CASE \E n \in 1 .. MaxBatch, gap \in BOOLEAN : Deliver(n, gap)
  BY <1>2, DeliverGaps
<1>3. CASE Ingest
  BY <1>3, CountGaps, CloseGaps DEF Ingest
<1>4. CASE UNCHANGED vars
  BY <1>1, <1>4 DEF vars
<1>5. CASE (\E late \in 0 .. Slack : Request(late)) \/ Extract
  BY <1>1, <1>5 DEF Request, Extract, TestResident, CopyOut, IterateMarks, MarksIterated, ReadBase,
                    ReadGaps, Dispose
<1> QED
  BY <1>2, <1>3, <1>4, <1>5 DEF Next

(* The gaps a slice is given are those recorded in it.                     *)
LEMMA SliceGaps ==
  ASSUME TypeInv, GapInv, AtHarvest, NEW s \in Nat, NEW n \in 1 .. Capacity, Resident(s, n)
  PROVE  GapsIn(RangeOf(marks) \cup {CurrentMinute}, s, n) = TrueGaps(s, n)
<1> USE CapacityPositive
<1> DEFINE minutes == RangeOf(marks) \cup {CurrentMinute}
<1>1. s >= absCount - Capacity /\ s + n <= absCount
  BY DEF Resident
<1>2. /\ MinuteStart = absCount - minuteCount
      /\ CurrentMinute.start = MinuteStart /\ CurrentMinute.gaps = minuteGaps
  BY DEF AtHarvest, MinuteStart, CurrentMinute
<1>3. \A p \in Nat : p \in minuteGaps <=> MinuteStart + p \in recorded
  BY DEF AtHarvest, GapInv, MinuteHolds
<1>4. \A k : k \in minutes <=> k = CurrentMinute \/ \E i \in 1 .. Len(marks) : k = marks[i]
  BY MarkTypes DEF RangeOf, TypeInv, TypeOK
<1> HIDE DEF minutes
<1>5. ASSUME NEW g \in 0 .. n - 1, NEW k \in minutes, NEW p \in k.gaps, k.start + p = s + g
      PROVE  s + g \in recorded
  <2>1. CASE k = CurrentMinute
    BY <1>2, <1>3, <1>5, <2>1, MarkTypes
  <2>2. ASSUME NEW i \in 1 .. Len(marks), k = marks[i]
        PROVE  s + g \in recorded
    <3>1. p \in Nat
      BY <1>5, <2>2, MarkTypes DEF Mark
    <3> QED
      BY <1>5, <2>2, <3>1 DEF GapInv, MarksHold
  <2> QED
    BY <1>4, <2>1, <2>2
<1>6. ASSUME NEW g \in 0 .. n - 1, s + g \in recorded
      PROVE  \E k \in minutes : \E p \in k.gaps : k.start + p = s + g
  <2>0. s + g \in Nat /\ g \in Nat
    OBVIOUS
  <2>1. CASE MinuteStart <= s + g
    <3> DEFINE p == s + g - MinuteStart
    <3>1. p \in Nat /\ MinuteStart + p = s + g
      BY <2>0, <2>1, MarkTypes
    <3>2. p \in minuteGaps
      BY <1>3, <1>6, <3>1
    <3> QED
      BY <1>2, <1>4, <3>1, <3>2
  <2>2. CASE ~(MinuteStart <= s + g)
    <3>1. s + g < MinuteStart /\ MinuteStart <= (s + g) + Capacity
      BY <1>1, <1>2, <2>0, <2>2, MarkTypes
    <3>2. PICK i \in 1 .. Len(marks) : Covers(marks[i], s + g)
      BY <1>6, <3>1 DEF GapInv, MarksHold
    <3> DEFINE p == s + g - marks[i].start
    <3>3. marks[i].start \in Nat
      BY MarkTypes
    <3>4. marks[i].start <= s + g /\ s + g < marks[i].start + SamplesPerMinute
      BY <3>2 DEF Covers
    <3>5. p \in Nat /\ p < SamplesPerMinute /\ marks[i].start + p = s + g
      BY <2>0, <3>3, <3>4
    <3>6. p \in marks[i].gaps
      BY <1>6, <3>5 DEF GapInv, MarksHold
    <3> QED
      BY <1>4, <3>5, <3>6
  <2> QED  BY <2>1, <2>2
<1> QED
  BY <1>5, <1>6 DEF GapsIn, TrueGaps, minutes

(* The samples of a slice are those of its offsets.                        *)
LEMMA SliceSamples ==
  ASSUME TypeInv, RingContent, AtHarvest, NEW s \in Nat, NEW n \in 1 .. Capacity, Resident(s, n)
  PROVE  [i \in 0 .. n - 1 |-> SampleAt(s, i)] = [i \in 0 .. n - 1 |-> s + i]
<1> USE CapacityPositive
<1>1. s >= absCount - Capacity /\ s + n <= absCount /\ Written = absCount /\ absCount \in Nat
  BY DEF Resident, Written, AtHarvest, TypeInv, TypeOK
<1> SUFFICES ASSUME NEW i \in 0 .. n - 1
             PROVE  SampleAt(s, i) = s + i
  OBVIOUS
<1>2. i \in 0 .. Capacity - 1 /\ s + i \in Nat
  OBVIOUS
<1>3. Wrap(RingStart(s), i) = (s + i) % Capacity
  BY <1>2, WrapPosition DEF RingStart
<1>4. s + i < Written /\ Written <= (s + i) + Capacity
  BY <1>1, <1>2
<1>5. cells[(s + i) % Capacity] = s + i
  BY <1>2, <1>4 DEF RingContent
<1> QED
  BY <1>3, <1>5 DEF SampleAt

(* A slot the ingest thread cuts itself (ring_buffer.py:255) has exactly   *)
(* the samples of its offsets and the gaps recorded in it, or is refused,  *)
(* for any capacity, minute, batch and window: through wrap-around,        *)
(* batches split at a minute and marks that were evicted.                  *)
THEOREM IngestExact == Spec => []IngestSliceExact
<1>1. Init => GapInv
  <2> SUFFICES ASSUME Init PROVE GapInv
    OBVIOUS
  <2>1. /\ marks = <<>> /\ recorded = {} /\ minuteGaps = {} /\ ingest = "idle"
        /\ absCount = 0 /\ minuteCount = 0
    BY DEF Init
  <2>2. MinuteStart = 0 /\ Len(marks) = 0
    BY <2>1 DEF MinuteStart
  <2>3. MarksInOrder
    BY <2>1, <2>2, MinutesAdd DEF MarksInOrder
  <2>4. MarksHold
    BY <2>1, <2>2 DEF MarksHold
  <2>5. MinuteHolds
    BY <2>1, <2>2 DEF MinuteHolds
  <2> QED
    BY <2>3, <2>4, <2>5 DEF GapInv
<1>2. Init => ContentInv
  BY InitContent
<1>3. TypeInv /\ ContentInv /\ GapInv /\ [Next]_vars => (ContentInv /\ GapInv)'
  BY ContentStep, GapStep
<1>4. TypeInv /\ ContentInv /\ GapInv => IngestSliceExact
  <2> SUFFICES ASSUME TypeInv, ContentInv, GapInv, AtHarvest,
                      NEW s \in 0 .. absCount, NEW n \in 1 .. Capacity
               PROVE  ExtractByOffset(s, n) =
                        IF s + Capacity >= absCount /\ s + n <= absCount THEN TrueSlice(s, n) ELSE <<>>
    BY DEF IngestSliceExact
  <2>1. s \in Nat /\ absCount \in Nat /\ Capacity \in Nat
    BY MarkTypes, CapacityPositive
  <2>2. Resident(s, n) <=> s + Capacity >= absCount /\ s + n <= absCount
    BY <2>1 DEF Resident
  <2>3. CASE Resident(s, n)
    <3>1. GapsIn(RangeOf(marks) \cup {CurrentMinute}, s, n) = TrueGaps(s, n)
      BY <2>1, <2>3, SliceGaps
    <3>2. [i \in 0 .. n - 1 |-> SampleAt(s, i)] = [i \in 0 .. n - 1 |-> s + i]
      BY <2>1, <2>3, SliceSamples DEF ContentInv
    <3> QED
      BY <2>2, <2>3, <3>1, <3>2 DEF ExtractByOffset, TrueSlice
  <2>4. CASE ~Resident(s, n)
    BY <2>2, <2>4 DEF ExtractByOffset
  <2> QED  BY <2>3, <2>4
<1> QED
  BY <1>1, <1>2, <1>3, <1>4, TypeInvHolds, PTL DEF Spec
=============================================================================
