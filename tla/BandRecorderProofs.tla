------------------------- MODULE BandRecorderProofs -------------------------
(***************************************************************************)
(* Proofs about BandRecorder, for all periods, batches, counters and       *)
(* numbers of samples and events: the slots a band recorder hands out are  *)
(* exact, in order, without a hole and prompt as long as no reset of a     *)
(* guard overlaps a batch and radiod's mapping wanders by less than the    *)
(* ring's headroom, a slot and half the RTP counter.                       *)
(***************************************************************************)
EXTENDS BandRecorder, TLAPS

(* Each slide of radiod's mapping and each change of the authority's       *)
(* offset moves UTC by at most n samples.  All of them together move it    *)
(* by less than a slot, less than half a turn of the counter and less than *)
(* what the headroom leaves beside a minute; a batch is less than half a   *)
(* turn.                                                                   *)
Limits(n) ==
  /\ \A d \in Slides : d <= n /\ -d <= n
  /\ \A o, q \in Offsets : o - q <= n
  /\ 2 * (n * MaxEvents) < Modulus
  /\ \A p \in Periods : n * MaxEvents < p
  /\ SamplesPerMinute + n * MaxEvents <= Headroom + 1
  /\ \A b \in BatchSizes : 2 * b <= Modulus

WithinLimits == \E n \in Nat : Limits(n)
Step  == CHOOSE n \in Nat : Limits(n)

(* How far UTC can have moved by now, and in all.                          *)
Drift    == Step * events
MaxDrift == Step * MaxEvents

Close(a, b) == a - b <= Drift /\ b - a <= Drift

-----------------------------------------------------------------------------
(* Division: a number is a quotient and a remainder.                       *)
LEMMA Division ==
  ASSUME NEW C \in Nat \ {0}, NEW a \in Int
  PROVE  /\ a % C \in 0 .. C - 1 /\ a \div C \in Int
         /\ a = C * (a \div C) + (a % C)
OBVIOUS

(* Quotient and remainder are determined by the number they make.          *)
LEMMA RemainderOf ==
  ASSUME NEW C \in Nat \ {0}, NEW a \in Int, NEW q \in Int, NEW r \in 0 .. C - 1,
         a = C * q + r
  PROVE  a % C = r
<1> DEFINE p == a \div C
           s == a % C
<1>1. p \in Int /\ s \in 0 .. C - 1 /\ a = C * p + s
  BY Division
<1> HIDE DEF p, s
<1>2. C * (q - p) = s - r
  BY <1>1
<1>3. CASE q - p >= 1
  <2>1. C * (q - p) >= C
    BY <1>1, <1>3
  <2> QED
    BY <1>1, <1>2, <2>1
<1>4. CASE q - p <= -1
  <2>1. C * (q - p) <= -C
    BY <1>1, <1>4
  <2> QED
    BY <1>1, <1>2, <2>1
<1>5. CASE q = p
  BY <1>1, <1>5 DEF s
<1> QED
  BY <1>1, <1>3, <1>4, <1>5

(* A number and its remainder may be exchanged under a further remainder.  *)
LEMMA RemainderSum ==
  ASSUME NEW C \in Nat \ {0}, NEW a \in Int, NEW b \in Int
  PROVE  ((a % C) + b) % C = (a + b) % C
<1> DEFINE q == a \div C
           r == a % C
           t == (r + b) \div C
           s == (r + b) % C
<1>1. q \in Int /\ r \in 0 .. C - 1 /\ a = C * q + r
  BY Division
<1>2. r + b \in Int
  BY <1>1
<1>3. t \in Int /\ s \in 0 .. C - 1 /\ r + b = C * t + s
  BY <1>2, Division
<1> HIDE DEF q, r, t, s
<1>4. a + b = C * (q + t) + s
  <2>1. C * (q + t) = C * q + C * t
    BY <1>1, <1>3
  <2> QED
    BY <1>1, <1>3, <2>1
<1>5. a + b \in Int /\ q + t \in Int
  BY <1>1, <1>3
<1>6. (a + b) % C = s
  BY <1>3, <1>4, <1>5, RemainderOf
<1> QED
  BY <1>6 DEF s, r

(* The remainder of a small number, and of a small negative one.           *)
LEMMA SmallRemainder ==
  ASSUME NEW C \in Nat \ {0}, NEW a \in Int
  PROVE  /\ a \in 0 .. C - 1 => a % C = a
         /\ a \in -C .. -1 => a % C = a + C
<1>1. ASSUME a \in 0 .. C - 1
      PROVE  a % C = a
  <2>1. a = C * 0 + a
    OBVIOUS
  <2> QED
    BY <1>1, <2>1, RemainderOf
<1>2. ASSUME a \in -C .. -1
      PROVE  a % C = a + C
  <2>1. a = C * (-1) + (a + C) /\ a + C \in 0 .. C - 1
    BY <1>2
  <2>2. -1 \in Int
    OBVIOUS
  <2> QED
    BY <2>1, <2>2, RemainderOf
<1> QED
  BY <1>1, <1>2

(* Multiples of a period.                                                  *)
LEMMA Multiples ==
  ASSUME NEW C \in Nat \ {0}, NEW a \in Int, NEW k \in Int, a % C = 0
  PROVE  (a + k * C) % C = 0
<1> DEFINE q == a \div C
<1>1. q \in Int /\ a = C * q
  BY Division
<1> HIDE DEF q
<1>2. a + k * C = C * (q + k) + 0
  <2>1. C * (q + k) = C * q + k * C
    BY <1>1
  <2> QED
    BY <1>1, <2>1
<1>3. a + k * C \in Int /\ q + k \in Int /\ 0 \in 0 .. C - 1
  BY <1>1
<1> QED
  BY <1>2, <1>3, RemainderOf

(* The first multiple of p at or after u.                                  *)
LEMMA CleanStart ==
  ASSUME NEW u \in Int, NEW p \in Nat \ {0}
  PROVE  /\ CleanFrom(u, p) \in Int
         /\ u <= CleanFrom(u, p) /\ CleanFrom(u, p) < u + p
         /\ CleanFrom(u, p) % p = 0
<1> DEFINE q == (-u) \div p
           r == (-u) % p
<1>1. q \in Int /\ r \in 0 .. p - 1 /\ -u = p * q + r
  BY Division
<1>2. CleanFrom(u, p) = u + r
  BY DEF CleanFrom
<1> HIDE DEF q, r
<1>3. u + r = 0 + (-q) * p
  BY <1>1
<1>4. 0 % p = 0
  BY SmallRemainder
<1>5. (0 + (-q) * p) % p = 0
  <2>1. -q \in Int /\ 0 \in Int
    BY <1>1
  <2> QED
    BY <1>4, <2>1, Multiples
<1> QED
  BY <1>1, <1>2, <1>3, <1>5

(* A timestamp within half a turn of the hint is put on the right turn.    *)
LEMMA RightTurn ==
  ASSUME NEW n \in Int, NEW hint \in Int, mapping \in Int, Modulus \in Nat \ {0},
         2 * (n + mapping - hint) < Modulus, 2 * (hint - n - mapping) < Modulus
  PROVE  RtpToUtc(n % Modulus, hint) = n + mapping
<1> DEFINE d == n + mapping - hint
           a == ((n % Modulus) + mapping - hint) % Modulus
<1>1. d \in Int /\ 2 * d < Modulus /\ -(2 * d) < Modulus
  OBVIOUS
<1>2. a = d % Modulus
  <2>1. n % Modulus \in Int /\ mapping - hint \in Int
    BY Division
  <2>2. (n % Modulus) + mapping - hint = (n % Modulus) + (mapping - hint) /\ n + (mapping - hint) = d
    BY <2>1
  <2> QED
    BY <2>1, <2>2, RemainderSum
<1>3. RtpToUtc(n % Modulus, hint) = hint + IF 2 * a > Modulus THEN a - Modulus ELSE a
  BY DEF RtpToUtc
<1>4. n + mapping = hint + d
  OBVIOUS
<1> HIDE DEF d, a
<1>5. CASE d >= 0
  <2>1. d \in 0 .. Modulus - 1
    BY <1>1, <1>5
  <2>2. a = d
    BY <1>1, <1>2, <2>1, SmallRemainder
  <2> QED
    BY <1>1, <1>3, <1>4, <2>2
<1>6. CASE d < 0
  <2>1. d \in -Modulus .. -1
    BY <1>1, <1>6
  <2>2. a = d + Modulus
    BY <1>1, <1>2, <2>1, SmallRemainder
  <2> QED
    BY <1>1, <1>3, <1>4, <2>2
<1> QED
  BY <1>1, <1>5, <1>6

(* The strategy counts on, whatever the counter wraps.                     *)
LEMMA CountsOn ==
  ASSUME NEW s, NEW n \in Int, NEW b \in Nat, Modulus \in Nat \ {0}, 2 * b <= Modulus,
         None \notin Int, s.lastRaw = n % Modulus, s.unwrapped \in Int
  PROVE  Unwrap(s, (n + b) % Modulus) = s.unwrapped + b
<1> DEFINE x == n % Modulus
           y == (n + b) % Modulus
           delta == (y - x) % Modulus
<1>1. x \in Int /\ y \in Int /\ n + b \in Int
  BY Division
<1>2. delta = b
  <2>1. (n + b) - x = Modulus * (n \div Modulus) + b /\ n \div Modulus \in Int
    <3>1. n = Modulus * (n \div Modulus) + x /\ n \div Modulus \in Int
      BY Division
    <3> HIDE DEF x
    <3> QED  BY <1>1, <3>1
  <2>2. b \in 0 .. Modulus - 1
    OBVIOUS
  <2>3. ((n + b) - x) % Modulus = b
    <3>1. (n + b) - x \in Int
      BY <1>1
    <3> HIDE DEF x, y, delta
    <3> QED  BY <2>1, <2>2, <3>1, RemainderOf
  <2>4. (y + (-x)) % Modulus = ((n + b) + (-x)) % Modulus
    <3>1. -x \in Int
      BY <1>1
    <3> QED  BY <1>1, <3>1, RemainderSum
  <2>5. y - x = y + (-x) /\ (n + b) - x = (n + b) + (-x)
    BY <1>1
  <2> QED
    BY <2>3, <2>4, <2>5
<1>3. s.lastRaw # None
  BY <1>1
<1>4. Unwrap(s, y) = s.unwrapped + IF 2 * delta > Modulus THEN delta - Modulus ELSE delta
  BY <1>3 DEF Unwrap
<1> HIDE DEF x, y, delta
<1>5. ~(2 * delta > Modulus)
  BY <1>2
<1>6. Unwrap(s, y) = s.unwrapped + delta
  BY <1>4, <1>5
<1> QED
  BY <1>2, <1>6 DEF y

(* What the assumptions say of each constant.                              *)
LEMMA Constants ==
  /\ SamplesPerMinute \in Nat \ {0} /\ HarvestEvery \in Nat \ {0}
  /\ Modulus \in Nat \ {0} /\ DivAfter \in Nat \ {0}
  /\ \A b \in BatchSizes : b \in Nat \ {0}
  /\ \A p \in Periods : p \in Nat \ {0} /\ SamplesPerMinute <= p
  /\ Headroom \in Nat /\ DivThreshold \in Nat /\ MaxSamples \in Nat /\ MaxEvents \in Nat
  /\ InitRtp \in Nat /\ InitUtc \in Nat /\ RestartRtp \in Nat
  /\ \A d \in Slides : d \in Int
  /\ \A o \in Offsets : o \in Int
  /\ 0 \in Offsets /\ None \notin Int
<1>1. \A p \in Periods : p \in Nat \ {0} /\ SamplesPerMinute <= p
  <2>1. SUFFICES ASSUME NEW p \in Periods
                 PROVE  p \in Nat \ {0} /\ SamplesPerMinute <= p
    OBVIOUS
  <2>2. PICK k \in 1 .. LongPeriod : p = SamplesPerMinute * k
    BY <2>1, ConstantsAssumption
  <2>3. k \in Nat /\ k >= 1 /\ SamplesPerMinute \in Nat \ {0} /\ LongPeriod \in Nat
    BY ConstantsAssumption
  <2>4. SamplesPerMinute * k >= SamplesPerMinute * 1
    BY <2>3
  <2> QED
    BY <2>2, <2>3, <2>4
<1>2. /\ SamplesPerMinute \in Nat \ {0} /\ HarvestEvery \in Nat \ {0}
      /\ Modulus \in Nat \ {0} /\ DivAfter \in Nat \ {0}
      /\ \A b \in BatchSizes : b \in Nat \ {0}
  BY ConstantsAssumption
<1>3. /\ Headroom \in Nat /\ DivThreshold \in Nat /\ MaxSamples \in Nat /\ MaxEvents \in Nat
      /\ InitRtp \in Nat /\ InitUtc \in Nat /\ RestartRtp \in Nat
      /\ \A d \in Slides : d \in Int
      /\ \A o \in Offsets : o \in Int
      /\ 0 \in Offsets /\ None \notin Int
  BY ConstantsAssumption
<1> QED
  BY <1>1, <1>2, <1>3

(* What the limits say.                                                    *)
LEMMA Wandering ==
  ASSUME WithinLimits, events \in 0 .. MaxEvents
  PROVE  /\ Step \in Nat /\ Drift \in Nat /\ MaxDrift \in Nat /\ Drift <= MaxDrift
         /\ \A d \in Slides : d <= Step /\ -d <= Step
         /\ \A o, q \in Offsets : o - q <= Step
         /\ 2 * MaxDrift < Modulus
         /\ \A p \in Periods : MaxDrift < p
         /\ SamplesPerMinute + MaxDrift <= Headroom + 1
         /\ \A b \in BatchSizes : 2 * b <= Modulus
<1>1. Step \in Nat /\ Limits(Step)
  BY DEF WithinLimits, Step
<1>2. MaxEvents \in Nat /\ events \in Nat /\ events <= MaxEvents
  BY Constants
<1>3. Drift \in Nat /\ MaxDrift \in Nat
  BY <1>1, <1>2 DEF Drift, MaxDrift
<1>4. Drift <= MaxDrift
  <2>1. Step * events + Step * (MaxEvents - events) = Step * MaxEvents
    BY <1>1, <1>2
  <2>2. Step * (MaxEvents - events) >= 0
    BY <1>1, <1>2
  <2>3. Step * (MaxEvents - events) \in Int /\ Step * events \in Int
    BY <1>1, <1>2
  <2> QED
    BY <2>1, <2>2, <2>3 DEF Drift, MaxDrift
<1> QED
  BY <1>1, <1>3, <1>4 DEF Limits, MaxDrift

(* An event adds a step to the drift.                                      *)
LEMMA OneMoreEvent ==
  ASSUME WithinLimits, events \in 0 .. MaxEvents
  PROVE  /\ events' = events + 1 => Drift' = Drift + Step
         /\ events' = events => Drift' = Drift
<1>1. Step \in Nat /\ Limits(Step)
  BY DEF WithinLimits, Step
<1>2. MaxEvents \in Nat /\ events \in Nat
  BY Constants
<1>3. Step * (events + 1) = Step * events + Step
  BY <1>1, <1>2
<1> QED
  BY <1>3 DEF Drift

-----------------------------------------------------------------------------
(* Where a thread is says what it has in hand; holds whatever overlaps.    *)
InStep ==
  /\ firstRtp = None <=> firstWallclock = None
  /\ strategy.correlated =>
       strategy.boundary # None /\ strategy.minute # None /\ strategy.lastRaw # None
  /\ strategy.boundary = None <=> strategy.minute = None
  /\ ingest # "idle" => next = batch.first + batch.size
  /\ ingest = "sync" => batch.size \in BatchSizes
  /\ ingest \in {"decided", "marked"} =>
       /\ decision.wallclock # None /\ decision.rtp \in 0 .. Modulus - 1
       /\ decision.skip < batch.size
  /\ ingest = "tail" \/ (ingest \in {"harvest", "emit"} /\ harvest.then = "idle") =>
       batch.size = 0

Typed == TypeOK /\ InStep

(* A timestamp's UTC is a number.                                          *)
LEMMA UtcTypes ==
  ASSUME RadiodOK, NEW rtp \in Int, NEW hint \in Int
  PROVE  RtpToUtc(rtp, hint) \in Int /\ AnchorUtc(rtp, hint) \in Int
<1>1. mapping \in Int /\ offset \in Int /\ Modulus \in Nat \ {0}
  BY Constants DEF RadiodOK
<1>2. (rtp + mapping - hint) % Modulus \in Int
  BY <1>1, Division
<1>3. RtpToUtc(rtp, hint) \in Int
  BY <1>1, <1>2 DEF RtpToUtc
<1> QED
  BY <1>1, <1>3 DEF AnchorUtc

(* should_start_minute, statement by statement.                            *)
RawStamp    == batch.first % Modulus
Counted     == [strategy EXCEPT !.unwrapped = Unwrap(strategy, RawStamp), !.lastRaw = RawStamp]
Synced      == IF Counted.correlated THEN Counted
               ELSE Correlate(Counted, RawStamp, batch.first + mapping)
SkipToStart == Synced.boundary - Synced.unwrapped

(* The handler in these words.                                             *)
LEMMA SyncSays ==
  ASSUME Sync
  PROVE  /\ ingest = "sync" /\ strategy' = Synced
         /\ IF SkipToStart \in 0 .. batch.size - 1
            THEN /\ decision' = [wallclock |-> Synced.minute,
                                 rtp |-> (RawStamp + SkipToStart) % Modulus, skip |-> SkipToStart]
                 /\ Goto("decided")
            ELSE Goto("idle") /\ UNCHANGED decision
         /\ UNCHANGED <<next, delivered, anchored, slotNext, divStrikes, ring, minuteSamples, batch,
                        harvest, history, slid>>
BY DEF Sync, RawStamp, Counted, Synced, SkipToStart

(* What it computes: the minute that starts next.                          *)
LEMMA SyncTypes ==
  ASSUME Typed
  PROVE  /\ RawStamp \in 0 .. Modulus - 1
         /\ Synced \in Strategies /\ Synced.correlated
         /\ Synced.boundary \in Int /\ Synced.minute \in Int /\ Synced.lastRaw = RawStamp
         /\ Synced.unwrapped = Unwrap(strategy, RawStamp)
         /\ SkipToStart \in Int
         /\ ~strategy.correlated =>
              LET utc  == AnchorUtc(RawStamp, batch.first + mapping)
                  left == (-utc) % SamplesPerMinute
              IN  Synced.boundary = Synced.unwrapped + left /\ Synced.minute = utc + left
                  /\ utc \in Int /\ left \in Int
         /\ strategy.correlated =>
              Synced.boundary = strategy.boundary /\ Synced.minute = strategy.minute
<1>1. /\ batch.first \in Nat /\ mapping \in Int /\ strategy \in Strategies /\ None \notin Int
      /\ strategy.correlated => strategy.boundary \in Int /\ strategy.minute \in Int
  BY Constants DEF Typed, TypeOK, InStep, RadiodOK, InHandOK, Strategies, IntOrNone
<1>2. RawStamp \in 0 .. Modulus - 1
  BY <1>1, Constants, Division DEF RawStamp
<1>3. Unwrap(strategy, RawStamp) \in Int
  <2>1. strategy.unwrapped \in Int /\ strategy.lastRaw \in IntOrNone
    BY <1>1 DEF Strategies
  <2>2. CASE strategy.lastRaw = None
    BY <1>2, <2>2, Constants DEF Unwrap
  <2>3. CASE strategy.lastRaw # None
    <3>1. RawStamp - strategy.lastRaw \in Int
      BY <1>2, <2>1, <2>3 DEF IntOrNone
    <3>2. (RawStamp - strategy.lastRaw) % Modulus \in Int /\ Modulus \in Int
      BY <3>1, Constants, Division
    <3> QED
      BY <2>1, <2>3, <3>2 DEF Unwrap
  <2> QED  BY <2>2, <2>3
<1>4. /\ Counted \in Strategies /\ Counted.lastRaw = RawStamp
      /\ Counted.unwrapped = Unwrap(strategy, RawStamp)
      /\ Counted.correlated = strategy.correlated
      /\ Counted.boundary = strategy.boundary /\ Counted.minute = strategy.minute
  <2>1. RawStamp \in IntOrNone
    BY <1>2, Constants DEF IntOrNone
  <2> QED
    BY <1>1, <1>3, <2>1 DEF Counted, Strategies
<1>5. CASE strategy.correlated
  <2>1. Synced = Counted
    BY <1>4, <1>5 DEF Synced
  <2>2. Synced.correlated
    BY <1>4, <1>5, <2>1
  <2>3. Synced.boundary \in Int /\ Synced.minute \in Int /\ Synced.unwrapped \in Int
    BY <1>1, <1>3, <1>4, <1>5, <2>1
  <2>4. SkipToStart \in Int
    BY <2>3 DEF SkipToStart
  <2> QED
    BY <1>2, <1>4, <1>5, <2>1, <2>2, <2>3, <2>4
<1>6. CASE ~strategy.correlated
  <2> DEFINE utc  == AnchorUtc(RawStamp, batch.first + mapping)
             left == (-utc) % SamplesPerMinute
  <2>1. utc \in Int
    <3>1. RawStamp \in Int /\ batch.first + mapping \in Int
      BY <1>1, <1>2, Constants
    <3> QED  BY <3>1, UtcTypes DEF Typed, TypeOK
  <2>2. left \in Int
    <3>1. -utc \in Int
      BY <2>1
    <3> QED  BY <3>1, Constants, Division
  <2>3. Synced = [Counted EXCEPT !.correlated = TRUE, !.boundary = Counted.unwrapped + left,
                                 !.minute = utc + left]
    BY <1>4, <1>6 DEF Synced, Correlate
  <2> HIDE DEF utc, left
  <2>4. /\ Synced \in Strategies /\ Synced.correlated /\ Synced.lastRaw = RawStamp
        /\ Synced.unwrapped = Counted.unwrapped
        /\ Synced.boundary = Counted.unwrapped + left /\ Synced.minute = utc + left
    <3>1. Counted.unwrapped + left \in IntOrNone /\ utc + left \in IntOrNone
      BY <1>3, <1>4, <2>1, <2>2 DEF IntOrNone
    <3> QED
      BY <1>4, <2>3, <3>1 DEF Strategies
  <2> QED
    BY <1>2, <1>3, <1>4, <1>6, <2>1, <2>2, <2>4 DEF SkipToStart, utc, left
<1> QED
  BY <1>5, <1>6

(* What is written is a sequence of samples.                               *)
LEMMA NumbersWritten ==
  ASSUME NEW f \in Nat, NEW n \in Nat
  PROVE  /\ Numbers(f, n) \in Seq(Nat) /\ Len(Numbers(f, n)) = n
         /\ \A i \in 1 .. n : Numbers(f, n)[i] = f + i - 1
<1>1. \A i \in 1 .. n : f + i - 1 \in Nat
  OBVIOUS
<1>2. Numbers(f, n) \in [1 .. n -> Nat]
  BY <1>1 DEF Numbers
<1> QED
  BY <1>2 DEF Numbers

(* A turn of the loop writes what is left of the batch or the minute.      *)
LEMMA WriteSays ==
  ASSUME Typed, Write
  PROVE  \E n \in Nat :
           /\ n <= batch.size /\ minuteSamples + n <= SamplesPerMinute
           /\ n = batch.size \/ minuteSamples + n = SamplesPerMinute
           /\ ingest = "write"
           /\ ring' = ring \o Numbers(batch.first, n)
           /\ minuteSamples' = minuteSamples + n
           /\ batch' = [first |-> batch.first + n, size |-> batch.size - n]
           /\ Goto(IF minuteSamples + n = SamplesPerMinute THEN "boundary"
                   ELSE IF batch.size > n THEN "write" ELSE "tail")
<1>1. /\ batch.size \in Nat /\ minuteSamples \in 0 .. SamplesPerMinute
      /\ SamplesPerMinute \in Nat
  BY Constants DEF Typed, TypeOK, InHandOK, RingOK
<1> DEFINE space == SamplesPerMinute - minuteSamples
           n     == IF batch.size < space THEN batch.size ELSE space
<1>2. /\ n \in Nat /\ n <= batch.size /\ minuteSamples + n <= SamplesPerMinute
      /\ n = batch.size \/ minuteSamples + n = SamplesPerMinute
  BY <1>1
<1>3. /\ ingest = "write"
      /\ ring' = ring \o Numbers(batch.first, n)
      /\ minuteSamples' = minuteSamples + n
      /\ batch' = [first |-> batch.first + n, size |-> batch.size - n]
      /\ Goto(IF minuteSamples + n = SamplesPerMinute THEN "boundary"
              ELSE IF batch.size > n THEN "write" ELSE "tail")
  BY DEF Write
<1> HIDE DEF n
<1> QED
  BY <1>2, <1>3

(* Where the walk of a period starts, and how many slots it finds: they    *)
(* fill the leading edge up to less than a slot.                           *)
LEMMA WalkTypes ==
  ASSUME NEW p \in Periods, SlotsOK, InHandOK
  PROVE  /\ FirstSlot(p) \in Int /\ harvest.anchor <= FirstSlot(p)
         /\ slotNext[p] # None => slotNext[p] <= FirstSlot(p)
         /\ slotNext[p] # None /\ harvest.anchor <= slotNext[p] => FirstSlot(p) = slotNext[p]
         /\ (slotNext[p] # None => slotNext[p] % p = 0) => FirstSlot(p) % p = 0
         /\ Ready(p) \in Nat
         /\ Ready(p) > 0 => FirstSlot(p) + p * Ready(p) <= harvest.anchor + harvest.leading
         /\ harvest.anchor + harvest.leading < FirstSlot(p) + p * Ready(p) + p
<1> DEFINE nxt == IF slotNext[p] = None THEN CleanFrom(harvest.anchor, p) ELSE slotNext[p]
<1>1. /\ harvest.anchor \in Int /\ harvest.leading \in Nat /\ p \in Nat \ {0}
      /\ slotNext[p] # None => slotNext[p] \in Int
  BY Constants DEF SlotsOK, InHandOK, Harvests, IntOrNone
<1>2. /\ nxt \in Int
      /\ slotNext[p] = None => harvest.anchor <= nxt
      /\ slotNext[p] # None => nxt = slotNext[p]
      /\ (slotNext[p] # None => slotNext[p] % p = 0) => nxt % p = 0
  BY <1>1, CleanStart
<1>3. FirstSlot(p) =
        IF nxt < harvest.anchor THEN nxt + CleanFrom(harvest.anchor - nxt, p) ELSE nxt
  BY DEF FirstSlot
<1> HIDE DEF nxt
<1>4. /\ FirstSlot(p) \in Int /\ harvest.anchor <= FirstSlot(p) /\ nxt <= FirstSlot(p)
      /\ harvest.anchor <= nxt => FirstSlot(p) = nxt
      /\ nxt % p = 0 => FirstSlot(p) % p = 0
  <2>1. CASE nxt < harvest.anchor
    <3> DEFINE c == CleanFrom(harvest.anchor - nxt, p)
    <3>1. c \in Int /\ harvest.anchor - nxt <= c /\ c % p = 0
      <4>1. harvest.anchor - nxt \in Int
        BY <1>1, <1>2
      <4> QED  BY <1>1, <4>1, CleanStart
    <3>2. nxt % p = 0 => (nxt + c) % p = 0
      <4>1. c \div p \in Int /\ c = (c \div p) * p
        <5>1. c \div p \in Int /\ c = p * (c \div p) + (c % p)
          BY <1>1, <3>1, Division
        <5> HIDE DEF c
        <5> QED  BY <1>1, <3>1, <5>1
      <4> HIDE DEF c
      <4>2. nxt % p = 0 => (nxt + (c \div p) * p) % p = 0
        BY <1>1, <1>2, <4>1, Multiples
      <4> QED  BY <4>1, <4>2
    <3>3. FirstSlot(p) = nxt + c
      BY <1>3, <2>1
    <3> HIDE DEF c
    <3> QED
      BY <1>1, <1>2, <2>1, <3>1, <3>2, <3>3
  <2>2. CASE ~(nxt < harvest.anchor)
    BY <1>1, <1>2, <1>3, <2>2
  <2> QED  BY <2>1, <2>2
<1>5. /\ Ready(p) \in Nat
      /\ Ready(p) > 0 => p * Ready(p) <= harvest.leading - (FirstSlot(p) - harvest.anchor)
      /\ harvest.leading - (FirstSlot(p) - harvest.anchor) < p * Ready(p) + p
  <2> DEFINE room == harvest.leading - (FirstSlot(p) - harvest.anchor)
  <2>1. room \in Int
    BY <1>1, <1>4
  <2>2. Ready(p) = IF room < p THEN 0 ELSE room \div p
    BY DEF Ready
  <2>3. room \div p \in Int /\ room % p \in 0 .. p - 1 /\ room = p * (room \div p) + (room % p)
    BY <1>1, <2>1, Division
  <2> HIDE DEF room
  <2>4. CASE room < p
    <3>1. Ready(p) = 0 /\ p * 0 = 0
      BY <1>1, <2>2, <2>4
    <3> QED
      BY <1>1, <2>1, <2>4, <3>1 DEF room
  <2>5. CASE ~(room < p)
    <3> DEFINE q == room \div p
               r == room % p
    <3>1. q \in Int /\ r \in 0 .. p - 1 /\ room = p * q + r /\ Ready(p) = q
      BY <2>2, <2>3, <2>5
    <3> HIDE DEF q, r
    <3>2. q >= 0
      <4>1. CASE q <= -1
        <5>1. p * q <= -p
          BY <1>1, <3>1, <4>1
        <5> QED  BY <1>1, <2>1, <2>5, <3>1, <5>1
      <4> QED  BY <3>1, <4>1
    <3>3. p * q \in Int
      BY <1>1, <3>1
    <3> QED
      BY <1>1, <2>1, <3>1, <3>2, <3>3 DEF room
  <2> QED  BY <2>4, <2>5
<1> QED
  <2>1. p * Ready(p) \in Int
    BY <1>1, <1>5
  <2> QED
    BY <1>1, <1>2, <1>4, <1>5, <2>1

(* Types are kept by every step.                                           *)
LEMMA TypesKept ==
  ASSUME Typed, [Next]_vars
  PROVE  Typed'
<1>0. RadiodOK /\ AnchorOK /\ SlotsOK /\ RingOK /\ InHandOK /\ InStep
  BY DEF Typed, TypeOK
<1>1. ASSUME NEW d \in Slides, NEW seen \in BOOLEAN, Slide(d, seen)
      PROVE  Typed'
  <2>1. RadiodOK'
    BY <1>0, <1>1, Constants DEF Slide, anchored, history, RadiodOK
  <2>2. AnchorOK'
    BY <1>0, <1>1, Constants DEF Slide, anchored, history, AnchorOK
  <2>3. SlotsOK'
    BY <1>0, <1>1 DEF Slide, anchored, history, SlotsOK
  <2>4. RingOK'
    BY <1>0, <1>1, Constants DEF Slide, anchored, history, RingOK
  <2>5. InHandOK'
    BY <1>0, <1>1 DEF Slide, anchored, history, InHandOK, IngestStates, GuardStates
  <2>6. InStep'
    BY <1>0, <1>1 DEF Slide, anchored, history, InStep
  <2> QED
    BY <2>1, <2>2, <2>3, <2>4, <2>5, <2>6 DEF Typed, TypeOK
<1>2. ASSUME NEW o \in Offsets, Authority(o)
      PROVE  Typed'
  <2>1. RadiodOK'
    BY <1>0, <1>2, Constants DEF Authority, anchored, history, RadiodOK
  <2>2. AnchorOK'
    BY <1>0, <1>2, Constants DEF Authority, anchored, history, AnchorOK
  <2>3. SlotsOK'
    BY <1>0, <1>2 DEF Authority, anchored, history, SlotsOK
  <2>4. RingOK'
    BY <1>0, <1>2, Constants DEF Authority, anchored, history, RingOK
  <2>5. InHandOK'
    BY <1>0, <1>2 DEF Authority, anchored, history, InHandOK, IngestStates, GuardStates
  <2>6. InStep'
    BY <1>0, <1>2 DEF Authority, anchored, history, InStep
  <2> QED
    BY <2>1, <2>2, <2>3, <2>4, <2>5, <2>6 DEF Typed, TypeOK
<1>3. ASSUME Restored
      PROVE  Typed'
  <2>0. strategy' = Uncorrelated /\ Uncorrelated \in Strategies /\ ~Uncorrelated.correlated
        /\ Uncorrelated.boundary = None /\ Uncorrelated.minute = None
    BY <1>3, Constants DEF Restored, Reset, ClearStrategy, Uncorrelated, Strategies, IntOrNone
  <2>1. RadiodOK'
    BY <1>0, <1>3, Constants DEF Restored, Reset, ClearFlags, ClearAnchor, ClearCursor, ClearStrategy, NewRing, RadiodOK
  <2>2. AnchorOK'
    BY <1>0, <1>3, Constants DEF Restored, Reset, ClearFlags, ClearAnchor, ClearCursor, ClearStrategy, NewRing, AnchorOK, IntOrNone
  <2>3. SlotsOK'
    BY <1>0, <1>3 DEF Restored, Reset, ClearFlags, ClearAnchor, ClearCursor, ClearStrategy, NewRing, SlotsOK, IntOrNone
  <2>4. RingOK'
    BY <1>0, <1>3, Constants DEF Restored, Reset, ClearFlags, ClearAnchor, ClearCursor, ClearStrategy, NewRing, RingOK
  <2>5. InHandOK'
    BY <1>0, <1>3, <2>0 DEF Restored, Reset, ClearFlags, ClearAnchor, ClearCursor, ClearStrategy, NewRing, InHandOK, IngestStates, GuardStates
  <2>6. InStep'
    BY <1>0, <1>3, <2>0 DEF Restored, Reset, ClearFlags, ClearAnchor, ClearCursor, ClearStrategy, NewRing, InStep
  <2> QED
    BY <2>1, <2>2, <2>3, <2>4, <2>5, <2>6 DEF Typed, TypeOK
<1>4. ASSUME GuardFlags
      PROVE  Typed'
  <2>1. RadiodOK'
    BY <1>0, <1>4, Constants DEF GuardFlags, GuardStep, ClearFlags, RadiodOK
  <2>2. AnchorOK'
    BY <1>0, <1>4, Constants DEF GuardFlags, GuardStep, ClearFlags, AnchorOK
  <2>3. SlotsOK'
    BY <1>0, <1>4 DEF GuardFlags, GuardStep, ClearFlags, SlotsOK
  <2>4. RingOK'
    BY <1>0, <1>4, Constants DEF GuardFlags, GuardStep, ClearFlags, RingOK
  <2>5. InHandOK'
    BY <1>0, <1>4 DEF GuardFlags, GuardStep, ClearFlags, InHandOK, IngestStates, GuardStates
  <2>6. InStep'
    BY <1>0, <1>4 DEF GuardFlags, GuardStep, ClearFlags, InStep
  <2> QED
    BY <2>1, <2>2, <2>3, <2>4, <2>5, <2>6 DEF Typed, TypeOK
<1>5. ASSUME GuardAnchor
      PROVE  Typed'
  <2>1. RadiodOK'
    BY <1>0, <1>5, Constants DEF GuardAnchor, GuardStep, ClearAnchor, RadiodOK
  <2>2. AnchorOK'
    BY <1>0, <1>5, Constants DEF GuardAnchor, GuardStep, ClearAnchor, AnchorOK, IntOrNone
  <2>3. SlotsOK'
    BY <1>0, <1>5 DEF GuardAnchor, GuardStep, ClearAnchor, SlotsOK
  <2>4. RingOK'
    BY <1>0, <1>5, Constants DEF GuardAnchor, GuardStep, ClearAnchor, RingOK
  <2>5. InHandOK'
    BY <1>0, <1>5 DEF GuardAnchor, GuardStep, ClearAnchor, InHandOK, IngestStates, GuardStates
  <2>6. InStep'
    BY <1>0, <1>5 DEF GuardAnchor, GuardStep, ClearAnchor, InStep
  <2> QED
    BY <2>1, <2>2, <2>3, <2>4, <2>5, <2>6 DEF Typed, TypeOK
<1>6. ASSUME GuardCursor
      PROVE  Typed'
  <2>1. RadiodOK'
    BY <1>0, <1>6, Constants DEF GuardCursor, GuardStep, ClearCursor, anchored, RadiodOK
  <2>2. AnchorOK'
    BY <1>0, <1>6, Constants DEF GuardCursor, GuardStep, ClearCursor, anchored, AnchorOK
  <2>3. SlotsOK'
    BY <1>0, <1>6 DEF GuardCursor, GuardStep, ClearCursor, anchored, SlotsOK, IntOrNone
  <2>4. RingOK'
    BY <1>0, <1>6, Constants DEF GuardCursor, GuardStep, ClearCursor, anchored, RingOK
  <2>5. InHandOK'
    BY <1>0, <1>6 DEF GuardCursor, GuardStep, ClearCursor, anchored, InHandOK, IngestStates, GuardStates
  <2>6. InStep'
    BY <1>0, <1>6 DEF GuardCursor, GuardStep, ClearCursor, anchored, InStep
  <2> QED
    BY <2>1, <2>2, <2>3, <2>4, <2>5, <2>6 DEF Typed, TypeOK
<1>7. ASSUME GuardStrategy
      PROVE  Typed'
  <2>0. strategy' = Uncorrelated /\ Uncorrelated \in Strategies /\ ~Uncorrelated.correlated
        /\ Uncorrelated.boundary = None /\ Uncorrelated.minute = None
    BY <1>7, Constants DEF GuardStrategy, ClearStrategy, Uncorrelated, Strategies, IntOrNone
  <2>1. RadiodOK'
    BY <1>0, <1>7, Constants DEF GuardStrategy, GuardStep, ClearStrategy, anchored, RadiodOK
  <2>2. AnchorOK'
    BY <1>0, <1>7, Constants DEF GuardStrategy, GuardStep, ClearStrategy, anchored, AnchorOK
  <2>3. SlotsOK'
    BY <1>0, <1>7 DEF GuardStrategy, GuardStep, ClearStrategy, anchored, SlotsOK
  <2>4. RingOK'
    BY <1>0, <1>7, Constants DEF GuardStrategy, GuardStep, ClearStrategy, anchored, RingOK
  <2>5. InHandOK'
    BY <1>0, <1>7, <2>0 DEF GuardStrategy, GuardStep, ClearStrategy, anchored, InHandOK, IngestStates, GuardStates
  <2>6. InStep'
    BY <1>0, <1>7, <2>0 DEF GuardStrategy, GuardStep, ClearStrategy, anchored, InStep
  <2> QED
    BY <2>1, <2>2, <2>3, <2>4, <2>5, <2>6 DEF Typed, TypeOK
<1>8. ASSUME GuardRing
      PROVE  Typed'
  <2>1. RadiodOK'
    BY <1>0, <1>8, Constants DEF GuardRing, GuardStep, NewRing, anchored, RadiodOK
  <2>2. AnchorOK'
    BY <1>0, <1>8, Constants DEF GuardRing, GuardStep, NewRing, anchored, AnchorOK
  <2>3. SlotsOK'
    BY <1>0, <1>8 DEF GuardRing, GuardStep, NewRing, anchored, SlotsOK, IntOrNone
  <2>4. RingOK'
    BY <1>0, <1>8, Constants DEF GuardRing, GuardStep, NewRing, anchored, RingOK
  <2>5. InHandOK'
    BY <1>0, <1>8 DEF GuardRing, GuardStep, NewRing, anchored, InHandOK, IngestStates, GuardStates
  <2>6. InStep'
    BY <1>0, <1>8 DEF GuardRing, GuardStep, NewRing, anchored, InStep
  <2> QED
    BY <2>1, <2>2, <2>3, <2>4, <2>5, <2>6 DEF Typed, TypeOK
<1>9. ASSUME NEW n \in BatchSizes, Deliver(n)
      PROVE  Typed'
  <2>1. RadiodOK'
    BY <1>0, <1>9, Constants DEF Deliver, Goto, anchored, history, RadiodOK
  <2>2. AnchorOK'
    BY <1>0, <1>9, Constants DEF Deliver, Goto, anchored, history, AnchorOK
  <2>3. SlotsOK'
    BY <1>0, <1>9 DEF Deliver, Goto, anchored, history, SlotsOK
  <2>4. RingOK'
    BY <1>0, <1>9, Constants DEF Deliver, Goto, anchored, history, RingOK
  <2>5. InHandOK'
    <3>1. n \in 0 .. MaxSamples /\ next \in Nat
      BY <1>0, <1>9, Constants DEF Deliver, RadiodOK
    <3> QED
      BY <1>0, <1>9, <3>1 DEF Deliver, Goto, InHandOK, IngestStates, GuardStates
  <2>6. InStep'
    BY <1>0, <1>9 DEF Deliver, Goto, anchored, history, InStep
  <2> QED
    BY <2>1, <2>2, <2>3, <2>4, <2>5, <2>6 DEF Typed, TypeOK
<1>10. ASSUME Sync
      PROVE  Typed'
  <2>0. /\ RawStamp \in 0 .. Modulus - 1 /\ SkipToStart \in Int
        /\ Synced \in Strategies /\ Synced.minute \in Int /\ Synced.boundary \in Int
        /\ Synced.lastRaw \in Int
        /\ batch.size \in 0 .. MaxSamples /\ MaxSamples \in Nat /\ None \notin Int
    BY SyncTypes, Constants, <1>0 DEF InHandOK
  <2>10. (RawStamp + SkipToStart) % Modulus \in 0 .. Modulus - 1
    <3>1. RawStamp + SkipToStart \in Int
      BY <2>0, Constants
    <3> QED  BY <3>1, Constants, Division
  <2>11. /\ decision' \in Decisions
         /\ ingest' = "decided" =>
              /\ decision'.wallclock # None /\ decision'.rtp \in 0 .. Modulus - 1
              /\ decision'.skip < batch.size
    <3>1. CASE SkipToStart \in 0 .. batch.size - 1
      <4>1. decision' = [wallclock |-> Synced.minute, rtp |-> (RawStamp + SkipToStart) % Modulus,
                         skip |-> SkipToStart]
        BY <1>10, <3>1, SyncSays
      <4>2. SkipToStart \in 0 .. MaxSamples /\ SkipToStart < batch.size
        BY <2>0, <3>1
      <4>3. Synced.minute \in IntOrNone /\ (RawStamp + SkipToStart) % Modulus \in IntOrNone
        BY <2>0, <2>10, Constants DEF IntOrNone
      <4> QED  BY <2>0, <2>10, <4>1, <4>2, <4>3 DEF Decisions
    <3>2. CASE SkipToStart \notin 0 .. batch.size - 1
      BY <1>0, <1>10, <3>2, SyncSays DEF InHandOK, Goto
    <3> QED  BY <3>1, <3>2
  <2>1. RadiodOK'
    BY <1>0, <1>10, SyncSays DEF Goto, anchored, history, RadiodOK
  <2>2. AnchorOK'
    BY <1>0, <1>10, SyncSays DEF Goto, anchored, history, AnchorOK
  <2>3. SlotsOK'
    BY <1>0, <1>10, SyncSays DEF Goto, anchored, history, SlotsOK
  <2>4. RingOK'
    BY <1>0, <1>10, SyncSays DEF Goto, anchored, history, RingOK
  <2>5. InHandOK'
    BY <1>0, <1>10, <2>0, <2>11, SyncSays DEF Goto, InHandOK, IngestStates, GuardStates
  <2>6. InStep'
    <3>1. ingest' \in {"decided", "idle"} /\ strategy' = Synced
      BY <1>10, SyncSays DEF Goto
    <3>2. UNCHANGED <<firstRtp, firstWallclock, next, batch>> /\ ingest = "sync"
      BY <1>10, SyncSays DEF anchored
    <3>3. Synced.boundary # None /\ Synced.minute # None /\ Synced.lastRaw # None
      BY <2>0
    <3> QED
      BY <1>0, <2>11, <3>1, <3>2, <3>3 DEF InStep
  <2> QED
    BY <2>1, <2>2, <2>3, <2>4, <2>5, <2>6 DEF Typed, TypeOK
<1>11. ASSUME SetSynced
      PROVE  Typed'
  <2>1. RadiodOK'
    BY <1>0, <1>11, Constants DEF SetSynced, Goto, history, RadiodOK
  <2>2. AnchorOK'
    BY <1>0, <1>11, Constants DEF SetSynced, Goto, history, AnchorOK
  <2>3. SlotsOK'
    BY <1>0, <1>11 DEF SetSynced, Goto, history, SlotsOK
  <2>4. RingOK'
    BY <1>0, <1>11, Constants DEF SetSynced, Goto, history, RingOK
  <2>5. InHandOK'
    BY <1>0, <1>11 DEF SetSynced, Goto, history, InHandOK, IngestStates, GuardStates
  <2>6. InStep'
    BY <1>0, <1>11 DEF SetSynced, Goto, history, InStep
  <2> QED
    BY <2>1, <2>2, <2>3, <2>4, <2>5, <2>6 DEF Typed, TypeOK
<1>12. ASSUME SetAnchor
      PROVE  Typed'
  <2>0. /\ ingest = "marked" /\ decision \in Decisions
        /\ decision.wallclock \in IntOrNone /\ decision.wallclock # None
        /\ decision.rtp \in 0 .. Modulus - 1 /\ decision.rtp # None
        /\ decision.skip \in Nat /\ decision.skip < batch.size
        /\ batch.first \in Nat /\ batch.size \in 0 .. MaxSamples /\ MaxSamples \in Nat
    BY <1>0, <1>12, Constants DEF SetAnchor, InHandOK, InStep, Decisions
  <2>10. batch' = [first |-> batch.first + decision.skip, size |-> batch.size - decision.skip]
    BY <1>12 DEF SetAnchor
  <2>11. strategy' \in Strategies /\ (strategy'.correlated =>
           strategy'.boundary # None /\ strategy'.minute # None /\ strategy'.lastRaw # None)
         /\ (strategy'.boundary = None <=> strategy'.minute = None)
    <3>1. CASE strategy.boundary = None
      BY <1>0, <1>12, <3>1 DEF SetAnchor, InHandOK, InStep
    <3>2. CASE strategy.boundary # None
      <4>1. strategy' = [strategy EXCEPT !.boundary = strategy.boundary + SamplesPerMinute,
                                         !.minute = strategy.minute + SamplesPerMinute]
        BY <1>12, <3>2 DEF SetAnchor
      <4>2. strategy.boundary + SamplesPerMinute \in IntOrNone
            /\ strategy.boundary + SamplesPerMinute # None
        BY <1>0, <3>2, Constants DEF InHandOK, Strategies, IntOrNone
      <4>3. strategy.minute # None /\ strategy.minute + SamplesPerMinute \in IntOrNone
                                      /\ strategy.minute + SamplesPerMinute # None
        BY <1>0, <3>2, Constants DEF InHandOK, InStep, Strategies, IntOrNone
      <4> QED
        BY <1>0, <4>1, <4>2, <4>3 DEF InHandOK, InStep, Strategies
    <3> QED  BY <3>1, <3>2
  <2>1. RadiodOK'
    BY <1>0, <1>12, Constants DEF SetAnchor, Goto, history, RadiodOK
  <2>2. AnchorOK'
    BY <1>0, <1>12, <2>0 DEF SetAnchor, AnchorOK
  <2>3. SlotsOK'
    BY <1>0, <1>12 DEF SetAnchor, Goto, history, SlotsOK
  <2>4. RingOK'
    BY <1>0, <1>12, Constants DEF SetAnchor, Goto, history, RingOK
  <2>5. InHandOK'
    <3>1. batch' \in [first : Nat, size : 0 .. MaxSamples]
      BY <2>0, <2>10
    <3>2. decision' \in Decisions
      BY <1>12, <2>0, Constants DEF SetAnchor, NoDecision, Decisions, IntOrNone
    <3> QED
      BY <1>0, <1>12, <2>11, <3>1, <3>2 DEF SetAnchor, Goto, InHandOK, IngestStates, GuardStates
  <2>6. InStep'
    <3>1. ingest' = "write" /\ firstWallclock' # None /\ firstRtp' # None /\ next' = next
      BY <1>12, <2>0 DEF SetAnchor, Goto
    <3>2. next' = batch'.first + batch'.size
      BY <1>0, <2>0, <2>10, <3>1 DEF InStep
    <3> QED
      BY <2>11, <3>1, <3>2 DEF InStep
  <2> QED
    BY <2>1, <2>2, <2>3, <2>4, <2>5, <2>6 DEF Typed, TypeOK
<1>13. ASSUME Write
      PROVE  Typed'
  <2>0. PICK n \in Nat :
          /\ n <= batch.size /\ minuteSamples + n <= SamplesPerMinute
          /\ n = batch.size \/ minuteSamples + n = SamplesPerMinute
          /\ ingest = "write"
          /\ ring' = ring \o Numbers(batch.first, n)
          /\ minuteSamples' = minuteSamples + n
          /\ batch' = [first |-> batch.first + n, size |-> batch.size - n]
          /\ Goto(IF minuteSamples + n = SamplesPerMinute THEN "boundary"
                  ELSE IF batch.size > n THEN "write" ELSE "tail")
    BY <1>13, WriteSays
  <2>10. /\ batch.first \in Nat /\ batch.size \in 0 .. MaxSamples /\ MaxSamples \in Nat
         /\ minuteSamples \in 0 .. SamplesPerMinute /\ SamplesPerMinute \in Nat
    BY <1>0, Constants DEF InHandOK, RingOK
  <2>1. RadiodOK'
    BY <1>0, <1>13, Constants DEF Write, Goto, anchored, history, RadiodOK
  <2>2. AnchorOK'
    BY <1>0, <1>13, Constants DEF Write, Goto, anchored, history, AnchorOK
  <2>3. SlotsOK'
    BY <1>0, <1>13 DEF Write, Goto, anchored, history, SlotsOK
  <2>4. RingOK'
    <3>1. Numbers(batch.first, n) \in Seq(Nat)
      BY <2>10, NumbersWritten
    <3>2. ring' \in Seq(Nat)
      BY <1>0, <2>0, <3>1 DEF RingOK
    <3> QED
      BY <2>0, <2>10, <3>2 DEF RingOK
  <2>5. InHandOK'
    <3>1. batch' \in [first : Nat, size : 0 .. MaxSamples]
      BY <2>0, <2>10
    <3>2. ingest' \in IngestStates /\ guard' = guard /\ torn' \in BOOLEAN
      BY <1>0, <2>0 DEF Goto, IngestStates, InHandOK
    <3>3. UNCHANGED <<strategy, decision, harvest, slid>>
      BY <1>13 DEF Write
    <3> QED
      BY <1>0, <3>1, <3>2, <3>3 DEF InHandOK
  <2>6. InStep'
    <3>1. next' = batch'.first + batch'.size
      BY <1>0, <1>13, <2>0, <2>10 DEF InStep, Write
    <3>2. ingest' = "tail" => batch'.size = 0
      BY <2>0, <2>10 DEF Goto
    <3>3. ingest' \in {"write", "boundary", "tail"} /\ UNCHANGED <<firstRtp, firstWallclock, strategy>>
      BY <1>13, <2>0 DEF Goto, Write, anchored
    <3> QED
      BY <1>0, <3>1, <3>2, <3>3 DEF InStep
  <2> QED
    BY <2>1, <2>2, <2>3, <2>4, <2>5, <2>6 DEF Typed, TypeOK
<1>14. ASSUME Boundary
      PROVE  Typed'
  <2>0. \A n \in 0 .. DivAfter - 1 :
          StrikesAfter(n) \in 0 .. DivAfter - 1 /\ StrikesAfter(n + 1) \in 0 .. DivAfter - 1
    BY Constants DEF StrikesAfter
  <2>10. StrikesAfter(0) \in 0 .. DivAfter - 1
    BY Constants DEF StrikesAfter
  <2>1. RadiodOK'
    BY <1>0, <1>14, Constants DEF Boundary, Goto, history, RadiodOK
  <2>2. AnchorOK'
    <3>1. divStrikes' \in 0 .. DivAfter - 1
      <4>1. divStrikes' \in {StrikesAfter(divStrikes + 1), StrikesAfter(0), StrikesAfter(divStrikes)}
        BY <1>14 DEF Boundary
      <4> QED
        BY <1>0, <2>0, <2>10, <4>1 DEF AnchorOK
    <3>2. anchorEpoch' \in {epoch, anchorEpoch} /\ minuteCount' = minuteCount + 1
      BY <1>14 DEF Boundary
    <3>3. resyncRequested' \in BOOLEAN
      BY <1>0, <1>14 DEF Boundary, AnchorOK
    <3>4. UNCHANGED <<synced, firstWallclock, firstRtp, lastHarvest>>
      BY <1>14 DEF Boundary
    <3> QED
      BY <1>0, <3>1, <3>2, <3>3, <3>4 DEF AnchorOK, RadiodOK
  <2>3. SlotsOK'
    BY <1>0, <1>14 DEF Boundary, Goto, history, SlotsOK
  <2>4. RingOK'
    BY <1>0, <1>14, Constants DEF Boundary, Goto, history, RingOK
  <2>5. InHandOK'
    <3>1. harvest' \in Harvests
      BY <1>0, <1>14 DEF Boundary, InHandOK, Harvests
    <3> QED
      BY <1>0, <1>14, <3>1 DEF Boundary, Goto, InHandOK, IngestStates, GuardStates
  <2>6. InStep'
    BY <1>0, <1>14 DEF Boundary, Goto, history, InStep
  <2> QED
    BY <2>1, <2>2, <2>3, <2>4, <2>5, <2>6 DEF Typed, TypeOK
<1>15. ASSUME BoundaryRaises
      PROVE  Typed'
  <2>1. RadiodOK'
    BY <1>0, <1>15, Constants DEF BoundaryRaises, Goto, history, RadiodOK
  <2>2. AnchorOK'
    BY <1>0, <1>15, Constants DEF BoundaryRaises, Goto, history, AnchorOK
  <2>3. SlotsOK'
    BY <1>0, <1>15 DEF BoundaryRaises, Goto, history, SlotsOK
  <2>4. RingOK'
    BY <1>0, <1>15, Constants DEF BoundaryRaises, Goto, history, RingOK
  <2>5. InHandOK'
    BY <1>0, <1>15 DEF BoundaryRaises, Goto, history, InHandOK, IngestStates, GuardStates
  <2>6. InStep'
    BY <1>0, <1>15 DEF BoundaryRaises, Goto, history, InStep
  <2> QED
    BY <2>1, <2>2, <2>3, <2>4, <2>5, <2>6 DEF Typed, TypeOK
<1>16. ASSUME Resync
      PROVE  Typed'
  <2>0. strategy' = Uncorrelated /\ Uncorrelated \in Strategies /\ ~Uncorrelated.correlated
        /\ Uncorrelated.boundary = None /\ Uncorrelated.minute = None
    BY <1>16, Constants DEF Resync, Reset, ClearStrategy, Uncorrelated, Strategies, IntOrNone
  <2>1. RadiodOK'
    BY <1>0, <1>16, Constants DEF Resync, Goto, Reset, ClearFlags, ClearAnchor, ClearCursor, ClearStrategy, NewRing, RadiodOK
  <2>2. AnchorOK'
    BY <1>0, <1>16, Constants DEF Resync, Goto, Reset, ClearFlags, ClearAnchor, ClearCursor, ClearStrategy, NewRing, AnchorOK, IntOrNone
  <2>3. SlotsOK'
    BY <1>0, <1>16 DEF Resync, Goto, Reset, ClearFlags, ClearAnchor, ClearCursor, ClearStrategy, NewRing, SlotsOK, IntOrNone
  <2>4. RingOK'
    BY <1>0, <1>16, Constants DEF Resync, Goto, Reset, ClearFlags, ClearAnchor, ClearCursor, ClearStrategy, NewRing, RingOK
  <2>5. InHandOK'
    BY <1>0, <1>16, <2>0 DEF Resync, Goto, Reset, ClearFlags, ClearAnchor, ClearCursor, ClearStrategy, NewRing, InHandOK, IngestStates, GuardStates
  <2>6. InStep'
    BY <1>0, <1>16, <2>0 DEF Resync, Goto, Reset, ClearFlags, ClearAnchor, ClearCursor, ClearStrategy, NewRing, InStep
  <2> QED
    BY <2>1, <2>2, <2>3, <2>4, <2>5, <2>6 DEF Typed, TypeOK
<1>17. ASSUME Resume
      PROVE  Typed'
  <2>1. RadiodOK'
    BY <1>0, <1>17, Constants DEF Resume, Goto, anchored, history, RadiodOK
  <2>2. AnchorOK'
    BY <1>0, <1>17, Constants DEF Resume, Goto, anchored, history, AnchorOK
  <2>3. SlotsOK'
    BY <1>0, <1>17 DEF Resume, Goto, anchored, history, SlotsOK
  <2>4. RingOK'
    BY <1>0, <1>17, Constants DEF Resume, Goto, anchored, history, RingOK
  <2>5. InHandOK'
    BY <1>0, <1>17 DEF Resume, Goto, anchored, history, InHandOK, IngestStates, GuardStates
  <2>6. InStep'
    <3>1. batch.size \in Nat
      BY <1>0 DEF InHandOK
    <3> QED
      BY <1>0, <1>17, <3>1 DEF Resume, Goto, anchored, InStep
  <2> QED
    BY <2>1, <2>2, <2>3, <2>4, <2>5, <2>6 DEF Typed, TypeOK
<1>18. ASSUME WritePathHarvest
      PROVE  Typed'
  <2>1. RadiodOK'
    BY <1>0, <1>18, Constants DEF WritePathHarvest, HarvestDue, Goto, history, RadiodOK
  <2>2. AnchorOK'
    BY <1>0, <1>18, Constants DEF WritePathHarvest, HarvestDue, Goto, history, AnchorOK
  <2>3. SlotsOK'
    BY <1>0, <1>18 DEF WritePathHarvest, HarvestDue, Goto, history, SlotsOK
  <2>4. RingOK'
    BY <1>0, <1>18, Constants DEF WritePathHarvest, HarvestDue, Goto, history, RingOK
  <2>5. InHandOK'
    <3>1. harvest' \in Harvests
      BY <1>0, <1>18 DEF WritePathHarvest, InHandOK, Harvests
    <3> QED
      BY <1>0, <1>18, <3>1 DEF WritePathHarvest, Goto, InHandOK, IngestStates, GuardStates
  <2>6. InStep'
    BY <1>0, <1>18 DEF WritePathHarvest, HarvestDue, Goto, history, InStep
  <2> QED
    BY <2>1, <2>2, <2>3, <2>4, <2>5, <2>6 DEF Typed, TypeOK
<1>19. ASSUME HarvestRead
      PROVE  Typed'
  <2>1. RadiodOK'
    BY <1>0, <1>19, Constants DEF HarvestRead, Goto, anchored, history, RadiodOK
  <2>2. AnchorOK'
    BY <1>0, <1>19, Constants DEF HarvestRead, Goto, anchored, history, AnchorOK
  <2>3. SlotsOK'
    BY <1>0, <1>19 DEF HarvestRead, Goto, anchored, history, SlotsOK
  <2>4. RingOK'
    BY <1>0, <1>19, Constants DEF HarvestRead, Goto, anchored, history, RingOK
  <2>5. InHandOK'
    <3>1. CASE AnchorLost
      BY <1>0, <1>19, <3>1 DEF HarvestRead, Goto, InHandOK, IngestStates, GuardStates, Harvests
    <3>2. CASE ~AnchorLost
      <4>1. firstRtp \in Int /\ firstWallclock \in Int
        BY <1>0, <3>2, Constants DEF AnchorLost, InStep, AnchorOK, IntOrNone
      <4>2. AnchorNow \in Int
        BY <1>0, <4>1, UtcTypes DEF AnchorNow
      <4>3. mapping + offset \in Int /\ Len(ring) \in Nat
        BY <1>0, Constants DEF RadiodOK, RingOK
      <4>4. harvest' \in Harvests
        BY <1>0, <1>19, <3>2, <4>2, <4>3 DEF HarvestRead, Harvests, InHandOK
      <4> QED
        BY <1>0, <1>19, <3>2, <4>4 DEF HarvestRead, Goto, InHandOK, IngestStates, GuardStates
    <3> QED  BY <3>1, <3>2
  <2>6. InStep'
    <3>1. ingest' = "tail" \/ (ingest' \in {"harvest", "emit"} /\ harvest'.then = "idle") =>
            ingest = "harvest" /\ harvest.then = "idle"
      BY <1>0, <1>19 DEF HarvestRead, Goto, InHandOK, Harvests
    <3>2. /\ ingest = "harvest" /\ ingest' \notin {"decided", "marked", "sync"}
          /\ UNCHANGED <<firstRtp, firstWallclock, strategy, next, batch>>
      BY <1>0, <1>19 DEF HarvestRead, Goto, anchored, InHandOK, Harvests
    <3> QED
      BY <1>0, <3>1, <3>2 DEF InStep
  <2> QED
    BY <2>1, <2>2, <2>3, <2>4, <2>5, <2>6 DEF Typed, TypeOK
<1>20. ASSUME NEW p \in Periods, Emit(p)
      PROVE  Typed'
  <2>1. RadiodOK'
    BY <1>0, <1>20, Constants DEF Emit, Goto, Left, anchored, RadiodOK
  <2>2. AnchorOK'
    BY <1>0, <1>20, Constants DEF Emit, Goto, Left, anchored, AnchorOK
  <2>3. SlotsOK'
    <3>1. FirstSlot(p) \in Int /\ Ready(p) \in Nat /\ p \in Nat
      BY <1>0, <1>20, WalkTypes, Constants
    <3>2. LastSlot(p) \in IntOrNone /\ CursorAfter(p) \in IntOrNone
      BY <3>1 DEF LastSlot, CursorAfter, IntOrNone
    <3>3. Latest(p, last) \in IntOrNone /\ Latest(p, since) \in IntOrNone
      BY <1>0, <3>2 DEF Latest, SlotsOK
    <3> QED
      BY <1>0, <1>20, <3>2, <3>3 DEF Emit, SlotsOK
  <2>4. RingOK'
    BY <1>0, <1>20, Constants DEF Emit, Goto, Left, anchored, RingOK
  <2>5. InHandOK'
    <3>1. harvest' \in Harvests
      BY <1>0, <1>20 DEF Emit, Left, InHandOK, Harvests
    <3>2. ingest' \in IngestStates /\ guard' = guard /\ torn' \in BOOLEAN
      BY <1>0, <1>20 DEF Emit, Goto, IngestStates, InHandOK, Harvests
    <3> QED
      BY <1>0, <1>20, <3>1, <3>2 DEF Emit, InHandOK
  <2>6. InStep'
    <3>1. ingest' = "emit" \/ ingest' = harvest.then
      BY <1>20 DEF Emit, Goto
    <3>2. harvest'.then = harvest.then /\ harvest.then \in {"idle", "resync"} /\ ingest = "emit"
      BY <1>0, <1>20 DEF Emit, InHandOK, Harvests
    <3>3. UNCHANGED <<firstRtp, firstWallclock, strategy, next, batch>>
      BY <1>20 DEF Emit, anchored
    <3> QED
      BY <1>0, <3>1, <3>2, <3>3 DEF InStep
  <2> QED
    BY <2>1, <2>2, <2>3, <2>4, <2>5, <2>6 DEF Typed, TypeOK
<1>21. ASSUME NEW p \in Periods, EmitRaises(p)
      PROVE  Typed'
  <2>1. RadiodOK'
    BY <1>0, <1>21, Constants DEF EmitRaises, Goto, anchored, history, RadiodOK
  <2>2. AnchorOK'
    BY <1>0, <1>21, Constants DEF EmitRaises, Goto, anchored, history, AnchorOK
  <2>3. SlotsOK'
    BY <1>0, <1>21 DEF EmitRaises, Goto, anchored, history, SlotsOK
  <2>4. RingOK'
    BY <1>0, <1>21, Constants DEF EmitRaises, Goto, anchored, history, RingOK
  <2>5. InHandOK'
    BY <1>0, <1>21 DEF EmitRaises, Goto, anchored, history, InHandOK, IngestStates, GuardStates
  <2>6. InStep'
    BY <1>0, <1>21 DEF EmitRaises, Goto, anchored, history, InStep
  <2> QED
    BY <2>1, <2>2, <2>3, <2>4, <2>5, <2>6 DEF Typed, TypeOK
<1>22. CASE UNCHANGED vars
  BY <1>0, <1>22 DEF vars, radiod, anchored, history, Typed, TypeOK, RadiodOK, AnchorOK, SlotsOK, RingOK, InHandOK, InStep
<1> QED
  BY <1>1, <1>2, <1>3, <1>4, <1>5, <1>6, <1>7, <1>8, <1>9, <1>10, <1>11, <1>12, <1>13, <1>14, <1>15, <1>16, <1>17, <1>18, <1>19, <1>20, <1>21, <1>22 DEF Next, Ingest, Guard
-----------------------------------------------------------------------------
(* No reset has overlapped the ingest thread and none is under way.        *)
Quiet    == ~torn /\ guard = "idle"
Anchored == synced /\ ingest # "marked"

Started == {"idle", "write", "boundary", "resync", "tail", "harvest", "emit"}
NoSlot  == [p \in Periods |-> None]

(* A reset that overlaps nothing clears the fields in its order.           *)
ResetInOrder ==
  ~torn =>
    /\ guard = "idle" \/ ingest = "idle"
    /\ guard # "idle" => ~synced /\ lastHarvest = 0
    /\ guard \in {"cursor", "strategy", "ring"} => firstWallclock = None
    /\ guard \in {"strategy", "ring"} => slotNext = NoSlot
    /\ guard = "ring" => strategy = Uncorrelated

(* Before there is an anchor there is no sample and no slot.               *)
Fresh ==
  Quiet /\ ~Anchored =>
    /\ ingest \in {"idle", "sync", "decided", "marked"}
    /\ ingest = "marked" => synced
    /\ ring = <<>> /\ minuteSamples = 0 /\ lastHarvest = 0
    /\ slotNext = NoSlot /\ since = NoSlot

(* With one, the thread is past the synchronisation.                       *)
Settled == Quiet /\ Anchored => ingest \in Started /\ firstWallclock # None

Control == ResetInOrder /\ Fresh /\ Settled

(* Each thread is where it should be.                                      *)
LEMMA ControlKept ==
  ASSUME Typed, Control, [Next]_vars
  PROVE  Control'
<1>0. ResetInOrder /\ Fresh /\ Settled
  BY DEF Control
<1>1. ASSUME NEW d \in Slides, NEW seen \in BOOLEAN, Slide(d, seen)
      PROVE  Control'
  <2>1. ResetInOrder'
    BY <1>0, <1>1 DEF Slide, anchored, history, ResetInOrder, Typed, InStep, Quiet, Anchored, Started, NoSlot
  <2>2. Fresh'
    BY <1>0, <1>1 DEF Slide, anchored, history, Fresh, Typed, InStep, Quiet, Anchored, Started, NoSlot
  <2>3. Settled'
    BY <1>0, <1>1 DEF Slide, anchored, history, Settled, Typed, InStep, Quiet, Anchored, Started, NoSlot
  <2> QED
    BY <2>1, <2>2, <2>3 DEF Control
<1>2. ASSUME NEW o \in Offsets, Authority(o)
      PROVE  Control'
  <2>1. ResetInOrder'
    BY <1>0, <1>2 DEF Authority, anchored, history, ResetInOrder, Typed, InStep, Quiet, Anchored, Started, NoSlot
  <2>2. Fresh'
    BY <1>0, <1>2 DEF Authority, anchored, history, Fresh, Typed, InStep, Quiet, Anchored, Started, NoSlot
  <2>3. Settled'
    BY <1>0, <1>2 DEF Authority, anchored, history, Settled, Typed, InStep, Quiet, Anchored, Started, NoSlot
  <2> QED
    BY <2>1, <2>2, <2>3 DEF Control
<1>3. ASSUME Restored
      PROVE  Control'
  <2>1. ResetInOrder'
    BY <1>0, <1>3 DEF Restored, Reset, ClearFlags, ClearAnchor, ClearCursor, ClearStrategy, NewRing, ResetInOrder, Typed, InStep, Quiet, Anchored, Started, NoSlot
  <2>2. Fresh'
    BY <1>0, <1>3 DEF Restored, Reset, ClearFlags, ClearAnchor, ClearCursor, ClearStrategy, NewRing, Fresh, Typed, InStep, Quiet, Anchored, Started, NoSlot
  <2>3. Settled'
    BY <1>0, <1>3 DEF Restored, Reset, ClearFlags, ClearAnchor, ClearCursor, ClearStrategy, NewRing, Settled, Typed, InStep, Quiet, Anchored, Started, NoSlot
  <2> QED
    BY <2>1, <2>2, <2>3 DEF Control
<1>4. ASSUME GuardFlags
      PROVE  Control'
  <2>1. ResetInOrder'
    BY <1>0, <1>4 DEF GuardFlags, GuardStep, ClearFlags, ResetInOrder, Typed, InStep, Quiet, Anchored, Started, NoSlot
  <2>2. Fresh'
    BY <1>0, <1>4 DEF GuardFlags, GuardStep, ClearFlags, Fresh, Typed, InStep, Quiet, Anchored, Started, NoSlot
  <2>3. Settled'
    BY <1>0, <1>4 DEF GuardFlags, GuardStep, ClearFlags, Settled, Typed, InStep, Quiet, Anchored, Started, NoSlot
  <2> QED
    BY <2>1, <2>2, <2>3 DEF Control
<1>5. ASSUME GuardAnchor
      PROVE  Control'
  <2>1. ResetInOrder'
    BY <1>0, <1>5 DEF GuardAnchor, GuardStep, ClearAnchor, ResetInOrder, Typed, InStep, Quiet, Anchored, Started, NoSlot
  <2>2. Fresh'
    BY <1>0, <1>5 DEF GuardAnchor, GuardStep, ClearAnchor, Fresh, Typed, InStep, Quiet, Anchored, Started, NoSlot
  <2>3. Settled'
    BY <1>0, <1>5 DEF GuardAnchor, GuardStep, ClearAnchor, Settled, Typed, InStep, Quiet, Anchored, Started, NoSlot
  <2> QED
    BY <2>1, <2>2, <2>3 DEF Control
<1>6. ASSUME GuardCursor
      PROVE  Control'
  <2>1. ResetInOrder'
    BY <1>0, <1>6 DEF GuardCursor, GuardStep, ClearCursor, anchored, ResetInOrder, Typed, InStep, Quiet, Anchored, Started, NoSlot
  <2>2. Fresh'
    BY <1>0, <1>6 DEF GuardCursor, GuardStep, ClearCursor, anchored, Fresh, Typed, InStep, Quiet, Anchored, Started, NoSlot
  <2>3. Settled'
    BY <1>0, <1>6 DEF GuardCursor, GuardStep, ClearCursor, anchored, Settled, Typed, InStep, Quiet, Anchored, Started, NoSlot
  <2> QED
    BY <2>1, <2>2, <2>3 DEF Control
<1>7. ASSUME GuardStrategy
      PROVE  Control'
  <2>1. ResetInOrder'
    BY <1>0, <1>7 DEF GuardStrategy, GuardStep, ClearStrategy, anchored, ResetInOrder, Typed, InStep, Quiet, Anchored, Started, NoSlot
  <2>2. Fresh'
    BY <1>0, <1>7 DEF GuardStrategy, GuardStep, ClearStrategy, anchored, Fresh, Typed, InStep, Quiet, Anchored, Started, NoSlot
  <2>3. Settled'
    BY <1>0, <1>7 DEF GuardStrategy, GuardStep, ClearStrategy, anchored, Settled, Typed, InStep, Quiet, Anchored, Started, NoSlot
  <2> QED
    BY <2>1, <2>2, <2>3 DEF Control
<1>8. ASSUME GuardRing
      PROVE  Control'
  <2>1. ResetInOrder'
    BY <1>0, <1>8 DEF GuardRing, GuardStep, NewRing, anchored, ResetInOrder, Typed, InStep, Quiet, Anchored, Started, NoSlot
  <2>2. Fresh'
    BY <1>0, <1>8 DEF GuardRing, GuardStep, NewRing, anchored, Fresh, Typed, InStep, Quiet, Anchored, Started, NoSlot, ResetInOrder
  <2>3. Settled'
    BY <1>0, <1>8 DEF GuardRing, GuardStep, NewRing, anchored, Settled, Typed, InStep, Quiet, Anchored, Started, NoSlot, ResetInOrder
  <2> QED
    BY <2>1, <2>2, <2>3 DEF Control
<1>9. ASSUME NEW n \in BatchSizes, Deliver(n)
      PROVE  Control'
  <2>1. ResetInOrder'
    BY <1>0, <1>9 DEF Deliver, Goto, anchored, history, ResetInOrder, Typed, InStep, Quiet, Anchored, Started, NoSlot
  <2>2. Fresh'
    BY <1>0, <1>9 DEF Deliver, Goto, anchored, history, Fresh, Typed, InStep, Quiet, Anchored, Started, NoSlot
  <2>3. Settled'
    BY <1>0, <1>9 DEF Deliver, Goto, anchored, history, Settled, Typed, InStep, Quiet, Anchored, Started, NoSlot
  <2> QED
    BY <2>1, <2>2, <2>3 DEF Control
<1>10. ASSUME Sync
      PROVE  Control'
  <2>1. ResetInOrder'
    BY <1>0, <1>10, SyncSays DEF Goto, anchored, history, ResetInOrder, Typed, InStep, Quiet, Anchored, Started, NoSlot
  <2>2. Fresh'
    BY <1>0, <1>10, SyncSays DEF Goto, anchored, history, Fresh, Typed, InStep, Quiet, Anchored, Started, NoSlot
  <2>3. Settled'
    BY <1>0, <1>10, SyncSays DEF Goto, anchored, history, Settled, Typed, InStep, Quiet, Anchored, Started, NoSlot
  <2> QED
    BY <2>1, <2>2, <2>3 DEF Control
<1>11. ASSUME SetSynced
      PROVE  Control'
  <2>1. ResetInOrder'
    BY <1>0, <1>11 DEF SetSynced, Goto, history, ResetInOrder, Typed, InStep, Quiet, Anchored, Started, NoSlot
  <2>2. Fresh'
    BY <1>0, <1>11 DEF SetSynced, Goto, history, Fresh, Typed, InStep, Quiet, Anchored, Started, NoSlot, Settled
  <2>3. Settled'
    BY <1>0, <1>11 DEF SetSynced, Goto, history, Settled, Typed, InStep, Quiet, Anchored, Started, NoSlot
  <2> QED
    BY <2>1, <2>2, <2>3 DEF Control
<1>12. ASSUME SetAnchor
      PROVE  Control'
  <2>1. ResetInOrder'
    BY <1>0, <1>12 DEF SetAnchor, Goto, history, ResetInOrder, Typed, InStep, Quiet, Anchored, Started, NoSlot
  <2>2. Fresh'
    BY <1>0, <1>12 DEF SetAnchor, Goto, history, Fresh, Typed, InStep, Quiet, Anchored, Started, NoSlot
  <2>3. Settled'
    BY <1>0, <1>12 DEF SetAnchor, Goto, history, Settled, Typed, InStep, Quiet, Anchored, Started, NoSlot
  <2> QED
    BY <2>1, <2>2, <2>3 DEF Control
<1>13. ASSUME Write
      PROVE  Control'
  <2>1. ResetInOrder'
    BY <1>0, <1>13 DEF Write, Goto, anchored, history, ResetInOrder, Typed, InStep, Quiet, Anchored, Started, NoSlot
  <2>2. Fresh'
    BY <1>0, <1>13 DEF Write, Goto, anchored, history, Fresh, Typed, InStep, Quiet, Anchored, Started, NoSlot
  <2>3. Settled'
    BY <1>0, <1>13 DEF Write, Goto, anchored, history, Settled, Typed, InStep, Quiet, Anchored, Started, NoSlot
  <2> QED
    BY <2>1, <2>2, <2>3 DEF Control
<1>14. ASSUME Boundary
      PROVE  Control'
  <2>1. ResetInOrder'
    BY <1>0, <1>14 DEF Boundary, Goto, history, ResetInOrder, Typed, InStep, Quiet, Anchored, Started, NoSlot
  <2>2. Fresh'
    BY <1>0, <1>14 DEF Boundary, Goto, history, Fresh, Typed, InStep, Quiet, Anchored, Started, NoSlot
  <2>3. Settled'
    BY <1>0, <1>14 DEF Boundary, Goto, history, Settled, Typed, InStep, Quiet, Anchored, Started, NoSlot
  <2> QED
    BY <2>1, <2>2, <2>3 DEF Control
<1>15. ASSUME BoundaryRaises
      PROVE  Control'
  <2>1. ResetInOrder'
    BY <1>0, <1>15 DEF BoundaryRaises, Goto, history, ResetInOrder, Typed, InStep, Quiet, Anchored, Started, NoSlot
  <2>2. Fresh'
    BY <1>0, <1>15 DEF BoundaryRaises, Goto, history, Fresh, Typed, InStep, Quiet, Anchored, Started, NoSlot
  <2>3. Settled'
    BY <1>0, <1>15 DEF BoundaryRaises, Goto, history, Settled, Typed, InStep, Quiet, Anchored, Started, NoSlot
  <2> QED
    BY <2>1, <2>2, <2>3 DEF Control
<1>16. ASSUME Resync
      PROVE  Control'
  <2>1. ResetInOrder'
    BY <1>0, <1>16 DEF Resync, Goto, Reset, ClearFlags, ClearAnchor, ClearCursor, ClearStrategy, NewRing, ResetInOrder, Typed, InStep, Quiet, Anchored, Started, NoSlot
  <2>2. Fresh'
    BY <1>0, <1>16 DEF Resync, Goto, Reset, ClearFlags, ClearAnchor, ClearCursor, ClearStrategy, NewRing, Fresh, Typed, InStep, Quiet, Anchored, Started, NoSlot
  <2>3. Settled'
    BY <1>0, <1>16 DEF Resync, Goto, Reset, ClearFlags, ClearAnchor, ClearCursor, ClearStrategy, NewRing, Settled, Typed, InStep, Quiet, Anchored, Started, NoSlot
  <2> QED
    BY <2>1, <2>2, <2>3 DEF Control
<1>17. ASSUME Resume
      PROVE  Control'
  <2>1. ResetInOrder'
    BY <1>0, <1>17 DEF Resume, Goto, anchored, history, ResetInOrder, Typed, InStep, Quiet, Anchored, Started, NoSlot
  <2>2. Fresh'
    BY <1>0, <1>17 DEF Resume, Goto, anchored, history, Fresh, Typed, InStep, Quiet, Anchored, Started, NoSlot
  <2>3. Settled'
    BY <1>0, <1>17 DEF Resume, Goto, anchored, history, Settled, Typed, InStep, Quiet, Anchored, Started, NoSlot
  <2> QED
    BY <2>1, <2>2, <2>3 DEF Control
<1>18. ASSUME WritePathHarvest
      PROVE  Control'
  <2>1. ResetInOrder'
    BY <1>0, <1>18 DEF WritePathHarvest, HarvestDue, Goto, history, ResetInOrder, Typed, InStep, Quiet, Anchored, Started, NoSlot
  <2>2. Fresh'
    BY <1>0, <1>18 DEF WritePathHarvest, HarvestDue, Goto, history, Fresh, Typed, InStep, Quiet, Anchored, Started, NoSlot
  <2>3. Settled'
    BY <1>0, <1>18 DEF WritePathHarvest, HarvestDue, Goto, history, Settled, Typed, InStep, Quiet, Anchored, Started, NoSlot
  <2> QED
    BY <2>1, <2>2, <2>3 DEF Control
<1>19. ASSUME HarvestRead
      PROVE  Control'
  <2>1. ResetInOrder'
    BY <1>0, <1>19 DEF HarvestRead, Goto, anchored, history, ResetInOrder, Typed, InStep, Quiet, Anchored, Started, NoSlot
  <2>2. Fresh'
    BY <1>0, <1>19 DEF HarvestRead, Goto, anchored, history, Fresh, Typed, InStep, Quiet, Anchored, Started, NoSlot, TypeOK, InHandOK, Harvests, Settled
  <2>3. Settled'
    BY <1>0, <1>19 DEF HarvestRead, Goto, anchored, history, Settled, Typed, InStep, Quiet, Anchored, Started, NoSlot, TypeOK, InHandOK, Harvests, Fresh
  <2> QED
    BY <2>1, <2>2, <2>3 DEF Control
<1>20. ASSUME NEW p \in Periods, Emit(p)
      PROVE  Control'
  <2>1. ResetInOrder'
    BY <1>0, <1>20 DEF Emit, Goto, Left, anchored, ResetInOrder, Typed, InStep, Quiet, Anchored, Started, NoSlot
  <2>2. Fresh'
    BY <1>0, <1>20 DEF Emit, Goto, Left, anchored, Fresh, Typed, InStep, Quiet, Anchored, Started, NoSlot, TypeOK, InHandOK, Harvests, Settled
  <2>3. Settled'
    BY <1>0, <1>20 DEF Emit, Goto, Left, anchored, Settled, Typed, InStep, Quiet, Anchored, Started, NoSlot, TypeOK, InHandOK, Harvests, Fresh
  <2> QED
    BY <2>1, <2>2, <2>3 DEF Control
<1>21. ASSUME NEW p \in Periods, EmitRaises(p)
      PROVE  Control'
  <2>1. ResetInOrder'
    BY <1>0, <1>21 DEF EmitRaises, Goto, anchored, history, ResetInOrder, Typed, InStep, Quiet, Anchored, Started, NoSlot
  <2>2. Fresh'
    BY <1>0, <1>21 DEF EmitRaises, Goto, anchored, history, Fresh, Typed, InStep, Quiet, Anchored, Started, NoSlot
  <2>3. Settled'
    BY <1>0, <1>21 DEF EmitRaises, Goto, anchored, history, Settled, Typed, InStep, Quiet, Anchored, Started, NoSlot
  <2> QED
    BY <2>1, <2>2, <2>3 DEF Control
<1>22. CASE UNCHANGED vars
  BY <1>0, <1>22 DEF vars, radiod, anchored, history, Control, ResetInOrder, Fresh, Settled, Quiet, Anchored
<1> QED
  BY <1>1, <1>2, <1>3, <1>4, <1>5, <1>6, <1>7, <1>8, <1>9, <1>10, <1>11, <1>12, <1>13, <1>14, <1>15, <1>16, <1>17, <1>18, <1>19, <1>20, <1>21, <1>22 DEF Next, Ingest, Guard

-----------------------------------------------------------------------------
(* The number of the next sample to write, and of the one at offset 0.     *)
Here == IF ingest = "idle" THEN next ELSE batch.first
Base == Here - Len(ring)

OffsetSmall == Close(offset, 0)

(* What the strategy remembers names a minute that starts where it says:   *)
(* its label is the UTC of the sample it will start at.                    *)
Synchronising ==
  Quiet /\ ~Anchored =>
    /\ ingest \in {"idle", "sync"} /\ strategy.correlated =>
         Close(strategy.minute,
               Here + strategy.boundary - Unwrap(strategy, Here % Modulus) + mapping)
    /\ ingest \in {"decided", "marked"} =>
         /\ decision.rtp = (Here + decision.skip) % Modulus
         /\ Close(decision.wallclock, Here + decision.skip + mapping)

(* The anchor is the timestamp of offset 0 and about its UTC.              *)
Pinned ==
  Quiet /\ Anchored =>
    /\ firstRtp = Base % Modulus
    /\ Close(firstWallclock, Base + mapping)

Contiguous == Quiet => \A i \in 1 .. Len(ring) : ring[i] = Base + i - 1

Place == OffsetSmall /\ Synchronising /\ Pinned /\ Contiguous

(* The quantities these are about are numbers.                             *)
LEMMA PlaceTypes ==
  ASSUME Typed
  PROVE  /\ Here \in Nat /\ next \in Nat /\ batch.first \in Nat /\ batch.size \in Nat
         /\ Len(ring) \in Nat /\ Base \in Int
         /\ mapping \in Int /\ offset \in Int /\ events \in 0 .. MaxEvents
         /\ ingest # "idle" => next = batch.first + batch.size
         /\ firstWallclock # None => firstWallclock \in Int
BY Constants DEF Typed, TypeOK, InStep, RadiodOK, RingOK, InHandOK, AnchorOK, IntOrNone, Here, Base

(* Nothing is claimed while a reset is under way.                          *)
LEMMA PlaceUnclaimed ==
  ASSUME ~Quiet', OffsetSmall'
  PROVE  Place'
BY DEF Place, Synchronising, Pinned, Contiguous

(* A fresh start.                                                          *)
LEMMA PlaceFresh ==
  ASSUME OffsetSmall', ~Anchored', ingest' = "idle", ring' = <<>>, ~strategy'.correlated
  PROVE  Place'
<1>1. Contiguous'
  BY DEF Contiguous
<1> QED
  BY <1>1 DEF Place, Synchronising, Pinned

(* The anchor and the ring stay as they are.                               *)
LEMMA PlaceKeeps ==
  ASSUME Place, Typed, WithinLimits, Quiet, Anchored, Anchored',
         UNCHANGED <<ring, mapping, offset, events, firstRtp, firstWallclock>>, Here' = Here
  PROVE  Place'
<1>1. Base' = Base
  BY DEF Base
<1>2. Drift' = Drift
  BY PlaceTypes, OneMoreEvent
<1>3. OffsetSmall'
  BY <1>2 DEF Place, OffsetSmall, Close
<1>4. Contiguous'
  BY <1>1 DEF Place, Contiguous
<1>5. Pinned'
  BY <1>1, <1>2 DEF Place, Pinned, Close
<1> QED
  BY <1>3, <1>4, <1>5 DEF Place, Synchronising

(* The minute a batch is found to start in, and where it starts.           *)
LEMMA MinuteFound ==
  ASSUME Typed, WithinLimits, Place, Quiet, ~Anchored, ingest = "sync"
  PROVE  /\ RawStamp = Here % Modulus /\ Here = batch.first
         /\ Close(Synced.minute, Here + SkipToStart + mapping)
<1>1. RawStamp = Here % Modulus /\ Here = batch.first
  BY DEF RawStamp, Here
<1>2. /\ Here \in Nat /\ mapping \in Int /\ offset \in Int /\ Drift \in Nat
      /\ Modulus \in Nat \ {0}
  BY PlaceTypes, Constants, Wandering
<1>3. SkipToStart = Synced.boundary - Unwrap(strategy, Here % Modulus)
  BY <1>1, SyncTypes DEF SkipToStart
<1>4. CASE strategy.correlated
  <2>1. Close(strategy.minute,
              Here + strategy.boundary - Unwrap(strategy, Here % Modulus) + mapping)
    BY <1>4 DEF Place, Synchronising
  <2>2. Synced.minute = strategy.minute /\ Synced.boundary = strategy.boundary
    BY <1>4, SyncTypes
  <2>3. Unwrap(strategy, Here % Modulus) \in Int /\ Synced.boundary \in Int
        /\ Synced.minute \in Int
    <3>1. Synced.unwrapped = Unwrap(strategy, Here % Modulus) /\ Synced \in Strategies
      BY <1>1, SyncTypes
    <3> QED  BY <3>1, SyncTypes DEF Strategies
  <2>4. Here + strategy.boundary - Unwrap(strategy, Here % Modulus) + mapping
        = Here + SkipToStart + mapping
    BY <1>2, <1>3, <2>2, <2>3
  <2> QED
    BY <1>1, <2>1, <2>2, <2>4
<1>5. CASE ~strategy.correlated
  <2> DEFINE utc  == AnchorUtc(RawStamp, batch.first + mapping)
             left == (-utc) % SamplesPerMinute
  <2>1. /\ Synced.boundary = Synced.unwrapped + left /\ Synced.minute = utc + left
        /\ utc \in Int /\ left \in Int
    BY <1>5, SyncTypes
  <2>2. Synced.unwrapped \in Int
    BY SyncTypes DEF Strategies
  <2>3. utc = Here + mapping + offset
    <3>1. RtpToUtc(Here % Modulus, Here + mapping) = Here + mapping
      <4>1. /\ Here \in Int /\ Here + mapping \in Int
            /\ 2 * (Here + mapping - (Here + mapping)) < Modulus
            /\ 2 * ((Here + mapping) - Here - mapping) < Modulus
        BY <1>2
      <4> QED  BY <1>2, <4>1, RightTurn
    <3> QED
      BY <1>1, <3>1 DEF AnchorUtc
  <2>4. SkipToStart = left
    <3> HIDE DEF left, utc
    <3> QED  BY <2>1, <2>2 DEF SkipToStart
  <2> HIDE DEF left, utc
  <2>5. Close(offset, 0)
    BY DEF Place, OffsetSmall
  <2>6. Close(utc + left, Here + left + mapping)
    BY <1>2, <2>1, <2>3, <2>5 DEF Close
  <2> QED
    BY <1>1, <2>1, <2>4, <2>6
<1> QED
  BY <1>4, <1>5

(* What the strategy and the decision remember are numbers.                *)
LEMMA RememberedTypes ==
  ASSUME Typed
  PROVE  /\ strategy.correlated =>
              /\ strategy.minute \in Int
              /\ Here + strategy.boundary - Unwrap(strategy, Here % Modulus) \in Int
         /\ ingest \in {"decided", "marked"} =>
              /\ decision.wallclock \in Int /\ decision.skip \in Nat
              /\ Here + decision.skip \in Int
<1>1. Here \in Nat /\ Modulus \in Nat \ {0} /\ None \notin Int
  BY PlaceTypes, Constants
<1>2. ASSUME strategy.correlated
      PROVE  /\ strategy.minute \in Int
             /\ Here + strategy.boundary - Unwrap(strategy, Here % Modulus) \in Int
  <2>1. /\ strategy.minute \in Int /\ strategy.boundary \in Int /\ strategy.unwrapped \in Int
        /\ strategy.lastRaw \in Int
    BY <1>2 DEF Typed, TypeOK, InHandOK, InStep, Strategies, IntOrNone
  <2>2. (Here % Modulus) - strategy.lastRaw \in Int
    BY <1>1, <2>1, Division
  <2>3. ((Here % Modulus) - strategy.lastRaw) % Modulus \in Int
    BY <1>1, <2>2, Division
  <2>4. Unwrap(strategy, Here % Modulus) \in Int
    BY <1>1, <2>1, <2>3 DEF Unwrap
  <2> QED
    BY <1>1, <2>1, <2>4
<1>3. ASSUME ingest \in {"decided", "marked"}
      PROVE  /\ decision.wallclock \in Int /\ decision.skip \in Nat
             /\ Here + decision.skip \in Int
  <2>1. decision \in Decisions /\ decision.wallclock # None
    BY <1>3 DEF Typed, TypeOK, InHandOK, InStep
  <2>2. decision.wallclock \in Int /\ decision.skip \in Nat
    BY <2>1, Constants DEF Decisions, IntOrNone
  <2> QED  BY <1>1, <2>2
<1> QED  BY <1>2, <1>3

(* An event that moves UTC by a step at most.                              *)
LEMMA PlaceMoves ==
  ASSUME Typed, Place, Settled, WithinLimits, OffsetSmall',
         events' = events + 1, NEW d \in Int, d <= Step, -d <= Step, mapping' = mapping + d,
         UNCHANGED <<next, batch, ring, ingest, strategy, decision, firstRtp, firstWallclock,
                     synced, torn, guard>>
  PROVE  Place'
<1>1. /\ Here \in Nat /\ Base \in Int /\ mapping \in Int /\ events \in 0 .. MaxEvents
      /\ Drift \in Nat /\ Step \in Nat /\ Drift' = Drift + Step
  BY PlaceTypes, Wandering, OneMoreEvent
<1>2. Here' = Here /\ Base' = Base /\ (Quiet' <=> Quiet) /\ (Anchored' <=> Anchored)
  BY DEF Here, Base, Quiet, Anchored
<1>3. ASSUME NEW a \in Int, NEW b \in Int, Close(a, b + mapping)
      PROVE  /\ a - (b + mapping') <= Drift'
             /\ (b + mapping') - a <= Drift'
  BY <1>1, <1>3 DEF Close
<1>4. Contiguous'
  BY <1>2 DEF Place, Contiguous
<1>5. Pinned'
  <2> SUFFICES ASSUME Quiet, Anchored
               PROVE  Pinned'
    BY <1>2 DEF Pinned
  <2>1. firstWallclock \in Int
    BY PlaceTypes DEF Settled
  <2>2. Close(firstWallclock, Base + mapping) /\ firstRtp = Base % Modulus
    BY DEF Place, Pinned
  <2>3. firstWallclock - (Base + mapping') <= Drift' /\ (Base + mapping') - firstWallclock <= Drift'
    BY <1>1, <1>3, <2>1, <2>2
  <2> QED
    BY <1>2, <2>2, <2>3 DEF Pinned, Close
<1>6. Synchronising'
  <2> SUFFICES ASSUME Quiet, ~Anchored
               PROVE  Synchronising'
    BY <1>2 DEF Synchronising
  <2>1. ASSUME ingest \in {"idle", "sync"}, strategy.correlated
        PROVE  Close(strategy.minute,
                 Here + strategy.boundary - Unwrap(strategy, Here % Modulus) + mapping)'
    <3> DEFINE b == Here + strategy.boundary - Unwrap(strategy, Here % Modulus)
    <3>1. strategy.minute \in Int /\ b \in Int
      BY <2>1, RememberedTypes
    <3>2. Close(strategy.minute, b + mapping)
      BY <2>1 DEF Place, Synchronising
    <3>3. strategy' = strategy /\ b' = b
      BY <1>2 DEF Unwrap
    <3> HIDE DEF b
    <3>4. strategy.minute - (b + mapping') <= Drift' /\ (b + mapping') - strategy.minute <= Drift'
      BY <1>3, <3>1, <3>2
    <3>5. Close(strategy.minute, b + mapping)'
      BY <3>3, <3>4 DEF Close
    <3> QED  BY <3>5 DEF b
  <2>2. ASSUME ingest \in {"decided", "marked"}
        PROVE  /\ decision.rtp = (Here + decision.skip) % Modulus
               /\ Close(decision.wallclock, Here + decision.skip + mapping)'
    <3>1. decision.wallclock \in Int /\ Here + decision.skip \in Int
      BY <2>2, RememberedTypes
    <3>2. /\ Close(decision.wallclock, Here + decision.skip + mapping)
          /\ decision.rtp = (Here + decision.skip) % Modulus
      BY <2>2 DEF Place, Synchronising
    <3>3. /\ decision.wallclock - (Here + decision.skip + mapping') <= Drift'
          /\ (Here + decision.skip + mapping') - decision.wallclock <= Drift'
      BY <1>3, <3>1, <3>2
    <3> QED
      BY <1>2, <3>2, <3>3 DEF Close
  <2> QED
    BY <1>2, <2>1, <2>2 DEF Synchronising
<1> QED
  BY <1>4, <1>5, <1>6 DEF Place

(* Every step keeps the anchor and the ring in place.                      *)
LEMMA PlaceKept ==
  ASSUME Typed, Control, Place, WithinLimits, [Next]_vars, Control'
  PROVE  Place'
<1>0. /\ OffsetSmall /\ Synchronising /\ Pinned /\ Contiguous
      /\ ResetInOrder /\ Fresh /\ Settled
  BY DEF Place, Control
<1>t. /\ Here \in Nat /\ next \in Nat /\ batch.first \in Nat /\ batch.size \in Nat
      /\ Len(ring) \in Nat /\ Base \in Int
      /\ mapping \in Int /\ offset \in Int /\ events \in 0 .. MaxEvents
      /\ ingest # "idle" => next = batch.first + batch.size
      /\ Drift \in Nat /\ Step \in Nat
  BY PlaceTypes, Wandering
<1>s. ASSUME events' = events, offset' = offset
      PROVE  OffsetSmall' /\ Drift' = Drift
  BY <1>0, <1>s, <1>t, OneMoreEvent DEF OffsetSmall, Close
<1>g. ASSUME events' = events + 1, offset' = offset
      PROVE  OffsetSmall'
  BY <1>0, <1>g, <1>t, OneMoreEvent DEF OffsetSmall, Close
<1>a. ASSUME Quiet, ingest \notin {"idle", "sync", "decided", "marked"}
      PROVE  Anchored /\ ~AnchorLost
  BY <1>0, <1>a DEF Fresh, Settled, AnchorLost
<1>1. ASSUME NEW d \in Slides, NEW seen \in BOOLEAN, Slide(d, seen)
      PROVE  Place'
  <2>1. /\ d \in Int /\ d <= Step /\ -d <= Step /\ mapping' = mapping + d
        /\ events' = events + 1 /\ offset' = offset
    BY <1>1, <1>t, Constants, Wandering DEF Slide
  <2>2. UNCHANGED <<next, batch, ring, ingest, strategy, decision, firstRtp, firstWallclock,
                    synced, torn, guard>>
    BY <1>1 DEF Slide, anchored
  <2>3. OffsetSmall'
    BY <1>g, <2>1
  <2> QED
    BY <1>0, <2>1, <2>2, <2>3, PlaceMoves
<1>2. ASSUME NEW o \in Offsets, Authority(o)
      PROVE  Place'
  <2>1. /\ o \in Int /\ o - offset <= Step /\ offset - o <= Step
        /\ events' = events + 1 /\ offset' = o
    <3>1. offset \in Offsets
      BY DEF Typed, TypeOK, RadiodOK
    <3> QED
      BY <1>2, <1>t, <3>1, Constants, Wandering DEF Authority
  <2>2. UNCHANGED <<next, mapping, batch, ring, ingest, strategy, decision, firstRtp,
                    firstWallclock, synced, torn, guard>>
    BY <1>2 DEF Authority, anchored
  <2>3. Drift' = Drift + Step
    BY <1>t, <2>1, OneMoreEvent
  <2>4. OffsetSmall'
    BY <1>0, <1>t, <2>1, <2>3 DEF OffsetSmall, Close
  <2>5. 0 \in Int /\ 0 <= Step /\ -0 <= Step /\ mapping' = mapping + 0
    BY <1>t, <2>2
  <2> QED
    BY <1>0, <2>1, <2>2, <2>4, <2>5, PlaceMoves
<1>3. ASSUME Restored
      PROVE  Place'
  <2>1. events' = events + 1 /\ offset' = offset /\ ~synced' /\ ingest' = "idle" /\ ring' = <<>>
        /\ strategy' = Uncorrelated
    BY <1>3 DEF Restored, Reset, ClearFlags, ClearStrategy, NewRing
  <2> QED
    BY <1>g, <2>1, PlaceFresh DEF Anchored, Uncorrelated
<1>4. ASSUME GuardFlags
      PROVE  Place'
  <2>1. events' = events + 1 /\ offset' = offset /\ guard' = "anchor"
    BY <1>4 DEF GuardFlags, GuardStep
  <2> QED
    BY <1>g, <2>1, PlaceUnclaimed DEF Quiet
<1>5. ASSUME GuardAnchor \/ GuardCursor \/ GuardStrategy
      PROVE  Place'
  <2>1. events' = events /\ offset' = offset /\ guard' # "idle"
    BY <1>5 DEF GuardAnchor, GuardCursor, GuardStrategy, GuardStep
  <2> QED
    BY <1>s, <2>1, PlaceUnclaimed DEF Quiet
<1>6. ASSUME GuardRing
      PROVE  Place'
  <2>1. events' = events /\ offset' = offset /\ ring' = <<>> /\ guard = "ring"
        /\ UNCHANGED <<ingest, strategy, synced>> /\ torn' = (torn \/ ingest # "idle")
    BY <1>6 DEF GuardRing, GuardStep, NewRing, anchored
  <2>2. CASE torn'
    BY <1>s, <2>1, <2>2, PlaceUnclaimed DEF Quiet
  <2>3. CASE ~torn'
    <3>1. ~synced' /\ ingest' = "idle" /\ strategy' = Uncorrelated
      BY <1>0, <2>1, <2>3 DEF ResetInOrder
    <3> QED
      BY <1>s, <2>1, <3>1, PlaceFresh DEF Anchored, Uncorrelated
  <2> QED  BY <2>2, <2>3
<1>7. ASSUME Resync
      PROVE  Place'
  <2>1. events' = events /\ offset' = offset /\ ~synced' /\ ingest' = "idle" /\ ring' = <<>>
        /\ strategy' = Uncorrelated
    BY <1>7 DEF Resync, Goto, Reset, ClearFlags, ClearStrategy, NewRing
  <2> QED
    BY <1>s, <2>1, PlaceFresh DEF Anchored, Uncorrelated
(* The rest are steps of the ingest thread; they claim nothing if torn.    *)
<1>q. ASSUME NEW s, Goto(s), Quiet => Place'
      PROVE  Place'
  <2>1. events' = events /\ offset' = offset /\ guard' = guard /\ torn' = (torn \/ guard # "idle")
    BY <1>q DEF Goto
  <2>2. CASE ~Quiet
    BY <1>s, <2>1, <2>2, PlaceUnclaimed DEF Quiet
  <2> QED  BY <1>q, <2>2
<1>8. ASSUME NEW n \in BatchSizes, Deliver(n)
      PROVE  Place'
  <2>1. /\ ingest = "idle" /\ batch' = [first |-> next, size |-> n]
        /\ Goto(IF synced THEN "write" ELSE "sync")
        /\ UNCHANGED <<ring, strategy, firstRtp, firstWallclock, synced, decision>>
    BY <1>8 DEF Deliver, anchored
  <2>2. /\ ingest' = IF synced THEN "write" ELSE "sync"
        /\ UNCHANGED <<mapping, offset, events, guard>> /\ torn' = (torn \/ guard # "idle")
    BY <2>1 DEF Goto
  <2>3. Here' = Here /\ Base' = Base /\ Drift' = Drift /\ OffsetSmall'
    BY <1>s, <2>1, <2>2 DEF Here, Base
  <2>4. ASSUME Quiet
        PROVE  Place'
    <3>1. CASE synced
      BY <2>1, <2>2, <2>3, <2>4, <3>1, PlaceKeeps DEF Anchored
    <3>2. CASE ~synced
      <4>1. /\ ~Anchored /\ ~Anchored' /\ Quiet' /\ ingest' = "sync"
        BY <2>1, <2>2, <2>4, <3>2 DEF Anchored, Quiet
      <4>2. Contiguous'
        BY <1>0, <2>1, <2>3, <2>4 DEF Contiguous
      <4>3. Unwrap(strategy, Here % Modulus)' = Unwrap(strategy, Here % Modulus)
        BY <2>1, <2>3 DEF Unwrap
      <4>4. Synchronising'
        BY <1>0, <2>1, <2>2, <2>3, <2>4, <4>1, <4>3 DEF Synchronising, Close
      <4> QED
        BY <2>3, <4>1, <4>2, <4>4 DEF Place, Pinned
    <3> QED  BY <3>1, <3>2
  <2> QED  BY <1>q, <2>1, <2>4
<1>9. ASSUME Sync
      PROVE  Place'
  <2>1. /\ ingest = "sync" /\ strategy' = Synced
        /\ UNCHANGED <<next, batch, ring, synced>>
        /\ Goto("decided") \/ Goto("idle")
    BY <1>9, SyncSays DEF anchored
  <2>2. /\ UNCHANGED <<mapping, offset, events, guard>> /\ torn' = (torn \/ guard # "idle")
    BY <2>1 DEF Goto
  <2>3. OffsetSmall' /\ Drift' = Drift
    BY <1>s, <2>2
  <2>4. ASSUME Quiet
        PROVE  Place'
    <3>1. ~Anchored /\ ~synced /\ ring = <<>>
      BY <1>0, <2>1, <2>4 DEF Settled, Started, Anchored, Fresh
    <3>2. /\ RawStamp = Here % Modulus /\ Here = batch.first
          /\ Close(Synced.minute, Here + SkipToStart + mapping)
      BY <2>1, <2>4, <3>1, MinuteFound
    <3>3. ~Anchored' /\ Contiguous'
      BY <2>1, <3>1 DEF Anchored, Contiguous
    <3>4. SkipToStart \in Int /\ Modulus \in Nat \ {0}
      BY SyncTypes, Constants
    <3>5. CASE SkipToStart \in 0 .. batch.size - 1
      <4>1. /\ ingest' = "decided"
            /\ decision' = [wallclock |-> Synced.minute,
                            rtp |-> (RawStamp + SkipToStart) % Modulus, skip |-> SkipToStart]
        BY <1>9, <3>5, SyncSays DEF Goto
      <4>2. Here' = Here
        BY <2>1, <3>2, <4>1 DEF Here
      <4>3. (RawStamp + SkipToStart) % Modulus = (Here + SkipToStart) % Modulus
        <5>1. Here \in Int
          BY <1>t
        <5> QED
          BY <3>2, <3>4, <5>1, RemainderSum
      <4>4. Synchronising'
        BY <2>2, <2>3, <3>2, <4>1, <4>2, <4>3 DEF Synchronising, Close
      <4> QED
        BY <2>3, <3>3, <4>4 DEF Place, Pinned
    <3>6. CASE SkipToStart \notin 0 .. batch.size - 1
      <4>1. ingest' = "idle"
        BY <1>9, <3>6, SyncSays DEF Goto
      <4>2. Here' = Here + batch.size
        BY <1>t, <2>1, <3>2, <4>1 DEF Here
      <4>3. Unwrap(Synced, (Here + batch.size) % Modulus) = Synced.unwrapped + batch.size
        <5>1. 2 * batch.size <= Modulus
          BY <1>t, <2>1, Wandering DEF Typed, InStep
        <5>2. Synced.lastRaw = Here % Modulus /\ Synced.unwrapped \in Int
          BY <3>2, SyncTypes DEF Strategies
        <5>3. Here \in Int /\ batch.size \in Nat /\ None \notin Int
          BY <1>t, Constants
        <5> QED
          BY <3>4, <5>1, <5>2, <5>3, CountsOn
      <4>4. Synced.boundary \in Int /\ Synced.unwrapped \in Int /\ Synced.minute \in Int
        BY SyncTypes DEF Strategies
      <4>5. Here' + Synced.boundary - Unwrap(Synced, Here' % Modulus) + mapping
            = Here + SkipToStart + mapping
        BY <1>t, <4>2, <4>3, <4>4, SMTT(30) DEF SkipToStart
      <4>6. Unwrap(strategy, Here % Modulus)' = Unwrap(Synced, Here' % Modulus)
        BY <2>1 DEF Unwrap
      <4>7. Synchronising'
        BY <2>1, <2>2, <2>3, <3>2, <4>1, <4>5, <4>6 DEF Synchronising, Close
      <4> QED
        BY <2>3, <3>3, <4>7 DEF Place, Pinned
    <3> QED  BY <3>5, <3>6
  <2> QED  BY <1>q, <2>1, <2>4
<1>10. ASSUME SetSynced
       PROVE  Place'
  <2>1. /\ ingest = "decided" /\ Goto("marked")
        /\ UNCHANGED <<next, batch, ring, strategy, decision>>
    BY <1>10 DEF SetSynced
  <2>2. /\ ingest' = "marked" /\ UNCHANGED <<mapping, offset, events, guard>>
        /\ torn' = (torn \/ guard # "idle")
    BY <2>1 DEF Goto
  <2>3. Here' = Here /\ Base' = Base /\ Drift' = Drift /\ OffsetSmall'
    BY <1>s, <2>1, <2>2 DEF Here, Base
  <2>4. ASSUME Quiet
        PROVE  Place'
    <3>1. ~Anchored /\ ~Anchored'
      BY <1>0, <2>1, <2>2, <2>4 DEF Settled, Started, Anchored
    <3>2. Contiguous'
      BY <1>0, <2>1, <2>3, <2>4 DEF Contiguous
    <3>3. Synchronising'
      BY <1>0, <2>1, <2>2, <2>3, <2>4, <3>1 DEF Synchronising, Close
    <3> QED
      BY <2>3, <3>1, <3>2, <3>3 DEF Place, Pinned
  <2> QED  BY <1>q, <2>1, <2>4
<1>11. ASSUME SetAnchor
       PROVE  Place'
  <2>1. /\ ingest = "marked" /\ Goto("write") /\ UNCHANGED <<ring, synced>>
        /\ firstWallclock' = decision.wallclock /\ firstRtp' = decision.rtp
        /\ batch' = [first |-> batch.first + decision.skip, size |-> batch.size - decision.skip]
    BY <1>11 DEF SetAnchor
  <2>2. /\ ingest' = "write" /\ UNCHANGED <<mapping, offset, events, guard>>
        /\ torn' = (torn \/ guard # "idle")
    BY <2>1 DEF Goto
  <2>3. OffsetSmall' /\ Drift' = Drift
    BY <1>s, <2>2
  <2>4. ASSUME Quiet
        PROVE  Place'
    <3>1. ~Anchored /\ ring = <<>> /\ synced
      BY <1>0, <2>1, <2>4 DEF Anchored, Fresh
    <3>2. /\ decision.rtp = (Here + decision.skip) % Modulus
          /\ Close(decision.wallclock, Here + decision.skip + mapping)
      BY <1>0, <2>1, <2>4, <3>1 DEF Synchronising
    <3>3. Here = batch.first /\ decision.skip \in Nat
      BY <2>1, RememberedTypes DEF Here
    <3>4. Here' = Here + decision.skip /\ Base' = Here + decision.skip
      <4>1. Here' = Here + decision.skip
        BY <2>1, <2>2, <3>3 DEF Here
      <4> QED
        BY <1>t, <2>1, <3>1, <3>3, <4>1 DEF Base
    <3>5. Pinned'
      BY <2>1, <2>2, <2>3, <3>2, <3>4 DEF Pinned, Close
    <3>6. Contiguous' /\ Anchored'
      BY <2>1, <2>2, <3>1 DEF Contiguous, Anchored
    <3> QED
      BY <2>3, <3>5, <3>6 DEF Place, Synchronising
  <2> QED  BY <1>q, <2>1, <2>4
<1>12. ASSUME Write
       PROVE  Place'
  <2>1. PICK n \in Nat :
          /\ n <= batch.size /\ ingest = "write"
          /\ ring' = ring \o Numbers(batch.first, n)
          /\ batch' = [first |-> batch.first + n, size |-> batch.size - n]
          /\ Goto(IF minuteSamples + n = SamplesPerMinute THEN "boundary"
                  ELSE IF batch.size > n THEN "write" ELSE "tail")
    BY <1>12, WriteSays
  <2>2. /\ ingest' \in {"write", "boundary", "tail"} /\ UNCHANGED <<mapping, offset, events, guard>>
        /\ torn' = (torn \/ guard # "idle") /\ UNCHANGED <<firstRtp, firstWallclock, synced>>
    BY <1>12, <2>1 DEF Goto, Write, anchored
  <2>3. OffsetSmall' /\ Drift' = Drift
    BY <1>s, <2>2
  <2>4. ASSUME Quiet
        PROVE  Place'
    <3>1. Anchored /\ Anchored'
      BY <1>a, <2>1, <2>2, <2>4 DEF Anchored
    <3>2. PICK new \in Seq(Nat) :
            /\ new = Numbers(batch.first, n) /\ Len(new) = n
            /\ \A i \in 1 .. n : new[i] = batch.first + i - 1
      <4>1. /\ Numbers(batch.first, n) \in Seq(Nat) /\ Len(Numbers(batch.first, n)) = n
            /\ \A i \in 1 .. n : Numbers(batch.first, n)[i] = batch.first + i - 1
        <5>1. batch.first \in Nat
          BY <1>t
        <5> QED  BY <5>1, NumbersWritten
      <4> QED  BY <4>1
    <3>3. ring \in Seq(Nat)
      BY DEF Typed, TypeOK, RingOK
    <3>0. ring' = ring \o new
      BY <2>1, <3>2
    <3>4. Len(ring') = Len(ring) + n
      <4>1. Len(ring \o new) = Len(ring) + Len(new)
        BY <3>3
      <4> QED  BY <3>0, <3>2, <4>1
    <3>5. Here = batch.first /\ Here' = Here + n /\ Base' = Base
      <4>1. Here = batch.first /\ Here' = Here + n
        BY <2>1, <2>2 DEF Here
      <4> QED
        BY <1>t, <3>4, <4>1 DEF Base
    <3>6. ASSUME NEW i \in 1 .. Len(ring')
          PROVE  ring'[i] = Base + i - 1
      <4>1. CASE i <= Len(ring)
        <5>1. ring'[i] = ring[i]
          BY <3>0, <3>2, <3>3, <4>1
        <5> QED
          BY <1>0, <1>t, <2>4, <4>1, <5>1 DEF Contiguous
      <4>2. CASE i > Len(ring)
        <5>1. i - Len(ring) \in 1 .. n
          BY <1>t, <3>4, <4>2
        <5>2. ring'[i] = new[i - Len(ring)]
          BY <3>0, <3>2, <3>3, <3>4, <4>2, <5>1
        <5>3. ring'[i] = batch.first + (i - Len(ring)) - 1
          BY <3>2, <5>1, <5>2
        <5> QED
          BY <1>t, <3>5, <5>1, <5>3 DEF Base
      <4> QED  BY <1>t, <3>4, <4>1, <4>2
    <3>7. Contiguous'
      BY <3>5, <3>6 DEF Contiguous
    <3>8. Pinned'
      BY <1>0, <2>2, <2>3, <2>4, <3>1, <3>5 DEF Pinned, Close
    <3> QED
      BY <2>3, <3>1, <3>7, <3>8 DEF Place, Synchronising
  <2> QED  BY <1>q, <2>1, <2>4
(* From here on neither the ring nor the batch changes.                    *)
<1>k. ASSUME NEW s, Goto(s), ingest \notin {"idle", "sync", "decided", "marked"}, ingest' # "marked",
             UNCHANGED <<next, batch, ring, synced, firstRtp, firstWallclock>>,
             ingest' = "idle" => batch.size = 0
      PROVE  Place'
  <2>1. ASSUME Quiet
        PROVE  Place'
    <3>1. Anchored /\ Anchored'
      BY <1>a, <1>k, <2>1 DEF Anchored
    <3>2. UNCHANGED <<mapping, offset, events>>
      BY <1>k DEF Goto
    <3>3. Here' = Here
      BY <1>k, <1>t DEF Here
    <3> QED
      BY <1>k, <2>1, <3>1, <3>2, <3>3, PlaceKeeps
  <2> QED  BY <1>k, <1>q, <2>1
(* And without an overlapping reset the anchor is there.                   *)
<1>l. ASSUME NEW s, Goto(s), ingest \notin {"idle", "sync", "decided", "marked"}, AnchorLost
      PROVE  Place'
  BY <1>a, <1>l, <1>q
<1>13. ASSUME Boundary
       PROVE  Place'
  <2>1. /\ ingest = "boundary"
        /\ Goto("resync") \/ Goto("harvest")
        /\ UNCHANGED <<next, batch, ring, synced, firstRtp, firstWallclock>>
    BY <1>13 DEF Boundary
  <2> QED  BY <1>k, <2>1 DEF Goto
<1>14. ASSUME BoundaryRaises
       PROVE  Place'
  BY <1>14, <1>l DEF BoundaryRaises
<1>15. ASSUME Resume
       PROVE  Place'
  <2>1. /\ ingest = "resync"
        /\ Goto("write") \/ Goto("tail")
        /\ UNCHANGED <<next, batch, ring, synced, firstRtp, firstWallclock>>
    BY <1>15 DEF Resume, anchored
  <2> QED  BY <1>k, <2>1 DEF Goto
<1>16. ASSUME WritePathHarvest
       PROVE  Place'
  <2>1. /\ ingest = "tail"
        /\ Goto("harvest") \/ Goto("idle")
        /\ UNCHANGED <<next, batch, ring, synced, firstRtp, firstWallclock>>
    BY <1>16 DEF WritePathHarvest
  <2>2. batch.size = 0
    BY <2>1 DEF Typed, InStep
  <2> QED  BY <1>k, <2>1, <2>2 DEF Goto
<1>17. ASSUME HarvestRead
       PROVE  Place'
  <2>1. ingest = "harvest" /\ UNCHANGED <<next, batch, ring, synced, firstRtp, firstWallclock>>
    BY <1>17 DEF HarvestRead, anchored
  <2>2. CASE AnchorLost
    BY <1>17, <1>l, <2>1, <2>2 DEF HarvestRead
  <2>3. CASE ~AnchorLost
    <3>1. Goto("emit")
      BY <1>17, <2>3 DEF HarvestRead
    <3> QED  BY <1>k, <2>1, <3>1 DEF Goto
  <2> QED  BY <2>2, <2>3
<1>18. ASSUME NEW p \in Periods, Emit(p)
       PROVE  Place'
  <2>1. /\ ingest = "emit"
        /\ Goto("emit") \/ Goto(harvest.then)
        /\ UNCHANGED <<next, batch, ring, synced, firstRtp, firstWallclock>>
    BY <1>18 DEF Emit, anchored
  <2>2. harvest.then \in {"idle", "resync"} /\ (harvest.then = "idle" => batch.size = 0)
    BY <2>1 DEF Typed, TypeOK, InHandOK, Harvests, InStep
  <2> QED  BY <1>k, <2>1, <2>2 DEF Goto
<1>19. ASSUME NEW p \in Periods, EmitRaises(p)
       PROVE  Place'
  BY <1>19, <1>l DEF EmitRaises
<1>20. CASE UNCHANGED vars
  <2>1. UNCHANGED <<next, batch, ring, ingest, strategy, decision, firstRtp, firstWallclock,
                    synced, torn, guard, mapping, offset, events>>
    BY <1>20 DEF vars, radiod, anchored
  <2>2. Here' = Here /\ Base' = Base /\ (Quiet' <=> Quiet) /\ (Anchored' <=> Anchored)
        /\ Unwrap(strategy, Here % Modulus)' = Unwrap(strategy, Here % Modulus)
    BY <2>1 DEF Here, Base, Quiet, Anchored, Unwrap
  <2>3. OffsetSmall' /\ Drift' = Drift
    BY <1>s, <2>1
  <2>4. Pinned' /\ Contiguous'
    BY <1>0, <2>1, <2>2, <2>3 DEF Pinned, Contiguous, Close
  <2>5. Synchronising'
    BY <1>0, <2>1, <2>2, <2>3 DEF Synchronising, Close
  <2> QED
    BY <2>3, <2>4, <2>5 DEF Place
<1> QED
  BY <1>1, <1>2, <1>3, <1>4, <1>5, <1>6, <1>7, <1>8, <1>9, <1>10, <1>11, <1>12, <1>13, <1>14,
     <1>15, <1>16, <1>17, <1>18, <1>19, <1>20 DEF Next, Ingest, Guard

-----------------------------------------------------------------------------
(* How far UTC is from RTP.                                                *)
Shift == mapping + offset

Harvesting == ingest \in {"harvest", "emit"}

(* A harvest at the close of a minute finds the minute closed.             *)
Minutes ==
  Quiet /\ Anchored =>
    /\ ingest = "boundary" => minuteSamples = SamplesPerMinute
    /\ Harvesting /\ harvest.then = "resync" => minuteSamples = 0

(* What a harvest has read of the anchor and the leading edge is still     *)
(* about right when it cuts the slots.                                     *)
HarvestRight ==
  Quiet /\ Anchored /\ ingest = "emit" =>
    /\ harvest.anchor = Base + harvest.shift
    /\ harvest.leading = Len(ring)
    /\ Close(harvest.shift, Shift)
    /\ ~slid => harvest.shift = Shift

(* The write path harvests often enough.                                   *)
Throttled ==
  Quiet /\ Anchored =>
    /\ lastHarvest <= Len(ring)
    /\ ingest = "idle" => Len(ring) - lastHarvest < HarvestEvery
    /\ Harvesting /\ harvest.then = "idle" => lastHarvest = Len(ring)

Harvested == Minutes /\ HarvestRight /\ Throttled

(* By the live mapping, the anchor is the UTC of the sample at offset 0.   *)
LEMMA AnchorIs ==
  ASSUME Typed, Place, Settled, WithinLimits, Quiet, Anchored
  PROVE  AnchorNow = Base + Shift /\ ~AnchorLost
<1>1. firstWallclock # None /\ firstRtp = Base % Modulus /\ Close(firstWallclock, Base + mapping)
  BY DEF Place, Settled, Pinned
<1>2. /\ Base \in Int /\ mapping \in Int /\ offset \in Int /\ firstWallclock \in Int
      /\ Drift \in Nat /\ 2 * Drift < Modulus /\ Modulus \in Nat \ {0}
  <2>1. /\ Base \in Int /\ mapping \in Int /\ offset \in Int /\ firstWallclock \in Int
        /\ events \in 0 .. MaxEvents
    BY <1>1, PlaceTypes
  <2>2. /\ Drift \in Nat /\ MaxDrift \in Nat /\ Drift <= MaxDrift /\ 2 * MaxDrift < Modulus
        /\ Modulus \in Nat \ {0}
    BY <2>1, Wandering, Constants
  <2> QED
    BY <2>1, <2>2
<1>3. /\ 2 * (Base + mapping - firstWallclock) < Modulus
      /\ 2 * (firstWallclock - Base - mapping) < Modulus
  BY <1>1, <1>2 DEF Close
<1>4. RtpToUtc(Base % Modulus, firstWallclock) = Base + mapping
  BY <1>2, <1>3, RightTurn
<1> QED
  BY <1>1, <1>2, <1>4 DEF AnchorNow, AnchorUtc, Shift, AnchorLost

(* A distance grows by what one end moves.                                 *)
LEMMA StillClose ==
  ASSUME NEW a \in Int, NEW b \in Int, NEW c \in Int, NEW n \in Nat, NEW d \in Int,
         NEW e \in Int, a - b <= d, b - a <= d, c - b <= n, b - c <= n, e = d + n
  PROVE  a - c <= e /\ c - a <= e
OBVIOUS

(* Events change neither what is in the ring nor where the thread is.      *)
LEMMA HarvestedMoves ==
  ASSUME Typed, Harvested, WithinLimits, events' = events + 1, slid',
         Shift' - Shift <= Step, Shift - Shift' <= Step, Shift' \in Int,
         UNCHANGED <<next, batch, ring, ingest, synced, torn, guard, harvest, minuteSamples,
                     lastHarvest>>
  PROVE  Harvested'
<1>1. Base' = Base /\ (Quiet' <=> Quiet) /\ (Anchored' <=> Anchored) /\ (Harvesting' <=> Harvesting)
  BY DEF Base, Here, Quiet, Anchored, Harvesting
<1>2. Minutes' /\ Throttled'
  BY <1>1 DEF Harvested, Minutes, Throttled
<1>3. /\ Drift' = Drift + Step /\ Drift \in Nat /\ Step \in Nat
      /\ Shift \in Int /\ harvest.shift \in Int
  <2>1. /\ mapping \in Int /\ offset \in Int /\ events \in 0 .. MaxEvents
        /\ harvest.shift \in Int
    BY PlaceTypes DEF Typed, TypeOK, InHandOK, Harvests
  <2> QED
    BY <2>1, Wandering, OneMoreEvent DEF Shift
<1>4. ASSUME Close(harvest.shift, Shift)
      PROVE  Close(harvest.shift, Shift)'
  <2>1. harvest.shift - Shift <= Drift /\ Shift - harvest.shift <= Drift
    BY <1>4 DEF Close
  <2>2. harvest.shift - Shift' <= Drift' /\ Shift' - harvest.shift <= Drift'
    <3>1. harvest.shift \in Int /\ Shift \in Int /\ Shift' \in Int /\ Step \in Nat /\ Drift \in Int
      BY <1>3
    <3>2. Drift' \in Int
      BY <1>3
    <3>3. Shift' - Shift <= Step /\ Shift - Shift' <= Step
      OBVIOUS
    <3>4. Drift' = Drift + Step
      BY <1>3
    <3> QED  BY <3>1, <3>2, <3>3, <3>4, <2>1, StillClose
  <2> QED
    BY <2>2 DEF Close
<1>5. HarvestRight'
  BY <1>1, <1>4 DEF Harvested, HarvestRight, Close
<1> QED
  BY <1>2, <1>5 DEF Harvested

(* Every step keeps what a harvest has read right.                         *)
LEMMA HarvestedKept ==
  ASSUME Typed, Control, Place, Harvested, WithinLimits, [Next]_vars, Typed', Control'
  PROVE  Harvested'
<1>0. /\ Minutes /\ HarvestRight /\ Throttled
      /\ ResetInOrder /\ Fresh /\ Settled
  BY DEF Harvested, Control
<1>t. /\ Here \in Nat /\ next \in Nat /\ batch.first \in Nat /\ batch.size \in Nat
      /\ Len(ring) \in Nat /\ Base \in Int
      /\ mapping \in Int /\ offset \in Int /\ events \in 0 .. MaxEvents
      /\ ingest # "idle" => next = batch.first + batch.size
      /\ Drift \in Nat /\ Step \in Nat
  BY PlaceTypes, Wandering
<1>u. lastHarvest \in Nat /\ minuteSamples \in Nat /\ HarvestEvery \in Nat \ {0}
  BY Constants DEF Typed, TypeOK, AnchorOK, RingOK
<1>a. ASSUME Quiet, ingest \notin {"idle", "sync", "decided", "marked"}
      PROVE  Anchored /\ ~AnchorLost
  BY <1>0, <1>a DEF Fresh, Settled, AnchorLost
<1>b. ASSUME ~Quiet' \/ ~Anchored'
      PROVE  Harvested'
  BY <1>b DEF Harvested, Minutes, HarvestRight, Throttled
(* A step of the ingest thread claims something only if quiet.             *)
<1>q. ASSUME NEW s, Goto(s), Quiet => Harvested'
      PROVE  Harvested'
  <2>1. CASE ~Quiet
    BY <1>b, <1>q, <2>1 DEF Goto, Quiet
  <2> QED  BY <1>q, <2>1
(* What a step that does not lead into a harvest or back may change.       *)
<1>r. ASSUME ingest' \in {"write", "resync", "tail"}, lastHarvest' <= Len(ring')
      PROVE  Harvested'
  BY <1>r DEF Harvested, Minutes, HarvestRight, Throttled, Harvesting
<1>1. ASSUME NEW d \in Slides, NEW seen \in BOOLEAN, Slide(d, seen)
      PROVE  Harvested'
  <2>1. d \in Int /\ d <= Step /\ -d <= Step
    BY <1>t, Constants, Wandering
  <2>2. /\ mapping' = mapping + d /\ offset' = offset /\ slid' /\ events' = events + 1
        /\ UNCHANGED <<next, batch, ring, ingest, synced, torn, guard, harvest, minuteSamples,
                       lastHarvest>>
    BY <1>1 DEF Slide, anchored
  <2>3. Shift' \in Int /\ Shift' - Shift <= Step /\ Shift - Shift' <= Step
    BY <1>t, <2>1, <2>2 DEF Shift
  <2> QED
    BY <2>2, <2>3, HarvestedMoves
<1>2. ASSUME NEW o \in Offsets, Authority(o)
      PROVE  Harvested'
  <2>1. /\ o \in Int /\ o - offset <= Step /\ offset - o <= Step
    <3>1. offset \in Offsets
      BY DEF Typed, TypeOK, RadiodOK
    <3> QED
      BY <1>t, <3>1, Constants, Wandering
  <2>2. /\ mapping' = mapping /\ offset' = o /\ slid' /\ events' = events + 1
        /\ UNCHANGED <<next, batch, ring, ingest, synced, torn, guard, harvest, minuteSamples,
                       lastHarvest>>
    BY <1>2 DEF Authority, anchored
  <2>3. Shift' \in Int /\ Shift' - Shift <= Step /\ Shift - Shift' <= Step
    BY <1>t, <2>1, <2>2 DEF Shift
  <2> QED
    BY <2>2, <2>3, HarvestedMoves
<1>3. ASSUME Restored
      PROVE  Harvested'
  BY <1>3, <1>b DEF Restored, Reset, ClearFlags, Anchored
<1>4. ASSUME GuardFlags \/ GuardAnchor \/ GuardCursor \/ GuardStrategy
      PROVE  Harvested'
  BY <1>4, <1>b DEF GuardFlags, GuardAnchor, GuardCursor, GuardStrategy, GuardStep, Quiet
<1>5. ASSUME GuardRing
      PROVE  Harvested'
  <2>1. guard = "ring" /\ torn' = (torn \/ ingest # "idle") /\ synced' = synced
    BY <1>5 DEF GuardRing, GuardStep, anchored
  <2> QED
    BY <1>0, <1>b, <2>1 DEF ResetInOrder, Quiet, Anchored
<1>6. ASSUME Resync
      PROVE  Harvested'
  BY <1>6, <1>b DEF Resync, Reset, ClearFlags, Anchored
<1>7. ASSUME NEW n \in BatchSizes, Deliver(n)
      PROVE  Harvested'
  <2>1. /\ ingest = "idle" /\ Goto(IF synced THEN "write" ELSE "sync")
        /\ UNCHANGED <<ring, synced, lastHarvest>>
    BY <1>7 DEF Deliver, anchored
  <2>2. ASSUME Quiet
        PROVE  Harvested'
    <3>1. CASE synced
      <4>1. Anchored /\ ingest' = "write"
        BY <2>1, <3>1 DEF Anchored, Goto
      <4> QED
        BY <1>0, <1>r, <2>1, <2>2, <4>1 DEF Throttled
    <3>2. CASE ~synced
      BY <1>b, <2>1, <3>2 DEF Anchored
    <3> QED  BY <3>1, <3>2
  <2> QED  BY <1>q, <2>1, <2>2
<1>8. ASSUME Sync
      PROVE  Harvested'
  <2>1. /\ ingest = "sync" /\ UNCHANGED synced
        /\ Goto("decided") \/ Goto("idle")
    BY <1>8, SyncSays DEF anchored
  <2>2. ASSUME Quiet
        PROVE  Harvested'
    BY <1>0, <1>b, <2>1, <2>2 DEF Settled, Started, Anchored
  <2> QED  BY <1>q, <2>1, <2>2
<1>9. ASSUME SetSynced
      PROVE  Harvested'
  BY <1>9, <1>b DEF SetSynced, Goto, Anchored
<1>10. ASSUME SetAnchor
       PROVE  Harvested'
  <2>1. /\ ingest = "marked" /\ Goto("write") /\ ingest' = "write"
        /\ UNCHANGED <<ring, lastHarvest>>
    BY <1>10 DEF SetAnchor, Goto
  <2>2. ASSUME Quiet
        PROVE  Harvested'
    <3>1. lastHarvest = 0
      BY <1>0, <2>1, <2>2 DEF Fresh, Anchored
    <3> QED
      BY <1>r, <1>t, <2>1, <3>1
  <2> QED  BY <1>q, <2>1, <2>2
<1>11. ASSUME Write
       PROVE  Harvested'
  <2>1. PICK n \in Nat :
          /\ ingest = "write"
          /\ ring' = ring \o Numbers(batch.first, n)
          /\ minuteSamples' = minuteSamples + n
          /\ Goto(IF minuteSamples + n = SamplesPerMinute THEN "boundary"
                  ELSE IF batch.size > n THEN "write" ELSE "tail")
    BY <1>11, WriteSays
  <2>2. ASSUME Quiet
        PROVE  Harvested'
    <3>1. Anchored /\ lastHarvest' = lastHarvest
      BY <1>11, <1>a, <2>1, <2>2 DEF Write, anchored
    <3>2. lastHarvest <= Len(ring)
      BY <1>0, <2>2, <3>1 DEF Throttled
    <3>3. Len(ring') = Len(ring) + n
      <4>1. PICK new \in Seq(Nat) : new = Numbers(batch.first, n) /\ Len(new) = n
        BY <1>t, NumbersWritten
      <4>2. ring \in Seq(Nat)
        BY DEF Typed, TypeOK, RingOK
      <4>3. Len(ring \o new) = Len(ring) + Len(new)
        BY <4>2
      <4> QED  BY <2>1, <4>1, <4>3
    <3>4. lastHarvest' <= Len(ring')
      BY <1>t, <1>u, <3>1, <3>2, <3>3
    <3>5. CASE minuteSamples + n = SamplesPerMinute
      <4>1. ingest' = "boundary" /\ minuteSamples' = SamplesPerMinute
        BY <2>1, <3>5 DEF Goto
      <4> QED
        BY <3>4, <4>1 DEF Harvested, Minutes, HarvestRight, Throttled, Harvesting
    <3>6. CASE minuteSamples + n # SamplesPerMinute
      <4>1. ingest' \in {"write", "tail"}
        BY <2>1, <3>6 DEF Goto
      <4> QED
        BY <1>r, <3>4, <4>1
    <3> QED  BY <3>5, <3>6
  <2> QED  BY <1>q, <2>1, <2>2
<1>12. ASSUME Boundary
       PROVE  Harvested'
  <2>1. /\ ingest = "boundary"
        /\ UNCHANGED <<ring, lastHarvest>>
        /\ harvest' = [harvest EXCEPT !.then = "resync"]
        /\ Goto("resync") \/ (Goto("harvest") /\ minuteSamples' = 0)
    BY <1>12 DEF Boundary
  <2>2. ASSUME Quiet
        PROVE  Harvested'
    <3>1. lastHarvest' <= Len(ring')
      BY <1>0, <1>a, <2>1, <2>2 DEF Throttled
    <3>2. CASE Goto("resync")
      BY <1>r, <3>1, <3>2 DEF Goto
    <3>3. CASE Goto("harvest") /\ minuteSamples' = 0
      <4>1. ingest' = "harvest" /\ harvest'.then = "resync"
        BY <2>1, <3>3 DEF Goto, Typed, TypeOK, InHandOK, Harvests
      <4> QED
        BY <3>1, <3>3, <4>1 DEF Harvested, Minutes, HarvestRight, Throttled, Harvesting
    <3> QED  BY <2>1, <3>2, <3>3
  <2> QED  BY <1>q, <2>1, <2>2
<1>13. ASSUME BoundaryRaises
       PROVE  Harvested'
  BY <1>13, <1>a, <1>q DEF BoundaryRaises
<1>14. ASSUME Resume
       PROVE  Harvested'
  <2>1. /\ ingest = "resync"
        /\ Goto("write") \/ Goto("tail")
        /\ UNCHANGED <<ring, lastHarvest>>
    BY <1>14 DEF Resume, anchored
  <2>2. ASSUME Quiet
        PROVE  Harvested'
    <3>1. lastHarvest' <= Len(ring')
      BY <1>0, <1>a, <2>1, <2>2 DEF Throttled
    <3> QED
      BY <1>r, <2>1, <3>1 DEF Goto
  <2> QED  BY <1>q, <2>1, <2>2
<1>15. ASSUME WritePathHarvest
       PROVE  Harvested'
  <2>1. /\ ingest = "tail" /\ UNCHANGED <<ring, synced>>
        /\ lastHarvest' = IF HarvestDue THEN Len(ring) ELSE lastHarvest
        /\ harvest' = [harvest EXCEPT !.then = "idle"]
        /\ Goto(IF HarvestDue THEN "harvest" ELSE "idle")
    BY <1>15 DEF WritePathHarvest
  <2>2. ASSUME Quiet
        PROVE  Harvested'
    <3>1. Anchored /\ synced /\ lastHarvest <= Len(ring)
      BY <1>0, <1>a, <2>1, <2>2 DEF Throttled, Anchored
    <3>2. CASE HarvestDue
      <4>1. ingest' = "harvest" /\ harvest'.then = "idle" /\ lastHarvest' = Len(ring')
        BY <2>1, <3>2 DEF Goto, Typed, TypeOK, InHandOK, Harvests
      <4>2. lastHarvest' <= Len(ring')
        BY <1>t, <2>1, <4>1
      <4> QED
        BY <4>1, <4>2 DEF Harvested, Minutes, HarvestRight, Throttled, Harvesting
    <3>3. CASE ~HarvestDue
      <4>1. ingest' = "idle" /\ lastHarvest' = lastHarvest
        BY <2>1, <3>3 DEF Goto
      <4>2. Len(ring) - lastHarvest < HarvestEvery
        BY <1>t, <1>u, <3>1, <3>3 DEF HarvestDue
      <4> QED
        BY <2>1, <3>1, <4>1, <4>2 DEF Harvested, Minutes, HarvestRight, Throttled, Harvesting
    <3> QED  BY <3>2, <3>3
  <2> QED  BY <1>q, <2>1, <2>2
<1>16. ASSUME HarvestRead
       PROVE  Harvested'
  <2>1. ingest = "harvest" /\ UNCHANGED <<next, batch, ring, lastHarvest, minuteSamples>>
    BY <1>16 DEF HarvestRead, anchored
  <2>2. CASE AnchorLost
    BY <1>16, <1>a, <1>q, <2>1, <2>2 DEF HarvestRead
  <2>3. CASE ~AnchorLost
    <3>1. /\ Goto("emit")
          /\ harvest' = [anchor |-> AnchorNow, leading |-> Len(ring), todo |-> Periods,
                         then |-> harvest.then, shift |-> mapping + offset]
      BY <1>16, <2>3 DEF HarvestRead
    <3>2. ASSUME Quiet
          PROVE  Harvested'
      <4>1. Anchored /\ AnchorNow = Base + Shift
        BY <1>0, <1>a, <2>1, <3>2, AnchorIs
      <4>2. Base' = Base /\ Shift' = Shift /\ Drift' = Drift /\ ingest' = "emit"
        BY <1>t, <2>1, <3>1, OneMoreEvent DEF Goto, Base, Here, Shift
      <4>3. Shift \in Int /\ Close(Shift, Shift)
        BY <1>t DEF Shift, Close
      <4>4. /\ harvest'.anchor = Base + Shift /\ harvest'.leading = Len(ring)
            /\ harvest'.shift = Shift /\ harvest'.then = harvest.then
        BY <3>1, <4>1 DEF Shift
      <4>5. HarvestRight'
        BY <2>1, <4>2, <4>3, <4>4 DEF HarvestRight, Close
      <4>6. Minutes' /\ Throttled'
        BY <1>0, <2>1, <3>2, <4>1, <4>2, <4>4 DEF Minutes, Throttled, Harvesting
      <4> QED
        BY <4>5, <4>6 DEF Harvested
    <3> QED  BY <1>q, <3>1, <3>2
  <2> QED  BY <2>2, <2>3
<1>17. ASSUME NEW p \in Periods, Emit(p)
       PROVE  Harvested'
  <2>1. /\ ingest = "emit" /\ harvest' = [harvest EXCEPT !.todo = Left(p)]
        /\ Goto("emit") \/ Goto(harvest.then)
        /\ UNCHANGED <<next, batch, ring, lastHarvest, minuteSamples, slid>>
    BY <1>17 DEF Emit, anchored
  <2>2. /\ harvest.then \in {"idle", "resync"}
        /\ harvest'.then = harvest.then /\ harvest'.anchor = harvest.anchor
        /\ harvest'.leading = harvest.leading /\ harvest'.shift = harvest.shift
    BY <2>1 DEF Typed, TypeOK, InHandOK, Harvests
  <2>3. ASSUME Quiet
        PROVE  Harvested'
    <3>1. Anchored
      BY <1>a, <2>1, <2>3
    <3>2. CASE Goto("emit")
      <4>1. Base' = Base /\ Shift' = Shift /\ Drift' = Drift /\ ingest' = "emit"
        BY <1>t, <2>1, <3>2, OneMoreEvent DEF Goto, Base, Here, Shift
      <4>2. HarvestRight'
        BY <1>0, <2>1, <2>2, <2>3, <3>1, <4>1 DEF HarvestRight, Close
      <4>3. Minutes' /\ Throttled'
        BY <1>0, <2>1, <2>2, <2>3, <3>1, <4>1 DEF Minutes, Throttled, Harvesting
      <4> QED
        BY <4>2, <4>3 DEF Harvested
    <3>3. CASE Goto(harvest.then)
      <4>1. lastHarvest' <= Len(ring')
        BY <1>0, <2>1, <2>3, <3>1 DEF Throttled
      <4>2. CASE harvest.then = "resync"
        BY <1>r, <3>3, <4>1, <4>2 DEF Goto
      <4>3. CASE harvest.then = "idle"
        <5>1. ingest' = "idle" /\ lastHarvest = Len(ring)
          BY <1>0, <2>1, <2>3, <3>1, <3>3, <4>3 DEF Goto, Throttled, Harvesting
        <5>2. Len(ring') - lastHarvest' < HarvestEvery
          BY <1>t, <1>u, <2>1, <5>1
        <5> QED
          BY <4>1, <5>1, <5>2 DEF Harvested, Minutes, HarvestRight, Throttled, Harvesting
      <4> QED  BY <2>2, <4>2, <4>3
    <3> QED  BY <2>1, <3>2, <3>3
  <2> QED
    <3>1. Goto("emit") \/ Goto(harvest.then)
      BY <2>1
    <3> QED  BY <1>q, <2>3, <3>1
<1>18. ASSUME NEW p \in Periods, EmitRaises(p)
       PROVE  Harvested'
  BY <1>18, <1>a, <1>q DEF EmitRaises
<1>19. CASE UNCHANGED vars
  <2>1. UNCHANGED <<next, batch, ring, ingest, synced, torn, guard, harvest, minuteSamples,
                    lastHarvest, slid, mapping, offset, events>>
    BY <1>19 DEF vars, radiod, anchored
  <2>2. /\ Base' = Base /\ (Quiet' <=> Quiet) /\ (Anchored' <=> Anchored)
        /\ (Harvesting' <=> Harvesting) /\ Shift' = Shift /\ Drift' = Drift
    BY <1>t, <2>1, OneMoreEvent DEF Base, Here, Quiet, Anchored, Harvesting, Shift
  <2> QED
    BY <1>0, <2>1, <2>2 DEF Harvested, Minutes, HarvestRight, Throttled, Close
<1> QED
  BY <1>1, <1>2, <1>3, <1>4, <1>5, <1>6, <1>7, <1>8, <1>9, <1>10, <1>11, <1>12, <1>13, <1>14,
     <1>15, <1>16, <1>17, <1>18, <1>19 DEF Next, Ingest, Guard

-----------------------------------------------------------------------------
(* A harvest has still to walk this period.                                *)
Pending(p) == ingest = "harvest" \/ (ingest = "emit" /\ p \in harvest.todo)

(* The mappings that matter to it: the live one and the one in hand.       *)
Refs(p) == {Shift} \cup IF ingest = "emit" /\ p \in harvest.todo THEN {harvest.shift} ELSE {}

(* Up to this offset the minutes closed have been walked.                  *)
Edge(p) ==
  Len(ring) - minuteSamples
    - IF Pending(p) /\ harvest.then = "resync" THEN SamplesPerMinute ELSE 0

(* The cursor is less than a slot and the drift behind that edge, ...      *)
Behind(p) ==
  IF slotNext[p] = None THEN Edge(p) <= 0
  ELSE \A r \in Refs(p) : slotNext[p] + p + Drift > Edge(p) + Base + r

(* ... follows the last slot handed out, which is in the ring, ...         *)
Followed(p) ==
  since[p] # None =>
    /\ last[p] = since[p] /\ slotNext[p] # None
    /\ \A r \in Refs(p) : since[p] + Drift >= Base + r

(* ... or ended before the ring began, ...                                 *)
Before(p) ==
  since[p] = None /\ last[p] # None => \A r \in Refs(p) : last[p] + p <= Base + r + Drift

(* ... and no slot was due at the last harvest.                            *)
NextSlot(p) == IF slotNext[p] = None THEN CleanFrom(Base + Shift, p) ELSE slotNext[p]
NotDue(p) == ~slid /\ ~Pending(p) => lastHarvest < NextSlot(p) - (Base + Shift) + p

Walk(p) == Behind(p) /\ Followed(p) /\ Before(p) /\ NotDue(p)
Walked  == Quiet /\ Anchored => \A p \in Periods : Walk(p)

(* Slots are clean multiples of their period, and over.                    *)
Clean     == \A p \in Periods : slotNext[p] # None => slotNext[p] % p = 0
PastSlots == \A p \in Periods : last[p] # None => last[p] + p <= Here + Shift + Drift

Cursor == Walked /\ Clean /\ PastSlots /\ NoHole

(* What the invariant is said of are numbers.                              *)
LEMMA CursorTypes ==
  ASSUME Typed, NEW p \in Periods
  PROVE  /\ p \in Nat \ {0} /\ SamplesPerMinute <= p /\ SamplesPerMinute \in Nat \ {0}
         /\ Shift \in Int /\ Base \in Int /\ Len(ring) \in Nat /\ Here \in Nat
         /\ minuteSamples \in 0 .. SamplesPerMinute /\ Edge(p) \in Int
         /\ lastHarvest \in Nat /\ harvest.shift \in Int
         /\ \A r \in Refs(p) : r \in Int
         /\ slotNext[p] # None => slotNext[p] \in Int
         /\ last[p] # None => last[p] \in Int
         /\ since[p] # None => since[p] \in Int
<1>1. /\ p \in Nat \ {0} /\ SamplesPerMinute <= p /\ SamplesPerMinute \in Nat \ {0}
      /\ Base \in Int /\ Len(ring) \in Nat /\ Here \in Nat
      /\ mapping \in Int /\ offset \in Int
  BY PlaceTypes, Constants
<1>2. /\ minuteSamples \in 0 .. SamplesPerMinute /\ lastHarvest \in Nat /\ harvest.shift \in Int
      /\ slotNext[p] \in IntOrNone /\ last[p] \in IntOrNone /\ since[p] \in IntOrNone
  BY DEF Typed, TypeOK, RingOK, AnchorOK, InHandOK, Harvests, SlotsOK
<1>3. Shift \in Int
  BY <1>1 DEF Shift
<1>4. Edge(p) \in Int
  BY <1>1, <1>2 DEF Edge
<1>5. \A r \in Refs(p) : r \in Int
  BY <1>2, <1>3 DEF Refs
<1> QED
  BY <1>1, <1>2, <1>3, <1>4, <1>5 DEF IntOrNone

(* A step that touches neither the cursor nor the anchor.                  *)
LEMMA WalkSame ==
  ASSUME NEW p \in Periods, Walk(p),
         slotNext'[p] = slotNext[p], since'[p] = since[p], last'[p] = last[p],
         Base' = Base, Shift' = Shift, Drift' = Drift, Edge(p)' = Edge(p), Refs(p)' \subseteq Refs(p),
         Pending(p)' \/ ~Pending(p), Pending(p)' \/ (lastHarvest' = lastHarvest /\ slid' = slid)
  PROVE  Walk(p)'
<1>1. Behind(p)'
  BY DEF Walk, Behind
<1>2. Followed(p)' /\ Before(p)'
  BY DEF Walk, Followed, Before
<1>3. NotDue(p)'
  <2>1. NextSlot(p)' = NextSlot(p)
    BY DEF NextSlot
  <2> QED
    BY <2>1 DEF Walk, NotDue
<1> QED
  BY <1>1, <1>2, <1>3 DEF Walk

(* An event moves UTC by a step.                                           *)
LEMMA WalkMoves ==
  ASSUME Typed, WithinLimits, NEW p \in Periods, Walk(p), slid', events' = events + 1,
         Shift' - Shift <= Step, Shift - Shift' <= Step, Shift' \in Int,
         UNCHANGED <<next, batch, ring, ingest, harvest, minuteSamples, slotNext, last, since>>
  PROVE  Walk(p)'
<1>1. /\ Base' = Base /\ Edge(p)' = Edge(p)
      /\ \A r \in Refs(p)' : r = Shift' \/ r \in Refs(p)
  BY DEF Base, Here, Edge, Pending, Refs
<1>2. /\ p \in Nat \ {0} /\ Shift \in Int /\ Base \in Int /\ Edge(p) \in Int /\ Shift \in Refs(p)
      /\ \A r \in Refs(p) : r \in Int
      /\ slotNext[p] # None => slotNext[p] \in Int
      /\ last[p] # None => last[p] \in Int
      /\ since[p] # None => since[p] \in Int
  BY CursorTypes DEF Refs
<1>3. Drift' = Drift + Step /\ Drift \in Nat /\ Step \in Nat /\ Drift' \in Nat
  BY PlaceTypes, Wandering, OneMoreEvent, SMTT(30)
<1>4. ASSUME NEW r \in Refs(p)'
      PROVE  \E s \in Refs(p) : s \in Int /\ r \in Int /\ r - s <= Step /\ s - r <= Step
  <2>1. CASE r = Shift'
    BY <1>2, <2>1
  <2>2. CASE r \in Refs(p)
    BY <1>2, <1>3, <2>2
  <2> QED  BY <1>1, <2>1, <2>2
<1>5. Behind(p)'
  <2>1. CASE slotNext[p] = None
    BY <1>1, <2>1 DEF Walk, Behind
  <2>2. CASE slotNext[p] # None
    <3>1. ASSUME NEW r \in Refs(p)'
          PROVE  slotNext[p] + p + Drift' > Edge(p) + Base + r
      <4>1. PICK s \in Refs(p) : s \in Int /\ r \in Int /\ r - s <= Step /\ s - r <= Step
        BY <1>4
      <4>2. slotNext[p] + p + Drift > Edge(p) + Base + s
        BY <2>2 DEF Walk, Behind
      <4> QED
        BY <1>2, <1>3, <2>2, <4>1, <4>2
    <3> QED
      BY <1>1, <2>2, <3>1 DEF Behind
  <2> QED  BY <2>1, <2>2
<1>6. Followed(p)'
  <2>1. ASSUME since[p] # None, NEW r \in Refs(p)'
        PROVE  since[p] + Drift' >= Base + r
    <3>1. PICK s \in Refs(p) : s \in Int /\ r \in Int /\ r - s <= Step /\ s - r <= Step
      BY <1>4
    <3>2. since[p] + Drift >= Base + s
      BY <2>1 DEF Walk, Followed
    <3> QED
      BY <1>2, <1>3, <2>1, <3>1, <3>2
  <2> QED
    BY <1>1, <2>1 DEF Walk, Followed
<1>7. Before(p)'
  <2>1. ASSUME since[p] = None, last[p] # None, NEW r \in Refs(p)'
        PROVE  last[p] + p <= Base + r + Drift'
    <3>1. PICK s \in Refs(p) : s \in Int /\ r \in Int /\ r - s <= Step /\ s - r <= Step
      BY <1>4
    <3>2. last[p] + p <= Base + s + Drift
      BY <2>1 DEF Walk, Before
    <3> QED
      BY <1>2, <1>3, <2>1, <3>1, <3>2
  <2> QED
    BY <1>1, <2>1 DEF Walk, Before
<1> QED
  BY <1>5, <1>6, <1>7 DEF Walk, NotDue

(* The ring has room for the longest slot and the headroom.                *)
LEMMA Room ==
  ASSUME NEW p \in Periods
  PROVE  Capacity \in Int /\ Headroom + p <= Capacity
<1> DEFINE m == CHOOSE q \in Periods : \A r \in Periods : r <= q
<1>1. m \in Periods /\ p <= m
  BY ConstantsAssumption
<1>2. Capacity = Headroom + m
  BY DEF Capacity
<1> HIDE DEF m
<1> QED
  BY <1>1, <1>2, Constants

-----------------------------------------------------------------------------
(* What holds when a harvest comes to a period.                            *)
AtPeriod(p) ==
  /\ Typed /\ Place /\ Settled /\ Harvested /\ Clean /\ Walk(p)
  /\ Quiet /\ Anchored /\ ingest = "emit" /\ p \in harvest.todo

(* Each slot it finds is in the ring.                                      *)
LEMMA SlotResident ==
  ASSUME NEW p \in Periods, AtPeriod(p), WithinLimits, NEW k \in 1 .. Ready(p),
         NEW wall, wall = FirstSlot(p) + (k - 1) * p
  PROVE  /\ wall \in Int /\ wall % p = 0 /\ FirstSlot(p) <= wall
         /\ wall - harvest.anchor \in Nat
         /\ (wall - harvest.anchor) + p <= Len(ring)
         /\ Len(ring) - Capacity <= wall - harvest.anchor
<1>1. /\ FirstSlot(p) \in Int /\ harvest.anchor <= FirstSlot(p)
      /\ slotNext[p] # None => slotNext[p] <= FirstSlot(p)
      /\ FirstSlot(p) % p = 0
      /\ Ready(p) \in Nat
      /\ FirstSlot(p) + p * Ready(p) <= harvest.anchor + harvest.leading
  <2>1. SlotsOK /\ InHandOK /\ (slotNext[p] # None => slotNext[p] % p = 0)
    BY DEF AtPeriod, Typed, TypeOK, Clean
  <2>2. Ready(p) \in Nat
    BY <2>1, WalkTypes
  <2>3. Ready(p) > 0
    BY <2>2
  <2> QED
    BY <2>1, <2>3, WalkTypes
<1>2. /\ harvest.anchor = Base + harvest.shift /\ harvest.leading = Len(ring)
  BY DEF AtPeriod, Harvested, HarvestRight
<1>3. /\ p \in Nat \ {0} /\ SamplesPerMinute <= p /\ SamplesPerMinute \in Nat \ {0}
      /\ Base \in Int /\ Len(ring) \in Nat /\ minuteSamples \in 0 .. SamplesPerMinute
      /\ Edge(p) \in Int /\ harvest.shift \in Int
      /\ slotNext[p] # None => slotNext[p] \in Int
  BY CursorTypes DEF AtPeriod
<1>4. k \in Nat /\ 1 <= k /\ k <= Ready(p)
  BY <1>1
<1>5. /\ wall \in Int /\ FirstSlot(p) <= wall
      /\ wall + p <= harvest.anchor + harvest.leading
  <2> DEFINE a == (k - 1) * p
             b == (Ready(p) - k) * p
             c == p * Ready(p)
  <2>1. a \in Int /\ a >= 0
    BY <1>3, <1>4
  <2>2. b \in Int /\ b >= 0
    BY <1>1, <1>3, <1>4, SMTT(30)
  <2>3. a + p + b = c
    BY <1>1, <1>3, <1>4
  <2>4. wall = FirstSlot(p) + a /\ FirstSlot(p) + c <= harvest.anchor + harvest.leading
    BY <1>1
  <2>5. harvest.anchor + harvest.leading \in Int /\ FirstSlot(p) \in Int
    BY <1>1, <1>2, <1>3, SMTT(30)
  <2> HIDE DEF a, b, c
  <2> QED
    BY <1>3, <2>1, <2>2, <2>3, <2>4, <2>5, SMTT(30)
<1>6. wall % p = 0
  <2>1. k - 1 \in Int
    BY <1>4
  <2> QED
    BY <1>1, <1>3, <2>1, Multiples
<1>7. /\ wall - harvest.anchor \in Nat
      /\ (wall - harvest.anchor) + p <= Len(ring)
  <2>1. harvest.anchor <= FirstSlot(p) /\ FirstSlot(p) \in Int /\ harvest.anchor \in Int
    BY <1>1, <1>2, <1>3
  <2>2. wall + p <= harvest.anchor + Len(ring) /\ wall \in Int
    BY <1>2, <1>5
  <2>3. wall - harvest.anchor \in Nat
    BY <1>5, <2>1
  <2>4. p \in Int /\ Len(ring) \in Int /\ harvest.anchor \in Int
    BY <1>3, <2>1
  <2>5. (wall - harvest.anchor) + p <= Len(ring)
    BY <2>2, <2>4
  <2> QED
    BY <2>3, <2>5
<1>8. Len(ring) - SamplesPerMinute <= Edge(p)
  <2>1. harvest.then = "resync" => minuteSamples = 0
    BY DEF AtPeriod, Harvested, Minutes, Harvesting
  <2> QED
    BY <1>3, <2>1 DEF Edge
<1>9. /\ Drift \in Nat /\ SamplesPerMinute + Drift <= Headroom + 1 /\ Headroom \in Nat
  <2>1. events \in 0 .. MaxEvents
    BY PlaceTypes DEF AtPeriod
  <2>2. /\ Drift \in Nat /\ MaxDrift \in Nat /\ Drift <= MaxDrift
        /\ SamplesPerMinute + MaxDrift <= Headroom + 1 /\ Headroom \in Nat
    BY <2>1, Wandering, Constants
  <2> QED  BY <1>3, <2>2
<1>10. Capacity \in Int /\ Headroom + p <= Capacity
  BY Room
<1>11. CASE slotNext[p] = None
  <2>1. Edge(p) <= 0
    BY <1>11 DEF AtPeriod, Walk, Behind
  <2> QED
    BY <1>3, <1>5, <1>6, <1>7, <1>8, <1>9, <1>10, <2>1
<1>12. CASE slotNext[p] # None
  <2>1. slotNext[p] + p + Drift > Edge(p) + Base + harvest.shift
    BY <1>12 DEF AtPeriod, Walk, Behind, Refs
  <2>2. slotNext[p] <= wall
    BY <1>1, <1>3, <1>5, <1>12, SMTT(30)
  <2>3. Len(ring) - (wall - harvest.anchor) < SamplesPerMinute + p + Drift
    <3>1. /\ Edge(p) \in Int /\ Len(ring) \in Int /\ wall \in Int /\ slotNext[p] \in Int
          /\ harvest.anchor \in Int /\ p \in Int /\ SamplesPerMinute \in Int /\ Drift \in Int
      BY <1>2, <1>3, <1>5, <1>9, <1>12, SMTT(30)
    <3>2. slotNext[p] + p + Drift > Edge(p) + harvest.anchor
      BY <1>2, <1>3, <2>1, <3>1
    <3> QED
      BY <1>8, <2>2, <3>1, <3>2, SMTT(30)
  <2>4. Len(ring) - Capacity <= wall - harvest.anchor
    <3>1. /\ Len(ring) \in Int /\ wall \in Int /\ harvest.anchor \in Int /\ p \in Int
          /\ SamplesPerMinute \in Int /\ Drift \in Int
      BY <1>2, <1>3, <1>5, <1>9
    <3>2. SamplesPerMinute + p + Drift <= Capacity + 1
      BY <1>9, <1>10, <3>1
    <3> QED
      BY <1>10, <2>3, <3>1, <3>2
  <2> QED
    BY <1>5, <1>6, <1>7, <2>4
<1> QED  BY <1>11, <1>12

(* Each slot it finds is handed out, and exact.                            *)
LEMMA SlotExact ==
  ASSUME NEW p \in Periods, AtPeriod(p), WithinLimits, NEW k \in 1 .. Ready(p),
         NEW wall, wall = FirstSlot(p) + (k - 1) * p
  PROVE  Request(p, wall).samples # <<>> /\ Exact(Request(p, wall))
<1> DEFINE off == wall - harvest.anchor
<1>1. /\ wall \in Int /\ wall % p = 0
      /\ off \in Nat /\ off + p <= Len(ring) /\ Len(ring) - Capacity <= off
  BY SlotResident
<1>2. /\ harvest.anchor = Base + harvest.shift /\ firstRtp = Base % Modulus
      /\ \A i \in 1 .. Len(ring) : ring[i] = Base + i - 1
  BY DEF AtPeriod, Harvested, HarvestRight, Place, Pinned, Contiguous
<1>3. /\ p \in Nat \ {0} /\ Base \in Int /\ Len(ring) \in Nat /\ harvest.shift \in Int
      /\ Modulus \in Nat \ {0}
  BY CursorTypes, Constants DEF AtPeriod
<1>4. wall = Base + off + harvest.shift
  BY <1>1, <1>2, <1>3, SMTT(30)
<1>5. Request(p, wall) = [period |-> p, wallclock |-> wall, rtp |-> (firstRtp + off) % Modulus,
                          samples |-> Slice(off, p), shift |-> harvest.shift]
  BY DEF Request
<1> HIDE DEF off
<1>6. Slice(off, p) = SubSeq(ring, off + 1, off + p)
  BY <1>1 DEF Slice
<1> DEFINE s == SubSeq(ring, off + 1, off + p)
<1>7. Len(s) = p /\ \A i \in 1 .. p : s[i] = Base + off + i - 1
  <2>1. ring \in Seq(Nat)
    BY DEF AtPeriod, Typed, TypeOK, RingOK
  <2>2. off + 1 \in Int /\ off + p \in Int /\ off + 1 <= off + p /\ 1 <= off + 1
    BY <1>1, <1>3
  <2>3. Len(s) = p
    BY <1>1, <1>3, <2>1, <2>2
  <2>4. ASSUME NEW i \in 1 .. p
        PROVE  s[i] = Base + off + i - 1
    <3>1. s[i] = ring[off + i]
      BY <1>1, <1>3, <2>1, <2>2
    <3>2. off + i \in 1 .. Len(ring)
      BY <1>1, <1>3
    <3>3. ring[off + i] = Base + (off + i) - 1
      BY <1>2, <3>2
    <3> QED
      BY <1>1, <1>3, <3>1, <3>3
  <2> QED  BY <2>3, <2>4
<1> HIDE DEF s
<1>8. s[1] = Base + off /\ s # <<>>
  <2>1. 1 \in 1 .. p
    BY <1>3
  <2>2. s[1] = Base + off + 1 - 1
    BY <1>7, <2>1
  <2>3. s # <<>>
    BY <1>3, <1>7
  <2> QED  BY <1>1, <1>3, <2>2, <2>3
<1>9. (firstRtp + off) % Modulus = s[1] % Modulus
  <2>1. Base \in Int /\ off \in Int
    BY <1>1, <1>3
  <2>2. ((Base % Modulus) + off) % Modulus = (Base + off) % Modulus
    BY <1>3, <2>1, RemainderSum
  <2> QED  BY <1>2, <1>8, <2>2
<1>10. \A i \in 1 .. p : s[i] = s[1] + i - 1
  BY <1>1, <1>3, <1>7, <1>8
<1>11. wall = s[1] + harvest.shift
  BY <1>4, <1>8
<1>12. Request(p, wall).samples = s
  BY <1>5, <1>6 DEF s
<1> QED
  BY <1>1, <1>5, <1>7, <1>8, <1>9, <1>10, <1>11, <1>12 DEF Exact

(* So the slots handed out are those it finds.                             *)
LEMMA HandedOut ==
  ASSUME NEW p \in Periods, AtPeriod(p), WithinLimits
  PROVE  /\ Dispatched(p) = {Request(p, FirstSlot(p) + (k - 1) * p) : k \in 1 .. Ready(p)}
         /\ Dispatched(p) = {} <=> Ready(p) = 0
         /\ \A r \in Dispatched(p) : Exact(r) /\ FirstSlot(p) <= r.wallclock
<1>1. ASSUME NEW k \in 1 .. Ready(p)
      PROVE  LET r == Request(p, FirstSlot(p) + (k - 1) * p)
             IN  r.samples # <<>> /\ Exact(r) /\ FirstSlot(p) <= r.wallclock
  <2> DEFINE wall == FirstSlot(p) + (k - 1) * p
  <2>1. wall = FirstSlot(p) + (k - 1) * p
    OBVIOUS
  <2> HIDE DEF wall
  <2>2. Request(p, wall).samples # <<>> /\ Exact(Request(p, wall)) /\ FirstSlot(p) <= wall
    BY <2>1, SlotExact, SlotResident
  <2>3. Request(p, wall).wallclock = wall
    BY DEF Request
  <2> QED
    BY <2>2, <2>3 DEF wall
<1>2. Dispatched(p) = {Request(p, FirstSlot(p) + (k - 1) * p) : k \in 1 .. Ready(p)}
  BY <1>1 DEF Dispatched
<1>3. Ready(p) \in Nat
  BY WalkTypes DEF AtPeriod, Typed, TypeOK
<1>4. Dispatched(p) = {} <=> Ready(p) = 0
  <2>1. ASSUME Ready(p) # 0
        PROVE  Dispatched(p) # {}
    <3>1. 1 \in 1 .. Ready(p)
      BY <1>3, <2>1
    <3> QED  BY <1>2, <3>1
  <2>2. ASSUME Ready(p) = 0
        PROVE  Dispatched(p) = {}
    BY <1>2, <2>2
  <2> QED  BY <2>1, <2>2
<1> QED
  BY <1>1, <1>2, <1>4

(* Where the walk of a period leaves its cursor: at the first slot that    *)
(* has not arrived, after the last that has, and past all before.          *)
LEMMA WalkSteps ==
  ASSUME NEW p \in Periods, AtPeriod(p), NoHole, WithinLimits
  PROVE  /\ Ready(p) \in Nat
         /\ CursorAfter(p) \in Int /\ CursorAfter(p) % p = 0
         /\ Base + Shift + Len(ring) < CursorAfter(p) + p + Drift
         /\ ~slid => Base + Shift + Len(ring) < CursorAfter(p) + p
         /\ Ready(p) = 0 /\ since[p] # None => CursorAfter(p) = slotNext[p]
         /\ Ready(p) > 0 =>
              /\ LastSlot(p) \in Int /\ LastSlot(p) + p = CursorAfter(p)
              /\ LastSlot(p) + p <= Here + Shift + Drift
              /\ Base + Shift <= LastSlot(p) + Drift
         /\ last[p] # None => last[p] < FirstSlot(p)
<1> DEFINE a == harvest.anchor
           c == p * Ready(p)
           f == FirstSlot(p)
<1>1. /\ f \in Int /\ a <= f
      /\ slotNext[p] # None /\ a <= slotNext[p] => f = slotNext[p]
      /\ slotNext[p] # None => slotNext[p] <= f
      /\ f % p = 0
      /\ Ready(p) \in Nat
      /\ Ready(p) > 0 => f + c <= a + Len(ring)
      /\ a + Len(ring) < f + c + p
  <2>1. SlotsOK /\ InHandOK /\ (slotNext[p] # None => slotNext[p] % p = 0)
    BY DEF AtPeriod, Typed, TypeOK, Clean
  <2>2. harvest.leading = Len(ring)
    BY DEF AtPeriod, Harvested, HarvestRight
  <2> QED
    BY <2>1, <2>2, WalkTypes
<1>2. /\ p \in Nat \ {0} /\ Base \in Int /\ Len(ring) \in Nat /\ Shift \in Int
      /\ harvest.shift \in Int /\ Here \in Nat
      /\ slotNext[p] # None => slotNext[p] \in Int
      /\ last[p] # None => last[p] \in Int
      /\ since[p] # None => since[p] \in Int
  BY CursorTypes DEF AtPeriod
<1>3. /\ a = Base + harvest.shift /\ (~slid => harvest.shift = Shift)
      /\ harvest.shift - Shift <= Drift /\ Shift - harvest.shift <= Drift
  BY DEF AtPeriod, Harvested, HarvestRight, Close
<1>4. Drift \in Nat /\ Drift < p
  <2>1. events \in 0 .. MaxEvents
    BY PlaceTypes DEF AtPeriod
  <2>2. Drift \in Nat /\ MaxDrift \in Nat /\ Drift <= MaxDrift /\ MaxDrift < p
    BY <2>1, Wandering
  <2> QED  BY <1>2, <2>2
<1>5. /\ since[p] # None =>
           /\ last[p] = since[p] /\ since[p] + p = slotNext[p] /\ slotNext[p] # None
           /\ since[p] + Drift >= a
      /\ since[p] = None /\ last[p] # None => last[p] + p <= a + Drift
  <2>1. harvest.shift \in Refs(p)
    BY DEF AtPeriod, Refs
  <2>2. Followed(p) /\ Before(p) /\ ~torn
    BY DEF AtPeriod, Walk, Quiet
  <2> QED
    BY <1>3, <2>1, <2>2 DEF Followed, Before, NoHole
<1>6. c \in Int /\ (Ready(p) = 0 => c = 0) /\ (Ready(p) > 0 => p <= c)
  <2>1. c \in Int
    BY <1>1, <1>2
  <2>2. Ready(p) = 0 => c = 0
    BY <1>2
  <2>3. ASSUME Ready(p) > 0
        PROVE  p <= c
    BY <1>1, <1>2, <2>3
  <2> QED  BY <2>1, <2>2, <2>3
<1>7. CursorAfter(p) = f + c
  BY DEF CursorAfter
<1>8. Ready(p) > 0 => LastSlot(p) = f + c - p
  <2>1. (Ready(p) - 1) * p = c - p
    BY <1>1, <1>2
  <2>2. c \in Int
    BY <1>6
  <2> HIDE DEF c, f
  <2> QED
    BY <1>1, <1>2, <2>1, <2>2 DEF LastSlot, f
<1>9. CursorAfter(p) % p = 0
  <2>1. f + Ready(p) * p = f + c /\ Ready(p) \in Int
    BY <1>1, <1>2
  <2>2. (f + Ready(p) * p) % p = 0
    BY <1>1, <1>2, <2>1, Multiples
  <2> QED  BY <1>7, <2>1, <2>2
<1>10. Here = Base + Len(ring)
  BY <1>2 DEF Base
<1>11. a \in Int
  BY <1>2, <1>3
<1> HIDE DEF a, c, f
<1>12. CursorAfter(p) \in Int
  BY <1>1, <1>6, <1>7
<1>n. /\ f \in Int /\ c \in Int /\ p \in Int /\ Base \in Int /\ Shift \in Int /\ Len(ring) \in Int
      /\ Drift \in Int /\ harvest.shift \in Int /\ Here \in Int
  BY <1>1, <1>2, <1>4, <1>6
<1>m. Base + harvest.shift + Len(ring) < f + c + p
  BY <1>1, <1>3, <1>n
<1>13. Base + Shift + Len(ring) < CursorAfter(p) + p + Drift
  <2>1. Shift <= harvest.shift + Drift
    BY <1>3, <1>n
  <2> QED
    BY <1>7, <1>m, <1>n, <2>1
<1>14. ~slid => Base + Shift + Len(ring) < CursorAfter(p) + p
  BY <1>3, <1>7, <1>m
<1>15. ASSUME since[p] # None
       PROVE  f = slotNext[p]
  <2>1. since[p] \in Int /\ slotNext[p] \in Int /\ slotNext[p] # None
    BY <1>2, <1>5, <1>15
  <2>2. a <= slotNext[p]
    BY <1>2, <1>4, <1>5, <1>11, <1>15, <2>1
  <2> QED
    BY <1>1, <2>1, <2>2
<1>16. Ready(p) = 0 /\ since[p] # None => CursorAfter(p) = slotNext[p]
  BY <1>1, <1>6, <1>7, <1>15
<1>17. ASSUME Ready(p) > 0
       PROVE  /\ LastSlot(p) \in Int /\ LastSlot(p) + p = CursorAfter(p)
              /\ LastSlot(p) + p <= Here + Shift + Drift
              /\ Base + Shift <= LastSlot(p) + Drift
  <2>1. LastSlot(p) = f + c - p /\ f + c <= a + Len(ring) /\ p <= c
    BY <1>1, <1>6, <1>8, <1>17
  <2>2. LastSlot(p) \in Int /\ LastSlot(p) + p = CursorAfter(p)
    BY <1>1, <1>2, <1>6, <1>7, <2>1
  <2>3. LastSlot(p) + p <= Here + Shift + Drift
    <3>1. f + c <= Base + harvest.shift + Len(ring) /\ harvest.shift <= Shift + Drift
      BY <1>3, <1>n, <2>1
    <3>2. f + c <= Base + Len(ring) + Shift + Drift
      BY <1>n, <3>1
    <3>3. LastSlot(p) + p = f + c
      BY <1>n, <2>1
    <3> QED
      BY <1>10, <1>n, <3>2, <3>3
  <2>4. Base + Shift <= LastSlot(p) + Drift
    <3>1. Base + harvest.shift <= f /\ Shift <= harvest.shift + Drift
      BY <1>1, <1>3, <1>n, SMTT(30)
    <3>2. f <= LastSlot(p)
      BY <1>n, <2>1
    <3>3. Base + Shift <= f + Drift
      BY <1>n, <3>1
    <3> QED
      BY <1>n, <2>2, <3>2, <3>3
  <2> QED  BY <2>2, <2>3, <2>4
<1>18. ASSUME last[p] # None
       PROVE  last[p] < f
  <2>1. CASE since[p] # None
    BY <1>1, <1>2, <1>5, <1>15, <1>18, <2>1
  <2>2. CASE since[p] = None
    BY <1>1, <1>2, <1>4, <1>5, <1>11, <1>18, <2>2
  <2> QED  BY <2>1, <2>2
<1> QED
  BY <1>1, <1>9, <1>12, <1>13, <1>14, <1>16, <1>17, <1>18 DEF f

(* What a walk changes.                                                    *)
LEMMA EmitSays ==
  ASSUME Typed, NEW p \in Periods, Emit(p), Quiet
  PROVE  /\ slotNext' = [slotNext EXCEPT ![p] = CursorAfter(p)]
         /\ last' = [last EXCEPT ![p] = Latest(p, last)]
         /\ since' = [since EXCEPT ![p] = Latest(p, since)]
         /\ slotNext'[p] = CursorAfter(p)
         /\ last'[p] = Latest(p, last) /\ since'[p] = Latest(p, since)
         /\ \A q \in Periods : q # p =>
              slotNext'[q] = slotNext[q] /\ last'[q] = last[q] /\ since'[q] = since[q]
         /\ ingest = "emit" /\ p \in harvest.todo
         /\ ingest' = (IF Left(p) = {} THEN harvest.then ELSE "emit")
         /\ harvest'.todo = Left(p) /\ harvest'.then = harvest.then
         /\ harvest'.shift = harvest.shift /\ harvest.then \in {"idle", "resync"}
         /\ UNCHANGED <<next, batch, ring, minuteSamples, lastHarvest, slid, synced>>
         /\ UNCHANGED <<mapping, offset, events, guard>> /\ Quiet'
         /\ Base' = Base /\ Here' = Here /\ Shift' = Shift /\ Drift' = Drift
<1>1. /\ slotNext' = [slotNext EXCEPT ![p] = CursorAfter(p)]
      /\ last' = [last EXCEPT ![p] = Latest(p, last)]
      /\ since' = [since EXCEPT ![p] = Latest(p, since)]
      /\ ingest = "emit" /\ p \in harvest.todo
      /\ harvest' = [harvest EXCEPT !.todo = Left(p)]
      /\ Goto(IF Left(p) = {} THEN harvest.then ELSE "emit")
      /\ UNCHANGED <<next, batch, ring, minuteSamples, lastHarvest, slid, synced>>
  BY DEF Emit, anchored, Quiet
<1>2. /\ slotNext \in [Periods -> IntOrNone] /\ last \in [Periods -> IntOrNone]
      /\ since \in [Periods -> IntOrNone] /\ harvest \in Harvests
  BY DEF Typed, TypeOK, SlotsOK, InHandOK
<1>3. /\ slotNext'[p] = CursorAfter(p)
      /\ last'[p] = Latest(p, last) /\ since'[p] = Latest(p, since)
      /\ \A q \in Periods : q # p =>
           slotNext'[q] = slotNext[q] /\ last'[q] = last[q] /\ since'[q] = since[q]
  BY <1>1, <1>2
<1>4. /\ ingest' = (IF Left(p) = {} THEN harvest.then ELSE "emit")
      /\ UNCHANGED <<mapping, offset, events, guard>> /\ Quiet'
  BY <1>1 DEF Goto, Quiet
<1>5. /\ harvest'.todo = Left(p) /\ harvest'.then = harvest.then
      /\ harvest'.shift = harvest.shift /\ harvest.then \in {"idle", "resync"}
  BY <1>1, <1>2 DEF Harvests
<1>6. Here' = Here
  <2>1. ASSUME ingest' = "idle"
        PROVE  harvest.then = "idle"
    BY <1>4, <2>1
  <2>2. ASSUME ingest' = "idle"
        PROVE  next = batch.first
    <3>1. batch.size = 0 /\ next = batch.first + batch.size /\ batch.first \in Nat
      BY <1>1, <2>1, <2>2, PlaceTypes DEF Typed, InStep
    <3> QED  BY <3>1
  <2> QED
    BY <1>1, <2>2 DEF Here
<1>7. Base' = Base /\ Shift' = Shift /\ Drift' = Drift
  BY <1>1, <1>4, <1>6, PlaceTypes, OneMoreEvent DEF Base, Shift, Drift
<1> QED
  BY <1>1, <1>3, <1>4, <1>5, <1>6, <1>7

(* The period walked.                                                      *)
LEMMA WalkDone ==
  ASSUME NEW p \in Periods, AtPeriod(p), NoHole, WithinLimits, Emit(p)
  PROVE  /\ Walk(p)' /\ slotNext'[p] % p = 0
         /\ last'[p] # None => last'[p] + p <= Here' + Shift' + Drift'
                               \/ (last'[p] = last[p])
         /\ since'[p] # None => since'[p] + p = slotNext'[p]
<1>1. /\ slotNext'[p] = CursorAfter(p)
      /\ last'[p] = Latest(p, last) /\ since'[p] = Latest(p, since)
      /\ ingest' = (IF Left(p) = {} THEN harvest.then ELSE "emit")
      /\ harvest'.todo = Left(p) /\ harvest.then \in {"idle", "resync"}
      /\ UNCHANGED <<ring, minuteSamples, lastHarvest, slid>>
      /\ Base' = Base /\ Here' = Here /\ Shift' = Shift /\ Drift' = Drift
  BY EmitSays DEF AtPeriod
<1>2. /\ Ready(p) \in Nat
      /\ CursorAfter(p) \in Int /\ CursorAfter(p) % p = 0
      /\ Base + Shift + Len(ring) < CursorAfter(p) + p + Drift
      /\ ~slid => Base + Shift + Len(ring) < CursorAfter(p) + p
      /\ Ready(p) = 0 /\ since[p] # None => CursorAfter(p) = slotNext[p]
      /\ Ready(p) > 0 =>
           /\ LastSlot(p) \in Int /\ LastSlot(p) + p = CursorAfter(p)
           /\ LastSlot(p) + p <= Here + Shift + Drift
           /\ Base + Shift <= LastSlot(p) + Drift
  BY WalkSteps
<1>3. /\ Ready(p) = 0 => last'[p] = last[p] /\ since'[p] = since[p]
      /\ Ready(p) > 0 => last'[p] = LastSlot(p) /\ since'[p] = LastSlot(p)
  BY <1>1, <1>2, HandedOut DEF Latest
<1>4. p \notin Left(p) /\ ingest' # "harvest" /\ ~Pending(p)'
  BY <1>1 DEF Left, Pending
<1>5. Refs(p)' = {Shift} /\ Edge(p)' = Len(ring) - minuteSamples
  BY <1>1, <1>4, CursorTypes DEF Refs, Edge, AtPeriod, Pending
<1>6. /\ p \in Nat \ {0} /\ Shift \in Int /\ Base \in Int /\ Len(ring) \in Nat
      /\ minuteSamples \in Nat /\ lastHarvest \in Nat /\ Drift \in Nat
      /\ lastHarvest <= Len(ring) /\ None \notin Int
  <2>1. /\ p \in Nat \ {0} /\ Shift \in Int /\ Base \in Int /\ Len(ring) \in Nat
        /\ minuteSamples \in Nat /\ lastHarvest \in Nat
    BY CursorTypes DEF AtPeriod
  <2>2. Drift \in Nat /\ None \notin Int
    BY PlaceTypes, Wandering, Constants DEF AtPeriod
  <2> QED
    BY <2>1, <2>2 DEF AtPeriod, Harvested, Throttled
<1>7. Behind(p)'
  <2>1. slotNext'[p] # None
    BY <1>1, <1>2, <1>6
  <2>2. CursorAfter(p) + p + Drift > (Len(ring) - minuteSamples) + Base + Shift
    BY <1>2, <1>6
  <2> QED
    BY <1>1, <1>5, <2>1, <2>2 DEF Behind
<1>8. Followed(p)'
  <2>1. CASE Ready(p) = 0
    <3>1. since[p] # None => last[p] = since[p] /\ since[p] + Drift >= Base + Shift
      BY DEF AtPeriod, Walk, Followed, Refs
    <3> QED
      BY <1>1, <1>2, <1>3, <1>5, <1>6, <2>1, <3>1 DEF Followed
  <2>2. CASE Ready(p) > 0
    BY <1>1, <1>2, <1>3, <1>5, <1>6, <2>2 DEF Followed
  <2> QED  BY <1>2, <2>1, <2>2
<1>9. Before(p)'
  <2>1. CASE Ready(p) = 0
    <3>1. since[p] = None /\ last[p] # None => last[p] + p <= Base + Shift + Drift
      BY DEF AtPeriod, Walk, Before, Refs
    <3> QED
      BY <1>1, <1>3, <1>5, <2>1, <3>1 DEF Before
  <2>2. CASE Ready(p) > 0
    BY <1>2, <1>3, <1>6, <2>2 DEF Before
  <2> QED  BY <1>2, <2>1, <2>2
<1>10. NotDue(p)'
  <2>1. ASSUME ~slid
        PROVE  lastHarvest < CursorAfter(p) - (Base + Shift) + p
    BY <1>2, <1>6, <2>1
  <2>2. NextSlot(p)' = CursorAfter(p)
    BY <1>1, <1>2, <1>6 DEF NextSlot
  <2> QED
    BY <1>1, <2>1, <2>2 DEF NotDue
<1>11. since'[p] # None => since'[p] + p = slotNext'[p]
  <2>1. CASE Ready(p) = 0
    <3>1. since[p] # None => slotNext[p] # None /\ ~torn
      BY DEF AtPeriod, Walk, Followed, Quiet
    <3> QED
      BY <1>1, <1>2, <1>3, <2>1, <3>1 DEF NoHole
  <2>2. CASE Ready(p) > 0
    BY <1>1, <1>2, <1>3, <2>2
  <2> QED  BY <1>2, <2>1, <2>2
<1>12. last'[p] + p <= Here' + Shift' + Drift' \/ last'[p] = last[p]
  <2>1. CASE Ready(p) = 0
    BY <1>3, <2>1
  <2>2. CASE Ready(p) > 0
    BY <1>1, <1>2, <1>3, <2>2
  <2> QED  BY <1>2, <2>1, <2>2
<1> QED
  BY <1>1, <1>2, <1>7, <1>8, <1>9, <1>10, <1>11, <1>12 DEF Walk

(* The other periods.                                                      *)
LEMMA WalkOther ==
  ASSUME Typed, NEW p \in Periods, NEW q \in Periods, q # p, Quiet, Emit(p), Walk(q)
  PROVE  Walk(q)'
<1>1. /\ slotNext'[q] = slotNext[q] /\ last'[q] = last[q] /\ since'[q] = since[q]
      /\ ingest = "emit" /\ p \in harvest.todo
      /\ ingest' = (IF Left(p) = {} THEN harvest.then ELSE "emit")
      /\ harvest'.todo = Left(p) /\ harvest'.then = harvest.then
      /\ harvest'.shift = harvest.shift /\ harvest.then \in {"idle", "resync"}
      /\ UNCHANGED <<ring, minuteSamples, lastHarvest, slid>>
      /\ Base' = Base /\ Shift' = Shift /\ Drift' = Drift
  BY EmitSays
<1>2. q \in Left(p) <=> q \in harvest.todo
  BY DEF Left
<1>3. /\ Pending(q)' <=> Pending(q)
      /\ ingest' = "emit" /\ q \in harvest'.todo <=> q \in harvest.todo
  BY <1>1, <1>2 DEF Pending
<1>4. Edge(q)' = Edge(q) /\ Refs(q)' \subseteq Refs(q)
  BY <1>1, <1>3 DEF Edge, Refs
<1> QED
  BY <1>1, <1>3, <1>4, WalkSame

-----------------------------------------------------------------------------
(* The cursor stays on clean multiples of the period.                      *)
LEMMA CleanKept ==
  ASSUME Typed, Clean, [Next]_vars
  PROVE  Clean'
<1>a. ASSUME UNCHANGED slotNext
      PROVE  Clean'
  BY <1>a DEF Clean
<1>b. ASSUME ClearCursor
      PROVE  Clean'
  BY <1>b DEF Clean, ClearCursor
<1>1. ASSUME NEW p \in Periods, Emit(p)
      PROVE  Clean'
  <2>1. slotNext' = [slotNext EXCEPT ![p] = CursorAfter(p)] /\ slotNext \in [Periods -> IntOrNone]
    BY <1>1 DEF Emit, Typed, TypeOK, SlotsOK
  <2>2. /\ FirstSlot(p) \in Int /\ FirstSlot(p) % p = 0 /\ Ready(p) \in Int /\ p \in Nat \ {0}
    <3>1. SlotsOK /\ InHandOK /\ (slotNext[p] # None => slotNext[p] % p = 0)
      BY DEF Typed, TypeOK, Clean
    <3>2. Ready(p) \in Nat
      BY <3>1, WalkTypes
    <3> QED
      BY <3>1, <3>2, WalkTypes, Constants
  <2>3. CursorAfter(p) % p = 0
    <3>1. (FirstSlot(p) + Ready(p) * p) % p = 0
      BY <2>2, Multiples
    <3>2. FirstSlot(p) + Ready(p) * p = CursorAfter(p)
      BY <2>2 DEF CursorAfter
    <3> QED  BY <3>1, <3>2
  <2> QED
    BY <2>1, <2>3 DEF Clean
<1>2. CASE Sync
  BY <1>2, <1>a, SyncSays
<1>3. CASE HarvestRead
  BY <1>3, <1>a DEF HarvestRead
<1>4. CASE Restored \/ Resync \/ GuardCursor
  BY <1>4, <1>b DEF Restored, Resync, Reset, GuardCursor
<1>5. CASE \/ GuardFlags \/ GuardAnchor \/ GuardStrategy \/ GuardRing \/ SetSynced \/ SetAnchor
           \/ Write \/ Boundary \/ BoundaryRaises \/ Resume \/ WritePathHarvest
           \/ UNCHANGED vars
  BY <1>5, <1>a DEF GuardFlags, GuardAnchor, GuardStrategy, GuardRing, SetSynced, SetAnchor, Write,
     Boundary, BoundaryRaises, Resume, WritePathHarvest, vars
<1>6. ASSUME NEW n \in BatchSizes, Deliver(n)
      PROVE  Clean'
  BY <1>6, <1>a DEF Deliver
<1>7. ASSUME NEW d \in Slides, NEW seen \in BOOLEAN, Slide(d, seen)
      PROVE  Clean'
  BY <1>7, <1>a DEF Slide
<1>8. ASSUME NEW o \in Offsets, Authority(o)
      PROVE  Clean'
  BY <1>8, <1>a DEF Authority
<1>9. ASSUME NEW p \in Periods, EmitRaises(p)
      PROVE  Clean'
  BY <1>9, <1>a DEF EmitRaises
<1> QED
  BY <1>1, <1>2, <1>3, <1>4, <1>5, <1>6, <1>7, <1>8, <1>9 DEF Next, Ingest, Guard

(* Sums of terms that do not shrink.                                       *)
LEMMA SumGrows ==
  ASSUME NEW a \in Int, NEW b \in Int, NEW c \in Int, NEW d \in Int, NEW e \in Int,
         NEW f \in Int, a <= d, b = e, c <= f
  PROVE  a + b + c <= d + e + f
OBVIOUS

(* The UTC of the next sample, give or take the drift, never goes back.    *)
LEMMA UtcGoesOn ==
  ASSUME Typed, Typed', WithinLimits, [Next]_vars
  PROVE  Here + Shift + Drift <= Here' + Shift' + Drift'
<1>t. /\ Here \in Nat /\ next \in Nat /\ batch.first \in Nat /\ batch.size \in Nat
      /\ Shift \in Int /\ mapping \in Int /\ offset \in Int
      /\ events \in 0 .. MaxEvents /\ Drift \in Nat /\ Step \in Nat
      /\ ingest # "idle" => next = batch.first + batch.size
  BY PlaceTypes, Wandering DEF Shift
<1>e. ASSUME events' = events \/ events' = events + 1
      PROVE  Drift' \in Nat /\ Drift <= Drift'
  BY <1>e, <1>t, OneMoreEvent
<1>h. ASSUME ingest # "idle"
      PROVE  Here = batch.first /\ batch.first <= next
  BY <1>h, <1>t DEF Here
(* A step of the ingest thread goes on in its batch or leaves it.          *)
<1>i. ASSUME NEW s, Goto(s), ingest # "idle", next' = next, batch.first <= batch'.first,
             batch'.first \in Nat
      PROVE  Here + Shift + Drift <= Here' + Shift' + Drift'
  <2>1. Shift' = Shift /\ Drift' = Drift
    BY <1>i, <1>t, OneMoreEvent DEF Goto, Shift
  <2>2. Here <= Here' /\ Here' \in Nat
    <3>1. Here' = next \/ Here' = batch'.first
      BY <1>i DEF Here
    <3> QED  BY <1>h, <1>i, <1>t, <3>1
  <2>3. /\ Here \in Int /\ Shift \in Int /\ Drift \in Int
        /\ Here' \in Int /\ Shift' \in Int /\ Drift' \in Int
    BY <1>t, <2>1, <2>2
  <2>4. Shift = Shift' /\ Drift <= Drift' /\ Here <= Here'
    BY <2>1, <2>2, <2>3
  <2> QED  BY <2>3, <2>4, SumGrows
<1>j. ASSUME NEW s, Goto(s), ingest # "idle", next' = next, batch' = batch
      PROVE  Here + Shift + Drift <= Here' + Shift' + Drift'
  BY <1>i, <1>j, <1>t
<1>1. ASSUME NEW d \in Slides, NEW seen \in BOOLEAN, Slide(d, seen)
      PROVE  Here + Shift + Drift <= Here' + Shift' + Drift'
  <2>1. d \in Int /\ -d <= Step /\ Drift' = Drift + Step
    BY <1>1, <1>t, Constants, Wandering, OneMoreEvent DEF Slide
  <2>2. Here' = Here /\ Shift' = mapping + d + offset
    BY <1>1 DEF Slide, Here, Shift
  <2> QED
    BY <1>t, <2>1, <2>2 DEF Shift
<1>2. ASSUME NEW o \in Offsets, Authority(o)
      PROVE  Here + Shift + Drift <= Here' + Shift' + Drift'
  <2>1. o \in Int /\ offset - o <= Step /\ Drift' = Drift + Step
    <3>1. offset \in Offsets
      BY DEF Typed, TypeOK, RadiodOK
    <3> QED
      BY <1>2, <1>t, <3>1, Constants, Wandering, OneMoreEvent DEF Authority
  <2>2. Here' = Here /\ Shift' = mapping + o
    BY <1>2 DEF Authority, Here, Shift
  <2> QED
    BY <1>t, <2>1, <2>2 DEF Shift
<1>3. ASSUME Restored
      PROVE  Here + Shift + Drift <= Here' + Shift' + Drift'
  <2>1. /\ Here = next /\ Here' = RestartRtp /\ offset' = offset
        /\ mapping' = next + mapping + 1 - RestartRtp
    BY <1>3 DEF Restored, Here
  <2>2. Drift' \in Nat /\ Drift <= Drift' /\ RestartRtp \in Nat
    BY <1>3, <1>e, Constants DEF Restored
  <2>3. Here' + Shift' = Here + Shift + 1
    BY <1>t, <2>1, <2>2 DEF Shift
  <2>4. Here' + Shift' \in Int
    BY <1>t, <2>3
  <2> QED
    BY <1>t, <2>2, <2>3, <2>4
<1>4. CASE Guard \/ UNCHANGED vars
  <2>1. /\ UNCHANGED <<next, mapping, offset, batch, ingest>>
        /\ events' = events \/ events' = events + 1
    BY <1>4 DEF Guard, GuardFlags, GuardAnchor, GuardCursor, GuardStrategy, GuardRing, GuardStep,
       vars, radiod
  <2>2. Here' = Here /\ Shift' = Shift /\ Drift' \in Nat /\ Drift <= Drift'
    BY <1>e, <2>1 DEF Here, Shift
  <2>3. /\ Here \in Int /\ Shift \in Int /\ Drift \in Int
        /\ Here' \in Int /\ Shift' \in Int /\ Drift' \in Int
    BY <1>t, <2>2
  <2>4. Shift = Shift' /\ Drift <= Drift' /\ Here <= Here'
    BY <2>2, <2>3
  <2> QED  BY <2>3, <2>4, SumGrows
<1>5. ASSUME NEW n \in BatchSizes, Deliver(n)
      PROVE  Here + Shift + Drift <= Here' + Shift' + Drift'
  <2>1. /\ ingest = "idle" /\ ingest' # "idle" /\ batch' = [first |-> next, size |-> n]
        /\ UNCHANGED <<mapping, offset, events>>
    BY <1>5 DEF Deliver, Goto
  <2>2. Here' = Here /\ Shift' = Shift /\ Drift' \in Nat /\ Drift <= Drift'
    BY <1>e, <2>1 DEF Here, Shift
  <2>3. /\ Here \in Int /\ Shift \in Int /\ Drift \in Int
        /\ Here' \in Int /\ Shift' \in Int /\ Drift' \in Int
    BY <1>t, <2>2
  <2>4. Shift = Shift' /\ Drift <= Drift' /\ Here <= Here'
    BY <2>2, <2>3
  <2> QED  BY <2>3, <2>4, SumGrows
<1>6. CASE Sync
  <2>1. ingest # "idle" /\ next' = next /\ batch' = batch
    BY <1>6, SyncSays
  <2>2. Goto("decided") \/ Goto("idle")
    BY <1>6, SyncSays
  <2> QED  BY <1>j, <2>1, <2>2
<1>7. CASE SetAnchor
  <2>1. decision.skip \in Nat
    BY DEF Typed, TypeOK, InHandOK, Decisions
  <2>2. /\ ingest # "idle" /\ next' = next /\ Goto("write")
        /\ batch'.first = batch.first + decision.skip
    BY <1>7 DEF SetAnchor
  <2>3. batch.first <= batch'.first /\ batch'.first \in Nat
    BY <1>t, <2>1, <2>2
  <2> QED  BY <1>i, <2>2, <2>3
<1>8. CASE Write
  <2>1. PICK n \in Nat :
          /\ batch' = [first |-> batch.first + n, size |-> batch.size - n]
          /\ Goto(IF minuteSamples + n = SamplesPerMinute THEN "boundary"
                  ELSE IF batch.size > n THEN "write" ELSE "tail")
    BY <1>8, WriteSays
  <2>2. ingest # "idle" /\ next' = next
    BY <1>8 DEF Write
  <2>3. batch.first <= batch'.first /\ batch'.first \in Nat
    BY <1>t, <2>1
  <2> QED  BY <1>i, <2>1, <2>2, <2>3
<1>9. CASE SetSynced \/ BoundaryRaises
  <2>1. ingest # "idle" /\ next' = next /\ batch' = batch /\ (Goto("marked") \/ Goto("idle"))
    BY <1>9 DEF SetSynced, BoundaryRaises
  <2> QED  BY <1>j, <2>1
<1>10. CASE Boundary \/ Resync \/ Resume \/ WritePathHarvest
  <2>1. /\ ingest # "idle" /\ next' = next /\ batch' = batch
        /\ \E s \in IngestStates : Goto(s)
    BY <1>10 DEF Boundary, Resync, Resume, WritePathHarvest, IngestStates
  <2> QED  BY <1>j, <2>1
<1>11. CASE HarvestRead
  <2>1. /\ ingest # "idle" /\ next' = next /\ batch' = batch
        /\ Goto("emit") \/ Goto(harvest.then)
    BY <1>11 DEF HarvestRead
  <2>2. CASE Goto("emit")
    BY <1>j, <2>1, <2>2
  <2>3. CASE Goto(harvest.then)
    BY <1>j, <2>1, <2>3
  <2> QED  BY <2>1, <2>2, <2>3
<1>12. ASSUME NEW p \in Periods, Emit(p)
       PROVE  Here + Shift + Drift <= Here' + Shift' + Drift'
  <2>1. /\ ingest # "idle" /\ next' = next /\ batch' = batch
        /\ Goto(IF Left(p) = {} THEN harvest.then ELSE "emit")
    BY <1>12 DEF Emit
  <2> QED  BY <1>j, <2>1
<1>13. ASSUME NEW p \in Periods, EmitRaises(p)
       PROVE  Here + Shift + Drift <= Here' + Shift' + Drift'
  <2>1. ingest # "idle" /\ next' = next /\ batch' = batch /\ Goto("idle")
    BY <1>13 DEF EmitRaises
  <2> QED  BY <1>j, <2>1
<1> QED
  BY <1>1, <1>2, <1>3, <1>4, <1>5, <1>6, <1>7, <1>8, <1>9, <1>10, <1>11, <1>12, <1>13
  DEF Next, Ingest

(* All that is known between two steps.                                    *)
Inductive == Typed /\ Control /\ Place /\ Harvested /\ Cursor

(* A walk that no reset has overlapped finds all of it.                    *)
LEMMA AtEmit ==
  ASSUME Inductive, NEW p \in Periods, Emit(p), ~torn'
  PROVE  AtPeriod(p) /\ Quiet /\ Anchored
<1>1. ~torn /\ guard = "idle" /\ ingest = "emit" /\ p \in harvest.todo
  BY DEF Emit, Goto
<1>2. Quiet /\ Anchored
  BY <1>1 DEF Inductive, Control, Fresh, Quiet, Anchored
<1>3. Walk(p)
  BY <1>2 DEF Inductive, Cursor, Walked
<1> QED
  BY <1>1, <1>2, <1>3 DEF Inductive, Cursor, Control, AtPeriod

(* No step other than a walk and a reset touches the cursor.               *)
LEMMA Untouched ==
  ASSUME Typed, [Next]_vars
  PROVE  \/ UNCHANGED <<slotNext, last, since>> /\ (~torn' => ~torn)
         \/ UNCHANGED last /\ slotNext' = NoSlot /\ since' = NoSlot
         \/ UNCHANGED <<last, since>> /\ slotNext' = NoSlot /\ (~torn' => ~torn)
         \/ UNCHANGED <<last, slotNext>> /\ since' = NoSlot
         \/ \E p \in Periods : Emit(p)
<1>1. CASE Sync
  <2>1. UNCHANGED <<slotNext, last, since>> /\ (Goto("decided") \/ Goto("idle"))
    BY <1>1, SyncSays DEF history
  <2> QED  BY <2>1 DEF Goto
<1>2. CASE HarvestRead
  BY <1>2 DEF HarvestRead, Goto, history
<1>3. CASE Restored \/ Resync
  BY <1>3 DEF Restored, Resync, Reset, ClearCursor, NewRing, NoSlot
<1>4. CASE GuardCursor
  BY <1>4 DEF GuardCursor, GuardStep, ClearCursor, NoSlot
<1>5. CASE GuardRing
  BY <1>5 DEF GuardRing, GuardStep, NewRing, NoSlot
<1>6. CASE \/ GuardFlags \/ GuardAnchor \/ GuardStrategy \/ SetSynced \/ SetAnchor
           \/ Write \/ Boundary \/ BoundaryRaises \/ Resume \/ WritePathHarvest
           \/ UNCHANGED vars
  BY <1>6 DEF GuardFlags, GuardAnchor, GuardStrategy, GuardStep, SetSynced, SetAnchor, Write,
     Boundary, BoundaryRaises, Resume, WritePathHarvest, Goto, history, vars
<1>7. ASSUME NEW n \in BatchSizes, Deliver(n)
      PROVE  UNCHANGED <<slotNext, last, since>> /\ (~torn' => ~torn)
  BY <1>7 DEF Deliver, Goto, history
<1>8. ASSUME NEW d \in Slides, NEW seen \in BOOLEAN, Slide(d, seen)
      PROVE  UNCHANGED <<slotNext, last, since>> /\ (~torn' => ~torn)
  BY <1>8 DEF Slide, history
<1>9. ASSUME NEW o \in Offsets, Authority(o)
      PROVE  UNCHANGED <<slotNext, last, since>> /\ (~torn' => ~torn)
  BY <1>9 DEF Authority, history
<1>10. ASSUME NEW p \in Periods, EmitRaises(p)
       PROVE  UNCHANGED <<slotNext, last, since>> /\ (~torn' => ~torn)
  BY <1>10 DEF EmitRaises, Goto, history
<1> QED
  BY <1>1, <1>2, <1>3, <1>4, <1>5, <1>6, <1>7, <1>8, <1>9, <1>10 DEF Next, Ingest, Guard

(* The slots handed out are over.                                          *)
LEMMA PastSlotsKept ==
  ASSUME Inductive, WithinLimits, [Next]_vars, Typed'
  PROVE  PastSlots'
<1>1. /\ Here + Shift + Drift <= Here' + Shift' + Drift'
      /\ Here + Shift + Drift \in Int /\ Here' + Shift' + Drift' \in Int
  <2>1. Here + Shift + Drift <= Here' + Shift' + Drift'
    BY UtcGoesOn DEF Inductive
  <2>2. Here \in Int /\ Shift \in Int /\ Drift \in Int
    BY PlaceTypes, Wandering DEF Inductive, Shift
  <2>3. Here' \in Int /\ Shift' \in Int
    BY Constants DEF Typed, TypeOK, RadiodOK, InHandOK, Here, Shift
  <2>4. Drift' \in Int
    <3>1. Step \in Nat
      BY PlaceTypes, Wandering DEF Inductive
    <3>2. events' \in Nat
      BY Constants DEF Typed, TypeOK, RadiodOK
    <3> QED  BY <3>1, <3>2 DEF Drift
  <2>5. Here + Shift + Drift \in Int
    BY <2>2
  <2>6. Here' + Shift' + Drift' \in Int
    BY <2>3, <2>4
  <2> QED  BY <2>1, <2>5, <2>6
<1>2. ASSUME NEW p \in Periods, last'[p] = last[p], last'[p] # None
      PROVE  last'[p] + p <= Here' + Shift' + Drift'
  <2>1. last[p] + p <= Here + Shift + Drift /\ last[p] \in Int /\ p \in Nat
    BY <1>2, CursorTypes DEF Inductive, Cursor, PastSlots
  <2> QED
    BY <1>1, <1>2, <2>1
<1>3. ASSUME NEW p \in Periods, Emit(p)
      PROVE  PastSlots'
  <2>1. CASE torn'
    <3>1. last' = last \/ ~torn
      BY <1>3 DEF Emit
    <3>2. CASE last' = last
      BY <1>2, <3>2 DEF PastSlots
    <3>3. CASE ~torn
      <4>1. guard # "idle" /\ ingest = "emit"
        BY <1>3, <2>1, <3>3 DEF Emit, Goto
      <4> QED
        BY <3>3, <4>1 DEF Inductive, Control, ResetInOrder
    <3> QED  BY <3>1, <3>2, <3>3
  <2>2. CASE ~torn'
    <3>1. AtPeriod(p) /\ Quiet /\ Typed /\ NoHole
      BY <1>3, <2>2, AtEmit DEF Inductive, Cursor
    <3>2. last'[p] # None =>
            last'[p] + p <= Here' + Shift' + Drift' \/ last'[p] = last[p]
      BY <1>3, <3>1, WalkDone
    <3>3. \A q \in Periods : q # p => last'[q] = last[q]
      BY <1>3, <3>1, EmitSays
    <3> QED
      BY <1>2, <3>2, <3>3 DEF PastSlots
  <2> QED  BY <2>1, <2>2
<1>4. CASE UNCHANGED last
  BY <1>2, <1>4 DEF PastSlots
<1> QED
  BY <1>3, <1>4, Untouched DEF Inductive

(* The cursor follows the last slot handed out.                            *)
LEMMA NoHoleKept ==
  ASSUME Inductive, WithinLimits, [Next]_vars
  PROVE  NoHole'
<1>1. ASSUME NEW p \in Periods, Emit(p), ~torn'
      PROVE  NoHole'
  <2>1. AtPeriod(p) /\ Quiet /\ Typed /\ NoHole
    BY <1>1, AtEmit DEF Inductive, Cursor
  <2>2. since'[p] # None => since'[p] + p = slotNext'[p]
    BY <1>1, <2>1, WalkDone
  <2>3. \A q \in Periods : q # p => slotNext'[q] = slotNext[q] /\ since'[q] = since[q]
    BY <1>1, <2>1, EmitSays
  <2> QED
    BY <2>1, <2>2, <2>3 DEF NoHole, Quiet
<1>2. CASE torn'
  BY <1>2 DEF NoHole
<1>3. CASE UNCHANGED <<slotNext, since>> /\ (~torn' => ~torn)
  BY <1>3 DEF NoHole, Inductive, Cursor
<1>4. CASE slotNext' = NoSlot \/ since' = NoSlot
  BY <1>4 DEF NoHole, NoSlot
<1> QED
  BY <1>1, <1>2, <1>3, <1>4, Untouched DEF Inductive

(* Nothing taken away.                                                     *)
LEMMA MinusNothing ==
  ASSUME NEW a \in Int, NEW b \in Int, b = 0
  PROVE  a - b = a
OBVIOUS

(* A harvest walks on from where the last one stopped.                     *)
LEMMA WalkedKept ==
  ASSUME Inductive, WithinLimits, [Next]_vars, Typed', Control', Harvested'
  PROVE  Walked'
<1>0. /\ Typed /\ Walked /\ ResetInOrder /\ Fresh /\ Settled /\ Minutes /\ PastSlots
  BY DEF Inductive, Cursor, Control, Harvested
<1>t. /\ Here \in Nat /\ next \in Nat /\ batch.first \in Nat /\ batch.size \in Nat
      /\ Len(ring) \in Nat /\ Base \in Int
      /\ mapping \in Int /\ offset \in Int /\ events \in 0 .. MaxEvents
      /\ ingest # "idle" => next = batch.first + batch.size
      /\ Drift \in Nat /\ Step \in Nat
  BY <1>0, PlaceTypes, Wandering
<1>u. /\ minuteSamples \in Nat /\ SamplesPerMinute \in Nat \ {0}
      /\ harvest \in Harvests /\ ring \in Seq(Nat)
  BY <1>0, Constants DEF Typed, TypeOK, RingOK, InHandOK
<1>a. ASSUME Quiet, ingest \notin {"idle", "sync", "decided", "marked"}
      PROVE  Anchored /\ ~AnchorLost
  BY <1>0, <1>a DEF Fresh, Settled, AnchorLost
<1>b. ASSUME ~Quiet' \/ ~Anchored'
      PROVE  Walked'
  BY <1>b DEF Walked
<1>q. ASSUME NEW s, Goto(s), Quiet => Walked'
      PROVE  Walked'
  <2>1. CASE ~Quiet
    BY <1>b, <1>q, <2>1 DEF Goto, Quiet
  <2> QED  BY <1>q, <2>1
(* Steps that touch neither the cursor nor the anchor.                     *)
<1>w. ASSUME NEW s, Goto(s), Quiet, Anchored, UNCHANGED <<slotNext, last, since>>,
             Base' = Base,
             \A p \in Periods :
               /\ Edge(p)' = Edge(p) /\ Refs(p)' \subseteq Refs(p)
               /\ Pending(p)' \/ (~Pending(p) /\ lastHarvest' = lastHarvest /\ slid' = slid)
      PROVE  Walked'
  <2>1. Shift' = Shift /\ Drift' = Drift
    BY <1>w, <1>t, OneMoreEvent DEF Goto, Shift
  <2>2. ASSUME NEW p \in Periods
        PROVE  Walk(p)'
    <3>1. Walk(p)
      BY <1>0, <1>w DEF Walked
    <3> QED
      BY <1>w, <2>1, <3>1, WalkSame
  <2> QED
    BY <2>2 DEF Walked
<1>1. ASSUME NEW d \in Slides, NEW seen \in BOOLEAN, Slide(d, seen)
      PROVE  Walked'
  <2>1. d \in Int /\ d <= Step /\ -d <= Step
    BY <1>t, Constants, Wandering
  <2>2. /\ mapping' = mapping + d /\ offset' = offset /\ slid' /\ events' = events + 1
        /\ UNCHANGED <<next, batch, ring, ingest, synced, torn, guard, harvest, minuteSamples,
                       slotNext, last, since>>
    BY <1>1 DEF Slide, anchored, history
  <2>3. Shift' \in Int /\ Shift' - Shift <= Step /\ Shift - Shift' <= Step
    BY <1>t, <2>1, <2>2 DEF Shift
  <2>4. (Quiet' <=> Quiet) /\ (Anchored' <=> Anchored)
    BY <2>2 DEF Quiet, Anchored
  <2> QED
    BY <1>0, <2>2, <2>3, <2>4, WalkMoves DEF Walked
<1>2. ASSUME NEW o \in Offsets, Authority(o)
      PROVE  Walked'
  <2>1. /\ o \in Int /\ o - offset <= Step /\ offset - o <= Step
    <3>1. offset \in Offsets
      BY <1>0 DEF Typed, TypeOK, RadiodOK
    <3> QED
      BY <1>t, <3>1, Constants, Wandering
  <2>2. /\ mapping' = mapping /\ offset' = o /\ slid' /\ events' = events + 1
        /\ UNCHANGED <<next, batch, ring, ingest, synced, torn, guard, harvest, minuteSamples,
                       slotNext, last, since>>
    BY <1>2 DEF Authority, anchored, history
  <2>3. Shift' \in Int /\ Shift' - Shift <= Step /\ Shift - Shift' <= Step
    BY <1>t, <2>1, <2>2 DEF Shift
  <2>4. (Quiet' <=> Quiet) /\ (Anchored' <=> Anchored)
    BY <2>2 DEF Quiet, Anchored
  <2> QED
    BY <1>0, <2>2, <2>3, <2>4, WalkMoves DEF Walked
<1>3. ASSUME Restored
      PROVE  Walked'
  BY <1>3, <1>b DEF Restored, Reset, ClearFlags, Anchored
<1>4. ASSUME GuardFlags \/ GuardAnchor \/ GuardCursor \/ GuardStrategy
      PROVE  Walked'
  BY <1>4, <1>b DEF GuardFlags, GuardAnchor, GuardCursor, GuardStrategy, GuardStep, Quiet
<1>5. ASSUME GuardRing
      PROVE  Walked'
  <2>1. guard = "ring" /\ torn' = (torn \/ ingest # "idle") /\ synced' = synced
    BY <1>5 DEF GuardRing, GuardStep, anchored
  <2> QED
    BY <1>0, <1>b, <2>1 DEF ResetInOrder, Quiet, Anchored
<1>6. ASSUME Resync
      PROVE  Walked'
  BY <1>6, <1>b DEF Resync, Reset, ClearFlags, Anchored
<1>7. ASSUME NEW n \in BatchSizes, Deliver(n)
      PROVE  Walked'
  <2>1. /\ ingest = "idle" /\ Goto(IF synced THEN "write" ELSE "sync")
        /\ batch' = [first |-> next, size |-> n]
        /\ UNCHANGED <<ring, synced, lastHarvest, minuteSamples, slid, slotNext, last, since>>
    BY <1>7 DEF Deliver, anchored, history
  <2>2. ASSUME Quiet, synced
        PROVE  Walked'
    <3>1. Anchored /\ ingest' = "write" /\ Base' = Base
      BY <2>1, <2>2 DEF Anchored, Goto, Base, Here
    <3>2. \A p \in Periods :
            /\ Edge(p)' = Edge(p) /\ Refs(p)' \subseteq Refs(p)
            /\ ~Pending(p) /\ lastHarvest' = lastHarvest /\ slid' = slid
      BY <2>1, <3>1 DEF Edge, Refs, Pending, Goto, Shift
    <3> QED
      BY <1>w, <2>1, <2>2, <3>1, <3>2
  <2>3. ASSUME ~synced
        PROVE  Walked'
    BY <1>b, <2>1, <2>3 DEF Anchored
  <2> QED  BY <1>q, <2>1, <2>2, <2>3
<1>8. ASSUME Sync
      PROVE  Walked'
  <2>1. /\ ingest = "sync" /\ UNCHANGED synced
        /\ Goto("decided") \/ Goto("idle")
    BY <1>8, SyncSays DEF anchored
  <2>2. ASSUME Quiet
        PROVE  Walked'
    BY <1>0, <1>b, <2>1, <2>2 DEF Settled, Started, Anchored
  <2> QED  BY <1>q, <2>1, <2>2
<1>9. ASSUME SetSynced
      PROVE  Walked'
  BY <1>9, <1>b DEF SetSynced, Goto, Anchored
<1>10. ASSUME SetAnchor
       PROVE  Walked'
  <2>1. /\ ingest = "marked" /\ Goto("write") /\ ingest' = "write"
        /\ UNCHANGED <<ring, lastHarvest, minuteSamples, slotNext, last, since>>
    BY <1>10 DEF SetAnchor, Goto, history
  <2>2. ASSUME Quiet, NEW p \in Periods
        PROVE  Walk(p)'
    <3>1. /\ ring = <<>> /\ minuteSamples = 0 /\ lastHarvest = 0
          /\ slotNext = NoSlot /\ since = NoSlot
      BY <1>0, <2>1, <2>2 DEF Fresh, Anchored
    <3>2. slotNext'[p] = None /\ since'[p] = None /\ last'[p] = last[p]
      BY <2>1, <2>2, <3>1 DEF NoSlot
    <3>3. ~Pending(p)' /\ Refs(p)' = {Shift'} /\ Len(ring') = 0
      BY <2>1, <3>1 DEF Pending, Refs
    <3>4. Edge(p)' = 0
      BY <2>1, <3>1, <3>3 DEF Edge
    <3>5. Base' = Here' /\ Here' \in Int
      <4>1. Here' \in Nat
        BY DEF Typed, TypeOK, RadiodOK, InHandOK, Here
      <4>2. Base' = Here' - Len(ring')
        BY DEF Base
      <4>3. Here' \in Int
        BY <4>1
      <4>4. Len(ring') \in Int /\ Len(ring') = 0
        BY <3>3
      <4>5. Here' - Len(ring') = Here'
        BY <4>3, <4>4, MinusNothing
      <4> QED
        BY <4>2, <4>3, <4>5
    <3>6. Shift' = Shift /\ Drift' = Drift /\ Shift \in Int
      BY <2>1, <1>t, OneMoreEvent DEF Goto, Shift
    <3>7. Behind(p)' /\ Followed(p)'
      BY <3>2, <3>4 DEF Behind, Followed
    <3>8. Before(p)'
      <4>1. last'[p] # None => last'[p] + p <= Here' + Shift' + Drift'
        BY PastSlotsKept, <2>2 DEF PastSlots
      <4>2. Here' + Shift' + Drift' = Base' + Shift' + Drift'
        BY <3>5
      <4> QED
        BY <3>3, <4>1, <4>2 DEF Before
    <3>9. NotDue(p)'
      <4>1. /\ Base' + Shift' \in Int /\ p \in Nat \ {0}
        BY <1>0, <2>2, <3>5, <3>6, CursorTypes
      <4>2. CleanFrom(Base' + Shift', p) \in Int /\ Base' + Shift' <= CleanFrom(Base' + Shift', p)
        BY <4>1, CleanStart
      <4>3. NextSlot(p)' = CleanFrom(Base' + Shift', p)
        BY <3>2 DEF NextSlot, CleanFrom
      <4>4. 0 < NextSlot(p)' - (Base' + Shift') + p
        BY <4>1, <4>2, <4>3
      <4> QED
        BY <2>1, <3>1, <4>4 DEF NotDue
    <3> QED
      BY <3>7, <3>8, <3>9 DEF Walk
  <2> QED  BY <1>q, <2>1, <2>2 DEF Walked
<1>11. ASSUME Write
       PROVE  Walked'
  <2>1. PICK n \in Nat :
          /\ ingest = "write" /\ minuteSamples' = minuteSamples + n
          /\ ring' = ring \o Numbers(batch.first, n)
          /\ batch' = [first |-> batch.first + n, size |-> batch.size - n]
          /\ Goto(IF minuteSamples + n = SamplesPerMinute THEN "boundary"
                  ELSE IF batch.size > n THEN "write" ELSE "tail")
    BY <1>0, <1>11, WriteSays
  <2>2. UNCHANGED <<lastHarvest, slid, slotNext, last, since>>
    BY <1>11 DEF Write, anchored, history
  <2>3. ASSUME Quiet
        PROVE  Walked'
    <3>1. Anchored /\ ingest' \in {"boundary", "write", "tail"}
      BY <1>a, <2>1, <2>3 DEF Goto
    <3>2. Len(ring') = Len(ring) + n
      <4>1. PICK new \in Seq(Nat) : new = Numbers(batch.first, n) /\ Len(new) = n
        BY <1>t, NumbersWritten
      <4>2. Len(ring \o new) = Len(ring) + Len(new)
        BY <1>u
      <4> QED  BY <2>1, <4>1, <4>2
    <3>3. Here = batch.first /\ Here' = batch.first + n
      BY <2>1, <3>1 DEF Here
    <3>4. Base' = Base
      BY <1>t, <3>2, <3>3 DEF Base
    <3>5. ASSUME NEW p \in Periods
          PROVE  /\ Edge(p)' = Edge(p) /\ Refs(p)' \subseteq Refs(p) /\ ~Pending(p)
    <4>1. ~Pending(p) /\ ~Pending(p)'
        BY <2>1, <3>1 DEF Pending
      <4>2. Edge(p) = Len(ring) - minuteSamples /\ Edge(p)' = Len(ring') - minuteSamples'
        BY <1>t, <1>u, <2>1, <3>2, <4>1 DEF Edge
      <4>3. Refs(p)' = Refs(p)
        BY <2>1, <3>1 DEF Refs, Goto, Shift
      <4> QED
        BY <1>t, <1>u, <2>1, <3>2, <4>1, <4>2, <4>3
    <3> QED
      BY <1>w, <2>1, <2>2, <2>3, <3>1, <3>4, <3>5
  <2> QED  BY <1>q, <2>1, <2>3
<1>12. ASSUME Boundary
       PROVE  Walked'
  <2>1. /\ ingest = "boundary" /\ harvest' = [harvest EXCEPT !.then = "resync"]
        /\ UNCHANGED <<ring, batch, lastHarvest, slid, slotNext, last, since>>
        /\ (Goto("resync") /\ minuteSamples' = minuteSamples)
             \/ (Goto("harvest") /\ minuteSamples' = 0)
    BY <1>12 DEF Boundary, history
  <2>2. ASSUME Quiet
        PROVE  Walked'
    <3>1. Anchored /\ minuteSamples = SamplesPerMinute
      BY <1>0, <1>a, <2>1, <2>2 DEF Minutes
    <3>2. ingest' \in {"resync", "harvest"} /\ Base' = Base /\ harvest'.then = "resync"
      BY <1>u, <2>1 DEF Goto, Base, Here, Harvests
    <3>3. ASSUME NEW p \in Periods
          PROVE  /\ Edge(p)' = Edge(p) /\ Refs(p)' \subseteq Refs(p) /\ ~Pending(p)
      <4>1. ~Pending(p) /\ (Pending(p)' <=> ingest' = "harvest")
        BY <2>1, <3>2 DEF Pending
      <4>2. Edge(p) = Len(ring) - SamplesPerMinute
        BY <1>t, <1>u, <3>1, <4>1 DEF Edge
      <4>3. Edge(p)' = Len(ring) - SamplesPerMinute
        <5>1. CASE Goto("resync") /\ minuteSamples' = minuteSamples
          BY <1>t, <1>u, <2>1, <3>1, <4>1, <5>1 DEF Edge, Goto
        <5>2. CASE Goto("harvest") /\ minuteSamples' = 0
          BY <1>t, <1>u, <2>1, <3>2, <4>1, <5>2 DEF Edge, Goto
        <5> QED  BY <2>1, <5>1, <5>2
      <4>4. Refs(p)' \subseteq Refs(p)
        BY <2>1, <3>2 DEF Refs, Goto, Shift
      <4> QED
        BY <4>1, <4>2, <4>3, <4>4
    <3> QED
      BY <1>w, <2>1, <2>2, <3>1, <3>2, <3>3
  <2> QED  BY <1>q, <2>1, <2>2
<1>13. ASSUME BoundaryRaises
       PROVE  Walked'
  BY <1>13, <1>a, <1>q DEF BoundaryRaises
<1>14. ASSUME Resume
       PROVE  Walked'
  <2>1. /\ ingest = "resync"
        /\ Goto("write") \/ Goto("tail")
        /\ UNCHANGED <<ring, batch, lastHarvest, slid, slotNext, last, since, minuteSamples>>
    BY <1>14 DEF Resume, anchored, history
  <2>2. ASSUME Quiet
        PROVE  Walked'
    <3>1. Anchored /\ ingest' \in {"write", "tail"} /\ Base' = Base /\ Shift' = Shift
      BY <1>a, <2>1, <2>2 DEF Goto, Base, Here, Shift
    <3>2. \A p \in Periods :
            /\ Edge(p)' = Edge(p) /\ Refs(p)' \subseteq Refs(p) /\ ~Pending(p)
      BY <2>1, <3>1 DEF Edge, Refs, Pending
    <3> QED
      BY <1>w, <2>1, <2>2, <3>1, <3>2
  <2> QED  BY <1>q, <2>1, <2>2
<1>15. ASSUME WritePathHarvest
       PROVE  Walked'
  <2>1. /\ ingest = "tail" /\ UNCHANGED <<ring, batch, next, slid, slotNext, last, since, minuteSamples>>
        /\ lastHarvest' = IF HarvestDue THEN Len(ring) ELSE lastHarvest
        /\ harvest' = [harvest EXCEPT !.then = "idle"]
        /\ Goto(IF HarvestDue THEN "harvest" ELSE "idle")
    BY <1>15 DEF WritePathHarvest, history
  <2>2. ASSUME Quiet
        PROVE  Walked'
    <3>1. Anchored /\ harvest'.then = "idle" /\ next = batch.first
      <4>1. batch.size = 0
        BY <1>0, <2>1 DEF Typed, InStep
      <4> QED
        BY <1>a, <1>t, <1>u, <2>1, <2>2, <4>1, SMTT(30) DEF Harvests
    <3>2. Base' = Base /\ Shift' = Shift /\ ingest' = (IF HarvestDue THEN "harvest" ELSE "idle")
      BY <2>1, <3>1 DEF Base, Here, Goto, Shift
    <3>3. ASSUME NEW p \in Periods
          PROVE  /\ Edge(p)' = Edge(p) /\ Refs(p)' \subseteq Refs(p)
                 /\ Pending(p)' \/ (~Pending(p) /\ lastHarvest' = lastHarvest /\ slid' = slid)
      BY <2>1, <3>1, <3>2 DEF Edge, Refs, Pending
    <3> QED
      BY <1>w, <2>1, <2>2, <3>1, <3>2, <3>3
  <2> QED  BY <1>q, <2>1, <2>2
<1>16. ASSUME HarvestRead
       PROVE  Walked'
  <2>1. ingest = "harvest" /\ UNCHANGED <<batch, ring, minuteSamples, slotNext, last, since>>
    BY <1>16 DEF HarvestRead, history
  <2>2. CASE AnchorLost
    BY <1>16, <1>a, <1>q, <2>1, <2>2 DEF HarvestRead
  <2>3. CASE ~AnchorLost
    <3>1. /\ Goto("emit")
          /\ harvest' = [anchor |-> AnchorNow, leading |-> Len(ring), todo |-> Periods,
                         then |-> harvest.then, shift |-> mapping + offset]
      BY <1>16, <2>3 DEF HarvestRead
    <3>2. ASSUME Quiet
          PROVE  Walked'
      <4>1. Anchored /\ ingest' = "emit" /\ Base' = Base /\ Shift' = Shift
        BY <1>a, <2>1, <3>1, <3>2 DEF Goto, Base, Here, Shift
      <4>2. /\ harvest'.then = harvest.then /\ harvest'.shift = Shift /\ harvest'.todo = Periods
        BY <3>1 DEF Shift
      <4>3. ASSUME NEW p \in Periods
            PROVE  Edge(p)' = Edge(p) /\ Refs(p)' \subseteq Refs(p) /\ Pending(p)'
        BY <2>1, <4>1, <4>2 DEF Edge, Refs, Pending
      <4> QED
        BY <1>w, <2>1, <3>1, <3>2, <4>1, <4>3
    <3> QED  BY <1>q, <3>1, <3>2
  <2> QED  BY <2>2, <2>3
<1>17. ASSUME NEW p \in Periods, Emit(p)
       PROVE  Walked'
  <2>1. CASE torn'
    BY <1>b, <2>1 DEF Quiet
  <2>2. CASE ~torn'
    <3>1. AtPeriod(p) /\ Quiet /\ Anchored /\ NoHole
      BY <1>17, <2>2, AtEmit DEF Inductive, Cursor
    <3>2. Walk(p)'
      BY <1>17, <3>1, WalkDone
    <3>3. \A q \in Periods : q # p => Walk(q)'
      BY <1>0, <1>17, <3>1, WalkOther DEF Walked
    <3> QED
      BY <3>2, <3>3 DEF Walked
  <2> QED  BY <2>1, <2>2
<1>18. ASSUME NEW p \in Periods, EmitRaises(p)
       PROVE  Walked'
  BY <1>18, <1>a, <1>q DEF EmitRaises
<1>19. CASE UNCHANGED vars
  <2>1. UNCHANGED <<next, batch, ring, ingest, synced, torn, guard, harvest, minuteSamples,
                    lastHarvest, slid, mapping, offset, events, slotNext, last, since>>
    BY <1>19 DEF vars, radiod, anchored, history
  <2>2. /\ Base' = Base /\ (Quiet' <=> Quiet) /\ (Anchored' <=> Anchored)
        /\ Shift' = Shift /\ Drift' = Drift
    BY <1>t, <2>1, OneMoreEvent DEF Base, Here, Quiet, Anchored, Shift
  <2>3. ASSUME NEW p \in Periods, Walk(p)
        PROVE  Walk(p)'
    <3>1. Edge(p)' = Edge(p) /\ Refs(p)' = Refs(p) /\ (Pending(p)' <=> Pending(p))
      BY <2>1, <2>2 DEF Edge, Refs, Pending
    <3> QED
      BY <2>1, <2>2, <2>3, <3>1, WalkSame
  <2> QED
    BY <1>0, <2>2, <2>3 DEF Walked
<1> QED
  BY <1>1, <1>2, <1>3, <1>4, <1>5, <1>6, <1>7, <1>8, <1>9, <1>10, <1>11, <1>12, <1>13, <1>14,
     <1>15, <1>16, <1>17, <1>18, <1>19 DEF Next, Ingest, Guard

-----------------------------------------------------------------------------
(* The types hold initially.                                               *)
LEMMA TypedInit ==
  ASSUME Init
  PROVE  Typed
<1>1. RadiodOK
  BY Constants DEF Init, RadiodOK
<1>2. AnchorOK
  <2>1. 0 \in 0 .. DivAfter - 1 /\ 0 \in Nat
    BY Constants
  <2>2. None \in IntOrNone
    BY DEF IntOrNone
  <2> QED
    BY <2>1, <2>2 DEF Init, AnchorOK
<1>3. SlotsOK
  BY DEF Init, SlotsOK, IntOrNone
<1>4. RingOK
  BY Constants DEF Init, RingOK
<1>5. InHandOK
  <2>1. 0 \in 0 .. MaxSamples
    BY Constants
  <2>2. Uncorrelated \in Strategies
    BY DEF Uncorrelated, Strategies, IntOrNone
  <2>3. NoDecision \in Decisions
    BY <2>1 DEF NoDecision, Decisions, IntOrNone
  <2>4. NoHarvest \in Harvests
    BY DEF NoHarvest, Harvests
  <2>5. [first |-> 0, size |-> 0] \in [first : Nat, size : 0 .. MaxSamples]
    BY <2>1
  <2> QED
    BY <2>2, <2>3, <2>4, <2>5 DEF Init, InHandOK, IngestStates, GuardStates
<1>6. InStep
  BY DEF Init, InStep, Uncorrelated, NoHarvest
<1> QED
  BY <1>1, <1>2, <1>3, <1>4, <1>5, <1>6 DEF Typed, TypeOK

(* Every variable keeps its type, whatever the mapping does and however a  *)
(* guard's reset overlaps the ingest thread.                               *)
THEOREM BandTypeCorrect == Spec => []TypeOK
<1>1. Init => Typed
  BY TypedInit
<1>2. Typed /\ [Next]_vars => Typed'
  BY TypesKept
<1>3. Typed => TypeOK
  BY DEF Typed
<1> QED
  BY <1>1, <1>2, <1>3, PTL DEF Spec

(* The invariant holds initially ...                                       *)
LEMMA InductiveInit ==
  ASSUME Init, WithinLimits
  PROVE  Inductive
<1>1. Typed
  BY TypedInit
<1>2. Control
  BY DEF Init, Control, ResetInOrder, Fresh, Settled, Quiet, Anchored, NoSlot
<1>3. Place
  <2>1. Step \in Nat /\ events = 0 /\ offset = 0
    BY <1>1, PlaceTypes, Wandering DEF Init
  <2>2. OffsetSmall
    BY <2>1 DEF OffsetSmall, Close, Drift
  <2>3. Contiguous
    BY DEF Init, Contiguous
  <2> QED
    BY <2>2, <2>3 DEF Init, Place, Synchronising, Pinned, Anchored, Uncorrelated
<1>4. Harvested
  BY DEF Init, Harvested, Minutes, HarvestRight, Throttled, Anchored
<1>5. Cursor
  BY DEF Init, Cursor, Walked, Clean, PastSlots, NoHole, Anchored
<1> QED
  BY <1>1, <1>2, <1>3, <1>4, <1>5 DEF Inductive

(* ... and every step keeps it.                                            *)
LEMMA InductiveKept ==
  ASSUME Inductive, WithinLimits, [Next]_vars
  PROVE  Inductive'
<1>1. Typed /\ Control /\ Place /\ Harvested /\ Clean
  BY DEF Inductive, Cursor
<1>2. Typed'
  BY <1>1, TypesKept
<1>3. Control'
  BY <1>1, ControlKept
<1>4. Place'
  BY <1>1, <1>3, PlaceKept
<1>5. Harvested'
  BY <1>1, <1>2, <1>3, HarvestedKept
<1>6. Walked' /\ PastSlots' /\ NoHole' /\ Clean'
  BY <1>1, <1>2, <1>3, <1>5, WalkedKept, PastSlotsKept, NoHoleKept, CleanKept
<1> QED
  BY <1>2, <1>3, <1>4, <1>5, <1>6 DEF Inductive, Cursor

(* What links the ring, its anchor, the cursor and the slots handed out, at*)
(* every step: the invariant the properties follow from.                   *)
THEOREM BandInvariant == WithinLimits => (Spec => []Inductive)
<1>1. WithinLimits /\ Init => Inductive
  BY InductiveInit
<1>2. WithinLimits /\ Inductive /\ [Next]_vars => Inductive'
  BY InductiveKept
<1>3. WithinLimits => (Init /\ [][Next]_vars => []Inductive)
  <2> SUFFICES ASSUME WithinLimits
               PROVE  Init /\ [][Next]_vars => []Inductive
    OBVIOUS
  <2>1. Init => Inductive
    BY <1>1
  <2>2. Inductive /\ [Next]_vars => Inductive'
    BY <1>2
  <2> QED
    BY <2>1, <2>2, PTL
<1> QED
  BY <1>3 DEF Spec

(* Every slot a band recorder hands out holds the samples it says, without *)
(* a gap, starts on a clean multiple of its period by radiod's mapping and *)
(* carries its first sample's timestamp, as long as no reset of a guard    *)
(* overlaps the ingest thread and the mapping stays within the limits.     *)
THEOREM SlotsAreExact == WithinLimits => (Spec => SlotsExact)
<1>1. ASSUME Inductive, WithinLimits, NEW p \in Periods, Emit(p), ~torn'
      PROVE  \A r \in Dispatched(p) : Exact(r)
  BY <1>1, AtEmit, HandedOut
<1>2. WithinLimits /\ Inductive /\ [Next]_vars =>
        [\A p \in Periods : Emit(p) /\ ~torn' => \A r \in Dispatched(p) : Exact(r)]_vars
  BY <1>1
<1>3. WithinLimits => (Spec => SlotsExact)
  <2> SUFFICES ASSUME WithinLimits
               PROVE  Spec => SlotsExact
    OBVIOUS
  <2>1. Spec => []Inductive
    BY BandInvariant
  <2>2. Inductive /\ [Next]_vars =>
          [\A p \in Periods : Emit(p) /\ ~torn' => \A r \in Dispatched(p) : Exact(r)]_vars
    BY <1>2
  <2> QED
    BY <2>1, <2>2, PTL DEF Spec, SlotsExact
<1> QED
  BY <1>3

(* No slot is handed out twice, or after a later one of its period.        *)
THEOREM OrderKept == WithinLimits => (Spec => SlotsInOrder)
<1>1. ASSUME Inductive, WithinLimits, NEW p \in Periods, Emit(p), ~torn', last[p] # None,
             NEW r \in Dispatched(p)
      PROVE  r.wallclock > last[p]
  <2>1. AtPeriod(p) /\ NoHole /\ Typed
    BY <1>1, AtEmit DEF Inductive, Cursor
  <2>2. last[p] < FirstSlot(p)
    BY <1>1, <2>1, WalkSteps
  <2>3. FirstSlot(p) <= r.wallclock
    BY <1>1, <2>1, HandedOut
  <2>4. r.wallclock \in Int
    <3>1. PICK k \in 1 .. Ready(p) : r = Request(p, FirstSlot(p) + (k - 1) * p)
      BY <1>1, <2>1, HandedOut
    <3>2. FirstSlot(p) + (k - 1) * p \in Int
      <4>1. FirstSlot(p) \in Int
        BY WalkTypes, <2>1 DEF Typed, TypeOK
      <4>2. Ready(p) \in Nat
        BY <1>1, <2>1, WalkSteps
      <4>3. (k - 1) * p \in Int
        BY <2>1, <4>2, CursorTypes
      <4> QED  BY <4>1, <4>3
    <3> QED
      BY <3>1, <3>2 DEF Request
  <2>5. last[p] \in Int /\ FirstSlot(p) \in Int
    BY <1>1, <2>1, CursorTypes, WalkTypes DEF Typed, TypeOK
  <2> QED
    BY <2>2, <2>3, <2>4, <2>5
<1>2. WithinLimits => (Spec => SlotsInOrder)
  <2> SUFFICES ASSUME WithinLimits
               PROVE  Spec => SlotsInOrder
    OBVIOUS
  <2>1. Spec => []Inductive
    BY BandInvariant
  <2>2. Inductive /\ [Next]_vars =>
          [\A p \in Periods : Emit(p) /\ ~torn' /\ last[p] # None =>
             \A r \in Dispatched(p) : r.wallclock > last[p]]_vars
    BY <1>1
  <2> QED
    BY <2>1, <2>2, PTL DEF Spec, SlotsInOrder
<1> QED
  BY <1>2

(* Between two resets no slot is left out.                                 *)
THEOREM NoSlotSkipped == WithinLimits => (Spec => []NoHole)
<1>1. Inductive => NoHole
  BY DEF Inductive, Cursor
<1>2. WithinLimits => (Spec => []NoHole)
  <2> SUFFICES ASSUME WithinLimits
               PROVE  Spec => []NoHole
    OBVIOUS
  <2>1. Spec => []Inductive
    BY BandInvariant
  <2> QED
    BY <1>1, <2>1, PTL
<1> QED
  BY <1>2

(* A slot is handed out as soon as the throttle of the write path allows.  *)
THEOREM HandedOutPromptly == WithinLimits => (Spec => []Prompt)
<1>1. ASSUME Inductive, WithinLimits
      PROVE  Prompt
  <2> SUFFICES ASSUME ingest = "idle", synced, ~torn, ~slid, guard = "idle", NEW p \in Periods
               PROVE  LET nxt == IF slotNext[p] = None THEN CleanFrom(AnchorNow, p)
                                 ELSE slotNext[p]
                      IN  Len(ring) < (nxt - AnchorNow) + p + HarvestEvery - 1
    BY DEF Prompt
  <2>1. Quiet /\ Anchored /\ ~Pending(p)
    BY DEF Quiet, Anchored, Pending
  <2>2. AnchorNow = Base + Shift
    BY <1>1, <2>1, AnchorIs DEF Inductive, Control
  <2>3. lastHarvest < NextSlot(p) - (Base + Shift) + p
    BY <1>1, <2>1 DEF Inductive, Cursor, Walked, Walk, NotDue
  <2>4. Len(ring) - lastHarvest < HarvestEvery
    BY <1>1, <2>1 DEF Inductive, Harvested, Throttled
  <2>5. /\ Base \in Int /\ Shift \in Int /\ p \in Nat \ {0} /\ Len(ring) \in Nat
        /\ lastHarvest \in Nat /\ (slotNext[p] # None => slotNext[p] \in Int)
    BY <1>1, CursorTypes DEF Inductive
  <2>6. Base + Shift \in Int /\ HarvestEvery \in Nat \ {0}
    BY <2>5, Constants
  <2>7. NextSlot(p) \in Int
    BY <2>5, <2>6, CleanStart DEF NextSlot
  <2>8. Len(ring) < (NextSlot(p) - (Base + Shift)) + p + HarvestEvery - 1
    BY <2>3, <2>4, <2>5, <2>6, <2>7
  <2> QED
    BY <2>2, <2>8 DEF NextSlot
<1>2. WithinLimits => (Spec => []Prompt)
  <2> SUFFICES ASSUME WithinLimits
               PROVE  Spec => []Prompt
    OBVIOUS
  <2>1. Spec => []Inductive
    BY BandInvariant
  <2>2. Inductive => Prompt
    BY <1>1
  <2> QED
    BY <2>1, <2>2, PTL
<1> QED
  BY <1>2
=============================================================================
