--------------------------- MODULE UploaderProofs ---------------------------
(***************************************************************************)
(* Proofs about the wake and stop events of Uploader, for any receivers,   *)
(* cycles, faults and callsigns.                                           *)
(***************************************************************************)
EXTENDS Uploader, FiniteSetTheorems, TLAPS

(* The steps that leave the pump thread's wait and the events alone.       *)
Elsewhere ==
  \/ Backstop
  \/ \E p \in Pipelines : RetryDue(p)
  \/ \E c \in Calls : Rehabilitate(c)
  \/ UNCHANGED vars

LEMMA ElsewhereAlone ==
  Elsewhere => UNCHANGED <<pc, event, unheard, stopping, stopper>>
BY DEF Elsewhere, Backstop, RetryDue, Rehabilitate, vars, sink, marks, wakes, calls

(* The middle of a pump: the thread is awake before and after.             *)
Awake == {"loop", "tar", "net", "posting"}

LEMMA PumpingAwake ==
  Tar \/ Net \/ Posted \/ Raise =>
    /\ pc \in {"tar", "net", "posting"} /\ pc' \in Awake
    /\ UNCHANGED <<event, unheard, stopping, stopper>>
BY DEF Tar, Net, Posted, Raise, Awake, wakes

-----------------------------------------------------------------------------
(* A wake-up nobody heard yet is in the event, unless the thread is just   *)
(* between clearing it and its look at the sink, or gone.                  *)
WakeHeld == unheard => event \/ pc \in {"cleared", "ended"}

(* The thread never goes to sleep on a wake-up that came after its last    *)
(* look (hs_uploader_shim.py:490).                                         *)
THEOREM WakesKept == Spec => []NoWakeLost
<1>1. Init => WakeHeld
  BY DEF Init, WakeHeld
<1>2. WakeHeld /\ [Next]_vars => WakeHeld'
  <2> SUFFICES ASSUME WakeHeld, [Next]_vars
               PROVE  WakeHeld'
    OBVIOUS
  <2> USE DEF WakeHeld
  <2>1. ASSUME NEW r \in Receivers, Commit(r)
        PROVE  WakeHeld'
    BY <2>1 DEF Commit, Wake
  <2>2. CASE Listen
    BY <2>2 DEF Listen, Wake
  <2>3. CASE Start
    BY <2>3 DEF Start
  <2>4. CASE Loop \/ Woken \/ Poll \/ Clear
    BY <2>4 DEF Loop, Woken, Poll, PollOver, Clear, wakes
  <2>5. CASE Pump
    BY <2>5 DEF Pump
  <2>6. CASE Tar \/ Net \/ Posted \/ Raise
    BY <2>6, PumpingAwake
  <2>7. CASE Stop \/ StopWake \/ Joined
    BY <2>7 DEF Stop, StopWake, Joined, SetFlag
  <2>8. CASE Stopped \/ Crash
    BY <2>8 DEF Stopped, Crash, Exit
  <2>9. CASE Elsewhere
    BY <2>9, ElsewhereAlone
  <2> QED
    BY <2>1, <2>2, <2>3, <2>4, <2>5, <2>6, <2>7, <2>8, <2>9 DEF Next, Thread, Elsewhere
<1>3. WakeHeld => NoWakeLost
  BY DEF WakeHeld, NoWakeLost
<1> QED  BY <1>1, <1>2, <1>3, PTL DEF Spec

-----------------------------------------------------------------------------
(* stop() sets the flag before the event, so a thread that is asleep while *)
(* it joins has its event set, and one that clears it will see the flag.   *)
StopSeen ==
  /\ pc = "off" => stopper = "idle"
  /\ stopper # "idle" => stopping = TRUE
  /\ stopper \in {"joining", "closing"} /\ pc \in {"waiting", "woken"} => event

(* stop() does not wait out a polling interval (hs_uploader_shim.py:439).  *)
THEOREM StopPrompt == Spec => []StopNotSlept
<1>1. Init => StopSeen
  BY DEF Init, StopSeen
<1>2. StopSeen /\ [Next]_vars => StopSeen'
  <2> SUFFICES ASSUME StopSeen, [Next]_vars
               PROVE  StopSeen'
    OBVIOUS
  <2> USE DEF StopSeen
  <2>1. ASSUME NEW r \in Receivers, Commit(r)
        PROVE  StopSeen'
    BY <2>1 DEF Commit, Wake
  <2>2. CASE Listen
    BY <2>2 DEF Listen, Wake
  <2>3. CASE Start
    BY <2>3 DEF Start
  <2>4. CASE Loop
    BY <2>4 DEF Loop, wakes
  <2>5. CASE Woken \/ Poll \/ Clear
    BY <2>5 DEF Woken, Poll, PollOver, Clear, wakes
  <2>6. CASE Pump
    BY <2>6 DEF Pump
  <2>7. CASE Tar \/ Net \/ Posted \/ Raise
    BY <2>7, PumpingAwake DEF Awake
  <2>8. CASE Stop
    BY <2>8 DEF Stop, SetFlag, StopOrder
  <2>9. CASE StopWake
    BY <2>9 DEF StopWake, SetFlag, StopOrder
  <2>10. CASE Joined
    BY <2>10 DEF Joined
  <2>11. CASE Stopped \/ Crash
    BY <2>11 DEF Stopped, Crash, Exit
  <2>12. CASE Elsewhere
    BY <2>12, ElsewhereAlone
  <2> QED
    BY <2>1, <2>2, <2>3, <2>4, <2>5, <2>6, <2>7, <2>8, <2>9, <2>10, <2>11, <2>12
       DEF Next, Thread, Elsewhere
<1>3. StopSeen => StopNotSlept
  BY DEF StopSeen, StopNotSlept
<1> QED  BY <1>1, <1>2, <1>3, PTL DEF Spec

-----------------------------------------------------------------------------
RowLike(row) ==
  row = [rejected |-> row.rejected, accepted |-> row.accepted, first |-> row.first,
         suppressed |-> row.suppressed]

Pardoned(row) == row.accepted = 1 /\ row.suppressed = FALSE

(* A call vouched for has an acceptance on its row, and with that          *)
(* _maybe_suppress leaves it alone.                                        *)
Remembered ==
  /\ vouched \subseteq Rows(cache)
  /\ \A c \in Rows(cache) : RowLike(cache[c])
  /\ \A c \in vouched : Pardoned(cache[c])

(* What a batch that was added whole does to the cache: its calls have     *)
(* their acceptance on record, and nobody gets or loses a row.             *)
LEMMA AcceptedBatch ==
  ASSUME Remembered, NEW batch
  PROVE  LET after == BumpAccept(cache, batch)
         IN  /\ Rows(after) = Rows(cache)
             /\ \A d \in Rows(cache) : RowLike(after[d])
             /\ \A d \in vouched \cup (batch \cap Rows(cache)) : Pardoned(after[d])
<1> DEFINE after == BumpAccept(cache, batch)
<1>1. Rows(after) = Rows(cache)
  BY DEF BumpAccept, Rows
<1>2. \A d \in Rows(cache) \ batch : after[d] = cache[d]
  BY DEF BumpAccept
<1>3. ASSUME NEW d \in Rows(cache), d \in batch
      PROVE  RowLike(after[d]) /\ Pardoned(after[d])
  <2>1. after[d] = [cache[d] EXCEPT !.accepted = 1, !.suppressed = FALSE]
    BY <1>3 DEF BumpAccept
  <2>2. RowLike(cache[d])
    BY <1>3 DEF Remembered
  <2>3. after[d] = [rejected |-> cache[d].rejected, accepted |-> 1, first |-> cache[d].first,
                    suppressed |-> FALSE]
    BY <2>1, <2>2 DEF RowLike
  <2> QED
    BY <2>3 DEF RowLike, Pardoned
<1> HIDE DEF after
<1>4. \A d \in Rows(cache) : RowLike(after[d])
  <2> TAKE d \in Rows(cache)
  <2>1. CASE d \in batch
    BY <2>1, <1>3
  <2>2. CASE d \notin batch
    BY <2>2, <1>2 DEF Remembered
  <2> QED  BY <2>1, <2>2
<1>5. \A d \in batch \cap Rows(cache) : Pardoned(after[d])
  BY <1>3
<1>6. \A d \in vouched \ batch : Pardoned(after[d])
  BY <1>2 DEF Remembered
<1>7. \A d \in vouched \cup (batch \cap Rows(cache)) : Pardoned(after[d])
  BY <1>5, <1>6 DEF Remembered
<1> QED  BY <1>1, <1>4, <1>7 DEF after

(* What a batch with a rejection does: its calls get a row if they had     *)
(* none, and one with an acceptance on record is not suppressed.           *)
LEMMA RejectedBatch ==
  ASSUME Remembered, NEW batch, NEW now
  PROVE  LET after == MaybeSuppress(BumpReject(cache, batch, now), batch, now)
         IN  /\ Rows(after) = Rows(cache) \cup batch
             /\ \A d \in Rows(after) : RowLike(after[d])
             /\ \A d \in vouched : Pardoned(after[d])
<1> DEFINE row(d) == IF d \in Rows(cache) THEN cache[d] ELSE Entry(now)
           n(d)   == UpTo(Threshold, row(d).rejected + 1)
           bumped == BumpReject(cache, batch, now)
           after  == MaybeSuppress(bumped, batch, now)
<1>1. Rows(bumped) = Rows(cache) \cup batch /\ Rows(after) = Rows(bumped)
  BY DEF BumpReject, MaybeSuppress, Rows
<1>2. ASSUME NEW d \in Rows(bumped)
      PROVE  /\ bumped[d] = IF d \in batch THEN [row(d) EXCEPT !.rejected = n(d)] ELSE row(d)
             /\ after[d] = IF d \in batch /\ Due(bumped[d], now)
                           THEN [bumped[d] EXCEPT !.suppressed = TRUE] ELSE bumped[d]
  <2>1. bumped[d] = IF d \in batch THEN [row(d) EXCEPT !.rejected = n(d)] ELSE row(d)
    BY <1>1, <1>2 DEF BumpReject
  <2>2. after[d] = IF d \in batch /\ Due(bumped[d], now)
                   THEN [bumped[d] EXCEPT !.suppressed = TRUE] ELSE bumped[d]
    BY <1>1, <1>2 DEF MaybeSuppress
  <2> QED  BY <2>1, <2>2
<1>3. \A d \in Rows(bumped) : RowLike(row(d))
  BY DEF Remembered, RowLike, Entry
<1>4. \A d \in vouched : d \in Rows(bumped) /\ row(d) = cache[d] /\ Pardoned(row(d))
  BY <1>1 DEF Remembered
<1> HIDE DEF row, n, bumped, after
<1>5. ASSUME NEW d \in Rows(bumped)
      PROVE  /\ RowLike(bumped[d])
             /\ bumped[d].accepted = row(d).accepted
             /\ bumped[d].suppressed = row(d).suppressed
  BY <1>2, <1>3, <1>5 DEF RowLike
<1>6. \A d \in Rows(after) : RowLike(after[d])
  BY <1>1, <1>2, <1>5 DEF RowLike
<1>7. ASSUME NEW d \in vouched PROVE Pardoned(after[d])
  <2>1. bumped[d].accepted = 1 /\ bumped[d].suppressed = FALSE
    BY <1>4, <1>5, <1>7 DEF Pardoned
  <2>2. ~Due(bumped[d], now)
    BY <2>1 DEF Due
  <2>3. after[d] = bumped[d]
    BY <2>2, <1>2, <1>4, <1>7
  <2> QED
    BY <2>1, <2>3 DEF Pardoned
<1> QED  BY <1>1, <1>6, <1>7 DEF after, bumped

(* The cases of update_reject_cache, for a batch of any size.              *)
LEMMA OutcomeRemembered ==
  ASSUME Remembered, NEW batch, NEW good, Outcome(batch, good)
  PROVE  Remembered'
<1> DEFINE now    == Largest(Commits)
           posted == Cardinality(batch)
           added  == Cardinality(good)
           raised == MaybeSuppress(BumpReject(cache, batch, now), batch, now)
           failed == posted > 1 /\ added = 0
<1>1. cache' = CASE added = posted -> BumpAccept(cache, batch)
                 [] failed         -> cache
                 [] OTHER          -> raised
  BY DEF Outcome, Update
<1>2. vouched' = IF good = batch THEN vouched \cup (batch \cap Rows(cache')) ELSE vouched
  BY DEF Outcome
<1>3. good = batch => added = posted
  OBVIOUS
<1>4. added = posted => ~failed
  OBVIOUS
<1> HIDE DEF now, posted, added, failed
<1>5. CASE added = posted
  <2> DEFINE after == BumpAccept(cache, batch)
  <2>1. cache' = after
    BY <1>1, <1>4, <1>5
  <2>2. /\ Rows(after) = Rows(cache)
        /\ \A d \in Rows(cache) : RowLike(after[d])
        /\ \A d \in vouched \cup (batch \cap Rows(cache)) : Pardoned(after[d])
    BY AcceptedBatch
  <2> HIDE DEF after
  <2>3. vouched' \subseteq vouched \cup (batch \cap Rows(cache))
    BY <1>2, <2>1, <2>2
  <2>4. vouched' \subseteq Rows(cache')
    BY <2>1, <2>2, <2>3 DEF Remembered
  <2>5. \A d \in Rows(cache') : RowLike(cache'[d])
    BY <2>1, <2>2
  <2>6. \A d \in vouched' : Pardoned(cache'[d])
    BY <2>1, <2>2, <2>3
  <2> QED
    BY <2>4, <2>5, <2>6 DEF Remembered, RowLike, Rows, Pardoned
<1>6. CASE failed
  <2>1. cache' = cache /\ vouched' = vouched
    BY <1>1, <1>2, <1>3, <1>4, <1>6
  <2> QED
    BY <2>1 DEF Remembered
<1>7. CASE added # posted /\ ~failed
  <2>1. cache' = raised /\ vouched' = vouched
    BY <1>1, <1>2, <1>3, <1>7
  <2>2. /\ Rows(raised) = Rows(cache) \cup batch
        /\ \A d \in Rows(raised) : RowLike(raised[d])
        /\ \A d \in vouched : Pardoned(raised[d])
    BY RejectedBatch
  <2> HIDE DEF raised
  <2>3. vouched' \subseteq Rows(cache')
    BY <2>1, <2>2 DEF Remembered
  <2>4. \A d \in Rows(cache') : RowLike(cache'[d])
    BY <2>1, <2>2
  <2>5. \A d \in vouched' : Pardoned(cache'[d])
    BY <2>1, <2>2
  <2> QED
    BY <2>3, <2>4, <2>5 DEF Remembered, RowLike, Rows, Pardoned
<1> QED  BY <1>5, <1>6, <1>7

LEMMA RehabilitateRemembered ==
  ASSUME Remembered, NEW c \in Calls, Rehabilitate(c)
  PROVE  Remembered'
<1>1. c \in Rows(cache) /\ cache[c].suppressed /\ vouched' = vouched
  BY DEF Rehabilitate, SuppressedCalls
<1>2. c \notin vouched
  BY <1>1 DEF Remembered, Pardoned
<1>3. cache' = [[cache EXCEPT ![c].suppressed = FALSE] EXCEPT ![c].rejected = 0]
  BY DEF Rehabilitate, Rehabilitated
<1>4. Rows(cache') = Rows(cache) /\ \A d \in Rows(cache) \ {c} : cache'[d] = cache[d]
  BY <1>3 DEF Rows
<1>5. cache'[c] = [[cache[c] EXCEPT !.suppressed = FALSE] EXCEPT !.rejected = 0]
  BY <1>1, <1>3 DEF Rows
<1>6. RowLike(cache'[c])
  BY <1>1, <1>5 DEF Remembered, RowLike
<1> QED  BY <1>1, <1>2, <1>4, <1>6 DEF Remembered

(* A callsign of a batch that wsprnet.org added whole, once the call has a *)
(* row, is not suppressed (wsprnet_audit.py:207), however often it shares  *)
(* a partly added batch and however often it is rehabilitated: for any     *)
(* calls, threshold and time span, and for batches of any size.            *)
THEOREM AcceptedNotSuppressed == Spec => []WholeBatchRemembered
<1>1. Init => Remembered
  BY DEF Init, Remembered, Rows
<1>2. Remembered /\ [Next]_vars => Remembered'
  <2> SUFFICES ASSUME Remembered, [Next]_vars
               PROVE  Remembered'
    OBVIOUS
  <2>1. CASE UNCHANGED calls
    BY <2>1 DEF calls, Remembered
  <2>2. CASE Posted
    BY <2>1, <2>2, OutcomeRemembered DEF Posted
  <2>3. ASSUME NEW c \in Calls, Rehabilitate(c)
        PROVE  Remembered'
    BY <2>3, RehabilitateRemembered
  <2> QED
    BY <2>1, <2>2, <2>3
       DEF Next, Thread, Commit, Backstop, Listen, Start, Loop, Woken, Clear, Pump, Tar, Net,
           Poll, Raise, RetryDue, Stop, StopWake, Joined, Stopped, Crash, Exit, vars
<1>3. Remembered => WholeBatchRemembered
  BY DEF Remembered, Pardoned, WholeBatchRemembered, SuppressedCalls
<1> QED  BY <1>1, <1>2, <1>3, PTL DEF Spec
=============================================================================
