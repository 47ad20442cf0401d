---------------------------- MODULE RejectCache ----------------------------
(***************************************************************************)
(* The negative cache of wsprnet_audit.py: what one batch outcome does to  *)
(* the counts kept for each callsign, and when a callsign is suppressed.   *)
(* A cache maps the callsigns that have a row to their rows.               *)
(***************************************************************************)
EXTENDS Naturals, FiniteSets

CONSTANTS
  Calls,
  Threshold,   (* SUPPRESS_REJECT_THRESHOLD                                *)
  Span         (* SUPPRESS_TIME_SPAN_SECONDS                               *)

ASSUME CacheAssumption == Threshold \in Nat \ {0} /\ Span \in Nat

Entry(now) == [rejected |-> 0, accepted |-> 0, first |-> now, suppressed |-> FALSE]

Rows(cache) == DOMAIN cache

(* Counts stop mattering at the threshold, and one acceptance is as good   *)
(* as many.                                                                *)
UpTo(limit, n) == IF n < limit THEN n ELSE limit

(* _bump_accept: rows that exist, no new ones.                             *)
BumpAccept(cache, calls) ==
  [c \in Rows(cache) |->
     IF c \in calls THEN [cache[c] EXCEPT !.accepted = 1, !.suppressed = FALSE] ELSE cache[c]]

(* _bump_reject: an upsert.                                                *)
BumpReject(cache, calls, now) ==
  [c \in Rows(cache) \cup calls |->
     LET row == IF c \in Rows(cache) THEN cache[c] ELSE Entry(now)
     IN  IF c \in calls THEN [row EXCEPT !.rejected = UpTo(Threshold, @ + 1)] ELSE row]

(* _maybe_suppress, right after the last rejection.                        *)
DueForgiving(row, now) == row.rejected >= Threshold /\ now - row.first >= Span
Due(row, now) == row.rejected >= Threshold /\ row.accepted = 0 /\ now - row.first >= Span

MaybeSuppress(cache, calls, now) ==
  [c \in Rows(cache) |->
     IF c \in calls /\ Due(cache[c], now) THEN [cache[c] EXCEPT !.suppressed = TRUE] ELSE cache[c]]

(* update_reject_cache.  A batch of several of which none was added counts *)
(* as trouble on the way; of a part it is not known which.                 *)
Update(cache, calls, posted, added, now) ==
  CASE added = posted          -> BumpAccept(cache, calls)
    [] posted > 1 /\ added = 0 -> cache
    [] OTHER                   -> MaybeSuppress(BumpReject(cache, calls, now), calls, now)

(* rehabilitate: the row keeps its first rejection and its acceptances.    *)
Rehabilitated(cache, c) ==
  [cache EXCEPT ![c].suppressed = FALSE, ![c].rejected = 0]

(* get_suppressed_calls, what the next hash table is written without.      *)
SuppressedCalls(cache) == {c \in Rows(cache) : cache[c].suppressed}
=============================================================================
