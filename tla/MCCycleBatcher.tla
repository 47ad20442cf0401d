--------------------------- MODULE MCCycleBatcher ---------------------------
(* Small instances of CycleBatcher: two cycles that start at 00:00 and     *)
(* 00:02, receivers A and B, a 20 m band that decodes W2 and an 80 m band  *)
(* that decodes W2 and F5.  An F5 slot that starts at 00:00 has the same   *)
(* cycle key as the W2 slot of its band and ends three minutes later.      *)
EXTENDS CycleBatcher

MCEpoch == [c \in Cycles |-> IF c = "0000" THEN 0 ELSE 120]

W2Only == [b \in Bands |-> {120}]
W2F5   == [b \in Bands |-> IF b = "80" THEN {120, 300} ELSE {120}]

W2Slot(c, r, b) == [cycle |-> c, rx |-> r, band |-> b, period |-> 120]
F5Slot(r)       == [cycle |-> "0000", rx |-> r, band |-> "80", period |-> 300]

(* One receiver, both bands, one cycle, with an F5 slot.                   *)
LongJobs == {W2Slot("0000", "A", b) : b \in Bands} \cup {F5Slot("A")}

(* One receiver, both bands, one cycle.                                    *)
SingleJobs == {W2Slot("0000", "A", b) : b \in Bands}

(* F5 slots, which measure no noise, and on 80 m an F15 slot that starts   *)
(* together with the F5 slot: two slots of one band on one key.            *)
F5Only == [b \in Bands |-> {300}]
F5F15  == [b \in Bands |-> IF b = "80" THEN {300, 900} ELSE {300}]
SingleF5Jobs == {[cycle |-> "0000", rx |-> "A", band |-> b, period |-> 300] : b \in Bands}
DoubledJobs  == SingleF5Jobs \cup {[cycle |-> "0000", rx |-> "A", band |-> "80", period |-> 900]}

(* Two receivers, one slot each.                                           *)
PairJobs == {W2Slot("0000", r, "80") : r \in Rxs}

(* The recorder once start-up is over: every band provisioned, the wake    *)
(* callback registered, no slot decoded yet.                               *)
StartedInit ==
  /\ jobPc = [j \in Jobs |-> "queued"]
  /\ handed = {}
  /\ unproducible = [r \in Rxs |-> {}]
  /\ batch = EmptyHand
  /\ collected = [k \in Keys |-> {}]
  /\ pc = [t \in Threads |-> IF t = Writer THEN "check" ELSE "up"]
  /\ hand = [t \in Threads |-> EmptyHand]
  /\ flushing = [t \in Threads |-> {}]
  /\ inserted = [t \in Threads |-> FALSE]
  /\ waitLeft = 0 /\ joinLeft = 0
  /\ notified = FALSE /\ stop = FALSE /\ callback = TRUE
  /\ committedRx = [c \in Cycles |-> {}]
  /\ tracked = {}
  /\ crossLeft = [c \in Cycles |-> 0]
  /\ wakeFired = {} /\ crossFires = {}
  /\ timers = [c \in Cycles |-> 0] /\ woken = [c \in Cycles |-> 0]
  /\ sinkOpen = TRUE
  /\ buffer = {} /\ durable = {} /\ dropped = {}
  /\ failed = {} /\ overrun = {}

StartedSpec == StartedInit /\ [][Next]_vars /\ Fairness
=============================================================================
