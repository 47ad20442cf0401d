------------------------------ MODULE HostSlot ------------------------------
(***************************************************************************)
(* The host-wide decode semaphore (host_slot.py): every recorder process   *)
(* of a host takes one of NSlots byte-range locks of a shared file before  *)
(* it materialises the slice of an F15 or F30 decode.                      *)
(*                                                                         *)
(* The locks are POSIX record locks, which belong to the process:  lockf   *)
(* succeeds on a byte that a thread of the same process already locked,    *)
(* LOCK_UN by one thread unlocks the byte for the whole process, closing   *)
(* any descriptor of the file drops all the locks the process has on it,   *)
(* and the kernel drops them when the process dies.                        *)
(*                                                                         *)
(* One lock file is modelled: F15 and F30 use two that do not interact.    *)
(***************************************************************************)
EXTENDS Integers

CONSTANTS
  Procs,        (* the recorder processes of the host                      *)
  LongThreads,  (* pool threads of a process that may run a long decode    *)
  NSlots,       (* F30_SLOTS or F15_SLOTS                                  *)
  MaxPolls,     (* how often a thread polls in vain before TimeoutError    *)
  Nobody        (* the owner of a byte that is not locked                  *)

ASSUME SlotsAssumption ==
  /\ NSlots \in Nat \ {0}
  /\ MaxPolls \in Nat
  /\ Nobody \notin Procs

VARIABLES
  up,      (* the processes that are running                              *)
  owner,   (* the kernel's lock table of the file                         *)
  at,      (* where each thread is in host_wide_slot                      *)
  cand,    (* candidate of its scan, and the slot it took                 *)
  polls,   (* polls left until the thread's deadline                      *)
  alone    (* history: since a thread was admitted no other thread of its *)
           (* process has left host_wide_slot                             *)

slotVars == <<up, owner, at, cand, polls, alone>>

Slots  == 0 .. NSlots - 1
SlotStates == {"idle", "scan", "sleep", "held", "release", "close"}

SlotTypeOK ==
  /\ up \subseteq Procs
  /\ owner \in [Slots -> Procs \cup {Nobody}]
  /\ at \in [Procs -> [LongThreads -> SlotStates]]
  /\ cand \in [Procs -> [LongThreads -> 0 .. NSlots]]
  /\ polls \in [Procs -> [LongThreads -> 0 .. MaxPolls]]
  /\ alone \in [Procs -> [LongThreads -> BOOLEAN]]

SlotInit ==
  /\ up = Procs
  /\ owner = [s \in Slots |-> Nobody]
  /\ at = [p \in Procs |-> [t \in LongThreads |-> "idle"]]
  /\ cand = [p \in Procs |-> [t \in LongThreads |-> 0]]
  /\ polls = [p \in Procs |-> [t \in LongThreads |-> 0]]
  /\ alone = [p \in Procs |-> [t \in LongThreads |-> FALSE]]

Goto(p, t, s) == at' = [at EXCEPT ![p][t] = s]

-----------------------------------------------------------------------------
(* A long decode reaches a pool thread: open the file, set the deadline.   *)
Enter(p, t) ==
  /\ p \in up /\ at[p][t] = "idle"
  /\ polls' = [polls EXCEPT ![p][t] = MaxPolls]
  /\ Goto(p, t, "scan")
  /\ UNCHANGED <<up, owner, cand, alone>>

IgnoringOthers(p, s) == TRUE

(* lockf(LOCK_EX | LOCK_NB) on one byte.                                   *)
CanLock(p, s) == owner[s] \in {Nobody, p}

(* Whoever is admitted does not look at its deadline again.                *)
TryLock(p, t) ==
  /\ at[p][t] = "scan" /\ cand[p][t] < NSlots
  /\ IF CanLock(p, cand[p][t])
     THEN /\ owner' = [owner EXCEPT ![cand[p][t]] = p]
          /\ polls' = [polls EXCEPT ![p][t] = 0]
          /\ Goto(p, t, "held")
          /\ alone' = [alone EXCEPT ![p][t] = TRUE]
          /\ UNCHANGED cand
     ELSE /\ cand' = [cand EXCEPT ![p][t] = @ + 1]
          /\ UNCHANGED <<owner, at, polls, alone>>
  /\ UNCHANGED up

AllBusyUncounted(p, t) ==
  /\ at[p][t] = "scan" /\ cand[p][t] = NSlots
  /\ Goto(p, t, "sleep")
  /\ UNCHANGED <<up, owner, cand, polls, alone>>

AllBusyPatient(p, t) ==
  /\ at[p][t] = "scan" /\ cand[p][t] = NSlots
  /\ Goto(p, t, "sleep")
  /\ polls' = [polls EXCEPT ![p][t] = @ - 1]
  /\ UNCHANGED <<up, owner, cand, alone>>

(* Every slot is busy: TimeoutError past the deadline, else sleep 0.5 s.   *)
AllBusy(p, t) ==
  /\ at[p][t] = "scan" /\ cand[p][t] = NSlots
  /\ IF polls[p][t] = 0
     THEN Goto(p, t, "close") /\ UNCHANGED polls
     ELSE Goto(p, t, "sleep") /\ polls' = [polls EXCEPT ![p][t] = @ - 1]
  /\ UNCHANGED <<up, owner, cand, alone>>

Awake(p, t) ==
  /\ at[p][t] = "sleep"
  /\ cand' = [cand EXCEPT ![p][t] = 0]
  /\ Goto(p, t, "scan")
  /\ UNCHANGED <<up, owner, polls, alone>>

(* The decode returns, raises, or finds its slice evicted.                 *)
Finish(p, t) ==
  /\ at[p][t] = "held"
  /\ Goto(p, t, "release")
  /\ UNCHANGED <<up, owner, cand, polls, alone>>

(* LOCK_UN, then the close, which frees whatever else the process locked.  *)
NothingUnlocked(p, s) == owner
Unlocked(p, s) == IF owner[s] = p THEN [owner EXCEPT ![s] = Nobody] ELSE owner

LocksDropped(p) == [s \in Slots |-> IF owner[s] = p THEN Nobody ELSE owner[s]]

Leave(p) == alone' = [alone EXCEPT ![p] = [t \in LongThreads |-> FALSE]]

Release(p, t) ==
  /\ at[p][t] = "release"
  /\ owner' = Unlocked(p, cand[p][t])
  /\ Goto(p, t, "close")
  /\ Leave(p)
  /\ UNCHANGED <<up, cand, polls>>

Close(p, t) ==
  /\ at[p][t] = "close"
  /\ owner' = LocksDropped(p)
  /\ Goto(p, t, "idle")
  /\ cand' = [cand EXCEPT ![p][t] = 0]
  /\ polls' = [polls EXCEPT ![p][t] = 0]
  /\ Leave(p)
  /\ UNCHANGED up

(* A process dies between any two steps; systemd starts it again.          *)
Crash(p) ==
  /\ p \in up
  /\ up' = up \ {p}
  /\ owner' = LocksDropped(p)
  /\ at' = [at EXCEPT ![p] = [t \in LongThreads |-> "idle"]]
  /\ cand' = [cand EXCEPT ![p] = [t \in LongThreads |-> 0]]
  /\ polls' = [polls EXCEPT ![p] = [t \in LongThreads |-> 0]]
  /\ Leave(p)

Restart(p) ==
  /\ p \notin up
  /\ up' = up \cup {p}
  /\ UNCHANGED <<owner, at, cand, polls, alone>>

Step(p, t) ==
  \/ TryLock(p, t) \/ AllBusy(p, t) \/ Awake(p, t)
  \/ Finish(p, t) \/ Release(p, t) \/ Close(p, t)

SlotNext ==
  \/ \E p \in Procs, t \in LongThreads : Enter(p, t) \/ Step(p, t)
  \/ \E p \in Procs : Crash(p) \/ Restart(p)

SlotSpec == SlotInit /\ [][SlotNext]_slotVars

(* Threads run and decodes end (wsprd and jt9 have a subprocess timeout);  *)
(* nothing says that a decode arrives, or that a process crashes.          *)
SlotFairSpec == SlotSpec /\ \A p \in Procs, t \in LongThreads : WF_slotVars(Step(p, t))

-----------------------------------------------------------------------------
Decoding(p, t) == at[p][t] \in {"held", "release"}

(* Two processes hold a long slice on one slot only if another long decode *)
(* of one of them has ended meanwhile: nothing else, no time-out, crash or *)
(* restart of whomever, takes a slot from a decode.  A process with one    *)
(* long decode at a time therefore never shares its slot.                  *)
SharedWith(p, t, q, u) ==
  p # q /\ Decoding(p, t) /\ Decoding(q, u) /\ cand[p][t] = cand[q][u]

SlotSharedForCause ==
  \A p, q \in Procs : \A t, u \in LongThreads :
    SharedWith(p, t, q, u) => ~alone[p][t] \/ ~alone[q][u]

(* "Only ONE process per slot holds the copy at a time across the host"    *)
(* (__main__.py:456).  Does not hold with two long decodes in a process.   *)
OneProcessPerSlot ==
  \A p, q \in Procs : \A t, u \in LongThreads : ~SharedWith(p, t, q, u)

(* The lock table and the threads agree: a decode that was admitted holds  *)
(* its lock until it or another one of its process leaves, whoever else    *)
(* gave up or crashed meanwhile, and no lock outlives the decodes it was   *)
(* taken for.                                                              *)
LockTableAgrees ==
  /\ \A p \in Procs, t \in LongThreads :
       Decoding(p, t) /\ alone[p][t] => owner[cand[p][t]] = p
  /\ \A s \in Slots : owner[s] # Nobody =>
       \E t \in LongThreads : Decoding(owner[s], t) /\ cand[owner[s]][t] = s

(* A thread that asks for a slot stops asking: it decodes, gives up after  *)
(* its polls, or its process dies.                                         *)
NobodyWaitsForever ==
  \A p \in Procs, t \in LongThreads : at[p][t] = "scan" ~> at[p][t] \in {"held", "idle"}
=============================================================================
