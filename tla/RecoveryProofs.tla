--------------------------- MODULE RecoveryProofs ---------------------------
(***************************************************************************)
(* Proofs about what brings a recorder back, for any constants: the slots  *)
(* of one source and the check that counts them (ReceiverManager), and the *)
(* life of the process under systemd (RecorderProcess), for any timeouts   *)
(* that leave room for a start.                                            *)
(***************************************************************************)
EXTENDS ReceiverManager, RecorderProcess, FiniteSetTheorems, TLAPS

-----------------------------------------------------------------------------
(* A slot is a record whose SSRC, and the one its sink closed over, carry  *)
(* its band.                                                               *)
Shaped(x) ==
  /\ x = [group |-> x.group, ssrc |-> <<x.ssrc[1], x.ssrc[2]>>, sink |-> x.sink]
  /\ x.sink[1] = x.ssrc[1]

SlotInv ==
  /\ OneSlotPerBand
  /\ \A x \in slots : Shaped(x)
  /\ channels \subseteq Ssrcs

(* What prune_frequency leaves has no slot of the band.                    *)
LEMMA ProvisionKeepsOne ==
  ASSUME SlotInv, Provision
  PROVE  SlotInv'
<1> USE DEF SlotInv, OneSlotPerBand
<1> DEFINE b == Head(job.todo)
<1>1. PICK s \in Ssrcs :
        LET old  == Superseded(s)
            gone == {slot.ssrc : slot \in old}
            same == {slot \in slots : slot.ssrc = s}
        IN  /\ s[1] = b
            /\ slots' = (slots \ (old \cup same))
                          \cup {[group |-> GroupOf[s[2]], ssrc |-> s, sink |-> s]}
            /\ channels' = (channels \cup {s}) \ gone
  BY DEF Provision
<1> DEFINE new == [group |-> GroupOf[s[2]], ssrc |-> s, sink |-> s]
           kept == {x \in slots : x.ssrc[1] # b}
<1>2. s[1] = b /\ s = <<s[1], s[2]>>
  BY <1>1 DEF Ssrcs
<1>3. \A x \in slots : x \notin Superseded(s) /\ x.ssrc # s => x \in kept
  BY <1>2 DEF Superseded
<1>4. slots' \subseteq kept \cup {new}
  BY <1>1, <1>3
<1>5. new.ssrc[1] = b /\ Shaped(new)
  BY <1>2 DEF Shaped
<1>6. channels' \subseteq Ssrcs
  BY <1>1
<1> HIDE DEF new, b
<1>7. OneSlotPerBand'
  BY <1>4, <1>5
<1>8. \A x \in slots' : Shaped(x)
  BY <1>4, <1>5
<1> QED  BY <1>6, <1>7, <1>8

(* A restored slot keeps its band, and its sink the SSRC it was made for.  *)
LEMMA RestoreKeepsOne ==
  ASSUME SlotInv, NEW slot \in slots, Restore(slot)
  PROVE  SlotInv'
<1> USE DEF SlotInv, OneSlotPerBand
<1>1. PICK g \in Gens :
        slots' = (slots \ {slot}) \cup {[slot EXCEPT !.ssrc = <<slot.ssrc[1], g>>]}
  BY DEF Restore
<1> DEFINE s == <<slot.ssrc[1], g>>
           new == [slot EXCEPT !.ssrc = s]
<1>2. new = [group |-> slot.group, ssrc |-> s, sink |-> slot.sink]
  BY DEF Shaped
<1>3. new.ssrc[1] = slot.ssrc[1] /\ Shaped(new)
  BY <1>2 DEF Shaped
<1>4. slots' = (slots \ {slot}) \cup {new}
  BY <1>1
<1>5. channels' = channels
  BY DEF Restore
<1> HIDE DEF new
<1>6. OneSlotPerBand'
  BY <1>3, <1>4
<1>7. \A x \in slots' : Shaped(x)
  BY <1>3, <1>4
<1> QED  BY <1>5, <1>6, <1>7

LEMMA SlotInvInit == Init => SlotInv
BY DEF Init, SlotInv, OneSlotPerBand

LEMMA SlotInvStep == ASSUME SlotInv, [Next]_vars PROVE SlotInv'
<1>1. CASE Provision
  BY <1>1, ProvisionKeepsOne
<1>2. ASSUME NEW slot \in slots, Restore(slot)
      PROVE  SlotInv'
  BY <1>2, RestoreKeepsOne
<1>3. CASE slots' = {} /\ channels' = {}
  BY <1>3 DEF SlotInv, OneSlotPerBand
<1>4. CASE slots' = slots /\ channels' \subseteq Ssrcs
  BY <1>4 DEF SlotInv, OneSlotPerBand
<1>5. CASE SinkFails
  BY <1>4, <1>5 DEF SinkFails, SlotInv
<1>6. CASE ResetStop \/ StartUp \/ Shutdown
  BY <1>3, <1>4, <1>6 DEF ResetStop, StartUp, Shutdown, Dropped, SlotInv
<1>7. CASE \/ Crash \/ ComeBack \/ \E s \in Ssrcs : Revert(s)
           \/ Open \/ SkipAboveNyquist \/ ControlGone \/ EnsureFails
           \/ Verify \/ VerifyFails \/ StartStreams
           \/ Check \/ Awaited \/ Abandoned \/ UNCHANGED vars
  <2>1. slots' = slots /\ channels' = channels
    BY <1>7
       DEF Crash, ComeBack, Revert, Open, SkipAboveNyquist, ControlGone, EnsureFails,
           Verify, VerifyFails, StartStreams, Check, CheckHealthy, CheckDegraded,
           CheckNeverProvisioned, Awaited, Abandoned, vars, manager, book
  <2> QED
    BY <1>4, <2>1 DEF SlotInv
<1> QED
  BY <1>1, <1>2, <1>5, <1>6, <1>7 DEF Next, Recovery

(* However often a band is provisioned again and its slot restored under   *)
(* another SSRC, one slot holds its ring (receiver_manager.py:571).        *)
THEOREM SingleSlots == Spec => []OneSlotPerBand
<1>1. SlotInv /\ [Next]_vars => SlotInv'
  BY SlotInvStep
<1>2. SlotInv => OneSlotPerBand
  BY DEF SlotInv
<1> QED  BY <1>1, <1>2, SlotInvInit, PTL DEF Spec

LEMMA BandsFinite == IsFiniteSet(Bands)
<1>1. Frequencies \in Seq(Bands)
  BY ConstantsAssumption
<1>2. DOMAIN Frequencies = 1 .. Len(Frequencies) /\ Len(Frequencies) \in Nat
  BY <1>1
<1>3. IsFiniteSet(1 .. Len(Frequencies))
  BY <1>2, FS_Interval
<1>4. Frequencies \in Surjection(DOMAIN Frequencies, Bands)
  BY <1>1, <1>2 DEF Surjection, Bands, Range
<1> QED  BY <1>2, <1>3, <1>4, FS_Surjection

(* No band is counted twice: an active channel has a slot of its own, and  *)
(* the bands of the slots differ.  So as many active channels as there are *)
(* bands to be had are all of them.                                        *)
LEMMA CountedRight ==
  ASSUME SlotInv
  PROVE  HealthyMeansActive
<1> SUFFICES ASSUME rate = radiod.rate, Healthy PROVE \A b \in Total : Active(b)
  BY DEF HealthyMeansActive, Total
<1> DEFINE act == {s \in channels : IsActive(s)}
           band == [s \in act |-> s[1]]
<1>1. ASSUME NEW s \in act
      PROVE  /\ s[1] \in Total
             /\ \E x \in slots : x.sink = s /\ x.ssrc[1] = s[1]
  <2>1. PICK x \in slots : x.sink = s /\ Delivers(x)
    BY DEF IsActive
  <2>2. x.ssrc[1] = s[1] /\ s[1] \in Bands
    BY <2>1 DEF SlotInv, Shaped, Ssrcs
  <2>3. Producible(s[1], rate)
    BY <2>1, <2>2 DEF Delivers
  <2> QED
    BY <2>1, <2>2, <2>3 DEF Total
<1>2. ASSUME NEW s \in act, NEW t \in act, s[1] = t[1]
      PROVE  s = t
  <2>1. PICK x \in slots : x.sink = s /\ x.ssrc[1] = s[1]
    BY <1>1
  <2>2. PICK y \in slots : y.sink = t /\ y.ssrc[1] = t[1]
    BY <1>1
  <2> QED
    BY <1>2, <2>1, <2>2 DEF SlotInv, OneSlotPerBand
<1> HIDE DEF act
<1>3. band \in Injection(act, Total)
  BY <1>1, <1>2 DEF Injection, IsInjective
<1>4. IsFiniteSet(Total)
  BY BandsFinite, FS_Subset DEF Total
<1>5. Cardinality(act) = Cardinality(Total)
  BY DEF Healthy, act
<1>6. band \in Surjection(act, Total)
  BY <1>3, <1>4, <1>5, FS_Injection
<1> USE DEF act
<1> QED
  BY <1>6 DEF Surjection, Active

(* The check is not fooled: when it counts as many active channels as the  *)
(* source should have, every band the front end can produce is among them  *)
(* (__main__.py, _health_check_loop), for any bands, SSRCs and faults.     *)
THEOREM CheckNotFooled == Spec => []HealthyMeansActive
<1>1. SlotInv /\ [Next]_vars => SlotInv'
  BY SlotInvStep
<1>2. SlotInv => HealthyMeansActive
  BY CountedRight
<1> QED  BY <1>1, <1>2, SlotInvInit, PTL DEF Spec
-----------------------------------------------------------------------------
(* What the assumptions on the constants say, one by one.                  *)
LEMMA Numbers ==
  /\ WatchdogSec \in Nat \ {0} /\ TimeoutStart \in Nat \ {0} /\ TimeoutStop \in Nat \ {0}
  /\ ExtendBy \in Nat \ {0} /\ FeedEvery \in Nat \ {0} /\ PetEvery \in Nat \ {0}
  /\ StallSec \in Nat \ {0} /\ GraceSec \in Nat \ {0} /\ SettleTimeout \in Nat \ {0}
  /\ SettleReadings \in Nat \ {0} /\ MaxStart \in Nat /\ MaxDrain \in Nat /\ MaxJolts \in Nat
  /\ ExtendBy <= TimeoutStart /\ Off \notin Nat /\ Off \notin {"start", "watchdog", "stop"}
  /\ DryMax \in Nat /\ WatchdogSec <= DryMax
BY ProcessAssumption DEF DryMax

LEMMA Delays ==
  Len(RetryDelays) \in Nat \ {0} /\ \A i \in 1 .. Len(RetryDelays) : RetryDelays[i] \in Nat
BY ProcessAssumption

(* How far a step may move each timer.                                     *)
LEMMA Moves ==
  ASSUME [ProcessNext]_processVars
  PROVE  /\ busy' \in {busy, Less(busy), 0, MaxStart, MaxDrain}
         /\ startLeft' \in {startLeft, Less(startLeft), 0, ExtendBy, TimeoutStart}
         /\ dogLeft' \in {dogLeft, Less(dogLeft), 0, WatchdogSec}
         /\ stopLeft' \in {stopLeft, Less(stopLeft), TimeoutStop}
         /\ feedIn' \in {feedIn, Less(feedIn), 0, FeedEvery, Off}
         /\ petIn' \in {petIn, Less(petIn), PetEvery, Off}
         /\ retryIn' \in {retryIn, Less(retryIn), 0, Delay}
         /\ dry' \in {dry, 0, Cap(dry + 1, DryMax)}
         /\ \/ attempt' = 0 \/ attempt' = attempt
            \/ (attempt < Len(RetryDelays) /\ attempt' = attempt + 1)
<1> USE DEF ProcessNext, Own, Run, Feed, ChronyGate, Settled, Connected, ConnectFailed,
     GuardPets, RetryConnect, Started, Watch, Stop, Replaced, Flow, SystemctlStop, SelfRestart,
     processVars, Exit, Unconfigured, Kill, Boot, Gone, Tick
<1>1. busy' \in {busy, Less(busy), 0, MaxStart, MaxDrain}
  BY DEF LessIf
<1>2. startLeft' \in {startLeft, Less(startLeft), 0, ExtendBy, TimeoutStart}
  BY DEF LessIf, Ready, Pet, Extended, systemd
<1>3. dogLeft' \in {dogLeft, Less(dogLeft), 0, WatchdogSec}
  BY DEF LessIf, Ready, Pet, systemd
<1>4. stopLeft' \in {stopLeft, Less(stopLeft), TimeoutStop}
  BY DEF LessIf, Ready, Pet, systemd
<1>5. feedIn' \in {feedIn, Less(feedIn), 0, FeedEvery, Off}
  BY DEF startup
<1>6. petIn' \in {petIn, Less(petIn), PetEvery, Off}
  BY DEF startup
<1>7. retryIn' \in {retryIn, Less(retryIn), 0, Delay}
  BY DEF LessIf, startup
<1>8. dry' \in {dry, 0, Cap(dry + 1, DryMax)}
  BY DEF samples
<1>9. attempt' = 0 \/ attempt' = attempt \/ (attempt < Len(RetryDelays) /\ attempt' = attempt + 1)
  BY DEF startup
<1> QED  BY <1>1, <1>2, <1>3, <1>4, <1>5, <1>6, <1>7, <1>8, <1>9

LEMMA PhaseStep == ASSUME PhaseOK, [ProcessNext]_processVars PROVE PhaseOK'
<1>1. proc' \in Alive \cup {"down"}
  BY DEF PhaseOK, Alive, ProcessNext, Own, Run, Feed, ChronyGate, Settled, Connected,
       ConnectFailed, GuardPets, RetryConnect, Started, Watch, Stop, Replaced, Flow,
       SystemctlStop, SelfRestart, processVars, Exit, Unconfigured, Kill, Boot, Gone, Tick
<1>2. unit' \in {"activating", "active", "stopping", "inactive"}
  BY DEF PhaseOK, Ready, Pet, systemd, ProcessNext, Own, Run, Feed, ChronyGate, Settled,
       Connected, ConnectFailed, GuardPets, RetryConnect, Started, Watch, Stop, Replaced, Flow,
       SystemctlStop, SelfRestart, processVars, Exit, Unconfigured, Kill, Boot, Gone, Tick
<1>3. busy' \in Nat
  <2>1. busy' \in {busy, Less(busy), 0, MaxStart, MaxDrain}
    BY Moves
  <2> QED
    BY <2>1, Numbers DEF PhaseOK, Less
<1>4. requested' \in BOOLEAN
  BY DEF PhaseOK, ProcessNext, Own, Run, Feed, ChronyGate, Settled, Connected, ConnectFailed,
       GuardPets, RetryConnect, Started, Watch, Stop, Replaced, Flow, SystemctlStop,
       SelfRestart, processVars, Exit, Unconfigured, Kill, Boot, Gone, Tick
<1> QED  BY <1>1, <1>2, <1>3, <1>4 DEF PhaseOK

LEMMA TimersStep == ASSUME TimersOK, [ProcessNext]_processVars PROVE TimersOK'
<1>1. /\ startLeft' \in {startLeft, Less(startLeft), 0, ExtendBy, TimeoutStart}
      /\ dogLeft' \in {dogLeft, Less(dogLeft), 0, WatchdogSec}
      /\ stopLeft' \in {stopLeft, Less(stopLeft), TimeoutStop}
  BY Moves
<1>2. /\ feedIn' \in {feedIn, Less(feedIn), 0, FeedEvery, Off}
      /\ petIn' \in {petIn, Less(petIn), PetEvery, Off}
  BY Moves
<1>3. retryIn' \in {retryIn, Less(retryIn), 0, Delay}
  BY Moves
<1>4. attempt' = 0 \/ attempt' = attempt \/ (attempt < Len(RetryDelays) /\ attempt' = attempt + 1)
  BY Moves
<1>5. startLeft' \in 0 .. TimeoutStart
  BY <1>1, Numbers DEF TimersOK, Less
<1>6. dogLeft' \in 0 .. WatchdogSec
  BY <1>1, Numbers DEF TimersOK, Less
<1>7. stopLeft' \in 0 .. TimeoutStop
  BY <1>1, Numbers DEF TimersOK, Less
<1>8. feedIn' \in 0 .. FeedEvery \cup {Off}
  BY <1>2, Numbers DEF TimersOK, Less
<1>9. petIn' \in 0 .. PetEvery \cup {Off}
  BY <1>2, Numbers DEF TimersOK, Less
<1>10. retryIn' \in Nat
  BY <1>3, Numbers, Delays DEF TimersOK, Less, Delay
<1>11. attempt' \in 0 .. Len(RetryDelays)
  BY <1>4, Delays DEF TimersOK
<1> QED  BY <1>5, <1>6, <1>7, <1>8, <1>9, <1>10, <1>11 DEF TimersOK

LEMMA SamplesStep == ASSUME SamplesOK, [ProcessNext]_processVars PROVE SamplesOK'
<1>1. flowing' \in BOOLEAN
  BY DEF SamplesOK, ProcessNext, Own, Run, Feed, ChronyGate, Connected, ConnectFailed,
       GuardPets, RetryConnect, Started, Watch, Stop, Replaced, Flow, SystemctlStop,
       SelfRestart, processVars, Exit, Unconfigured, Kill, Boot, Gone, Tick, samples
<1>2. dry' \in {dry, 0, Cap(dry + 1, DryMax)}
  BY Moves
<1>3. dry' \in 0 .. DryMax
  BY <1>2, Numbers DEF SamplesOK, Cap
<1>4. jolts' \in 0 .. MaxJolts
  <2>1. CASE Watch
    <3>1. jolts' = jolts \/ (jolts < MaxJolts /\ jolts' = jolts + 1)
      BY <2>1 DEF Watch
    <3> QED
      BY <3>1, Numbers DEF SamplesOK
  <2>2. CASE Replaced
    <3>1. jolts < MaxJolts /\ jolts' = jolts + 1
      BY <2>2 DEF Replaced
    <3> QED
      BY <3>1, Numbers DEF SamplesOK
  <2>3. CASE UNCHANGED jolts
    BY <2>3 DEF SamplesOK
  <2> QED
    BY <2>1, <2>2, <2>3
     DEF ProcessNext, Own, Run, Feed, ChronyGate, Connected, ConnectFailed, GuardPets, RetryConnect,
         Started, Stop, Flow, SystemctlStop, SelfRestart, processVars, Exit, Unconfigured, Kill, Boot,
         Gone, Tick, samples
<1> QED  BY <1>1, <1>3, <1>4 DEF SamplesOK

LEMMA ChronyStep == ASSUME ChronyOK, [ProcessNext]_processVars PROVE ChronyOK'
<1>a. /\ chrony.left \in 0 .. SettleTimeout
      /\ chrony.good \in 0 .. SettleReadings - 1 /\ chrony.latched \in BOOLEAN
  BY DEF ChronyOK
<1>1. ASSUME NEW b \in BOOLEAN, chrony' = [left |-> SettleTimeout, good |-> 0, latched |-> b]
      PROVE  ChronyOK'
  BY <1>1, Numbers DEF ChronyOK
<1>2. CASE chrony' = [chrony EXCEPT !.good = @ + 1] /\ chrony.good + 1 # SettleReadings
  BY <1>2, <1>a, Numbers DEF ChronyOK
<1>3. CASE chrony' = [chrony EXCEPT !.good = 0]
  BY <1>3, Numbers DEF ChronyOK
<1>4. CASE Tick
  <2>1. chrony' = [chrony EXCEPT !.left = LessIf(proc = "settling", @)]
    BY <1>4 DEF Tick
  <2>2. LessIf(proc = "settling", chrony.left) \in 0 .. SettleTimeout
    BY <1>a, Numbers DEF LessIf, Less
  <2> QED
    BY <2>1, <2>2 DEF ChronyOK
<1>5. CASE UNCHANGED chrony
  BY <1>5 DEF ChronyOK
<1>6. CASE ChronyGate
  <2>1. \/ chrony' = [left |-> SettleTimeout, good |-> 0, latched |-> TRUE]
        \/ chrony' = [left |-> SettleTimeout, good |-> 0, latched |-> FALSE]
        \/ chrony' = [chrony EXCEPT !.good = @ + 1] /\ chrony.good + 1 # SettleReadings
        \/ chrony' = [chrony EXCEPT !.good = 0]
    BY <1>6 DEF ChronyGate, Settled
  <2> QED
    BY <2>1, <1>1, <1>2, <1>3
<1>7. CASE Exit \/ Unconfigured \/ Kill
  <2>1. chrony' = [left |-> SettleTimeout, good |-> 0, latched |-> FALSE]
    BY <1>7 DEF Exit, Unconfigured, Kill, Gone
  <2> QED
    BY <2>1, <1>1
<1> QED
  BY <1>4, <1>5, <1>6, <1>7
     DEF ProcessNext, Own, Run, Feed, Connected, ConnectFailed, GuardPets, RetryConnect, Started, Watch,
         Stop, Boot, Replaced, Flow, SystemctlStop, SelfRestart, processVars, startup

LEMMA GateStep == ASSUME GateOK, [ProcessNext]_processVars PROVE GateOK'
<1> USE DEF Gates
<1>a. gate.quiet \in 0 .. StallSec + 1 /\ gate.age \in 0 .. GraceSec + 1 \cup {Off}
  BY DEF GateOK
<1>b. NotYet \in Gates
  BY Numbers DEF NotYet
<1>c. [NotYet EXCEPT !.age = 0] \in Gates
  <2>1. 0 \in 0 .. GraceSec + 1
    BY Numbers
  <2> QED
    BY <1>b, <2>1
<1>1. gate' \in Gates
  <2>1. CASE Watch
    <3>1. Advanced(gate) \in Gates
      <4>1. 0 \in 0 .. StallSec + 1
        BY Numbers
      <4>2. CASE gate.age = Off
        BY <1>c, <4>2 DEF Advanced
      <4>3. CASE gate.age # Off /\ ~moved
        BY <4>3 DEF Advanced, GateOK
      <4>4. CASE gate.age # Off /\ moved
        BY <4>1, <4>4 DEF Advanced, GateOK
      <4> QED
        BY <4>2, <4>3, <4>4
    <3>2. CASE gate' = Advanced(gate)
      BY <3>1, <3>2
    <3>3. CASE gate' = [gate EXCEPT !.age = 0]
      BY <3>3, Numbers DEF GateOK
    <3> QED
      BY <2>1, <3>2, <3>3 DEF Watch, GateOK
  <2>2. CASE Tick
    <3>1. CASE gate' = gate
      BY <3>1 DEF GateOK
    <3>2. CASE /\ gate' = [gate EXCEPT !.quiet = Cap(@ + 1, StallSec + 1),
                                        !.age = Cap(@ + 1, GraceSec + 1)]
               /\ gate.age # Off
      <4>1. Cap(gate.quiet + 1, StallSec + 1) \in 0 .. StallSec + 1
        BY <1>a, Numbers DEF Cap
      <4>2. Cap(gate.age + 1, GraceSec + 1) \in 0 .. GraceSec + 1
        BY <1>a, <3>2, Numbers DEF Cap
      <4> QED
        BY <3>2, <4>1, <4>2 DEF GateOK
    <3> QED
      BY <2>2, <3>1, <3>2 DEF Tick
  <2>3. CASE Exit \/ Unconfigured \/ Kill
    BY <2>3, <1>b DEF Exit, Unconfigured, Kill, Gone
  <2>4. CASE UNCHANGED gate
    BY <2>4 DEF GateOK
  <2> QED
    BY <2>1, <2>2, <2>3, <2>4
     DEF ProcessNext, Own, Run, Feed, ChronyGate, Connected, ConnectFailed, GuardPets, RetryConnect,
         Started, Replaced, Stop, Boot, Flow, SystemctlStop, SelfRestart, processVars, watch
<1>2. watched' \in BOOLEAN
  BY DEF GateOK, ProcessNext, Own, Run, Feed, ChronyGate, Connected, ConnectFailed, GuardPets,
       RetryConnect, Started, Watch, Stop, Replaced, Flow, SystemctlStop, SelfRestart,
       processVars, Exit, Unconfigured, Kill, Boot, Gone, Tick, watch
<1>3. moved' \in BOOLEAN
  BY DEF GateOK, ProcessNext, Own, Run, Feed, ChronyGate, Connected, ConnectFailed, GuardPets,
       RetryConnect, Started, Watch, Stop, Replaced, Flow, SystemctlStop, SelfRestart,
       processVars, Exit, Unconfigured, Kill, Boot, Gone, Tick, watch
<1> QED  BY <1>1, <1>2, <1>3 DEF GateOK

LEMMA KilledStep == ASSUME ProcessTypeOK, [ProcessNext]_processVars PROVE KilledOK'
<1>1. CASE Kill
  <2>1. killed' = [by |-> Overdue, in |-> proc, dry |-> dry, told |-> requested] /\ proc \in Alive
    BY <1>1 DEF Kill, ProcessTypeOK, PhaseOK
  <2>2. Overdue \in {Off, "start", "watchdog", "stop"}
    BY DEF Overdue
  <2>3. dry \in 0 .. DryMax /\ requested \in BOOLEAN
    BY DEF ProcessTypeOK, PhaseOK, SamplesOK
  <2> QED
    BY <2>1, <2>2, <2>3 DEF KilledOK
<1>2. CASE Boot
  BY <1>2, Numbers DEF Boot, NotKilled, KilledOK
<1>3. CASE UNCHANGED killed
  BY <1>3 DEF ProcessTypeOK, KilledOK
<1> QED
  BY <1>1, <1>2, <1>3
     DEF ProcessNext, Own, Run, Feed, ChronyGate, Connected, ConnectFailed, GuardPets, RetryConnect,
         Started, Watch, Tick, Exit, Unconfigured, Replaced, Flow,
         Stop, SystemctlStop, SelfRestart, processVars

LEMMA InitTypes == ProcessInit => ProcessTypeOK
<1>1. ProcessInit => PhaseOK
  BY Numbers DEF ProcessInit, PhaseOK, Alive
<1>2. ProcessInit => TimersOK
  <2>1. ProcessInit => /\ startLeft \in 0 .. TimeoutStart /\ dogLeft \in 0 .. WatchdogSec
                /\ stopLeft \in 0 .. TimeoutStop
    BY Numbers DEF ProcessInit
  <2>2. ProcessInit => feedIn = Off /\ petIn = Off /\ retryIn = 0 /\ attempt = 0
    BY DEF ProcessInit
  <2> QED
    BY <2>1, <2>2, Delays DEF TimersOK
<1>3. ProcessInit => ChronyOK
  BY Numbers DEF ProcessInit, ChronyOK
<1>4. ProcessInit => GateOK
  <2>1. NotYet \in Gates
    BY Numbers DEF NotYet, Gates
  <2> QED
    BY <2>1 DEF ProcessInit, GateOK
<1>5. ProcessInit => SamplesOK
  <2>1. 0 \in 0 .. DryMax /\ 0 \in 0 .. MaxJolts
    BY Numbers
  <2> QED
    BY <2>1 DEF ProcessInit, SamplesOK
<1>6. ProcessInit => KilledOK
  <2>1. NotKilled \in [by : {Off, "start", "watchdog", "stop"}, in : Alive \cup {Off},
                       dry : 0 .. DryMax, told : BOOLEAN]
    BY Numbers DEF NotKilled
  <2> QED
    BY <2>1 DEF ProcessInit, KilledOK
<1> QED
  BY <1>1, <1>2, <1>3, <1>4, <1>5, <1>6 DEF ProcessTypeOK

(* Every reachable state of the process and of systemd's timers is well    *)
(* typed, for any timeouts and delays.                                     *)
THEOREM ProcessTypeCorrect == ProcessSpec => []ProcessTypeOK
<1>1. ProcessTypeOK /\ [ProcessNext]_processVars => ProcessTypeOK'
  BY PhaseStep, TimersStep, ChronyStep, GateStep, SamplesStep, KilledStep DEF ProcessTypeOK
<1> QED  BY <1>1, InitTypes, PTL DEF ProcessSpec
-----------------------------------------------------------------------------
(* Where the phases of a process and what systemd takes it for meet: a     *)
(* process is new to systemd until its first connect failed or its streams *)
(* are up, and the gate is fresh until they are.                           *)
PhaseSafe ==
  /\ proc = "down" => busy = MaxStart
  /\ proc \in {"down", "booting"} => attempt = 0
  /\ proc = "booting" => unit # "active"
  /\ unit = "activating" => proc \notin {"waiting", "running", "stopping"}
  /\ unit = "activating" /\ proc \in {"settling", "connecting"} => attempt = 0
  /\ unit = "active" /\ proc \in {"settling", "connecting", "waiting"} => attempt # 0
  /\ proc \notin {"running", "stopping"} => gate.age = Off /\ ~watched

(* The start timeout leaves time for the next feed and a start after it.   *)
StartSafe ==
  unit = "activating" =>
    /\ proc = "booting" => startLeft >= busy + MaxStart
    /\ proc \in {"settling", "connecting"} => feedIn # Off /\ startLeft >= feedIn + MaxStart
    /\ proc = "starting" => startLeft >= busy

(* The watchdog leaves time for the next pet or for the start, and what it *)
(* has run down without a pet is time without samples, unless the loop     *)
(* that pets it has its turn and finds the gate new or the sum changed.    *)
DogSafe ==
  unit = "active" =>
    /\ proc \in {"settling", "connecting", "waiting"} =>
         petIn # Off /\ dogLeft + PetEvery >= petIn + WatchdogSec
    /\ proc = "starting" => dogLeft >= busy
    /\ proc = "running" =>
         dry + dogLeft >= WatchdogSec \/ (~watched /\ (moved \/ gate.age = Off))

LEMMA PhaseSafeStep == ASSUME ProcessTypeOK, PhaseSafe, [ProcessNext]_processVars PROVE PhaseSafe'
<1>1. (proc = "down" => busy = MaxStart)'
  BY DEF PhaseSafe, ProcessNext, Own, Run, Feed, ChronyGate, Settled, Connected, ConnectFailed,
       GuardPets, RetryConnect, Started, Watch, Stop, Replaced, Flow, SystemctlStop,
       SelfRestart, processVars, Exit, Unconfigured, Kill, Boot, Gone, Tick
<1>2. (proc \in {"down", "booting"} => attempt = 0)'
  BY DEF PhaseSafe, startup, ProcessNext, Own, Run, Feed, ChronyGate, Settled, Connected,
       ConnectFailed, GuardPets, RetryConnect, Started, Watch, Stop, Replaced, Flow,
       SystemctlStop, SelfRestart, processVars, Exit, Unconfigured, Kill, Boot, Gone, Tick
<1>3. (proc = "booting" => unit # "active")'
  BY DEF PhaseSafe, Ready, Pet, systemd, ProcessNext, Own, Run, Feed, ChronyGate, Settled,
       Connected, ConnectFailed, GuardPets, RetryConnect, Started, Watch, Stop, Replaced, Flow,
       SystemctlStop, SelfRestart, processVars, Exit, Unconfigured, Kill, Boot, Gone, Tick
<1>4. (unit = "activating" => proc \notin {"waiting", "running", "stopping"})'
  BY DEF PhaseSafe, Ready, Pet, systemd, ProcessNext, Own, Run, Feed, ChronyGate, Settled,
       Connected, ConnectFailed, GuardPets, RetryConnect, Started, Watch, Stop, Replaced, Flow,
       SystemctlStop, SelfRestart, processVars, Exit, Unconfigured, Kill, Boot, Gone, Tick
<1>5. (unit = "activating" /\ proc \in {"settling", "connecting"} => attempt = 0)'
  BY DEF PhaseSafe, Ready, Pet, systemd, startup, ProcessNext, Own, Run, Feed, ChronyGate,
       Settled, Connected, ConnectFailed, GuardPets, RetryConnect, Started, Watch, Stop,
       Replaced, Flow, SystemctlStop, SelfRestart, processVars, Exit, Unconfigured, Kill, Boot,
       Gone, Tick
<1>6. (unit = "active" /\ proc \in {"settling", "connecting", "waiting"} => attempt # 0)'
  <2>1. CASE ConnectFailed
    <3>1. attempt' = IF attempt < Len(RetryDelays) THEN attempt + 1 ELSE attempt
      BY <2>1 DEF ConnectFailed
    <3>2. attempt \in Nat
      BY Delays DEF ProcessTypeOK, TimersOK
    <3> QED
      BY <3>1, <3>2, Delays
  <2>2. CASE ~ConnectFailed
    BY <2>2 DEF PhaseSafe, Ready, Pet, systemd, startup, ProcessNext, Own, Run, Feed, ChronyGate,
         Settled, Connected, GuardPets, RetryConnect, Started, Watch, Stop, Replaced, Flow,
         SystemctlStop, SelfRestart, processVars, Exit, Unconfigured, Kill, Boot, Gone, Tick
  <2> QED
    BY <2>1, <2>2
<1>7. (proc \notin {"running", "stopping"} => gate.age = Off)'
  BY DEF PhaseSafe, NotYet, watch, ProcessNext, Own, Run, Feed, ChronyGate, Settled, Connected,
       ConnectFailed, GuardPets, RetryConnect, Started, Watch, Stop, Replaced, Flow,
       SystemctlStop, SelfRestart, processVars, Exit, Unconfigured, Kill, Boot, Gone, Tick
<1>8. (proc \notin {"running", "stopping"} => ~watched)'
  BY DEF PhaseSafe, watch, ProcessNext, Own, Run, Feed, ChronyGate, Settled, Connected,
       ConnectFailed, GuardPets, RetryConnect, Started, Watch, Stop, Replaced, Flow,
       SystemctlStop, SelfRestart, processVars, Exit, Unconfigured, Kill, Boot, Gone, Tick
<1> QED  BY <1>1, <1>2, <1>3, <1>4, <1>5, <1>6, <1>7, <1>8 DEF PhaseSafe

LEMMA StartSafeStep ==
  ASSUME ProcessTypeOK, PhaseSafe, StartSafe, [ProcessNext]_processVars
  PROVE  StartSafe'
<1> SUFFICES ASSUME unit' = "activating"
             PROVE  /\ proc' = "booting" => startLeft' >= busy' + MaxStart
                    /\ proc' \in {"settling", "connecting"} =>
                         feedIn' # Off /\ startLeft' >= feedIn' + MaxStart
                    /\ proc' = "starting" => startLeft' >= busy'
  BY DEF StartSafe
<1>t. startLeft \in Nat /\ busy \in Nat /\ feedIn \in Nat \cup {Off}
  BY Numbers DEF ProcessTypeOK, TimersOK, PhaseOK
<1>u. unit = "activating" \/ Boot
  BY DEF Ready, Pet, systemd, ProcessNext, Own, Run, Feed, ChronyGate, Connected, ConnectFailed,
         GuardPets, RetryConnect, Started, Watch, Stop, Replaced, Flow, SystemctlStop,
         SelfRestart, processVars, Exit, Unconfigured, Kill, Gone, Tick
<1>1. CASE Boot
  <2>1. proc' = "booting" /\ startLeft' = TimeoutStart /\ busy' = MaxStart
    BY <1>1 DEF Boot, PhaseSafe
  <2>2. TimeoutStart >= MaxStart + MaxStart
    BY Numbers, StartAssumption
  <2> QED
    BY <2>1, <2>2
<1>2. CASE Run /\ unit = "activating"
  <2>1. proc' = "settling" /\ startLeft' = startLeft /\ feedIn' = 0 /\ startLeft >= busy + MaxStart
    BY <1>2 DEF Run, StartSafe, systemd
  <2> QED
    BY <2>1, <1>t, Numbers
<1>3. CASE Feed /\ unit = "activating"
  <2>1. /\ proc' = proc /\ busy' = busy /\ feedIn' = FeedEvery /\ feedIn = 0
        /\ startLeft' = IF startLeft < ExtendBy THEN ExtendBy ELSE startLeft
    BY <1>3 DEF Feed, Extended
  <2>2. startLeft' \in Nat /\ startLeft' >= startLeft /\ startLeft' >= FeedEvery + MaxStart
    BY <2>1, <1>t, Numbers, StartAssumption
  <2>3. /\ proc = "booting" => startLeft >= busy + MaxStart
        /\ proc = "starting" => startLeft >= busy
    BY <1>3 DEF StartSafe
  <2>4. proc' = "booting" => startLeft' >= busy' + MaxStart
    BY <2>1, <2>2, <2>3, <1>t, Numbers
  <2>5. proc' = "starting" => startLeft' >= busy'
    BY <2>1, <2>2, <2>3, <1>t
  <2>6. feedIn' # Off /\ startLeft' >= feedIn' + MaxStart
    BY <2>1, <2>2, Numbers
  <2> QED
    BY <2>4, <2>5, <2>6
<1>4. CASE Connected /\ unit = "activating"
  <2>1. proc' = "starting" /\ busy' = MaxStart /\ startLeft' = startLeft
        /\ feedIn # Off /\ startLeft >= feedIn + MaxStart
    BY <1>4 DEF Connected, StartSafe, systemd
  <2> QED
    BY <2>1, <1>t, Numbers
<1>5. CASE Tick /\ unit = "activating"
  <2>a. startLeft # 0
    BY <1>5, Numbers DEF Tick, Overdue
  <2>b. feedIn # 0 /\ (proc \in {"booting", "starting"} => busy # 0)
    BY <1>5 DEF Tick, OwnDue
  <2>1. /\ startLeft' = Less(startLeft) /\ feedIn' = Less(feedIn) /\ proc' = proc
        /\ busy' = LessIf(proc \in {"booting", "starting", "stopping"}, busy)
        /\ startLeft # 0 /\ feedIn # 0
        /\ proc \in {"booting", "starting"} => busy # 0
    BY <1>5, <2>a, <2>b DEF Tick, LessIf
  <2>2. startLeft' = startLeft - 1
    BY <2>1, <1>t, Numbers DEF Less
  <2>3. feedIn # Off => feedIn' = feedIn - 1 /\ feedIn \in Nat
    BY <2>1, <1>t, Numbers DEF Less
  <2>4. proc \in {"booting", "starting"} => busy' = busy - 1
    BY <2>1, <1>t, Numbers DEF Less, LessIf
  <2>5. /\ proc = "booting" => startLeft >= busy + MaxStart
        /\ proc \in {"settling", "connecting"} => feedIn # Off /\ startLeft >= feedIn + MaxStart
        /\ proc = "starting" => startLeft >= busy
    BY <1>5 DEF StartSafe
  <2>6. proc' = "booting" => startLeft' >= busy' + MaxStart
    BY <2>1, <2>2, <2>4, <2>5, <1>t, Numbers
  <2>7. proc' = "starting" => startLeft' >= busy'
    BY <2>1, <2>2, <2>4, <2>5, <1>t, Numbers
  <2>8. proc' \in {"settling", "connecting"} => feedIn' # Off /\ startLeft' >= feedIn' + MaxStart
    BY <2>1, <2>2, <2>3, <2>5, <1>t, Numbers
  <2> QED
    BY <2>6, <2>7, <2>8
<1>6. CASE proc' \in {"down", "waiting", "running", "stopping"}
  BY <1>6
<1>7. CASE /\ unit = "activating" /\ UNCHANGED <<startLeft, feedIn, busy>>
           /\ proc' = proc \/ {proc, proc'} \subseteq {"settling", "connecting"}
  BY <1>7 DEF StartSafe
<1> QED
  BY <1>1, <1>2, <1>3, <1>4, <1>5, <1>6, <1>7, <1>u
     DEF PhaseSafe, Pet, systemd, startup, ProcessNext, Own, ChronyGate, Settled, ConnectFailed,
         GuardPets, RetryConnect, Started, Watch, Stop, Replaced, Flow, SystemctlStop,
         SelfRestart, processVars, Exit, Unconfigured, Kill, Gone

LEMMA DogSafeStep ==
  ASSUME ProcessTypeOK, PhaseSafe, DogSafe, [ProcessNext]_processVars
  PROVE  DogSafe'
<1> SUFFICES ASSUME unit' = "active"
             PROVE  /\ proc' \in {"settling", "connecting", "waiting"} =>
                         petIn' # Off /\ dogLeft' + PetEvery >= petIn' + WatchdogSec
                    /\ proc' = "starting" => dogLeft' >= busy'
                    /\ proc' = "running" =>
                         dry' + dogLeft' >= WatchdogSec \/ (~watched' /\ (moved' \/ gate'.age = Off))
  BY DEF DogSafe
<1>t. /\ dogLeft \in Nat /\ dogLeft <= WatchdogSec /\ busy \in Nat /\ petIn \in Nat \cup {Off}
      /\ dry \in Nat /\ dry <= DryMax
  BY Numbers DEF ProcessTypeOK, TimersOK, PhaseOK, SamplesOK
<1>u. unit \in {"activating", "active"}
  BY DEF Ready, Pet, systemd, ProcessNext, Own, Run, Feed, ChronyGate, Connected, ConnectFailed,
         GuardPets, RetryConnect, Started, Watch, Stop, Replaced, Flow, SystemctlStop,
         SelfRestart, processVars, Exit, Unconfigured, Kill, Boot, Gone, Tick
<1>1. CASE ConnectFailed
  <2>1. proc' = "waiting"
    BY <1>1 DEF ConnectFailed
  <2>2. CASE attempt = 0
    <3>1. unit = "activating"
      BY <1>1, <2>2, <1>u DEF PhaseSafe, ConnectFailed
    <3>2. petIn' = PetEvery /\ dogLeft' = WatchdogSec
      BY <1>1, <2>2, <3>1 DEF ConnectFailed, Ready
    <3> QED
      BY <2>1, <3>2, Numbers
  <2>3. CASE attempt # 0
    <3>1. unit = "active" /\ petIn' = petIn /\ dogLeft' = dogLeft
      BY <1>1, <2>3, <1>u DEF PhaseSafe, ConnectFailed, systemd
    <3>2. petIn # Off /\ dogLeft + PetEvery >= petIn + WatchdogSec
      BY <1>1, <3>1 DEF DogSafe, ConnectFailed
    <3> QED
      BY <2>1, <3>1, <3>2
  <2> QED
    BY <2>2, <2>3
<1>2. CASE Connected
  <2>1. /\ proc' = "starting" /\ busy' = MaxStart /\ dogLeft' = dogLeft
        /\ proc = "connecting" /\ unit = "active"
    BY <1>2, <1>u DEF Connected, systemd
  <2>2. petIn # Off /\ dogLeft + PetEvery >= petIn + WatchdogSec
    BY <2>1 DEF DogSafe
  <2> QED
    BY <2>1, <2>2, <1>t, Numbers, StartAssumption
<1>3. CASE GuardPets
  <2>1. /\ unit = "active" /\ proc' = proc /\ petIn' = PetEvery /\ dogLeft' = WatchdogSec
        /\ busy' = busy /\ dry' = dry /\ gate' = gate /\ watched' = watched /\ moved' = moved
    BY <1>3 DEF GuardPets, Pet, samples, watch
  <2>2. /\ WatchdogSec + PetEvery >= PetEvery + WatchdogSec /\ PetEvery # Off
        /\ dry + WatchdogSec >= WatchdogSec
    BY <1>t, Numbers
  <2>3. proc = "starting" => WatchdogSec >= busy
    BY <2>1, <1>t, Numbers DEF DogSafe
  <2> QED
    BY <2>1, <2>2, <2>3
<1>4. CASE Started
  <2>1. proc' = "running" /\ dry' = 0 /\ gate'.age = Off /\ ~watched'
    BY <1>4 DEF Started, PhaseSafe, watch
  <2> QED
    BY <2>1
<1>5. CASE Watch
  <2>1. proc' = "running" /\ dry' = dry /\ unit = "active" /\ ~watched
    BY <1>5, <1>u DEF Watch, PhaseSafe
  <2>2. CASE Pet
    <3>1. dogLeft' = WatchdogSec
      BY <2>1, <2>2 DEF Pet
    <3> QED
      BY <2>1, <3>1, <1>t, Numbers
  <2>3. CASE gate' = Advanced(gate) /\ Stalled(gate') /\ UNCHANGED systemd
    <3>1. ~moved /\ gate.age # Off
      <4>1. 0 <= StallSec /\ 0 <= GraceSec
        BY Numbers
      <4>2. CASE gate.age = Off
        <5>1. gate'.seen = FALSE /\ gate'.age = 0
          BY <4>2, <2>3 DEF Advanced, NotYet
        <5> QED
          BY <5>1, <2>3, Numbers DEF Stalled
      <4>3. CASE gate.age # Off /\ moved
        <5>1. gate' = [gate EXCEPT !.seen = TRUE, !.quiet = 0]
          BY <4>3, <2>3 DEF Advanced
        <5>2. gate'.seen = TRUE /\ gate'.quiet = 0
          BY <5>1 DEF ProcessTypeOK, GateOK
        <5> QED
          BY <5>2, <2>3, Numbers DEF Stalled
      <4> QED
        BY <4>2, <4>3
    <3>2. dry + dogLeft >= WatchdogSec
      BY <2>1, <3>1, <1>5 DEF DogSafe, Watch
    <3>3. dogLeft' = dogLeft
      BY <2>3 DEF systemd
    <3> QED
      BY <2>1, <3>2, <3>3
  <2> QED
    BY <1>5, <2>2, <2>3 DEF Watch
<1>6. CASE Tick
  <2>a. unit = "active" /\ proc' = proc /\ dogLeft' = Less(dogLeft) /\ petIn' = Less(petIn)
        /\ busy' = LessIf(proc \in {"booting", "starting", "stopping"}, busy)
    BY <1>6, <1>u DEF Tick, LessIf
  <2>b. dogLeft # 0
    BY <1>6, <2>a, Numbers DEF Tick, Overdue
  <2>c. petIn # 0 /\ (proc = "starting" => busy # 0) /\ (proc = "running" => watched)
    BY <1>6 DEF Tick, OwnDue
  <2>d. dogLeft' = dogLeft - 1
    BY <2>a, <2>b, <1>t, Numbers DEF Less
  <2>1. CASE proc \in {"settling", "connecting", "waiting"}
    <3>1. petIn # Off /\ dogLeft + PetEvery >= petIn + WatchdogSec
      BY <2>1, <2>a DEF DogSafe
    <3>2. petIn' = petIn - 1 /\ petIn \in Nat
      BY <2>a, <2>c, <3>1, <1>t DEF Less
    <3>3. petIn' # Off /\ dogLeft' + PetEvery >= petIn' + WatchdogSec
      BY <2>c, <2>d, <3>1, <3>2, <1>t, Numbers
    <3> QED
      BY <2>1, <2>a, <3>3
  <2>2. CASE proc = "starting"
    <3>1. busy' = busy - 1
      BY <2>a, <2>c, <2>2, <1>t, Numbers DEF Less, LessIf
    <3>2. dogLeft >= busy
      BY <2>2, <2>a DEF DogSafe
    <3>3. dogLeft' >= busy'
      BY <2>d, <3>1, <3>2, <1>t
    <3> QED
      BY <2>2, <2>a, <3>3
  <2>3. CASE proc = "running"
    <3>1. dry + dogLeft >= WatchdogSec
      BY <2>3, <2>a, <2>c DEF DogSafe
    <3>2. CASE flowing
      <4>1. ~watched' /\ moved'
        BY <1>6, <2>3, <3>2 DEF Tick
      <4> QED
        BY <2>3, <2>a, <4>1
    <3>3. CASE ~flowing
      <4>1. dry' = Cap(dry + 1, DryMax)
        BY <1>6, <2>3, <3>3 DEF Tick
      <4>2. dry' + dogLeft' >= WatchdogSec
        BY <4>1, <3>1, <2>b, <2>d, <1>t, Numbers DEF Cap
      <4> QED
        BY <2>3, <2>a, <4>2
    <3> QED
      BY <3>2, <3>3
  <2> QED
    BY <2>1, <2>2, <2>3, <2>a
<1>7. CASE Replaced
  <2>1. /\ unit = "active" /\ proc = "running" /\ proc' = proc /\ moved' /\ dogLeft' = dogLeft
        /\ dry' = dry /\ watched' = watched
    BY <1>7, <1>u DEF Replaced, PhaseSafe, systemd
  <2> QED
    BY <2>1 DEF DogSafe
<1>8. CASE proc' \in {"down", "booting", "stopping"}
  BY <1>8
<1>9. CASE /\ unit = "active" /\ UNCHANGED <<dogLeft, petIn, busy, dry, watched, moved, gate>>
           /\ \/ proc' = proc
              \/ {proc, proc'} \subseteq {"settling", "connecting", "waiting"}
  BY <1>9 DEF DogSafe
<1>10. CASE Run
  BY <1>10 DEF Run, PhaseSafe, systemd
<1> QED
  BY <1>1, <1>2, <1>3, <1>4, <1>5, <1>6, <1>7, <1>8, <1>9, <1>10, <1>u
     DEF PhaseSafe, systemd, startup, samples, watch, ProcessNext, Own, Feed, ChronyGate, Settled,
         RetryConnect, Stop, Flow, SystemctlStop, SelfRestart, processVars, Exit, Unconfigured, Kill,
         Boot, Gone

LEMMA SafeInit == ProcessInit => PhaseSafe /\ StartSafe /\ DogSafe
<1> SUFFICES ASSUME ProcessInit PROVE PhaseSafe /\ StartSafe /\ DogSafe
  OBVIOUS
<1>1. PhaseSafe
  BY DEF ProcessInit, PhaseSafe, NotYet
<1>2. StartSafe
  <2>1. TimeoutStart >= MaxStart + MaxStart
    BY Numbers, StartAssumption
  <2> QED
    BY <2>1 DEF ProcessInit, StartSafe
<1>3. DogSafe
  BY DEF ProcessInit, DogSafe
<1> QED  BY <1>1, <1>2, <1>3

(* A kill is of a process that has nothing due, and that, unless it was on *)
(* its way out, had been dry for the length of the watchdog.               *)
LEMMA KillHasCause ==
  ASSUME ProcessTypeOK, PhaseSafe, StartSafe, DogSafe, Kill
  PROVE  KilledForCause'
<1>1. /\ killed'.by = Overdue /\ killed'.in = proc /\ killed'.dry = dry
      /\ ~OwnDue /\ proc # "down"
  BY DEF Kill
<1>t. /\ startLeft \in Nat /\ busy \in Nat /\ dry \in Nat
      /\ feedIn \in Nat \cup {Off} /\ petIn \in Nat \cup {Off}
      /\ proc \in Alive
  BY <1>1, Numbers DEF ProcessTypeOK, TimersOK, PhaseOK, SamplesOK
<1>2. /\ feedIn # 0 /\ petIn # 0
      /\ proc \in {"booting", "starting"} => busy # 0
      /\ proc = "running" => watched
  BY <1>1 DEF OwnDue
<1>3. Overdue # "start"
  <2> SUFFICES ASSUME unit = "activating", startLeft = 0 PROVE FALSE
    BY Numbers DEF Overdue
  <2>1. CASE proc = "booting"
    BY <2>1, <1>2, <1>t, Numbers DEF StartSafe
  <2>2. CASE proc \in {"settling", "connecting"}
    BY <2>2, <1>2, <1>t, Numbers DEF StartSafe
  <2>3. CASE proc = "starting"
    BY <2>3, <1>2, <1>t, Numbers DEF StartSafe
  <2> QED
    BY <2>1, <2>2, <2>3, <1>t DEF PhaseSafe, Alive
<1>4. ASSUME Overdue = "watchdog" PROVE proc = "stopping" \/ dry >= WatchdogSec
  <2>0. unit = "active" /\ dogLeft = 0
    BY <1>4, Numbers DEF Overdue
  <2>1. CASE proc = "booting"
    BY <2>0, <2>1 DEF PhaseSafe
  <2>2. CASE proc \in {"settling", "connecting", "waiting"}
    <3>1. petIn # Off /\ 0 + PetEvery >= petIn + WatchdogSec
      BY <2>0, <2>2 DEF DogSafe
    <3>2. petIn \in Nat /\ petIn >= 1
      BY <3>1, <1>2, <1>t
    <3> QED
      BY <3>1, <3>2, Numbers, StartAssumption
  <2>3. CASE proc = "starting"
    BY <2>0, <2>3, <1>2, <1>t, Numbers DEF DogSafe
  <2>4. CASE proc = "running"
    BY <2>0, <2>4, <1>2, <1>t, Numbers DEF DogSafe
  <2> QED
    BY <2>1, <2>2, <2>3, <2>4, <1>t DEF Alive
<1> QED
  BY <1>1, <1>3, <1>4 DEF KilledForCause

(* However long connecting takes and radiod stays away, the start timeout  *)
(* does not fire, and the watchdog only at a process without samples for   *)
(* its whole length or on its way out (__main__.py:1961), for any timeouts *)
(* that leave room for a start.                                            *)
THEOREM KilledForCauseAlways == ProcessSpec => []KilledForCause
<1> DEFINE Safe == ProcessTypeOK /\ PhaseSafe /\ StartSafe /\ DogSafe /\ KilledForCause
<1>1. ProcessInit => Safe
  <2>1. ProcessInit => KilledForCause
    BY Numbers DEF ProcessInit, KilledForCause, NotKilled
  <2> QED
    BY <2>1, InitTypes, SafeInit
<1>2. Safe /\ [ProcessNext]_processVars => Safe'
  <2> SUFFICES ASSUME Safe, [ProcessNext]_processVars PROVE Safe'
    OBVIOUS
  <2>1. ProcessTypeOK'
    BY PhaseStep, TimersStep, ChronyStep, GateStep, SamplesStep, KilledStep DEF ProcessTypeOK
  <2>2. PhaseSafe' /\ StartSafe' /\ DogSafe'
    BY PhaseSafeStep, StartSafeStep, DogSafeStep
  <2>3. KilledForCause'
    <3>1. CASE Kill
      BY <3>1, KillHasCause
    <3>2. CASE Boot
      BY <3>2, Numbers DEF Boot, NotKilled, KilledForCause
    <3>3. CASE UNCHANGED killed
      BY <3>3 DEF KilledForCause
    <3> QED
      BY <3>1, <3>2, <3>3
         DEF ProcessNext, Own, Run, Feed, ChronyGate, Connected, ConnectFailed, GuardPets, RetryConnect,
             Started, Watch, Tick, Exit, Unconfigured, Replaced, Flow, Stop, SystemctlStop,
             SelfRestart, processVars
  <2> QED
    BY <2>1, <2>2, <2>3
<1> QED  BY <1>1, <1>2, PTL DEF ProcessSpec, Safe

(* A process that was told to stop is never killed in its back-off or in   *)
(* its main loop (__main__.py:1852), whatever the timeouts.                *)
THEOREM StopHeardAlways == ProcessSpec => []StopHeard
<1>1. ProcessInit => StopHeard
  BY DEF ProcessInit, StopHeard, NotKilled
<1>2. StopHeard /\ [ProcessNext]_processVars => StopHeard'
  <2> SUFFICES ASSUME StopHeard, [ProcessNext]_processVars PROVE StopHeard'
    OBVIOUS
  <2>1. CASE Kill
    BY <2>1 DEF Kill, OwnDue, Interrupted, StopHeard
  <2>2. CASE Boot
    BY <2>2 DEF Boot, NotKilled, StopHeard
  <2>3. CASE UNCHANGED killed
    BY <2>3 DEF StopHeard
  <2> QED
    BY <2>1, <2>2, <2>3
       DEF ProcessNext, Own, Run, Feed, ChronyGate, Connected, ConnectFailed, GuardPets, RetryConnect,
           Started, Watch, Tick, Exit, Unconfigured, Replaced, Flow, Stop, SystemctlStop,
           SelfRestart, processVars
<1> QED  BY <1>1, <1>2, PTL DEF ProcessSpec
=============================================================================
