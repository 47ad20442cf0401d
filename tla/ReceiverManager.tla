-------------------------- MODULE ReceiverManager --------------------------
(***************************************************************************)
(* One ReceiverManager (receiver_manager.py), the health loop that climbs  *)
(* its recovery ladder (__main__.py) and the radiod it provisions its      *)
(* bands at.  Recovery runs on an executor thread, one call of radiod at a *)
(* time, while radiod crashes, comes back at another sample rate or drops  *)
(* channels, MultiStream restores slots of its own accord, and the event   *)
(* loop may shut the manager down in between.                              *)
(***************************************************************************)
EXTENDS Naturals, FiniteSets, Sequences, SequencesExt

CONSTANTS
  Frequencies,  (* config.frequencies, a sequence of bands                 *)
  HighBands,    (* those above the Nyquist rate of a low-rate front end    *)
  Gens,         (* the SSRCs ka9q may give a band                          *)
  GroupOf,      (* the multicast group of each                             *)
  MaxFaults,    (* bound on crashes, lost channels and failing calls       *)
  None

Bands == Range(Frequencies)

ASSUME ConstantsAssumption ==
  /\ Frequencies \in Seq(Bands) /\ IsInjective(Frequencies) /\ HighBands \subseteq Bands
  /\ MaxFaults \in Nat /\ GroupOf \in [Gens -> Range(GroupOf)]

(* An SSRC carries its band; the comments of _provision say that asking    *)
(* for a band again may land another one.                                  *)
Ssrcs == Bands \X Gens
Groups == Range(GroupOf)
Rates  == {"low", "high"}

VARIABLES
  radiod,     (* up, its front-end rate and the channels tuned as asked    *)
  faults,
  control,    (* _control is open                                          *)
  rate,       (* _input_samprate_hz                                        *)
  channels,   (* keys of state.channels                                    *)
  slots,      (* MultiStream slots: group, SSRC and the SSRC of the sink   *)
  multis,     (* keys of _multi_by_group                                   *)
  started,    (* those whose MultiStream runs                              *)
  expected,   (* bands the cycle batcher was told it may wait for          *)
  orphans,    (* SSRCs of band_recorders whose sink was superseded         *)
  phase,      (* starting, running, or shut down                           *)
  job,        (* the recovery call on the executor thread                  *)
  degraded    (* degraded_count, from 3 on all alike                       *)

world   == <<radiod, faults>>
book    == <<channels, slots, multis, started>>
manager == <<control, rate, book, expected, orphans>>
vars    == <<world, manager, phase, job, degraded>>

NoJob == [pc |-> "idle", kind |-> None, todo |-> <<>>, ok |-> FALSE]
Slot == [group : Groups, ssrc : Ssrcs, sink : Ssrcs]

TypeOK ==
  /\ radiod \in [up : BOOLEAN, rate : Rates, live : SUBSET Ssrcs] /\ faults \in 0 .. MaxFaults
  /\ control \in BOOLEAN /\ rate \in Rates \cup {None}
  /\ channels \subseteq Ssrcs /\ slots \subseteq Slot
  /\ started \subseteq multis /\ multis \subseteq Groups
  /\ expected \subseteq Bands /\ orphans \subseteq Ssrcs
  /\ phase \in {"starting", "running", "stopped"}
  /\ job \in [pc : {"idle", "stop", "open", "provision", "verify", "start", "done"},
              kind : {None, "connect", "reset", "reprovision"}, todo : Seq(Bands), ok : BOOLEAN]
  /\ degraded \in 0 .. 3

Connect == [NoJob EXCEPT !.pc = "open", !.kind = "connect"]

Init ==
  /\ radiod \in [up : BOOLEAN, rate : Rates, live : {{}}] /\ faults = 0
  /\ control = FALSE /\ rate = None
  /\ channels = {} /\ slots = {} /\ multis = {} /\ started = {}
  /\ expected = Bands /\ orphans = {}
  /\ phase = "starting" /\ job = Connect /\ degraded = 0

-----------------------------------------------------------------------------
(* _band_producible, open while the rate is unknown.                       *)
Producible(b, r) == b \in HighBands => r # "low"

Delivers(slot) ==
  /\ slot.group \in started /\ radiod.up
  /\ slot.ssrc \in radiod.live /\ Producible(slot.ssrc[1], radiod.rate)

(* is_active: record_samples finds the channel by the SSRC its sink closed *)
(* over.  Five seconds of memory are nothing against the check interval.   *)
IsActive(s) == s \in channels /\ \E slot \in slots : slot.sink = s /\ Delivers(slot)
Active(b) == \E s \in channels : s[1] = b /\ IsActive(s)

-----------------------------------------------------------------------------
(* radiod: it crashes and forgets its channels, comes back at either rate, *)
(* or reverts a channel to its defaults.  A channel no slot and no state   *)
(* refers to is as good as gone and is not kept.                           *)
Crash ==
  /\ radiod.up /\ faults < MaxFaults /\ faults' = faults + 1
  /\ \E r \in Rates : radiod' = [up |-> FALSE, rate |-> r, live |-> {}]
  /\ UNCHANGED <<manager, phase, job, degraded>>

ComeBack ==
  /\ ~radiod.up /\ radiod' = [radiod EXCEPT !.up = TRUE]
  /\ UNCHANGED <<faults, manager, phase, job, degraded>>

Revert(s) ==
  /\ s \in radiod.live /\ faults < MaxFaults /\ faults' = faults + 1
  /\ radiod' = [radiod EXCEPT !.live = @ \ {s}]
  /\ UNCHANGED <<manager, phase, job, degraded>>

(* The MultiStream's own monitor: a silent slot gets its channel again,    *)
(* maybe under another SSRC of its group, and calls on_stream_restored.    *)
Restore(slot) ==
  /\ slot \in slots /\ slot.group \in started /\ radiod.up /\ slot.ssrc \notin radiod.live
  /\ \E g \in Gens :
       LET s == <<slot.ssrc[1], g>>
       IN  /\ GroupOf[g] = slot.group /\ \A other \in slots \ {slot} : other.ssrc # s
           /\ slots' = (slots \ {slot}) \cup {[slot EXCEPT !.ssrc = s]}
           /\ radiod' = [radiod EXCEPT !.live = @ \cup {s}]
  /\ UNCHANGED <<faults, control, rate, channels, multis, started, expected, orphans,
                 phase, job, degraded>>

-----------------------------------------------------------------------------
(* The end of a recovery call, back to the one who awaits it.              *)
Finish(ok) == job' = [job EXCEPT !.pc = "done", !.todo = <<>>, !.ok = ok]

(* connect: its result counts provisioned channels, before they verify.    *)
Provisioned(ok) ==
  job' = [job EXCEPT !.todo = Tail(@), !.ok = @ \/ ok,
                     !.pc = IF Len(job.todo) > 1 THEN "provision"
                            ELSE IF job.ok \/ ok THEN "verify" ELSE "done"]

(* full_reset: streams stopped, the control closed, everything dropped     *)
(* that provisioning created.  The status listener is left running.        *)
Dropped ==
  /\ control' = FALSE /\ radiod' = [radiod EXCEPT !.live = {}]
  /\ channels' = {} /\ slots' = {} /\ multis' = {} /\ started' = {}

ResetStop ==
  /\ job.pc = "stop"
  /\ Dropped /\ rate' = None
  /\ job' = [job EXCEPT !.pc = "open"]
  /\ UNCHANGED <<faults, expected, orphans, phase, degraded>>

(* connect: a new RadiodControl, then every configured frequency.          *)
Open ==
  /\ job.pc = "open"
  /\ \/ /\ radiod.up /\ control' = TRUE
        /\ job' = [job EXCEPT !.pc = "provision", !.todo = Frequencies]
        /\ UNCHANGED faults
     \/ /\ ~radiod.up \/ faults < MaxFaults
        /\ faults' = IF radiod.up THEN faults + 1 ELSE faults
        /\ Finish(FALSE)
        /\ UNCHANGED control
  /\ UNCHANGED <<radiod, rate, book, expected, orphans, phase, degraded>>

(* _provision of a band the known rate rules out.                          *)
SkipAboveNyquist ==
  LET b == Head(job.todo)
  IN  /\ job.pc = "provision" /\ control /\ ~Producible(b, rate)
      /\ expected' = expected \ {b}
      /\ Provisioned(FALSE)
      /\ UNCHANGED <<world, control, rate, book, orphans, phase, degraded>>

(* The control was closed meanwhile: the assertion ends the whole call.    *)
ControlGone ==
  /\ job.pc = "provision" /\ ~control
  /\ Finish(FALSE)
  /\ UNCHANGED <<world, manager, phase, degraded>>

(* ensure_channel times out, or set_filter after it.                       *)
EnsureFails ==
  LET b == Head(job.todo)
  IN  /\ job.pc = "provision" /\ control /\ Producible(b, rate)
      /\ \/ ~radiod.up /\ UNCHANGED world
         \/ /\ radiod.up /\ faults < MaxFaults /\ faults' = faults + 1
            /\ UNCHANGED radiod
      /\ Provisioned(FALSE)
      /\ UNCHANGED <<manager, phase, degraded>>

(* The channel state is entered, the batcher told, and the front-end rate  *)
(* learned from the first live channel, whose status is taken to answer.   *)
Enter(s, gone) ==
  /\ radiod' = [radiod EXCEPT !.live = (@ \cup {s}) \ gone]
  /\ expected' = expected \cup {s[1]}
  /\ rate' = IF rate = None THEN radiod.rate ELSE rate

SinkFails ==
  LET b == Head(job.todo)
  IN  /\ job.pc = "provision" /\ control /\ Producible(b, rate) /\ radiod.up
      /\ faults < MaxFaults /\ faults' = faults + 1
      /\ \E s \in Ssrcs : s[1] = b /\ Enter(s, {}) /\ channels' = channels \cup {s}
      /\ Provisioned(FALSE)
      /\ UNCHANGED <<control, slots, multis, started, orphans, phase, degraded>>

(* prune_frequency: every other slot of the band in any group, told by its *)
(* band because its SSRC may have changed; the books follow the slot's.    *)
NeverPruned(s) == {}
Superseded(s) == {slot \in slots : slot.ssrc[1] = s[1] /\ slot.ssrc # s}

Provision ==
  LET b == Head(job.todo)
  IN  /\ job.pc = "provision" /\ control /\ Producible(b, rate) /\ radiod.up
      /\ \E s \in Ssrcs :
           LET m    == GroupOf[s[2]]
               old  == Superseded(s)
               gone == {slot.ssrc : slot \in old}
               same == {slot \in slots : slot.ssrc = s}
           IN  /\ s[1] = b /\ Enter(s, gone)
               /\ slots' = (slots \ (old \cup same)) \cup {[group |-> m, ssrc |-> s, sink |-> s]}
               /\ multis' = multis \cup {m}
               /\ channels' = (channels \cup {s}) \ gone
               /\ orphans' = (orphans \cup {slot.sink : slot \in old}) \ {s}
      /\ Provisioned(TRUE)
      /\ UNCHANGED <<faults, control, started, phase, degraded>>

(* _verify_and_retry_provisioned: after the settling time every channel    *)
(* radiod does not show as asked is asked for again, up to three times.    *)
(* What these calls return is not looked at, so another SSRC does not      *)
(* help, and neither caller cares whether all channels came out right.     *)
Bad == channels \ radiod.live

Verify ==
  /\ job.pc = "verify"
  /\ \E fixed \in SUBSET Bad :
       /\ fixed # {} => radiod.up /\ control
       /\ radiod' = [radiod EXCEPT !.live = @ \cup fixed]
  /\ job' = [job EXCEPT !.pc = IF job.kind = "reset" THEN "start" ELSE "done"]
  /\ UNCHANGED <<faults, manager, phase, degraded>>

(* Discovery raises, and so connect as a whole or reprovision_stale fails. *)
VerifyFails ==
  /\ job.pc = "verify"
  /\ faults < MaxFaults /\ faults' = faults + 1
  /\ Finish(FALSE)
  /\ UNCHANGED <<radiod, manager, phase, degraded>>

StartStreams ==
  /\ job.pc = "start"
  /\ started' = multis
  /\ Finish(TRUE)
  /\ UNCHANGED <<world, control, rate, channels, slots, multis, expected, orphans,
                 phase, degraded>>

Recovery ==
  \/ ResetStop \/ Open \/ SkipAboveNyquist \/ ControlGone \/ EnsureFails
  \/ SinkFails \/ Provision \/ Verify \/ VerifyFails \/ StartStreams

-----------------------------------------------------------------------------
(* Start-up, with one or more sources: if none connects, all are shut down *)
(* and tried again; if another one does, the recorder runs with this one   *)
(* as it is.  Streams are started for the connected ones.                  *)
StartUp ==
  /\ phase = "starting" /\ job.pc = "done"
  /\ \/ /\ phase' = "running" /\ job' = NoJob
        /\ started' = IF job.ok THEN multis ELSE started
        /\ UNCHANGED <<radiod, control, channels, slots, multis>>
     \/ ~job.ok /\ Dropped /\ job' = Connect /\ UNCHANGED phase
  /\ UNCHANGED <<faults, rate, expected, orphans, degraded>>

(* reprovision_stale: the rate is read again if a band is missing, from an *)
(* active channel if there is one; then the missing and the stale bands.   *)
Missing == {b \in Bands : \A s \in channels : s[1] # b}
Stale   == {s \in channels : ~IsActive(s)}

RateReadAgain ==
  IF Missing # {} /\ rate # None /\ channels # {} /\ radiod.up THEN {rate, radiod.rate} ELSE {rate}

Reprovision(r) ==
  LET missing == SelectSeq(Frequencies, LAMBDA b : b \in Missing /\ Producible(b, r))
      stale   == SetToSeq(Stale)
      todo    == missing \o [i \in DOMAIN stale |-> stale[i][1]]
  IN  /\ rate' = r
      /\ job' = [pc |-> IF control /\ todo # <<>> THEN "provision" ELSE "done",
                 kind |-> "reprovision", todo |-> todo, ok |-> FALSE]

FullReset ==
  /\ job' = [NoJob EXCEPT !.pc = "stop", !.kind = "reset"]
  /\ UNCHANGED rate

(* _health_check_loop, one check.  Bands above the Nyquist rate as it is   *)
(* known do not count; a source without channels is reset at once, one     *)
(* that misses some at the third check in a row.                           *)
Entered == {s[1] : s \in channels}
Total   == {b \in Bands : Producible(b, rate)}
Healthy == Cardinality({s \in channels : IsActive(s)}) = Cardinality(Total)
NeverThird == IF degraded >= 2 THEN 2 ELSE degraded + 1
Worse   == IF degraded = 3 THEN 3 ELSE degraded + 1

Waiting == phase = "running" /\ job.pc = "idle"

CheckHealthy ==
  /\ Waiting /\ Total # {} /\ channels # {} /\ Healthy
  /\ degraded' = 0
  /\ UNCHANGED <<world, manager, phase, job>>

CheckDegraded ==
  /\ Waiting /\ Total # {} /\ channels # {} /\ ~Healthy
  /\ degraded' = Worse
  /\ IF Worse = 3 THEN FullReset ELSE \E r \in RateReadAgain : Reprovision(r)
  /\ UNCHANGED <<world, control, book, expected, orphans, phase>>

CheckNeverProvisioned ==
  /\ Waiting /\ Total # {} /\ channels = {}
  /\ degraded' = Worse
  /\ FullReset
  /\ UNCHANGED <<world, control, book, expected, orphans, phase>>

(* A reset that succeeded starts the ladder anew.                          *)
Awaited ==
  /\ phase = "running" /\ job.pc = "done"
  /\ degraded' = IF job.kind = "reset" /\ job.ok THEN 0 ELSE degraded
  /\ job' = NoJob
  /\ UNCHANGED <<world, manager, phase>>

(* _shutdown: the health task is cancelled, its executor thread is not.    *)
Shutdown ==
  /\ phase # "stopped" /\ phase' = "stopped"
  /\ Dropped
  /\ UNCHANGED <<faults, rate, expected, orphans, job, degraded>>

Abandoned ==
  /\ phase = "stopped" /\ job.pc = "done"
  /\ job' = NoJob
  /\ UNCHANGED <<world, manager, phase, degraded>>

Check == CheckHealthy \/ CheckDegraded \/ CheckNeverProvisioned

Next ==
  \/ Crash \/ ComeBack
  \/ \E s \in Ssrcs : Revert(s)
  \/ \E slot \in slots : Restore(slot)
  \/ Recovery \/ StartUp \/ Check \/ Awaited \/ Shutdown \/ Abandoned

Spec == Init /\ [][Next]_vars

(* radiod comes back, the loop checks and its thread gets on.  Nothing is  *)
(* asked of MultiStream, nor that a call of radiod ever fails.             *)
Fairness ==
  /\ WF_vars(ComeBack)
  /\ WF_vars(Recovery \/ StartUp \/ Awaited)
  /\ WF_vars(Check)

FairSpec == Spec /\ Fairness

-----------------------------------------------------------------------------
(* However often a band is provisioned again and its slot restored under   *)
(* another SSRC, one slot holds its ring (receiver_manager.py:571).        *)
OneSlotPerBand ==
  \A x, y \in slots : x.ssrc[1] = y.ssrc[1] => x = y

(* The check is not fooled: when it counts as many active channels as the  *)
(* source should have, every band the front end can produce is among them. *)
HealthyMeansActive ==
  (rate = radiod.rate /\ Healthy) => \A b \in Bands : Producible(b, rate) => Active(b)

(* A band whose samples arrive is one the cycle batcher waits for.  Does   *)
(* not hold once the front-end rate changed under the manager.             *)
ActiveExpected ==
  \A b \in Bands : Active(b) => b \in expected

(* Once radiod behaves, the ladder brings back every band of a source      *)
(* whose front-end rate it knows, whatever failed before and in between.   *)
BandsRecover ==
  <>[](\/ phase = "stopped" \/ rate # radiod.rate
       \/ \A b \in Bands : Producible(b, rate) => Active(b))

(* "A fresh process re-learns the rate" (receiver_manager.py:788) after a  *)
(* change.  Does not hold: a restored stream no longer ends the process,   *)
(* and the rate is read again only when a band is missing.                 *)
RateLearned ==
  <>[](phase = "stopped" \/ rate = radiod.rate)

(* "Release every prior slot" (receiver_manager.py:577) so that superseded *)
(* rings are freed: the recorder of a pruned slot is not kept either.      *)
(* Does not hold, band_recorders keeps it.                                 *)
NoSupersededRing ==
  orphans = {}

(* "shutdown() stops all streams and closes the control connection"        *)
(* (receiver_manager.py:18).  Does not hold when a recovery overlaps it.   *)
ShutdownFinal ==
  (phase = "stopped" /\ job.pc = "idle") => (~control /\ started = {})
=============================================================================
