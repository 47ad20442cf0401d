-------------------------- MODULE RecorderProcess --------------------------
(***************************************************************************)
(* The life of the recorder process under systemd (__main__.py and the     *)
(* unit file): the chrony gate and the connect loop with its back-off, the *)
(* tasks and the thread that keep systemd's start timeout and watchdog     *)
(* from firing, the progress gate that lets the watchdog fire when no      *)
(* samples come in, the request to stop and the shutdown.  Time passes in  *)
(* units of 30 seconds; what is due is done before it passes.              *)
(***************************************************************************)
EXTENDS Naturals, Sequences

CONSTANTS
  WatchdogSec, TimeoutStart, TimeoutStop,  (* of the unit file             *)
  ExtendBy, FeedEvery,   (* _startup_timeout_feeder                        *)
  PetEvery,              (* _EpisodeGuard, half of WATCHDOG_USEC           *)
  StallSec, GraceSec,    (* _ProgressGate                                  *)
  RetryDelays,           (* _CONNECT_RETRY_DELAYS                          *)
  SettleTimeout, SettleReadings,  (* the chrony gate                       *)
  MaxStart,              (* bound on starting streams, IPC and uploader    *)
  MaxDrain,              (* bound on the last decodes and flushes          *)
  MaxJolts,              (* bound on recorders replaced and sums that fail *)
  Off

ASSUME ProcessAssumption ==
  /\ {WatchdogSec, TimeoutStart, TimeoutStop, ExtendBy, FeedEvery, PetEvery, StallSec, GraceSec,
      SettleTimeout, SettleReadings} \subseteq Nat \ {0}
  /\ MaxStart \in Nat /\ MaxDrain \in Nat /\ MaxJolts \in Nat
  /\ RetryDelays \in Seq(Nat \ {0}) /\ RetryDelays # <<>> /\ ExtendBy <= TimeoutStart
  /\ Off \notin Nat \cup {"start", "watchdog", "stop"}

(* What starting takes fits between two feeds and the timeout they extend, *)
(* and between two pets and the watchdog.                                  *)
ASSUME StartAssumption ==
  /\ 2 * MaxStart <= TimeoutStart /\ MaxStart + FeedEvery <= ExtendBy
  /\ MaxStart + PetEvery <= WatchdogSec

VARIABLES
  proc,       (* where the process is                                      *)
  unit,       (* what systemd takes it for                                 *)
  startLeft,  (* time left of its start timeout,                           *)
  dogLeft,    (* of its watchdog                                           *)
  stopLeft,   (* and of its stop timeout                                   *)
  feedIn,     (* when the start-up feeder extends next                     *)
  petIn,      (* when the episode guard pets next                          *)
  retryIn,    (* end of the wait before the next connect                   *)
  attempt,
  chrony,     (* the settled-capture gate: time and good readings, latch   *)
  gate,       (* _ProgressGate                                             *)
  watched,    (* _watchdog_loop had its turn in this unit of time          *)
  moved,      (* the sum of samples changed since its last turn            *)
  flowing,    (* radiod's samples arrive                                   *)
  dry,        (* time since the last sample, or since the streams started  *)
  jolts,
  busy,       (* how long the present phase may still take                 *)
  requested,  (* _shutdown_event is set                                    *)
  killed      (* how systemd ended the process, in which phase and how dry *)

systemd == <<unit, startLeft, dogLeft, stopLeft>>
startup == <<feedIn, petIn, retryIn, attempt, chrony>>
watch   == <<gate, watched, moved>>
samples == <<flowing, dry, jolts>>
processVars    == <<proc, systemd, startup, watch, samples, busy, requested, killed>>

Alive == {"booting", "settling", "connecting", "waiting", "starting", "running", "stopping"}
NotYet == [seen |-> FALSE, quiet |-> 0, age |-> Off]
NotKilled == [by |-> Off, in |-> Off, dry |-> 0, told |-> FALSE]
DryMax == GraceSec + WatchdogSec

PhaseOK ==
  /\ proc \in Alive \cup {"down"} /\ unit \in {"activating", "active", "stopping", "inactive"}
  /\ busy \in Nat /\ requested \in BOOLEAN

TimersOK ==
  /\ startLeft \in 0 .. TimeoutStart /\ dogLeft \in 0 .. WatchdogSec
  /\ stopLeft \in 0 .. TimeoutStop
  /\ feedIn \in 0 .. FeedEvery \cup {Off} /\ petIn \in 0 .. PetEvery \cup {Off}
  /\ retryIn \in Nat /\ attempt \in 0 .. Len(RetryDelays)

ChronyOK == chrony \in [left : 0 .. SettleTimeout, good : 0 .. SettleReadings - 1, latched : BOOLEAN]

Gates == [seen : BOOLEAN, quiet : 0 .. StallSec + 1, age : 0 .. GraceSec + 1 \cup {Off}]

GateOK == gate \in Gates /\ watched \in BOOLEAN /\ moved \in BOOLEAN

SamplesOK == flowing \in BOOLEAN /\ dry \in 0 .. DryMax /\ jolts \in 0 .. MaxJolts

KilledOK ==
  killed \in [by : {Off, "start", "watchdog", "stop"}, in : Alive \cup {Off}, dry : 0 .. DryMax,
              told : BOOLEAN]

ProcessTypeOK == PhaseOK /\ TimersOK /\ ChronyOK /\ GateOK /\ SamplesOK /\ KilledOK

(* A process that is gone leaves nothing to the next.                      *)
Gone ==
  /\ proc' = "down"
  /\ feedIn' = Off /\ petIn' = Off /\ retryIn' = 0 /\ attempt' = 0
  /\ chrony' = [left |-> SettleTimeout, good |-> 0, latched |-> FALSE]
  /\ gate' = NotYet /\ watched' = FALSE /\ moved' = FALSE
  /\ dry' = 0 /\ busy' = MaxStart /\ requested' = FALSE
  /\ UNCHANGED <<flowing, jolts>>

ProcessInit ==
  /\ proc = "booting" /\ unit = "activating"
  /\ startLeft = TimeoutStart /\ dogLeft = 0 /\ stopLeft = TimeoutStop
  /\ feedIn = Off /\ petIn = Off /\ retryIn = 0 /\ attempt = 0
  /\ chrony = [left |-> SettleTimeout, good |-> 0, latched |-> FALSE]
  /\ gate = NotYet /\ watched = FALSE /\ moved = FALSE
  /\ flowing = FALSE /\ dry = 0 /\ jolts = 0 /\ busy = MaxStart
  /\ requested = FALSE /\ killed = NotKilled

-----------------------------------------------------------------------------
(* sd_notify.  The start timeout is over and the watchdog counts from the  *)
(* first READY=1 on; any later one leaves them alone.                      *)
Ready ==
  /\ IF unit = "activating" THEN unit' = "active" /\ startLeft' = 0 /\ dogLeft' = WatchdogSec
     ELSE UNCHANGED <<unit, startLeft, dogLeft>>
  /\ UNCHANGED stopLeft

Pet ==
  /\ dogLeft' = IF unit = "active" THEN WatchdogSec ELSE dogLeft
  /\ UNCHANGED <<unit, startLeft, stopLeft>>

(* EXTEND_TIMEOUT_USEC: the start timeout ends no sooner than this from    *)
(* now; a unit that has started ignores it.                                *)
Extended(left) == IF unit = "activating" /\ left < ExtendBy THEN ExtendBy ELSE left

-----------------------------------------------------------------------------
(* main up to run(): signal handlers in place, no event to set yet.  run() *)
(* makes the event and starts the feeder.                                  *)
Run ==
  /\ proc = "booting" /\ proc' = "settling"
  /\ feedIn' = 0
  /\ UNCHANGED <<systemd, petIn, retryIn, attempt, chrony, watch, samples, busy, requested, killed>>

Feed ==
  /\ feedIn = 0
  /\ startLeft' = Extended(startLeft) /\ feedIn' = FeedEvery
  /\ UNCHANGED <<proc, unit, dogLeft, stopLeft, petIn, retryIn, attempt, chrony, watch, samples,
                 busy, requested, killed>>

(* _wait_for_chrony_settled, on the connecting thread: good readings in a  *)
(* row or the timeout, and either is remembered; without chronyc the gate  *)
(* is left at once and tried again by the next connect.                    *)
Settled(latch) ==
  /\ proc' = "connecting"
  /\ chrony' = [left |-> SettleTimeout, good |-> 0, latched |-> latch]

ChronyGate ==
  /\ proc = "settling"
  /\ \/ (chrony.latched \/ chrony.left = 0) /\ Settled(TRUE)
     \/ ~chrony.latched /\ chrony.left = SettleTimeout /\ chrony.good = 0 /\ Settled(FALSE)
     \/ /\ ~chrony.latched /\ chrony.left > 0
        /\ IF chrony.good + 1 = SettleReadings THEN Settled(TRUE)
           ELSE chrony' = [chrony EXCEPT !.good = @ + 1] /\ UNCHANGED proc
     \/ /\ ~chrony.latched /\ chrony.left > 0 /\ chrony.good > 0
        /\ chrony' = [chrony EXCEPT !.good = 0] /\ UNCHANGED proc
  /\ UNCHANGED <<systemd, feedIn, petIn, retryIn, attempt, watch, samples, busy, requested, killed>>

(* _connect_with_backoff: a source answered, at once or after a wait.  Its *)
(* finally clause stops the episode guard; the streams are started and the *)
(* feeder is cancelled.                                                    *)
Connected ==
  /\ proc = "connecting" /\ proc' = "starting"
  /\ feedIn' = Off /\ petIn' = Off /\ busy' = MaxStart
  /\ UNCHANGED <<systemd, retryIn, attempt, chrony, watch, samples, requested, killed>>

(* None did.  The first time systemd is told READY=1 and the guard starts  *)
(* to pet; then comes a wait that ends at once if a stop was requested.    *)
Delay == RetryDelays[IF attempt < Len(RetryDelays) THEN attempt + 1 ELSE Len(RetryDelays)]

ConnectFailed ==
  /\ proc = "connecting" /\ proc' = "waiting"
  /\ IF attempt = 0 THEN Ready /\ petIn' = PetEvery ELSE UNCHANGED <<systemd, petIn>>
  /\ retryIn' = Delay
  /\ attempt' = IF attempt < Len(RetryDelays) THEN attempt + 1 ELSE attempt
  /\ UNCHANGED <<feedIn, chrony, watch, samples, busy, requested, killed>>

GuardPets ==
  /\ petIn = 0 /\ petIn' = PetEvery
  /\ Pet
  /\ UNCHANGED <<proc, feedIn, retryIn, attempt, chrony, watch, samples, busy, requested, killed>>

(* _wait_interruptible.                                                    *)
DeafWait    == FALSE
Interrupted == requested

RetryConnect ==
  /\ proc = "waiting" /\ ~Interrupted /\ retryIn = 0
  /\ proc' = "settling"
  /\ UNCHANGED <<systemd, startup, watch, samples, busy, requested, killed>>

(* Streams, IPC, uploader and background tasks are up.                     *)
Started ==
  /\ proc = "starting" /\ proc' = "running"
  /\ dry' = 0
  /\ Ready
  /\ UNCHANGED <<startup, watch, flowing, jolts, busy, requested, killed>>

-----------------------------------------------------------------------------
(* _ProgressGate.update.                                                   *)
Cap(n, limit) == IF n < limit THEN n ELSE limit

Advanced(g) ==
  LET begun == IF g.age = Off THEN [NotYet EXCEPT !.age = 0] ELSE g
  IN  IF g.age # Off /\ moved THEN [begun EXCEPT !.seen = TRUE, !.quiet = 0] ELSE begun

NeverStalls(g) == FALSE
Aged(g) == g.age > GraceSec
Stalled(g) == IF g.seen THEN g.quiet > StallSec ELSE g.age > GraceSec

(* _watchdog_loop, one turn.  A sum that cannot be taken, because a band   *)
(* recorder is added meanwhile, counts as healthy.                         *)
Watch ==
  /\ proc = "running" /\ ~requested /\ ~watched /\ watched' = TRUE
  /\ \/ /\ gate' = Advanced(gate) /\ moved' = FALSE
        /\ IF Stalled(gate') THEN UNCHANGED systemd ELSE Pet
        /\ UNCHANGED jolts
     \/ /\ jolts < MaxJolts /\ jolts' = jolts + 1
        /\ gate' = IF gate.age = Off THEN [gate EXCEPT !.age = 0] ELSE gate
        /\ Pet /\ UNCHANGED moved
  /\ UNCHANGED <<proc, startup, flowing, dry, busy, requested, killed>>

(* A recorder that replaces one of the same SSRC takes its samples out of  *)
(* the sum: a change like any other to the gate.                           *)
Replaced ==
  /\ proc = "running" /\ jolts < MaxJolts /\ jolts' = jolts + 1
  /\ moved' = TRUE
  /\ UNCHANGED <<proc, systemd, startup, gate, watched, flowing, dry, busy, requested, killed>>

Flow ==
  /\ flowing' = ~flowing
  /\ UNCHANGED <<proc, systemd, startup, watch, dry, jolts, busy, requested, killed>>

-----------------------------------------------------------------------------
(* Requests to stop: systemctl's, which a process that has not come to     *)
(* run() yet drops, and a timing guard's SIGTERM to its own process, of    *)
(* which systemd knows nothing.                                            *)
SystemctlStop ==
  /\ unit \in {"activating", "active"} /\ proc # "down"
  /\ unit' = "stopping" /\ startLeft' = 0 /\ dogLeft' = 0 /\ stopLeft' = TimeoutStop
  /\ requested' = (proc # "booting")
  /\ UNCHANGED <<proc, startup, watch, samples, busy, killed>>

SelfRestart ==
  /\ proc = "running" /\ requested' = TRUE
  /\ UNCHANGED <<proc, systemd, startup, watch, samples, busy, killed>>

(* The back-off or the main task notices, and _shutdown begins.  Nobody    *)
(* pets from here on; the last decodes block the event loop.               *)
Stop ==
  /\ \/ proc = "waiting" /\ Interrupted /\ busy' = 0
     \/ proc = "running" /\ requested /\ busy' \in {0, MaxDrain}
  /\ proc' = "stopping"
  /\ feedIn' = Off /\ petIn' = Off
  /\ UNCHANGED <<systemd, retryIn, attempt, chrony, watch, samples, requested, killed>>

Exit ==
  /\ proc = "stopping" /\ busy = 0
  /\ Gone
  /\ UNCHANGED <<systemd, killed>>

(* A placeholder for radiod's address: status 78, not to be restarted.     *)
Unconfigured ==
  /\ proc = "booting" /\ Gone
  /\ unit' = "inactive"
  /\ UNCHANGED <<startLeft, dogLeft, stopLeft, killed>>

-----------------------------------------------------------------------------
(* What the process does before time passes, or systemd acts.              *)
OwnDue ==
  \/ feedIn = 0 \/ petIn = 0
  \/ proc \in {"booting", "starting", "stopping"} /\ busy = 0
  \/ proc = "settling" /\ (chrony.latched \/ chrony.left = 0)
  \/ proc = "waiting" /\ (Interrupted \/ retryIn = 0)
  \/ proc = "running" /\ (requested \/ ~watched)

(* systemd kills what missed its time ...                                  *)
Overdue ==
  CASE unit = "activating" /\ startLeft = 0 -> "start"
    [] unit = "active" /\ dogLeft = 0       -> "watchdog"
    [] unit = "stopping" /\ stopLeft = 0    -> "stop"
    [] OTHER                                -> Off

Kill ==
  /\ proc # "down" /\ Overdue # Off /\ ~OwnDue
  /\ Gone
  /\ killed' = [by |-> Overdue, in |-> proc, dry |-> dry, told |-> requested]
  /\ UNCHANGED systemd

(* ... and Restart=always, or someone, starts it again.                    *)
Boot ==
  /\ proc = "down" /\ proc' = "booting"
  /\ unit' = "activating" /\ startLeft' = TimeoutStart /\ dogLeft' = 0 /\ stopLeft' = TimeoutStop
  /\ killed' = NotKilled
  /\ UNCHANGED <<startup, watch, samples, busy, requested>>

-----------------------------------------------------------------------------
Less(n)      == IF n \in {0, Off} THEN n ELSE n - 1
LessIf(p, n) == IF p THEN Less(n) ELSE n

Tick ==
  /\ proc # "down" /\ ~OwnDue /\ Overdue = Off
  /\ startLeft' = LessIf(unit = "activating", startLeft)
  /\ dogLeft' = LessIf(unit = "active", dogLeft)
  /\ stopLeft' = LessIf(unit = "stopping", stopLeft)
  /\ feedIn' = Less(feedIn) /\ petIn' = Less(petIn)
  /\ retryIn' = LessIf(proc = "waiting", retryIn)
  /\ chrony' = [chrony EXCEPT !.left = LessIf(proc = "settling", @)]
  /\ busy' = LessIf(proc \in {"booting", "starting", "stopping"}, busy)
  /\ gate' = IF gate.age = Off THEN gate
             ELSE [gate EXCEPT !.quiet = Cap(@ + 1, StallSec + 1), !.age = Cap(@ + 1, GraceSec + 1)]
  /\ watched' = FALSE
  /\ moved' = (proc = "running" /\ (moved \/ flowing))
  /\ dry' = IF flowing THEN 0 ELSE IF proc \in {"running", "stopping"} THEN Cap(dry + 1, DryMax) ELSE 0
  /\ UNCHANGED <<proc, unit, attempt, flowing, jolts, requested, killed>>

Own ==
  \/ Run \/ Feed \/ ChronyGate \/ Connected \/ ConnectFailed \/ GuardPets \/ RetryConnect
  \/ Started \/ Watch \/ Stop \/ Exit

ProcessNext ==
  \/ Own \/ Tick \/ Kill \/ Boot
  \/ Replaced \/ Flow \/ SystemctlStop \/ SelfRestart \/ Unconfigured

ProcessSpec == ProcessInit /\ [][ProcessNext]_processVars

(* Time passes, and both the process and systemd do what is due.           *)
ProcessFairSpec == ProcessSpec /\ WF_processVars(Tick) /\ WF_processVars(Own) /\ WF_processVars(Kill)

-----------------------------------------------------------------------------
(* However long connecting takes and radiod stays away, systemd's start    *)
(* timeout never fires (__main__.py:1961), and its watchdog only at a      *)
(* process whose samples have been missing for the length of the watchdog, *)
(* or that is on its way out.                                              *)
KilledForCause ==
  /\ killed.by # "start"
  /\ killed.by = "watchdog" => killed.in = "stopping" \/ killed.dry >= WatchdogSec

(* A stop ends the back-off at once (__main__.py:1852): a process that was *)
(* told is killed only where a connect, the start or the drain takes time. *)
StopHeard ==
  killed.by = "stop" /\ killed.told => killed.in \notin {"waiting", "running"}

(* Every request to stop is heard.  Does not hold: the handlers stand      *)
(* before run() has made the event, and request_shutdown drops what comes  *)
(* in between (__main__.py:2394).                                          *)
NoRequestDropped ==
  unit = "stopping" /\ proc \notin {"booting", "down"} => requested

(* A wedged recorder does not stay up (__main__.py:1983): without samples  *)
(* it is restarted, also after recorders were replaced under the gate.     *)
StallRestarts ==
  []<>(flowing \/ proc # "running")

(* The drain runs to its end, in the order _shutdown calls critical        *)
(* (__main__.py:2359).  Does not hold: systemd is not told of a stop the   *)
(* process asked for itself, and nobody pets its watchdog.                 *)
DrainNotCut ==
  ~(killed.by = "watchdog" /\ killed.in = "stopping")
=============================================================================
