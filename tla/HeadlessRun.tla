----------------------------- MODULE HeadlessRun -----------------------------
(***************************************************************************)
(* One headless run (headless.rs, main.rs, done.rs) under the two signal   *)
(* bridges (signals.rs): the construction bridge armed by main, the run's  *)
(* bridge with its repeat window, the hand-off between them, the marker    *)
(* (the done-file) and the session's save.  Main task, bridge tasks and    *)
(* signal driver share one thread: an action is what one of them does from *)
(* one await to the next.                                                  *)
(***************************************************************************)
EXTENDS Integers

CONSTANTS
  MaxPresses,   \* how many interrupts arrive (bound)
  WritesFail    \* whether a file operation may fail

ASSUME HeadlessBounds == MaxPresses \in Nat /\ WritesFail \in BOOLEAN

VARIABLES
  stage,          \* where run_headless_inner awaits
  code,           \* the exit code
  marker,         \* the done-file: whose outcome it tells
  trouble,        \* the file operations that failed (remembered)
  recorded,       \* outcome_recorded
  saves,          \* the session files written
  presses,        \* the interrupts so far
  pending,        \* signals delivered, not yet broadcast by the signal driver
  startup,        \* the construction bridge: its task, its streams, its stop
  bridge,         \* the run's bridge: its task, its streams, its stop
  repeatWindow,   \* the run bridge's clock since the last first interrupt
  cancelled       \* the runner's cancel signal

headlessVars == <<stage, code, marker, trouble, recorded, saves, presses, pending, startup,
                  bridge, repeatWindow, cancelled>>

Signals == {"SIGINT", "SIGTERM"}
Ends == {"returned", "forced"}
BridgeTask(state, ready, stop) == [state |-> state, ready |-> ready, stop |-> stop]
BridgeTasks == [state : {"none", "listening", "over"}, ready : SUBSET Signals, stop : BOOLEAN]
Outcomes == {"answer", "no answer", "undelivered", "run error", "run cancelled"}
ExitCode == [o \in Outcomes \union {"construction failure", "startup cancel", "forced cancel"} |->
               CASE o = "answer" -> 0
                 [] o = "construction failure" -> 1
                 [] o \in {"no answer", "undelivered", "run error"} -> 2
                 [] OTHER -> 130]

HeadlessTypeOK ==
  /\ stage \in Ends \union {"entered", "constructing", "failed", "handoff", "running", "stopping"}
  /\ code \in {0, 1, 2, 130}
  /\ marker \in DOMAIN ExitCode \union {"none", "stale"}
  /\ trouble \subseteq {"clear", "overwrite", "marker", "machine", "display"}
  /\ recorded \in BOOLEAN
  /\ saves \subseteq {"machine", "display"}
  /\ presses \in 0 .. MaxPresses /\ pending \subseteq Signals
  /\ startup \in BridgeTasks /\ bridge \in BridgeTasks
  /\ repeatWindow \in {"none", "open", "past"} /\ cancelled \in BOOLEAN

\* main has armed the construction bridge; a done-file may be left from before.
HeadlessInit ==
  /\ stage = "entered" /\ code = 0 /\ marker \in {"none", "stale"} /\ trouble = {}
  /\ recorded = FALSE /\ saves = {} /\ presses = 0 /\ pending = {}
  /\ startup = BridgeTask("listening", {}, FALSE) /\ bridge = BridgeTask("none", {}, FALSE)
  /\ repeatWindow = "none" /\ cancelled = FALSE

Alive == stage \notin Ends

\* The tasks main spawned are first polled when it awaits.
Polled == Alive /\ stage # "entered"

\* write_done_file: the rename replaces the marker, or nothing changes.
WriteMarker(outcome) ==
  \/ marker' = outcome /\ trouble' = trouble
  \/ WritesFail /\ marker' = marker /\ trouble' = trouble \union {"marker"}

-----------------------------------------------------------------------------
(* Signals. *)

Press(s) ==
  /\ Alive /\ presses < MaxPresses /\ presses' = presses + 1
  /\ pending' = pending \union {s}
  /\ UNCHANGED <<stage, code, marker, trouble, recorded, saves, startup, bridge,
                 repeatWindow, cancelled>>

Hearing(task) == IF task.state = "listening" THEN [task EXCEPT !.ready = @ \union pending]
                 ELSE task

\* The driver broadcasts to the streams that exist; equal signals coalesce.
Broadcast ==
  /\ Polled /\ pending # {} /\ pending' = {}
  /\ startup' = Hearing(startup) /\ bridge' = Hearing(bridge)
  /\ UNCHANGED <<stage, code, marker, trouble, recorded, saves, presses, repeatWindow,
                 cancelled>>

WindowPasses ==
  /\ Alive /\ repeatWindow = "open" /\ repeatWindow' = "past"
  /\ UNCHANGED <<stage, code, marker, trouble, recorded, saves, presses, pending, startup,
                 bridge, cancelled>>

\* construction_loop: its select takes a ready branch at random.
StartupStops ==
  /\ Polled /\ startup.state = "listening" /\ startup.stop
  /\ startup' = BridgeTask("over", {}, TRUE)
  /\ UNCHANGED <<stage, code, marker, trouble, recorded, saves, presses, pending, bridge,
                 repeatWindow, cancelled>>

StartupInterrupted ==
  /\ Polled /\ startup.state = "listening" /\ startup.ready # {}
  /\ WriteMarker("startup cancel")
  /\ stage' = "forced" /\ code' = 130
  /\ UNCHANGED <<recorded, saves, presses, pending, startup, bridge, repeatWindow, cancelled>>

\* (Mutants: interrupts go before the stop; a stop asked for is not looked at.)
BridgeStopsUnpressed ==
  /\ Polled /\ bridge.state = "listening" /\ bridge.stop /\ bridge.ready = {}
  /\ bridge' = BridgeTask("over", {}, TRUE)
  /\ UNCHANGED <<stage, code, marker, trouble, recorded, saves, presses, pending, startup,
                 repeatWindow, cancelled>>
BridgeHearsAlways(s) == Polled /\ bridge.state = "listening" /\ s \in bridge.ready

\* bridge_loop, its select biased: the stop, an interrupt, the window's end.
BridgeStops ==
  /\ Polled /\ bridge.state = "listening" /\ bridge.stop
  /\ bridge' = BridgeTask("over", {}, TRUE)
  /\ UNCHANGED <<stage, code, marker, trouble, recorded, saves, presses, pending, startup,
                 repeatWindow, cancelled>>

BridgeHears(s) ==
  Polled /\ bridge.state = "listening" /\ ~bridge.stop /\ s \in bridge.ready

\* classify_interrupt, by the clock at the time the interrupt is taken.
BridgeCancels(s) ==
  /\ BridgeHears(s) /\ repeatWindow # "open"
  /\ cancelled' = TRUE /\ repeatWindow' = "open"
  /\ bridge' = [bridge EXCEPT !.ready = @ \ {s}]
  /\ UNCHANGED <<stage, code, marker, trouble, recorded, saves, presses, pending, startup>>

\* (Mutant: the force hook leaves the marker alone.)
BridgeForcesMute(s) ==
  /\ BridgeHears(s) /\ repeatWindow = "open"
  /\ stage' = "forced" /\ code' = 130
  /\ UNCHANGED <<marker, trouble, recorded, saves, presses, pending, startup, bridge,
                 repeatWindow, cancelled>>

\* The force hook stands down once the outcome is recorded.
BridgeForces(s) ==
  /\ BridgeHears(s) /\ repeatWindow = "open"
  /\ IF recorded THEN UNCHANGED <<marker, trouble>> ELSE WriteMarker("forced cancel")
  /\ stage' = "forced" /\ code' = 130
  /\ UNCHANGED <<recorded, saves, presses, pending, startup, bridge, repeatWindow, cancelled>>

BridgeRearms ==
  /\ Polled /\ bridge.state = "listening" /\ ~bridge.stop /\ bridge.ready = {}
  /\ repeatWindow = "past" /\ repeatWindow' = "none"
  /\ UNCHANGED <<stage, code, marker, trouble, recorded, saves, presses, pending, startup,
                 bridge, cancelled>>

-----------------------------------------------------------------------------
(* The main task. *)

FailsConstruction ==
  /\ WriteMarker("construction failure")
  /\ stage' = "failed" /\ code' = 1
  /\ startup' = [startup EXCEPT !.stop = TRUE]
  /\ UNCHANGED <<recorded, saves, presses, pending, bridge, repeatWindow, cancelled>>

\* run_headless_inner first removes what an earlier run left.
ClearsStale ==
  /\ stage = "entered" /\ stage' = "constructing" /\ marker' = "none"
  /\ UNCHANGED <<code, trouble, recorded, saves, presses, pending, startup, bridge,
                 repeatWindow, cancelled>>

\* It cannot be removed: it is overwritten in place, then replaced.
CannotClear ==
  /\ stage = "entered" /\ marker = "stale" /\ WritesFail
  /\ \E lost \in SUBSET {"overwrite", "marker"} :
       /\ trouble' = trouble \union {"clear"} \union lost
       /\ marker' = IF lost = {"overwrite", "marker"} THEN marker ELSE "construction failure"
  /\ stage' = "failed" /\ code' = 1
  /\ startup' = [startup EXCEPT !.stop = TRUE]
  /\ UNCHANGED <<recorded, saves, presses, pending, bridge, repeatWindow, cancelled>>

\* construct_run: the prompt, the configuration or the runner.
ConstructionFails == stage = "constructing" /\ FailsConstruction

\* The run's bridge listens before the construction bridge is told to stop.
RunConstructed ==
  /\ stage = "constructing" /\ stage' = "handoff"
  /\ bridge' = BridgeTask("listening", {}, FALSE)
  /\ startup' = [startup EXCEPT !.stop = TRUE]
  /\ UNCHANGED <<code, marker, trouble, recorded, saves, presses, pending, repeatWindow,
                 cancelled>>

\* CancelBridge::stop awaits the task.
FailureReturns ==
  /\ stage = "failed" /\ startup.state = "over" /\ stage' = "returned"
  /\ UNCHANGED <<code, marker, trouble, recorded, saves, presses, pending, startup, bridge,
                 repeatWindow, cancelled>>

RunBegins ==
  /\ stage = "handoff" /\ startup.state = "over" /\ stage' = "running"
  /\ UNCHANGED <<code, marker, trouble, recorded, saves, presses, pending, startup, bridge,
                 repeatWindow, cancelled>>

\* save_transcript: the machine file and the display file; a failure warns.
SavesTranscript(failed) == saves' = {"machine", "display"} \ failed

\* The stretch from the run's resolution to the stop of its bridge has no await.
RunResolves(outcome) ==
  /\ stage = "running" /\ (outcome = "run cancelled" => cancelled)
  /\ \E failed \in IF WritesFail THEN SUBSET {"marker", "machine", "display"} ELSE {{}} :
       /\ trouble' = trouble \union failed
       /\ marker' = IF "marker" \in failed THEN marker ELSE outcome
       /\ SavesTranscript(failed)
  /\ recorded' = TRUE /\ code' = ExitCode[outcome]
  /\ bridge' = [bridge EXCEPT !.stop = TRUE]
  /\ stage' = "stopping"
  /\ UNCHANGED <<presses, pending, startup, repeatWindow, cancelled>>

RunReturns ==
  /\ stage = "stopping" /\ bridge.state = "over" /\ stage' = "returned"
  /\ UNCHANGED <<code, marker, trouble, recorded, saves, presses, pending, startup, bridge,
                 repeatWindow, cancelled>>

HeadlessOver == ~Alive /\ UNCHANGED headlessVars

HeadlessNext ==
  \/ (\E s \in Signals : Press(s)) \/ Broadcast \/ WindowPasses
  \/ StartupStops \/ StartupInterrupted
  \/ BridgeStops \/ (\E s \in Signals : BridgeCancels(s) \/ BridgeForces(s)) \/ BridgeRearms
  \/ ClearsStale \/ CannotClear \/ ConstructionFails \/ RunConstructed \/ FailureReturns
  \/ RunBegins \/ (\E outcome \in Outcomes : RunResolves(outcome)) \/ RunReturns
  \/ HeadlessOver

\* The runtime polls the bridges' tasks and the signal driver.
HeadlessFairness ==
  /\ WF_headlessVars(Broadcast)
  /\ WF_headlessVars(StartupStops \/ StartupInterrupted)
  /\ WF_headlessVars(BridgeStops \/ (\E s \in Signals : BridgeCancels(s) \/ BridgeForces(s)))
  /\ WF_headlessVars(FailureReturns \/ RunBegins \/ RunReturns)

HeadlessSpec == HeadlessInit /\ [][HeadlessNext]_headlessVars /\ HeadlessFairness

-----------------------------------------------------------------------------
(* Properties. *)

\* The done-file a supervisor reads agrees with the exit code, however the
\* process ended: by the run, by a failed construction, by an interrupt in
\* either phase, at the hand-off or after the run resolved.  Only a marker
\* that could not be written may be missing or stale.
MarkerTellsTheExit ==
  ~Alive =>
    \/ marker \in DOMAIN ExitCode /\ ExitCode[marker] = code
    \/ "marker" \in trouble

\* What the run recorded stays: no interrupt, however late, replaces the
\* outcome in the done-file, the exit code or the saved conversation.
OutcomeStands ==
  [][recorded => /\ marker' = marker /\ code' = code /\ saves' = saves]_headlessVars

\* Whoever waits for a bridge's task goes on: the stop reaches it in every
\* state, with interrupts still to be taken and inside the window or not.
StopsAreHeard ==
  stage \in {"failed", "handoff", "stopping"} ~> stage \in {"running", "returned", "forced"}
=============================================================================
