---------------------------- MODULE SessionState ----------------------------
(***************************************************************************)
(* The state the panel (TuiApp, crates/dch-tui/src/app.rs) and the driver  *)
(* (run_driver_loop, crates/dch/src/tui.rs) share, the driver's locals and *)
(* the panel's fields.  Both are tasks of one current_thread runtime, so a *)
(* task keeps the thread from one await to the next: `holder` names the    *)
(* task inside such a stretch, and "free" says both stand at an await.     *)
(*                                                                         *)
(* A wording is one text the user committed (a prompt submitted, an edit   *)
(* saved, a steer sent): 1 .. typed, in the order they were committed.     *)
(***************************************************************************)
EXTENDS PromptQueue

CONSTANTS
  MaxTexts,      \* bound: wordings the user commits in a behaviour
  MaxCommands,   \* bound: session commands the user sends
  MaxIds,        \* bound: ids given out before the user stops steering the queue
  Commands,      \* the session commands the user may send
  TurnLengths,   \* the history units one run may commit
  MayFold,       \* whether the engine may compact the history inside a run
  MaySteer,      \* whether the user steers
  MayTimeOut     \* whether the exit's bound on the driver may expire

CommandKinds == {"Clear", "Compact", "Rebuild", "Resume", "ListSessions"}

ASSUME BoundAssumption == MaxTexts \in Nat /\ MaxCommands \in Nat /\ MaxIds \in Nat
ASSUME CommandsAssumption == Commands \subseteq CommandKinds
ASSUME TurnAssumption == TurnLengths \subseteq Nat
ASSUME SwitchAssumption == /\ MayFold \in BOOLEAN
                           /\ MaySteer \in BOOLEAN
                           /\ MayTimeOut \in BOOLEAN

NoId == -1      \* u64::MAX in live_claim and correction_cancel; None elsewhere
NoText == 0
Saved == 0      \* what a resumed session's history holds: no wording of this one
Texts == 1 .. MaxTexts
Ids == Nat
IdsOrNone == Ids \cup {NoId}
TextsOrNone == Texts \cup {NoText}

\* Submission and SessionCommand, in one shape.
Submission(kind, id, text) == [kind |-> kind, id |-> id, text |-> text]
RunMsg(id) == Submission("Run", id, NoText)
CorrectMsg(id, text) == Submission("Correct", id, text)
CommandMsg(command) == Submission(command, NoId, NoText)
Submissions ==
  [kind : {"Run"}, id : Ids, text : {NoText}]
    \cup [kind : {"Correct"}, id : IdsOrNone, text : Texts]
    \cup [kind : CommandKinds, id : {NoId}, text : {NoText}]

NoClaim == [id |-> NoId, before |-> 0]
Row(text, kind) == [text |-> text, kind |-> kind]

VARIABLES
  \* shared (TuiObserverState and the two channels)
  queued, nextId,     \* the waiting prompts and the next id
  channel,            \* submissions on their way to the driver
  updates,            \* SessionUpdates on their way to the panel
  liveClaim,          \* the id whose claim is in flight
  correctionCancel,   \* the id whose correction raised the cancel
  cancelSignal,       \* the live runner's cancel
  agentRunning, shuttingDown,
  graduations,        \* rows owed to the transcript
  pendingSteers,      \* steers pinned above the turn's timer
  rescued,            \* corrections collected for the exit's echo
  steering,           \* the live runner's steering slot
  startupSlot,        \* what a rebuild left in the startup runner's slot
  \* the driver
  pc, revived, lastClaim, interruptedFor, runText, applying,
  history,            \* the committed history: per unit, the wordings it carries
  verdict,            \* the last correction's notice
  \* the panel
  app, holder, queueMode, confirmAct, editing, queueView, handed, picker,
  landed,             \* the user rows that reached the transcript
  \* what the properties remember
  typed,              \* how many wordings the user committed
  released,           \* wordings the user let go of
  asked,              \* the prompt the standing ask is about
  claims,             \* the entries claimed, as the claims took them, oldest first
  commandsSent,
  resumeMark,         \* nextId when the last /resume was sent
  swept               \* ids the adoption of a resumed session dropped

queueVars  == <<queued, nextId>>
engineVars == <<steering, startupSlot, graduations, pendingSteers>>
signalVars == <<liveClaim, correctionCancel, cancelSignal, agentRunning, shuttingDown>>
driverVars == <<pc, revived, lastClaim, interruptedFor, runText, applying, history, verdict>>
sheetVars  == <<queueMode, confirmAct, editing, queueView>>
panelVars  == <<app, sheetVars, handed, picker, landed>>
userVars   == <<typed, released, asked, commandsSent, resumeMark, swept>>
ghostVars  == <<claims, userVars>>
channelVars == <<channel, updates, rescued>>
vars == <<queueVars, engineVars, signalVars, driverVars, panelVars, holder, ghostVars,
          channelVars>>

\* The slot: what was offered and not yet drained, what the engine has drained for
\* a turn it prepares, what an earlier run left unread; `preparing` from the first
\* drain for a turn to that turn's start.
ClosedSlot ==
  [open |-> FALSE, preparing |-> FALSE, live |-> <<>>, drained |-> <<>>, pocket |-> <<>>]

\* What no model has read: a run that ends before the turn it prepares hands back
\* what it had drained.
Unread == steering.pocket \o steering.drained \o steering.live

Prompts == [id : Ids, text : Texts]
Rows == [text : Texts, kind : {"sent", "steered", "unsent"}]
SteeringSlots ==
  [open : BOOLEAN, preparing : BOOLEAN,
   live : Seq(Texts), drained : Seq(Texts), pocket : Seq(Texts)]
StartupSlots == [rebuilt : BOOLEAN, left : Seq(Texts)]
Turns == [id : IdsOrNone, before : Nat]
Units == SUBSET (Texts \cup {Saved})
Verdicts == {"none", "silent", "unwritten", "folded", "boundary"}
PCs == {"loop", "parked", "running", "applying", "done", "aborted"}
Modes == {"Plain", "Focused", "Confirming", "Editing"}

QueueType == queued \in Seq(Prompts) /\ nextId \in Nat
ChannelType ==
  /\ channel \in Seq(Submissions)
  /\ updates \in Seq({"Resumed", "SessionCatalog"})
  /\ rescued \subseteq Texts
EngineType ==
  /\ steering \in SteeringSlots /\ startupSlot \in StartupSlots
  /\ graduations \subseteq Rows /\ pendingSteers \subseteq Texts
SignalType ==
  /\ liveClaim \in IdsOrNone /\ correctionCancel \in IdsOrNone
  /\ cancelSignal \in BOOLEAN /\ agentRunning \in BOOLEAN /\ shuttingDown \in BOOLEAN
DriverType ==
  /\ pc \in PCs
  /\ revived \in Seq(Submissions)
  /\ lastClaim \in Turns /\ interruptedFor \in IdsOrNone
  /\ runText \in TextsOrNone
  /\ applying \in CommandKinds \cup {"none"}
  /\ history \in Seq(Units)
  /\ verdict \in Verdicts
PanelType ==
  /\ app \in {"live", "quitting", "drawn", "leaving", "gone"}
  /\ queueMode \in Modes /\ confirmAct \in {"Drop", "Steer"}
  /\ editing \in IdsOrNone /\ queueView \in Nat
  /\ handed \in IdsOrNone /\ picker \in BOOLEAN
  /\ landed \subseteq Rows
GhostType ==
  /\ claims \in Seq(Prompts)
  /\ typed \in 0 .. MaxTexts
  /\ released \subseteq Texts
  /\ asked \in IdsOrNone
  /\ commandsSent \in 0 .. MaxCommands
  /\ resumeMark \in Nat
  /\ swept \subseteq Ids

TypeOK ==
  /\ QueueType /\ ChannelType /\ EngineType /\ SignalType
  /\ DriverType /\ PanelType /\ GhostType
  /\ holder \in {"free", "panel", "driver"}
  /\ pc = "running" => runText \in Texts
=============================================================================
