----------------------------- MODULE QueuePanel -----------------------------
(***************************************************************************)
(* The panel's half (TuiApp, crates/dch-tui/src/app.rs): the composer, the *)
(* waiting section with its walk, asks and editor, the steering chord, the *)
(* session commands, the frame that drains the shared state, and the exit  *)
(* (run_tui_session, crates/dch/src/tui.rs).  A key press is one action;   *)
(* several may land before the frame that follows (drain_ready), and the   *)
(* driver runs only once the frame is drawn.                               *)
(*                                                                         *)
(* The submit channel's receiver lives as long as the driver, and the      *)
(* driver outlives every key press unless it panics; the arms for a driver *)
(* already gone are not modelled.                                          *)
(***************************************************************************)
EXTENDS SessionState

\* A key press lands.
PanelTurn == app = "live" /\ holder \in {"free", "panel"} /\ holder' = "panel"

\* The user commits a new wording.
Fresh == typed + 1
TypesOne == typed < MaxTexts /\ typed' = typed + 1

\* queued_display_len: the row whose claim is a channel hop away is hidden.
DisplayLen(q) == Len(q) - (IF Waits(q, handed) THEN 1 ELSE 0)
\* Mutant of LastRow: no floor at zero.
LastRowUnfloored(n) == n - 1
LastRow(n) == IF n = 0 THEN 0 ELSE n - 1
\* clamp_queue_view, over the queue as the press leaves it.
Clamped(view, q) == IF view <= LastRow(DisplayLen(q)) THEN view ELSE LastRow(DisplayLen(q))

\* queued_at(queue_view): the prompt under the view, by position.
ViewHolds == queueView < Len(queued)
Viewed == queued[queueView + 1]

\* release_queue_if_empty.
Released(mode, q) == IF q = <<>> /\ mode \in {"Focused", "Confirming"} THEN "Plain" ELSE mode
\* leave_queue_edit.
AfterEdit(q) == IF q = <<>> THEN "Plain" ELSE "Focused"

Idle == liveClaim = NoId /\ ~agentRunning

-----------------------------------------------------------------------------
(* Submitting and steering.                                                *)

\* submit_text, for words that are no command: the entry first, then its id.
SubmitText(q, text) ==
  /\ queued' = Push(q, nextId, text) /\ nextId' = nextId + 1
  /\ channel' = Append(channel, RunMsg(nextId))
  /\ handed' = IF q = <<>> /\ Idle THEN nextId ELSE NoId

\* deliver_guidance: the run in flight takes it, or it is an ordinary prompt.
DeliverGuidance(q, text) ==
  IF steering.open
  THEN /\ steering' = [steering EXCEPT !.live = Append(@, text)]
       /\ pendingSteers' = pendingSteers \cup {text}
       /\ queued' = q
       /\ UNCHANGED <<nextId, channel, handed>>
  ELSE SubmitText(q, text) /\ UNCHANGED <<steering, pendingSteers>>

\* Enter in the composer.
SubmitPrompt ==
  /\ PanelTurn /\ queueMode = "Plain" /\ ~picker
  /\ TypesOne
  /\ SubmitText(queued, Fresh)
  /\ UNCHANGED <<updates, rescued, engineVars, signalVars, driverVars, app, sheetVars, picker,
                 landed, claims, released, asked, commandsSent, resumeMark, swept>>

\* Ctrl+S: steer_now, which every sheet lets through: the composer's draft, or
\* an open editor's words, whose slot it retires.
SteerNow ==
  /\ MaySteer
  /\ PanelTurn
  /\ TypesOne
  /\ LET q == IF queueMode = "Editing" THEN RemoveId(queued, editing) ELSE queued
     IN /\ DeliverGuidance(q, Fresh)
        /\ IF queueMode = "Editing"
           THEN /\ queueMode' = AfterEdit(q)
                /\ editing' = NoId
                /\ queueView' = Clamped(queueView, q)
                /\ released' = released \cup
                     (IF Waits(queued, editing) THEN {TextOf(queued, editing)} ELSE {})
           ELSE UNCHANGED <<queueMode, editing, queueView, released>>
  /\ UNCHANGED <<updates, rescued, startupSlot, graduations, signalVars, driverVars, app,
                 confirmAct, picker, landed, claims, asked, commandsSent, resumeMark, swept>>

-----------------------------------------------------------------------------
(* The waiting section.                                                    *)

SheetKey == PanelTurn /\ ~picker
SheetOnly == UNCHANGED <<queueVars, channelVars, engineVars, signalVars, driverVars, app, handed,
                         picker, landed, claims, typed, released, commandsSent,
                         resumeMark, swept>>

\* Ctrl+W from the composer: focus_queue.
FocusQueue ==
  /\ SheetKey /\ queueMode = "Plain"
  /\ DisplayLen(queued) > 0
  /\ queueMode' = "Focused" /\ queueView' = Clamped(queueView, queued)
  /\ UNCHANGED <<confirmAct, editing, asked>> /\ SheetOnly

\* Left, Right, Ctrl+W: step_queue_view, wrapping at both ends.
StepView ==
  /\ SheetKey /\ queueMode = "Focused"
  /\ Len(queued) >= 2
  /\ queueView' \in {IF queueView + 1 >= Len(queued) THEN 0 ELSE queueView + 1,
                     IF queueView = 0 THEN Len(queued) - 1 ELSE queueView - 1}
  /\ UNCHANGED <<queueMode, confirmAct, editing, asked>> /\ SheetOnly

\* Esc or Ctrl+Q in the focused section.
UnfocusQueue ==
  /\ SheetKey /\ queueMode = "Focused"
  /\ queueMode' = "Plain"
  /\ UNCHANGED <<confirmAct, editing, queueView, asked>> /\ SheetOnly

\* d or s: the ask stands between the key and its act.
AskConfirm ==
  /\ SheetKey /\ queueMode = "Focused"
  /\ queueMode' = "Confirming"
  /\ confirmAct' \in (IF MaySteer THEN {"Drop", "Steer"} ELSE {"Drop"})
  /\ asked' = IF ViewHolds THEN Viewed.id ELSE NoId
  /\ UNCHANGED <<editing, queueView>> /\ SheetOnly

\* Any key but y: the ask stands down.
DeclineAsk ==
  /\ SheetKey /\ queueMode = "Confirming"
  /\ queueMode' = "Focused" /\ asked' = NoId
  /\ UNCHANGED <<confirmAct, editing, queueView>> /\ SheetOnly

\* y on the drop ask: drop_queue_entry, on the prompt under the view now.
ConfirmDrop ==
  /\ SheetKey /\ queueMode = "Confirming" /\ confirmAct = "Drop"
  /\ IF ViewHolds
     THEN LET q == RemoveId(queued, Viewed.id)
          IN /\ queued' = q
             /\ queueView' = Clamped(queueView, q)
             /\ queueMode' = Released("Focused", q)
             /\ released' = released \cup {Viewed.text}
     ELSE /\ queueView' = Clamped(queueView, queued) /\ queueMode' = "Focused"
          /\ UNCHANGED <<queued, released>>
  /\ asked' = NoId
  /\ UNCHANGED <<nextId, channelVars, engineVars, signalVars, driverVars, app, confirmAct,
                 editing, handed, picker, landed, claims, typed, commandsSent,
                 resumeMark, swept>>

\* y on the steer ask: steer_queued; refused with nothing running.
ConfirmSteer ==
  /\ SheetKey /\ queueMode = "Confirming" /\ confirmAct = "Steer"
  /\ nextId < MaxIds
  /\ IF ViewHolds /\ agentRunning
     THEN LET q == RemoveId(queued, Viewed.id)
          IN /\ queueView' = Clamped(queueView, q)
             /\ queueMode' = Released("Focused", q)
             /\ DeliverGuidance(q, Viewed.text)
     ELSE /\ queueView' = IF ViewHolds THEN queueView ELSE Clamped(queueView, queued)
          /\ queueMode' = "Focused"
          /\ UNCHANGED <<queueVars, channel, steering, pendingSteers, handed>>
  /\ asked' = NoId
  /\ UNCHANGED <<updates, rescued, startupSlot, graduations, signalVars, driverVars, app,
                 confirmAct, editing, picker, landed, claims, typed, released,
                 commandsSent, resumeMark, swept>>

\* e: open_queue_edit, on the prompt under the view; the composer is empty.
OpenEdit ==
  /\ SheetKey /\ queueMode = "Focused"
  /\ IF ViewHolds
     THEN queueMode' = "Editing" /\ editing' = Viewed.id /\ UNCHANGED queueView
     ELSE queueView' = Clamped(queueView, queued) /\ UNCHANGED <<queueMode, editing>>
  /\ UNCHANGED <<confirmAct, asked>> /\ SheetOnly

\* Esc or Ctrl+C in the editor: abort_queue_edit; the prompt stands as it was.
AbortEdit ==
  /\ SheetKey /\ queueMode = "Editing"
  /\ queueMode' = AfterEdit(queued) /\ editing' = NoId
  /\ queueView' = Clamped(queueView, queued)
  /\ UNCHANGED <<confirmAct, asked>> /\ SheetOnly

\* Mutant of CorrectClaimed: the cancel whatever turn is in flight.
CorrectAnyTurn(id, text) ==
  /\ channel' = Append(channel, CorrectMsg(id, text))
  /\ correctionCancel' = id /\ cancelSignal' = TRUE

\* correct_claimed: the correction is sent, then the cancel is raised, and only
\* against the turn it names.
CorrectClaimed(id, text) ==
  /\ channel' = Append(channel, CorrectMsg(id, text))
  /\ IF liveClaim = id
     THEN correctionCancel' = id /\ cancelSignal' = TRUE
     ELSE UNCHANGED <<correctionCancel, cancelSignal>>

\* Mutant of EditStillWaits: a run in flight is taken for the claim.
EditWaitsAtRest == ~agentRunning /\ Waits(queued, editing)

\* The prompt the editor holds has not gone out.
EditStillWaits == Waits(queued, editing)

\* Enter or Ctrl+Q in the editor: commit_queue_edit.  The words go back into the
\* slot they came from, or after a claim go out as a correction.
CommitEdit ==
  /\ SheetKey /\ queueMode = "Editing"
  /\ TypesOne
  /\ IF EditStillWaits
     THEN /\ queued' = ReplaceId(queued, editing, Fresh)
          /\ released' = released \cup {TextOf(queued, editing)}
          /\ queueView' = Clamped(IndexOf(queued, editing) - 1, queued)
          /\ UNCHANGED <<channel, correctionCancel, cancelSignal>>
     ELSE /\ CorrectClaimed(editing, Fresh)
          /\ queueView' = Clamped(queueView, queued)
          /\ UNCHANGED <<queued, released>>
  /\ queueMode' = AfterEdit(queued) /\ editing' = NoId
  /\ UNCHANGED <<nextId, updates, rescued, engineVars, liveClaim, agentRunning, shuttingDown,
                 driverVars, app, confirmAct, handed, picker, landed, claims, asked,
                 commandsSent, resumeMark, swept>>

-----------------------------------------------------------------------------
(* Session commands and stops.                                             *)

\* Refused while a run holds the agent.
CommandKey(command) ==
  /\ PanelTurn /\ command \in Commands
  /\ commandsSent < MaxCommands /\ commandsSent' = commandsSent + 1
  /\ ~agentRunning
  /\ channel' = Append(channel, CommandMsg(command))

\* /clear and /resume empty the waiting queue first.
EmptyQueue ==
  /\ queued' = <<>> /\ handed' = NoId
  /\ released' = released \cup TextsOf(queued)

ClearCommand ==
  /\ CommandKey("Clear") /\ queueMode = "Plain" /\ ~picker
  /\ EmptyQueue
  /\ UNCHANGED <<nextId, updates, rescued, engineVars, signalVars, driverVars, app, sheetVars,
                 picker, landed, claims, typed, asked, resumeMark, swept>>

\* /resume from the composer, or Enter on a row of the saved-session picker,
\* which owns the keys even over an open editor.
ResumeCommand ==
  /\ CommandKey("Resume") /\ (picker \/ queueMode = "Plain")
  /\ picker' = FALSE
  /\ EmptyQueue
  /\ resumeMark' = nextId
  /\ UNCHANGED <<nextId, updates, rescued, engineVars, signalVars, driverVars, app, sheetVars,
                 landed, claims, typed, asked, swept>>

\* /compact, /model, /sessions.
OtherCommand ==
  /\ queueMode = "Plain" /\ ~picker
  /\ \E command \in Commands \ {"Clear", "Resume"} : CommandKey(command)
  /\ UNCHANGED <<queueVars, updates, rescued, engineVars, signalVars, driverVars, app, handed,
                 sheetVars, picker, landed, claims, typed, released, asked, resumeMark,
                 swept>>

ClosePicker ==
  /\ PanelTurn /\ picker
  /\ picker' = FALSE
  /\ UNCHANGED <<queueVars, channelVars, engineVars, signalVars, driverVars, app, sheetVars,
                 handed, landed, ghostVars>>

\* Esc Esc or /stop: cancel_run_in_flight.
CancelRun ==
  /\ PanelTurn /\ queueMode = "Plain" /\ ~picker
  /\ agentRunning
  /\ cancelSignal' = TRUE
  /\ UNCHANGED <<queueVars, channelVars, engineVars, liveClaim, correctionCancel, agentRunning,
                 shuttingDown, driverVars, panelVars, ghostVars>>

\* apply_session_update.  adopt_resumed_session empties the queue once more.
ApplyUpdate ==
  /\ app = "live" /\ holder = "free" /\ holder' = "panel"
  /\ updates # <<>> /\ updates' = Tail(updates)
  /\ IF Head(updates) = "Resumed"
     THEN /\ queued' = <<>> /\ handed' = NoId
          /\ swept' = swept \cup IdsOf(queued)
          /\ released' = released \cup TextsOf(queued)
          /\ UNCHANGED picker
     ELSE picker' = TRUE /\ UNCHANGED <<queued, handed, swept, released>>
  /\ UNCHANGED <<nextId, channel, rescued, engineVars, signalVars, driverVars, app, sheetVars,
                 landed, claims, typed, asked, commandsSent, resumeMark>>

-----------------------------------------------------------------------------
(* The frame.                                                              *)

\* take_returned: what no run read, from the live slot or else the startup one.
Returned ==
  IF agentRunning THEN <<>>
  ELSE IF Unread # <<>> THEN Unread
  ELSE startupSlot.left

\* Mutant of SlotsTaken: what is returned stays in the slot.
SlotsRead == UNCHANGED <<steering, startupSlot>>

\* take_all empties the slot it answers from.
SlotsTaken ==
  IF agentRunning THEN UNCHANGED <<steering, startupSlot>>
  ELSE IF Unread # <<>>
  THEN /\ steering' = [steering EXCEPT !.live = <<>>, !.drained = <<>>, !.pocket = <<>>]
       /\ UNCHANGED startupSlot
  ELSE startupSlot' = [startupSlot EXCEPT !.left = <<>>] /\ UNCHANGED steering

\* Mutants of Requeued, Promised and Unpinned: the front of the queue; no turn
\* promised; the pin kept.
RequeuedFirst(taken) == [i \in DOMAIN taken |-> Entry(nextId + i - 1, taken[i])] \o queued
NotPromised(taken) == channel
StillPinned(taken) == pendingSteers

\* return_guidance: behind everything that waits, each with its turn promised
\* again, and no longer pinned.
Requeued(taken) == queued \o [i \in DOMAIN taken |-> Entry(nextId + i - 1, taken[i])]
Promised(taken) == channel \o [i \in DOMAIN taken |-> RunMsg(nextId + i - 1)]
Unpinned(taken) == pendingSteers \ ToSet(taken)

\* render: settle_handed, drain_shared_state with return_guidance first, and
\* sync_queue_view.
DrawFrame ==
  LET taken == Returned
      q == Requeued(taken)
  IN /\ queued' = q /\ nextId' = nextId + Len(taken)
     /\ channel' = Promised(taken)
     /\ pendingSteers' = Unpinned(taken)
     /\ SlotsTaken
     /\ landed' = landed \cup graduations /\ graduations' = {}
     /\ handed' = IF Waits(queued, handed) THEN handed ELSE NoId
     /\ queueView' = IF q = <<>> THEN 0 ELSE Clamped(queueView, q)
     /\ queueMode' = Released(queueMode, q)
  /\ UNCHANGED <<updates, rescued, signalVars, driverVars, confirmAct, editing, picker, ghostVars>>

Frame == app = "live" /\ holder \in {"free", "panel"} /\ holder' = "free" /\ app' = app /\ DrawFrame

-----------------------------------------------------------------------------
(* Leaving.                                                                *)

\* /exit, or the last press of the Ctrl+C ladder: the flag rises with the key
\* and no further key is read.
QuitKey ==
  /\ PanelTurn /\ queueMode # "Editing"
  /\ app' = "quitting" /\ shuttingDown' = TRUE
  /\ cancelSignal' \in {cancelSignal, cancelSignal \/ agentRunning}
  /\ UNCHANGED <<queueVars, channelVars, engineVars, liveClaim, correctionCancel, agentRunning,
                 driverVars, sheetVars, handed, picker, landed, ghostVars>>

\* The frame after the last key, in the same stretch.
LastFrame == app = "quitting" /\ app' = "drawn" /\ UNCHANGED holder /\ DrawFrame

Unsent(texts) == {Row(text, "unsent") : text \in texts}

\* Mutant of WaitingAtExit: the pins forgotten.
QueuedAtExit == TextsOf(queued)

\* waiting_prompt_texts_at_exit: the queue and the pins.
WaitingAtExit == TextsOf(queued) \cup pendingSteers

\* run_tui_session after app.run, to the driver's join: the flag, the snapshot
\* of the waiting words and the pins, the stop's own drain under a run, the
\* echo, the cancel.
ExitStretch ==
  /\ app' = "leaving" /\ holder' = "free"
  /\ shuttingDown' = TRUE /\ cancelSignal' = TRUE
  /\ landed' = landed \cup Unsent(WaitingAtExit)
                      \cup (IF agentRunning THEN graduations ELSE {})
  /\ graduations' = IF agentRunning THEN {} ELSE graduations
  /\ pendingSteers' = {}
  /\ UNCHANGED <<queueVars, channelVars, steering, startupSlot, liveClaim, correctionCancel,
                 agentRunning, driverVars, sheetVars, handed, picker, ghostVars>>

LeaveScreen == app = "drawn" /\ ExitStretch

\* The terminal's events end: the same stretch, with no last frame before it.
TerminalCloses == app = "live" /\ holder = "free" /\ ExitStretch

\* tear_down_driver_bounded saw the driver end; the rescued words are echoed.
DriverJoined ==
  /\ app = "leaving" /\ pc = "done"
  /\ app' = "gone"
  /\ landed' = landed \cup Unsent(rescued) /\ rescued' = {}
  /\ UNCHANGED <<queueVars, channel, updates, engineVars, signalVars, driverVars, holder,
                 sheetVars, handed, picker, ghostVars>>

\* Mutant of BoundExpires: a join that waits for the driver to see the flag.
BoundOnlyIfStuck == MayTimeOut

\* The join's bound.  A driver parked on an empty channel is not woken by the flag
\* and always meets it.
BoundExpires == MayTimeOut \/ (pc = "parked" /\ channel = <<>>)

\* The driver is aborted, its locals and the channel with it.
DriverAborted ==
  /\ app = "leaving" /\ pc # "done" /\ holder = "free"
  /\ BoundExpires
  /\ app' = "gone" /\ pc' = "aborted"
  /\ channel' = <<>> /\ revived' = <<>>
  /\ landed' = landed \cup Unsent(rescued) /\ rescued' = {}
  /\ UNCHANGED <<queueVars, updates, engineVars, signalVars, lastClaim, interruptedFor, runText,
                 applying, history, verdict, holder, sheetVars, handed, picker, ghostVars>>

KeyPress ==
  \/ SubmitPrompt \/ SteerNow
  \/ FocusQueue \/ StepView \/ UnfocusQueue
  \/ AskConfirm \/ DeclineAsk \/ ConfirmDrop \/ ConfirmSteer
  \/ OpenEdit \/ AbortEdit \/ CommitEdit
  \/ ClearCommand \/ ResumeCommand \/ OtherCommand \/ ClosePicker
  \/ CancelRun \/ QuitKey
=============================================================================
