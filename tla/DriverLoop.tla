----------------------------- MODULE DriverLoop -----------------------------
(***************************************************************************)
(* The driver (run_driver_loop, crates/dch/src/tui.rs) and, marked         *)
(* external, the engine run it awaits.  One action is one iteration of the *)
(* loop: the driver keeps the thread (holder = "driver") through the       *)
(* iterations that reach no await, and gives it up when it parks on the    *)
(* channel, awaits a run, awaits a command, or ends.                       *)
(***************************************************************************)
EXTENDS SessionState

-----------------------------------------------------------------------------
(* The correction's cut.                                                   *)

\* rewind_history_to: a length at or past the end removes nothing.
RewoundTo(before) == IF before < Len(history) THEN SubSeq(history, 1, before) ELSE history

\* correction_cut_notice, for the Ok results the loop can get.
CutVerdict(before, committed, after, interrupted) ==
  CASE committed = before /\ interrupted -> "silent"
    [] committed = before /\ after = before /\ ~interrupted -> "unwritten"
    [] committed < before -> "folded"
    [] committed > before /\ after # before -> "boundary"
    [] OTHER -> "silent"

\* The cut of a correction of id: only the newest claim is cuttable.
CutVerdictOf(id) ==
  IF lastClaim.id = id
  THEN CutVerdict(lastClaim.before, Len(history), Len(RewoundTo(lastClaim.before)),
                  interruptedFor = id)
  ELSE "none"

\* Mutant of CutOf: the newest claim is cut whatever the correction names.
CutNewest(id) == IF lastClaim.id # NoId THEN RewoundTo(lastClaim.before) ELSE history

CutOf(id) == IF lastClaim.id = id THEN RewoundTo(lastClaim.before) ELSE history

-----------------------------------------------------------------------------
(* Starting a run.                                                         *)

\* The stretch from a claimed text to the run's await.  The engine opens its
\* steering slot and seals what an earlier run left unread.
StartRun(text) ==
  /\ pc' = "running" /\ holder' = "free" /\ runText' = text
  /\ agentRunning' = TRUE
  /\ graduations' = graduations \cup {Row(text, "sent")}
  /\ cancelSignal' = FALSE
  /\ correctionCancel' = NoId
  /\ steering' = [ClosedSlot EXCEPT !.open = TRUE, !.pocket = Unread]
  /\ UNCHANGED <<startupSlot, pendingSteers, shuttingDown>>

\* Back to the loop's top with nothing started.
Continue ==
  /\ pc' = "loop" /\ holder' = "driver"
  /\ UNCHANGED <<engineVars, correctionCancel, cancelSignal, agentRunning, shuttingDown, runText>>

\* take_queued, under the queue's lock.
Claimable(id) == ~shuttingDown /\ Waits(queued, id)

\* Mutant of ClaimOf: one past the length the turn starts from.
ClaimPast(id) == [id |-> id, before |-> Len(history) + 1]

\* The claim, with the committed length its turn starts from.
ClaimOf(id) == [id |-> id, before |-> Len(history)]

\* Submission::Run: the words are read at the claim; a name that resolves to
\* nothing is no run.
HandleRun(id) ==
  /\ IF Claimable(id)
     THEN /\ queued' = RemoveId(queued, id)
          /\ lastClaim' = ClaimOf(id)
          /\ liveClaim' = id
          /\ interruptedFor' = NoId
          /\ claims' = Append(claims, Entry(id, TextOf(queued, id)))
          /\ StartRun(TextOf(queued, id))
     ELSE Continue /\ UNCHANGED <<queued, lastClaim, liveClaim, interruptedFor, claims>>
  /\ UNCHANGED <<nextId, history, verdict, applying>>

\* Submission::Correct: cut the superseded turn if its claim is the newest,
\* then run the corrected words either way.
HandleCorrect(id, text) ==
  /\ history' = CutOf(id)
  /\ verdict' = CutVerdictOf(id)
  /\ interruptedFor' = NoId
  /\ lastClaim' = NoClaim
  /\ StartRun(text)
  /\ UNCHANGED <<queued, nextId, liveClaim, applying, claims>>

\* Submission::Command: /clear and /sessions reach no await.
HandleCommand(command) ==
  /\ CASE command = "Clear" ->
            Continue /\ history' = <<>> /\ applying' = applying /\ updates' = updates
       [] command = "ListSessions" ->
            /\ Continue /\ history' = history /\ applying' = applying
            /\ updates' = Append(updates, "SessionCatalog")
       [] OTHER ->
            /\ pc' = "applying" /\ holder' = "free" /\ applying' = command
            /\ UNCHANGED <<history, updates, engineVars, correctionCancel, cancelSignal,
                           agentRunning, shuttingDown, runText>>
  /\ UNCHANGED <<queueVars, lastClaim, liveClaim, interruptedFor, verdict, claims>>

Handle(m) ==
  \/ m.kind = "Run" /\ HandleRun(m.id) /\ UNCHANGED updates
  \/ m.kind = "Correct" /\ HandleCorrect(m.id, m.text) /\ UNCHANGED updates
  \/ m.kind \in CommandKinds /\ HandleCommand(m.kind)

-----------------------------------------------------------------------------
(* Ending.                                                                 *)

CorrectedTexts(s) == {m.text : m \in {n \in ToSet(s) : n.kind = "Correct"}}

\* Mutant of EndWithRescue: the buffered corrections go with the channel.
EndWithoutRescue(stranded, collected) ==
  /\ pc' = "done" /\ holder' = "free"
  /\ rescued' = collected
  /\ revived' = <<>> /\ channel' = <<>>
  /\ agentRunning' = FALSE

\* rescue_stranded_corrections, and the driver's last lines.
EndWithRescue(stranded, collected) ==
  /\ pc' = "done" /\ holder' = "free"
  /\ rescued' = collected \cup CorrectedTexts(stranded)
  /\ revived' = <<>> /\ channel' = <<>>
  /\ agentRunning' = FALSE

-----------------------------------------------------------------------------
(* The loop.                                                               *)

\* Mutants of the takes: a peek that leaves the submission; the channel ahead of
\* what was pulled; a wake that does not look at the flag.
PeekRevived ==
  /\ pc = "loop" /\ holder = "driver" /\ ~shuttingDown
  /\ revived # <<>>
  /\ Handle(Head(revived))
  /\ UNCHANGED <<revived, channel, rescued, panelVars, userVars>>

ChannelFirst ==
  /\ pc = "loop" /\ holder = "driver" /\ ~shuttingDown
  /\ channel # <<>>
  /\ Handle(Head(channel))
  /\ channel' = Tail(channel)
  /\ UNCHANGED <<revived, rescued, panelVars, userVars>>

WakeBlind ==
  /\ pc = "parked" /\ holder = "free"
  /\ channel # <<>>
  /\ Handle(Head(channel))
  /\ channel' = Tail(channel)
  /\ UNCHANGED <<revived, rescued, panelVars, userVars>>

\* A submission pulled on an earlier peek runs ahead of the channel.
TakeRevived ==
  /\ pc = "loop" /\ holder = "driver" /\ ~shuttingDown
  /\ revived # <<>>
  /\ Handle(Head(revived))
  /\ revived' = Tail(revived)
  /\ UNCHANGED <<channel, rescued, panelVars, userVars>>

TakeChannel ==
  /\ pc = "loop" /\ holder = "driver" /\ ~shuttingDown
  /\ revived = <<>> /\ channel # <<>>
  /\ Handle(Head(channel))
  /\ channel' = Tail(channel)
  /\ UNCHANGED <<revived, rescued, panelVars, userVars>>

\* Nothing buffered: the run is over and the driver waits.
Park ==
  /\ pc = "loop" /\ holder = "driver" /\ ~shuttingDown
  /\ revived = <<>> /\ channel = <<>>
  /\ pc' = "parked" /\ holder' = "free" /\ agentRunning' = FALSE
  /\ UNCHANGED <<queueVars, channelVars, engineVars, liveClaim, correctionCancel, cancelSignal,
                 shuttingDown, revived, lastClaim, interruptedFor, runText, applying, history,
                 verdict, panelVars, ghostVars>>

\* A parked receive wakes on a submission.
Wake ==
  /\ pc = "parked" /\ holder = "free" /\ ~shuttingDown
  /\ channel # <<>>
  /\ Handle(Head(channel))
  /\ channel' = Tail(channel)
  /\ UNCHANGED <<revived, rescued, panelVars, userVars>>

\* The flag found at the loop's top, or when a parked receive wakes: the
\* submission just pulled is handed back first, so the drain finds it.
Leave ==
  /\ shuttingDown
  /\ \/ pc = "loop" /\ holder = "driver"
     \/ pc = "parked" /\ holder = "free" /\ channel # <<>>
  /\ EndWithRescue(revived \o channel, rescued)
  /\ UNCHANGED <<queueVars, updates, engineVars, liveClaim, correctionCancel, cancelSignal,
                 shuttingDown, lastClaim, interruptedFor, runText, applying, history, verdict,
                 panelVars, ghostVars>>

-----------------------------------------------------------------------------
(* The run in flight (external: the engine's).                             *)

\* The engine drains its slot for the turn it prepares.  It may give the turn up
\* and prepare it again, draining once more, and the panel may take the thread
\* before the turn starts.  With nobody steering the slot stays empty.
DrainsSlot ==
  /\ MaySteer
  /\ pc = "running" /\ holder = "free" /\ steering.open
  /\ steering' = [steering EXCEPT !.preparing = TRUE, !.live = <<>>,
                                  !.drained = steering.drained \o steering.live]
  /\ UNCHANGED <<queueVars, channelVars, startupSlot, graduations, pendingSteers, signalVars,
                 driverVars, holder, panelVars, ghostVars>>

\* Mutant of TurnStarts: the pins are not graduated.
TurnUnobserved ==
  /\ pc = "running" /\ holder = "free" /\ steering.open /\ steering.preparing
  /\ steering' = [steering EXCEPT !.preparing = FALSE, !.drained = <<>>]
  /\ UNCHANGED <<queueVars, channelVars, startupSlot, graduations, pendingSteers, signalVars,
                 driverVars, holder, panelVars, ghostVars>>

\* The prepared turn starts: what was drained for it goes to the model, and the
\* turn-start observer (on_turn_start, crates/dch-tui/src/observer.rs) graduates
\* every pin, that of a steer offered since the drain among them.
TurnStarts ==
  /\ pc = "running" /\ holder = "free" /\ steering.open /\ steering.preparing
  /\ steering' = [steering EXCEPT !.preparing = FALSE, !.drained = <<>>]
  /\ graduations' = graduations \cup {Row(text, "steered") : text \in pendingSteers}
  /\ pendingSteers' = {}
  /\ UNCHANGED <<queueVars, channelVars, startupSlot, signalVars, driverVars, holder, panelVars,
                 ghostVars>>

TurnBoundary == DrainsSlot \/ TurnStarts

\* A slot that takes no more offers is what stands unread in it.
SealedSlot == [ClosedSlot EXCEPT !.pocket = Unread]

\* The run is past its last boundary and refuses further offers.
SlotSeals ==
  /\ MaySteer
  /\ pc = "running" /\ holder = "free" /\ steering.open
  /\ steering' = SealedSlot
  /\ UNCHANGED <<queueVars, channelVars, startupSlot, graduations, pendingSteers, signalVars,
                 driverVars, holder, panelVars, ghostVars>>

\* What a run leaves of the history: maybe a fold of what stood (with the
\* run's own first turns in it or not), then the units it committed.
RunCommits ==
  LET carried == UNION {history[i] : i \in DOMAIN history}
      folds == IF MayFold /\ history # <<>> THEN {<<carried>>, <<carried \cup {runText}>>} ELSE {}
  IN \E base \in {history} \cup folds, n \in TurnLengths :
       history' = base \o [i \in 1 .. n |-> {runText}]

\* The position of the first correction of id in s, 0 when there is none.
Corrects(m, id) == m.kind = "Correct" /\ m.id = id
CorrectionAt(s, id) ==
  LET firsts == {i \in DOMAIN s : Corrects(s[i], id) /\ \A j \in 1 .. i - 1 : ~Corrects(s[j], id)}
  IN IF firsts = {} THEN 0 ELSE CHOOSE i \in firsts : TRUE

\* Mutant of Pulled: what stood ahead of the correction is dropped.
PulledAlone(id) ==
  IF CorrectionAt(channel, id) = 0 THEN channel ELSE <<channel[CorrectionAt(channel, id)]>>

\* pull_pending_correction: everything up to and with the correction of id, or
\* all of it when there is none.
Pulled(id) ==
  IF CorrectionAt(channel, id) = 0 THEN channel ELSE SubSeq(channel, 1, CorrectionAt(channel, id))
LeftInChannel(id) ==
  IF CorrectionAt(channel, id) = 0 THEN <<>>
  ELSE SubSeq(channel, CorrectionAt(channel, id) + 1, Len(channel))

\* What every resolution of the run does before its verdict is looked at.
RunOver ==
  /\ pc = "running" /\ holder = "free"
  /\ RunCommits
  /\ liveClaim' = NoId
  /\ steering' = SealedSlot
  /\ UNCHANGED <<nextId, updates, startupSlot, graduations, pendingSteers, cancelSignal,
                 shuttingDown, lastClaim, runText, applying, verdict, panelVars, ghostVars>>

\* The run answers, or fails by itself.
RunFinishes ==
  /\ RunOver
  /\ pc' = "loop" /\ holder' = "driver"
  /\ UNCHANGED <<queued, channel, revived, rescued, interruptedFor, correctionCancel, agentRunning>>

\* The run resolves cancelled in a session that goes on.  When the cancel was
\* a correction's own hand and the correction is buffered, that is remembered.
RunCancelled ==
  LET id == correctionCancel
      named == id # NoId /\ (lastClaim.id = NoId \/ lastClaim.id = id)
  IN /\ RunOver
     /\ cancelSignal /\ ~shuttingDown
     /\ correctionCancel' = NoId
     /\ IF named
        THEN /\ revived' = revived \o Pulled(id)
             /\ channel' = LeftInChannel(id)
             /\ interruptedFor' = IF CorrectionAt(channel, id) # 0 THEN id ELSE interruptedFor
        ELSE UNCHANGED <<revived, channel, interruptedFor>>
     /\ pc' = "loop" /\ holder' = "driver"
     /\ UNCHANGED <<queued, rescued, agentRunning>>

\* The run resolves cancelled by the exit: the corrected wording of its claim is
\* collected, or its own words return to the queue; then the loop ends.
RunCancelledByExit ==
  LET id == lastClaim.id
      buffered == id # NoId /\ CorrectionAt(channel, id) # 0
      pulled == IF id = NoId THEN <<>> ELSE Pulled(id)
      left == IF id = NoId THEN channel ELSE LeftInChannel(id)
  IN /\ pc = "running" /\ holder = "free" /\ cancelSignal /\ shuttingDown
     /\ RunCommits
     /\ liveClaim' = NoId
     /\ steering' = SealedSlot
     /\ IF buffered
        THEN /\ EndWithRescue(revived \o Front(pulled) \o left, rescued \cup {Last(pulled).text})
             /\ UNCHANGED queueVars
        ELSE /\ EndWithRescue(revived \o pulled \o left, rescued)
             /\ queued' = Push(queued, nextId, runText) /\ nextId' = nextId + 1
     /\ UNCHANGED <<updates, startupSlot, graduations, pendingSteers, correctionCancel,
                    cancelSignal, shuttingDown, lastClaim, interruptedFor, runText, applying,
                    verdict, panelVars, ghostVars>>

-----------------------------------------------------------------------------
(* The commands that await (apply_session_command).                        *)

\* A rebuilt runner brings a slot of its own; the panel keeps the startup
\* runner's handle beside the live one.
AdoptRunner ==
  /\ steering' = ClosedSlot
  /\ startupSlot' = IF startupSlot.rebuilt THEN startupSlot
                    ELSE [rebuilt |-> TRUE, left |-> Unread]
  /\ cancelSignal' = FALSE

\* compact_now folded the history.
CompactApplied ==
  /\ applying = "Compact" /\ history # <<>>
  /\ history' = <<UNION {history[i] : i \in DOMAIN history}>>
  /\ UNCHANGED <<steering, startupSlot, cancelSignal, updates>>

\* A model or provider switch: the same history on a rebuilt runner.
RebuildApplied ==
  /\ applying = "Rebuild"
  /\ AdoptRunner
  /\ UNCHANGED <<history, updates>>

\* resume_into_session: the saved history on a rebuilt runner.
ResumeApplied ==
  /\ applying = "Resume"
  /\ AdoptRunner
  /\ history' = <<{Saved}, {Saved}>>
  /\ updates' = Append(updates, "Resumed")

\* Declined, refused or failed: the loop stands as it stood.
CommandDeclined == UNCHANGED <<history, steering, startupSlot, cancelSignal, updates>>

ApplyCommand ==
  /\ pc = "applying" /\ holder = "free"
  /\ CompactApplied \/ RebuildApplied \/ ResumeApplied \/ CommandDeclined
  /\ pc' = "loop" /\ holder' = "driver" /\ applying' = "none"
  /\ UNCHANGED <<queueVars, channel, rescued, graduations, pendingSteers, liveClaim,
                 correctionCancel, agentRunning, shuttingDown, revived, lastClaim,
                 interruptedFor, runText, verdict, panelVars, ghostVars>>

RunResolves == RunFinishes \/ RunCancelled \/ RunCancelledByExit
DriverStep == TakeRevived \/ TakeChannel \/ Park \/ Wake \/ Leave
=============================================================================
