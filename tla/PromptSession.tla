---------------------------- MODULE PromptSession ---------------------------
(***************************************************************************)
(* The interactive session: the panel and the driver over their shared     *)
(* state, from the first prompt to the exit.                               *)
(***************************************************************************)
EXTENDS DriverLoop, QueuePanel

Init ==
  /\ queued = <<>> /\ nextId = 0
  /\ channel = <<>> /\ updates = <<>> /\ rescued = {}
  /\ liveClaim = NoId /\ correctionCancel = NoId
  /\ cancelSignal = FALSE /\ agentRunning = FALSE /\ shuttingDown = FALSE
  /\ graduations = {} /\ pendingSteers = {}
  /\ steering = ClosedSlot /\ startupSlot = [rebuilt |-> FALSE, left |-> <<>>]
  /\ pc = "parked" /\ revived = <<>> /\ lastClaim = NoClaim /\ interruptedFor = NoId
  /\ runText = NoText /\ applying = "none" /\ history = <<>> /\ verdict = "none"
  /\ app = "live" /\ holder = "free"
  /\ queueMode = "Plain" /\ confirmAct = "Drop" /\ editing = NoId /\ queueView = 0
  /\ handed = NoId /\ picker = FALSE /\ landed = {}
  /\ typed = 0 /\ released = {} /\ asked = NoId /\ claims = <<>>
  /\ commandsSent = 0 /\ resumeMark = 0 /\ swept = {}

\* The exit waits for the driver's end, and then nothing runs any more.
SessionOver == app \in {"leaving", "gone"} /\ UNCHANGED vars

Next ==
  \/ KeyPress \/ ApplyUpdate \/ Frame
  \/ DriverStep \/ TurnBoundary \/ SlotSeals \/ RunResolves \/ ApplyCommand
  \/ LastFrame \/ LeaveScreen \/ TerminalCloses \/ DriverJoined \/ DriverAborted
  \/ SessionOver

Spec == Init /\ [][Next]_vars

\* The runtime polls every ready task again and again, a frame is drawn on
\* every tick, and a run and a command come to an end.  The panel may draw
\* frames for ever, so each of these is enabled again and again and not
\* continuously.  No fairness is assumed of a key press or of the terminal.
FairSpec ==
  /\ Spec
  /\ SF_vars(DriverStep) /\ SF_vars(RunResolves) /\ SF_vars(ApplyCommand)
  /\ SF_vars(Frame) /\ SF_vars(ApplyUpdate)
  /\ WF_vars(LastFrame) /\ WF_vars(LeaveScreen)
  /\ WF_vars(DriverJoined) /\ WF_vars(DriverAborted)

-----------------------------------------------------------------------------
(* The order of prompts.                                                   *)

Pending == revived \o channel

\* The claim of id is among the submissions p.
PendsIn(p, id) == \E i \in DOMAIN p : p[i].kind = "Run" /\ p[i].id = id

\* Every id in q is given out before the id n.
Below(q, n) == \A i \in DOMAIN q : q[i].id < n
Before(c, q) == \A i \in DOMAIN c, j \in DOMAIN q : c[i].id < q[j].id

\* Submission order is send order: claims go out in the order of the ids, each
\* id once, and everything that waits was submitted after everything claimed
\* (PromptQueue's doc in queue.rs, take_queued and the loop's revived buffer).
InOrder ==
  /\ Ascending(queued)
  /\ Ascending(claims)
  /\ Before(claims, queued)

\* No waiting prompt is stranded: until the exit's flag, the claim of each is on
\* its way to the driver, so the driver never rests on a queue that is not empty
\* (submit_text, return_guidance, pull_pending_correction).
NoneStranded ==
  ~shuttingDown => \A i \in DOMAIN queued : PendsIn(Pending, queued[i].id)

\* The queue q, the next id n, the pending submissions p and the claims c, each in
\* the order of the ids, and the claims before everything that is still to come.
Ordered(q, n, p, c) ==
  /\ Ascending(q) /\ Below(q, n)
  /\ Ascending(c) /\ Below(c, n)
  /\ Before(c, q)
  /\ \A i, j \in DOMAIN p : i < j /\ p[i].kind = "Run" /\ p[j].kind = "Run" => p[i].id < p[j].id
  /\ \A i \in DOMAIN p : p[i].kind = "Run" => p[i].id < n /\ \A k \in DOMAIN c : c[k].id < p[i].id

\* InOrder and NoneStranded with what makes them hold from step to step: the claims
\* on their way to the driver ascend too, from the revived buffer on into the
\* channel, and they name only ids that no claim has reached.
SendOrder ==
  /\ Ordered(queued, nextId, Pending, claims)
  /\ NoneStranded
  /\ pc = "parked" => revived = <<>>
  /\ app # "live" => shuttingDown

-----------------------------------------------------------------------------
(* The words.                                                              *)

RowsOwed == landed \cup graduations
TextsAs(kinds) == {t \in Texts : \E row \in RowsOwed : row.text = t /\ row.kind \in kinds}

Fate == INSTANCE PromptFate WITH
          Wordings <- Texts,
          committed <- 1 .. typed,
          sent <- TextsAs({"sent", "steered"}),
          letGo <- released,
          unsent <- TextsAs({"unsent"}),
          over <- app = "gone"

\* The session implements PromptFate: a wording settles once, as sent, let go or
\* unsent, and the exit leaves none behind (the claim under the flag, the exit's
\* snapshot, the rescue of corrections).
ImplementsFate == Fate!FateSpec

\* Every wording the user commits settles.
EveryWordingSettles == Fate!EveryWordingSettles

\* When the session is over every wording has a row or was let go: with steering,
\* where a wording the model never read may wait again (return_guidance).
NothingLost ==
  app = "gone" => \A t \in 1 .. typed : t \in released \cup TextsAs({"sent", "steered", "unsent"})

RunStarts == pc # "running" /\ pc' = "running"

\* No wording starts two runs: not by a peek that pulls submissions ahead of the
\* channel, not by a steer that waits again, not by an edit.
NoWordingRunsTwice == [][RunStarts => Row(runText', "sent") \notin RowsOwed]_vars

\* Once the exit's flag is up no run starts, from the queue or by a correction
\* (the three reads of shutting_down in run_driver_loop and take_queued).
NoRunPastTheFlag == [][shuttingDown => ~RunStarts]_vars

\* A quitting session ends, whatever the run or the command in flight.
ExitEnds == shuttingDown /\ app # "live" ~> app = "gone"

-----------------------------------------------------------------------------
(* Corrections.                                                            *)

\* A correction names a prompt a run claimed: the editor's prompt is either still
\* in the queue under its id or has gone out (commit_queue_edit).
CorrectionsNameClaims ==
  \A i \in DOMAIN Pending : Pending[i].kind = "Correct" => Pending[i].id \in IdsOf(claims)

\* The correction's cancel stops only the turn it names: while a run goes, the
\* flag names that run's claim, and the correction is already on its way
\* (correct_claimed sends before it cancels and looks at live_claim).
CancelNamesItsTurn ==
  pc = "running" /\ correctionCancel # NoId =>
    /\ cancelSignal
    /\ liveClaim = correctionCancel /\ lastClaim.id = correctionCancel
    /\ \E i \in DOMAIN channel : Corrects(channel[i], correctionCancel)

\* A correction goes out; what it supersedes is the wording its id was claimed
\* with.
CorrectionRuns == RunStarts /\ claims' = claims
Submitted == IF revived # <<>> THEN Head(revived) ELSE Head(channel)
Superseded == {claims[c].text : c \in {d \in DOMAIN claims : claims[d].id = Submitted.id}}

\* A cut takes out of the history only what the superseded turn wrote; it never
\* takes an answer of another turn (apply_correction_cut, last_claim).
CutTakesOnlySuperseded ==
  [][CorrectionRuns =>
       \A i \in DOMAIN history : i > Len(history') => history[i] \subseteq Superseded]_vars

\* When the driver says nothing of a cut, or that there was nothing to cut, the
\* superseded words are out of the history (correction_cut_notice).
CutIsSaid ==
  [][CorrectionRuns /\ verdict' \in {"silent", "unwritten"} =>
       \A i \in DOMAIN history' : history'[i] \cap Superseded = {}]_vars

-----------------------------------------------------------------------------
(* Steering.                                                               *)

\* The words of the run's slot, with those drained for a turn that has not started.
InSlot == ToSet(steering.pocket) \cup ToSet(steering.drained) \cup ToSet(steering.live)

\* A wording is in one place: what a run's slot holds does not wait in the queue,
\* and what waits is not pinned as a steer (steer_queued, return_guidance).
SteerInOnePlace ==
  /\ InSlot \cap TextsOf(queued) = {}
  /\ pendingSteers \cap TextsOf(queued) = {}
  /\ ToSet(startupSlot.left) \cap (InSlot \cup TextsOf(queued)) = {}

\* On the runner the session started with, a pin stands for words no model has
\* read: they wait in the slot, or the engine has drained them for a turn that has
\* not started.  So a turn that starts leaves no pin behind for words it read, and
\* the panel never shows a steer that went nowhere, between the offer and the pin,
\* the drain and the turn's start, and the end of the run and the return
\* (push_steered, on_turn_start, return_guidance).
PinsStandForWords == ~startupSlot.rebuilt => pendingSteers \subseteq InSlot
=============================================================================
