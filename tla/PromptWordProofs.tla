------------------------- MODULE PromptWordProofs --------------------------
(***************************************************************************)
(* Corrections, steers and the words of the prompt session: what a cancel  *)
(* and a cut hit, and where each wording the user committed is, for every  *)
(* value of the constants.                                                 *)
(***************************************************************************)
EXTENDS PromptOrderProofs

-----------------------------------------------------------------------------
(* What the panel leaves alone.                                            *)

PanelStep ==
  KeyPress \/ ApplyUpdate \/ Frame \/ LastFrame \/ LeaveScreen \/ TerminalCloses \/ DriverJoined

\* No key, update, frame or exit touches the driver's own variables or a claim.
LEMMA PanelLeavesDriver == PanelStep => UNCHANGED <<driverVars, claims, liveClaim>>
<1> SUFFICES ASSUME PanelStep PROVE UNCHANGED <<driverVars, claims, liveClaim>>
  OBVIOUS
<1>1. CASE SubmitPrompt \/ SteerNow \/ FocusQueue \/ StepView \/ UnfocusQueue \/ AskConfirm
           \/ DeclineAsk \/ ConfirmDrop \/ ConfirmSteer
  BY <1>1 DEF SubmitPrompt, SteerNow, FocusQueue, StepView, UnfocusQueue, AskConfirm, DeclineAsk,
              ConfirmDrop, ConfirmSteer, SheetOnly, signalVars
<1>2. CASE OpenEdit \/ AbortEdit \/ CommitEdit \/ ClearCommand \/ ResumeCommand \/ OtherCommand
           \/ ClosePicker \/ CancelRun \/ QuitKey
  BY <1>2 DEF OpenEdit, AbortEdit, CommitEdit, ClearCommand, ResumeCommand, OtherCommand, ClosePicker,
              CancelRun, QuitKey, SheetOnly, signalVars, ghostVars
<1>3. CASE ApplyUpdate \/ Frame \/ LastFrame \/ LeaveScreen \/ TerminalCloses \/ DriverJoined
  BY <1>3 DEF ApplyUpdate, Frame, LastFrame, DrawFrame, LeaveScreen, TerminalCloses, ExitStretch,
              DriverJoined, signalVars, ghostVars
<1> QED BY <1>1, <1>2, <1>3 DEF PanelStep, KeyPress

\* What a key may send: a claim, the open editor's correction, a session command.
SentByKey(m) ==
  \/ m.kind = "Run"
  \/ CommitEdit /\ ~EditStillWaits /\ m = CorrectMsg(editing, Fresh)
  \/ \E command \in Commands : m = CommandMsg(command)

\* What the keys send goes behind what is in the channel.
LEMMA KeySends ==
  ASSUME TypeOK, KeyPress \/ ApplyUpdate
  PROVE  channel' = channel \/ \E m \in Submissions : channel' = Append(channel, m) /\ SentByKey(m)
<1>1. CASE FocusQueue \/ StepView \/ UnfocusQueue \/ AskConfirm \/ DeclineAsk \/ ConfirmDrop
           \/ OpenEdit \/ AbortEdit \/ ClosePicker \/ CancelRun \/ QuitKey \/ ApplyUpdate
  BY <1>1 DEF FocusQueue, StepView, UnfocusQueue, AskConfirm, DeclineAsk, ConfirmDrop, OpenEdit,
              AbortEdit, ClosePicker, CancelRun, QuitKey, ApplyUpdate, SheetOnly, channelVars
<1>2. CASE SubmitPrompt \/ SteerNow \/ ConfirmSteer
  <2>1. RunMsg(nextId) \in Submissions /\ RunMsg(nextId).kind = "Run"
    BY OrderTypes, MessageTypes DEF Ids, RunMsg, Submission
  <2>2. channel' = channel \/ channel' = Append(channel, RunMsg(nextId))
    BY <1>2 DEF SubmitPrompt, SteerNow, ConfirmSteer, SubmitText, DeliverGuidance
  <2> QED BY <2>1, <2>2 DEF SentByKey
<1>3. CASE CommitEdit
  <2>1. Fresh \in Texts /\ editing \in IdsOrNone
    BY <1>3, FreshType DEF CommitEdit, TypeOK, PanelType
  <2>2. CorrectMsg(editing, Fresh) \in Submissions
    BY <2>1, MessageTypes
  <2>3. channel' = channel \/ (~EditStillWaits /\ channel' = Append(channel, CorrectMsg(editing, Fresh)))
    BY <1>3 DEF CommitEdit, CorrectClaimed
  <2> QED BY <1>3, <2>2, <2>3 DEF SentByKey
<1>4. CASE ClearCommand \/ ResumeCommand \/ OtherCommand
  <2>1. PICK command \in Commands : channel' = Append(channel, CommandMsg(command))
    BY <1>4 DEF ClearCommand, ResumeCommand, OtherCommand, CommandKey
  <2> QED BY <2>1, CommandsAssumption, MessageTypes DEF SentByKey
<1> QED BY <1>1, <1>2, <1>3, <1>4 DEF KeyPress

\* What a frame promises.
PromisedRuns(taken) == [i \in DOMAIN taken |-> RunMsg(nextId + i - 1)]

LEMMA FrameSends ==
  ASSUME TypeOK, DrawFrame
  PROVE  /\ Returned \in Seq(Texts)
         /\ PromisedRuns(Returned) \in Seq(Submissions)
         /\ channel' = channel \o PromisedRuns(Returned)
         /\ \A i \in DOMAIN PromisedRuns(Returned) : PromisedRuns(Returned)[i].kind = "Run"
<1> DEFINE taken == Returned
<1>1. taken \in Seq(Texts)
  BY ReturnedType
<1>2. channel' = channel \o PromisedRuns(taken)
  BY DEF DrawFrame, Promised, PromisedRuns
<1> HIDE DEF taken
<1>3. DOMAIN taken = 1 .. Len(taken) /\ Len(taken) \in Nat
  BY <1>1, ElementsTyped
<1>4. \A i \in 1 .. Len(taken) : RunMsg(nextId + i - 1) \in Submissions
  BY <1>3, OrderTypes, MessageTypes DEF Ids
<1>5. PromisedRuns(taken) \in Seq(Submissions)
  BY <1>3, <1>4 DEF PromisedRuns
<1>6. \A i \in DOMAIN PromisedRuns(taken) : PromisedRuns(taken)[i].kind = "Run"
  BY DEF PromisedRuns, RunMsg, Submission
<1> QED BY <1>1, <1>2, <1>5, <1>6 DEF taken

\* Nothing that is in the channel leaves it by a step of the panel.
LEMMA ChannelGrows ==
  ASSUME TypeOK, PanelStep
  PROVE  \A i \in DOMAIN channel : i \in DOMAIN channel' /\ channel'[i] = channel[i]
<1>1. CASE KeyPress \/ ApplyUpdate
  <2>1. channel' = channel \/ \E m \in Submissions : channel' = Append(channel, m)
    BY <1>1, KeySends
  <2>2. ASSUME NEW m \in Submissions, channel' = Append(channel, m)
        PROVE  \A i \in DOMAIN channel : i \in DOMAIN channel' /\ channel'[i] = channel[i]
    <3>1. DOMAIN channel = 1 .. Len(channel) /\ Len(channel) \in Nat
      BY OrderTypes, PendingParts
    <3>2. /\ DOMAIN Append(channel, m) = 1 .. Len(channel) + 1
          /\ \A i \in 1 .. Len(channel) : Append(channel, m)[i] = channel[i]
      BY OrderTypes, AppendParts
    <3> QED BY <2>2, <3>1, <3>2
  <2> QED BY <2>1, <2>2
<1>2. CASE Frame \/ LastFrame
  <2> DEFINE s == PromisedRuns(Returned)
  <2>1. s \in Seq(Submissions) /\ channel' = channel \o s
    BY <1>2, FrameSends DEF Frame, LastFrame
  <2> HIDE DEF s
  <2>2. DOMAIN channel = 1 .. Len(channel) /\ Len(channel) \in Nat /\ Len(s) \in Nat
    BY <2>1, OrderTypes, PendingParts
  <2>3. /\ DOMAIN (channel \o s) = 1 .. Len(channel) + Len(s)
        /\ \A i \in 1 .. Len(channel) : (channel \o s)[i] = channel[i]
    BY <2>1, OrderTypes, ConcatParts
  <2> QED BY <2>1, <2>2, <2>3
<1>3. CASE LeaveScreen \/ TerminalCloses \/ DriverJoined
  BY <1>3 DEF LeaveScreen, TerminalCloses, ExitStretch, DriverJoined, channelVars
<1> QED BY <1>1, <1>2, <1>3 DEF PanelStep

-----------------------------------------------------------------------------
(* The correction's cancel.                                                *)

\* A claim is in flight only while its run is, and the newest claim is then its.
TurnNamed ==
  /\ pc \notin {"running", "aborted"} => liveClaim = NoId
  /\ pc = "running" /\ liveClaim # NoId => lastClaim.id = liveClaim
  /\ CancelNamesItsTurn

\* The cancel that a step of the panel raises.
LEMMA PanelCancels ==
  ASSUME PanelStep
  PROVE  \/ correctionCancel' = correctionCancel /\ (cancelSignal => cancelSignal')
         \/ /\ CommitEdit /\ ~EditStillWaits /\ liveClaim = editing
            /\ correctionCancel' = editing /\ cancelSignal'
<1>1. CASE SubmitPrompt \/ SteerNow \/ FocusQueue \/ StepView \/ UnfocusQueue \/ AskConfirm
           \/ DeclineAsk \/ ConfirmDrop \/ ConfirmSteer
  BY <1>1 DEF SubmitPrompt, SteerNow, FocusQueue, StepView, UnfocusQueue, AskConfirm, DeclineAsk,
              ConfirmDrop, ConfirmSteer, SheetOnly, signalVars
<1>2. CASE OpenEdit \/ AbortEdit \/ ClearCommand \/ ResumeCommand \/ OtherCommand
           \/ ClosePicker \/ CancelRun \/ QuitKey
  BY <1>2 DEF OpenEdit, AbortEdit, ClearCommand, ResumeCommand, OtherCommand, ClosePicker,
              CancelRun, QuitKey, SheetOnly, signalVars
<1>3. CASE CommitEdit
  BY <1>3 DEF CommitEdit, CorrectClaimed
<1>4. CASE ApplyUpdate \/ Frame \/ LastFrame \/ LeaveScreen \/ TerminalCloses \/ DriverJoined
  BY <1>4 DEF ApplyUpdate, Frame, LastFrame, DrawFrame, LeaveScreen, TerminalCloses, ExitStretch,
              DriverJoined, signalVars
<1> QED BY <1>1, <1>2, <1>3, <1>4 DEF PanelStep, KeyPress

LEMMA PanelTurns == TypeOK /\ TurnNamed /\ PanelStep => TurnNamed'
<1> SUFFICES ASSUME TypeOK, TurnNamed, PanelStep PROVE TurnNamed'
  OBVIOUS
<1>1. UNCHANGED <<pc, lastClaim, liveClaim>>
  BY PanelLeavesDriver DEF driverVars
<1>2. \A i \in DOMAIN channel : i \in DOMAIN channel' /\ channel'[i] = channel[i]
  BY ChannelGrows
<1>3. CASE correctionCancel' = correctionCancel /\ (cancelSignal => cancelSignal')
  <2>1. CancelNamesItsTurn'
    BY <1>1, <1>2, <1>3 DEF TurnNamed, CancelNamesItsTurn
  <2> QED BY <1>1, <2>1 DEF TurnNamed
<1>4. CASE /\ CommitEdit /\ ~EditStillWaits /\ liveClaim = editing
           /\ correctionCancel' = editing /\ cancelSignal'
  <2>1. channel' = Append(channel, CorrectMsg(editing, Fresh))
    BY <1>4 DEF CommitEdit, CorrectClaimed
  <2>2. CorrectMsg(editing, Fresh) \in Submissions
    BY <1>4, FreshType, MessageTypes DEF CommitEdit, TypeOK, PanelType
  <2>3. /\ DOMAIN channel' = 1 .. Len(channel) + 1 /\ Len(channel) \in Nat
        /\ channel'[Len(channel) + 1] = CorrectMsg(editing, Fresh)
    BY <2>1, <2>2, OrderTypes, PendingParts, AppendParts
  <2>4. Corrects(CorrectMsg(editing, Fresh), editing)
    BY DEF Corrects, CorrectMsg, Submission
  <2>5. \E i \in DOMAIN channel' : Corrects(channel'[i], editing)
    <3>1. Len(channel) + 1 \in DOMAIN channel'
      BY <2>3
    <3> QED BY <2>3, <2>4, <3>1
  <2>6. CancelNamesItsTurn'
    BY <1>1, <1>4, <2>5 DEF TurnNamed, CancelNamesItsTurn, Corrects
  <2> QED BY <1>1, <2>6 DEF TurnNamed
<1> QED BY <1>3, <1>4, PanelCancels

\* What starts a run forgets the cancel of the one before.
LEMMA HandleTurns ==
  ASSUME TypeOK, TurnNamed, pc \in {"loop", "parked"}, NEW m \in Submissions, Handle(m)
  PROVE  TurnNamed'
<1>1. liveClaim = NoId
  BY DEF TurnNamed
<1>2. CASE m.kind = "Run"
  <2>1. HandleRun(m.id)
    BY <1>2 DEF Handle, CommandKinds
  <2>2. CASE Claimable(m.id)
    BY <2>1, <2>2 DEF HandleRun, StartRun, ClaimOf, TurnNamed, CancelNamesItsTurn
  <2>3. CASE ~Claimable(m.id)
    BY <1>1, <2>1, <2>3 DEF HandleRun, Continue, TurnNamed, CancelNamesItsTurn
  <2> QED BY <2>2, <2>3
<1>3. CASE m.kind = "Correct"
  <2>1. HandleCorrect(m.id, m.text)
    BY <1>3 DEF Handle, CommandKinds
  <2> QED BY <1>1, <2>1 DEF HandleCorrect, StartRun, TurnNamed, CancelNamesItsTurn
<1>4. CASE m.kind \in CommandKinds
  <2>1. HandleCommand(m.kind)
    BY <1>4 DEF Handle, CommandKinds
  <2>2. pc' \in {"loop", "applying"} /\ liveClaim' = liveClaim
    BY <2>1 DEF HandleCommand, Continue
  <2> QED BY <1>1, <2>2 DEF TurnNamed, CancelNamesItsTurn
<1> QED BY <1>2, <1>3, <1>4, MessageParts

LEMMA TakeTurns == TypeOK /\ TurnNamed /\ (TakeRevived \/ TakeChannel \/ Wake) => TurnNamed'
<1> SUFFICES ASSUME TypeOK, TurnNamed, TakeRevived \/ TakeChannel \/ Wake PROVE TurnNamed'
  OBVIOUS
<1>1. PICK m \in Submissions : Handle(m)
  <2>1. CASE TakeRevived
    BY <2>1, OrderTypes, SeqTypes DEF TakeRevived
  <2>2. CASE TakeChannel \/ Wake
    BY <2>2, OrderTypes, SeqTypes DEF TakeChannel, Wake
  <2> QED BY <2>1, <2>2
<1>2. pc \in {"loop", "parked"}
  BY DEF TakeRevived, TakeChannel, Wake
<1> QED BY <1>1, <1>2, HandleTurns

LEMMA DriverTurns ==
  TypeOK /\ TurnNamed /\ (Park \/ Leave \/ RunResolves \/ ApplyCommand \/ DriverAborted) => TurnNamed'
<1> SUFFICES ASSUME TypeOK, TurnNamed, Park \/ Leave \/ RunResolves \/ ApplyCommand \/ DriverAborted
             PROVE  TurnNamed'
  OBVIOUS
<1>1. CASE Park \/ Leave \/ ApplyCommand
  <2>1. pc' \in {"parked", "done", "loop"} /\ liveClaim' = liveClaim /\ pc \in {"loop", "parked", "applying"}
    BY <1>1 DEF Park, Leave, ApplyCommand, EndWithRescue
  <2> QED BY <2>1 DEF TurnNamed, CancelNamesItsTurn
<1>2. CASE RunResolves
  <2>1. pc' \in {"done", "loop"} /\ liveClaim' = NoId
    BY <1>2 DEF RunResolves, RunFinishes, RunCancelled, RunOver, RunCancelledByExit, EndWithRescue
  <2> QED BY <2>1 DEF TurnNamed, CancelNamesItsTurn
<1>3. CASE DriverAborted
  BY <1>3 DEF DriverAborted, TurnNamed, CancelNamesItsTurn
<1> QED BY <1>1, <1>2, <1>3

LEMMA EngineTurns == TurnNamed /\ (TurnBoundary \/ SlotSeals \/ UNCHANGED vars) => TurnNamed'
<1> SUFFICES ASSUME TurnNamed, TurnBoundary \/ SlotSeals \/ UNCHANGED vars PROVE TurnNamed'
  OBVIOUS
<1>1. UNCHANGED <<pc, liveClaim, lastClaim, correctionCancel, cancelSignal, channel>>
  BY DEF TurnBoundary, DrainsSlot, TurnStarts, SlotSeals, vars, driverVars, signalVars, channelVars
<1> QED BY <1>1 DEF TurnNamed, CancelNamesItsTurn

LEMMA NextSteps ==
  [Next]_vars => \/ PanelStep \/ DriverAborted
                 \/ TakeRevived \/ TakeChannel \/ Wake \/ Park \/ Leave
                 \/ RunFinishes \/ RunCancelled \/ RunCancelledByExit \/ ApplyCommand
                 \/ TurnBoundary \/ SlotSeals \/ UNCHANGED vars
BY DEF Next, PanelStep, DriverStep, RunResolves, SessionOver

LEMMA StepTurns == TypeOK /\ TurnNamed /\ [Next]_vars => TurnNamed'
BY NextSteps, PanelTurns, TakeTurns, DriverTurns, EngineTurns DEF RunResolves

\* The correction's cancel stops only the turn it names, and the correction is in
\* the channel by then: correct_claimed sends first, looks at live_claim, and the
\* start of the next run takes the flag down.
THEOREM CancelsNameTheirTurn == Spec => []CancelNamesItsTurn
<1>1. Init => TurnNamed
  BY DEF Init, TurnNamed, CancelNamesItsTurn
<1>2. TypeOK /\ TurnNamed /\ [Next]_vars => TurnNamed'
  BY StepTurns
<1>3. TurnNamed => CancelNamesItsTurn
  BY DEF TurnNamed
<1> QED BY <1>1, <1>2, <1>3, TypeCorrect, PTL DEF Spec

-----------------------------------------------------------------------------
(* The words of a queue, of a sequence and of submissions.                 *)

DistinctTexts(q) == \A i, j \in DOMAIN q : q[i].text = q[j].text => i = j

\* No two corrections among the submissions p carry the same words.
DistinctCorrections(p) ==
  \A i, j \in DOMAIN p :
    p[i].kind = "Correct" /\ p[j].kind = "Correct" /\ p[i].text = p[j].text => i = j

LEMMA TextsOfEmpty ==
  TextsOf(<<>>) = {} /\ DistinctTexts(<<>>) /\ IdsOf(<<>>) = {}
BY DEF TextsOf, IdsOf, DistinctTexts

LEMMA TextsPush ==
  ASSUME NEW q \in Seq(Prompts), NEW n \in Nat, NEW t \in Texts, DistinctTexts(q), t \notin TextsOf(q)
  PROVE  /\ TextsOf(Push(q, n, t)) = TextsOf(q) \cup {t}
         /\ DistinctTexts(Push(q, n, t))
<1> DEFINE r == Push(q, n, t)
<1>1. Entry(n, t) \in Prompts
  BY PromptTypes DEF Ids
<1>2. /\ DOMAIN r = 1 .. Len(q) + 1 /\ Len(q) \in Nat /\ DOMAIN q = 1 .. Len(q)
      /\ \A i \in 1 .. Len(q) : r[i] = q[i]
      /\ r[Len(q) + 1].text = t
  BY <1>1, AppendParts, PromptParts DEF Push, Entry
<1> HIDE DEF r
<1>3. \A i \in DOMAIN r : (i \in DOMAIN q /\ r[i] = q[i]) \/ i = Len(q) + 1
  BY <1>2
<1>4. \A i \in DOMAIN q : i \in DOMAIN r /\ r[i] = q[i] /\ q[i].text # t /\ i # Len(q) + 1
  BY <1>2 DEF TextsOf
<1>5. Len(q) + 1 \in DOMAIN r
  BY <1>2
<1>6. TextsOf(r) = TextsOf(q) \cup {t}
  BY <1>2, <1>3, <1>4, <1>5 DEF TextsOf
<1>7. DistinctTexts(r)
  <2> SUFFICES ASSUME NEW i \in DOMAIN r, NEW j \in DOMAIN r, r[i].text = r[j].text PROVE i = j
    BY DEF DistinctTexts
  <2> QED BY <1>2, <1>3, <1>4 DEF DistinctTexts
<1> QED BY <1>6, <1>7 DEF r

\* A removal takes the named prompt's words and leaves the rest.
LEMMA TextsRemove ==
  ASSUME NEW q \in Seq(Prompts), NEW id, Ascending(q), DistinctTexts(q)
  PROVE  /\ DistinctTexts(RemoveId(q, id))
         /\ Waits(q, id) => /\ TextOf(q, id) \in TextsOf(q)
                            /\ TextsOf(RemoveId(q, id)) = TextsOf(q) \ {TextOf(q, id)}
         /\ ~Waits(q, id) => RemoveId(q, id) = q
<1>1. CASE ~Waits(q, id)
  BY <1>1 DEF RemoveId
<1>2. CASE Waits(q, id)
  <2> DEFINE k == IndexOf(q, id)
             r == RemoveId(q, id)
             n == Len(q)
  <2>1. k \in DOMAIN q /\ q[k].id = id
    BY <1>2 DEF Waits, IndexOf
  <2>2. r = RemoveAt(q, k)
    BY <1>2 DEF RemoveId
  <2> HIDE DEF k, r
  <2>3. /\ r \in Queues(Texts) /\ Len(r) = Len(q) - 1
        /\ \A j \in 1 .. Len(q) - 1 : r[j] = IF j < k THEN q[j] ELSE q[j + 1]
    BY <2>1, <2>2, QueuesArePrompts, RemoveAtFacts DEF Queues
  <2>4. DOMAIN q = 1 .. n /\ n \in Nat /\ k \in 1 .. n /\ DOMAIN r = 1 .. n - 1
    BY <2>1, <2>3, PromptParts, QueueFacts
  <2>5. \A j \in DOMAIN r : r[j] = IF j < k THEN q[j] ELSE q[j + 1]
    BY <2>3, <2>4
  <2> HIDE DEF n
  <2> DEFINE at(j) == IF j < k THEN j ELSE j + 1
  <2>6. \A j \in DOMAIN r : at(j) \in DOMAIN q /\ at(j) # k /\ r[j] = q[at(j)]
    BY <2>4, <2>5
  <2>7. \A i, j \in DOMAIN r : at(i) = at(j) => i = j
    BY <2>4
  <2>8. \A i \in DOMAIN q : i # k => \E j \in DOMAIN r : r[j] = q[i]
    <3> SUFFICES ASSUME NEW i \in DOMAIN q, i # k PROVE \E j \in DOMAIN r : r[j] = q[i]
      OBVIOUS
    <3>1. CASE i < k
      BY <2>4, <2>5, <3>1
    <3>2. CASE ~(i < k)
      <4>1. i - 1 \in DOMAIN r /\ ~(i - 1 < k) /\ (i - 1) + 1 = i
        BY <2>4, <3>2
      <4>2. r[i - 1] = q[i]
        BY <2>5, <4>1
      <4> QED BY <4>1, <4>2
    <3> QED BY <3>1, <3>2
  <2> HIDE DEF at
  <2>9. DistinctTexts(r)
    BY <2>6, <2>7 DEF DistinctTexts
  <2>10. TextOf(q, id) = q[k].text
    BY DEF TextOf, k
  <2>11. TextsOf(r) = TextsOf(q) \ {q[k].text}
    <3>1. \A j \in DOMAIN r : r[j].text \in TextsOf(q) /\ r[j].text # q[k].text
      BY <2>1, <2>6 DEF TextsOf, DistinctTexts
    <3>2. \A i \in DOMAIN q : q[i].text # q[k].text => q[i].text \in TextsOf(r)
      BY <2>8 DEF TextsOf
    <3> QED BY <3>1, <3>2 DEF TextsOf
  <2> QED BY <1>2, <2>1, <2>9, <2>10, <2>11 DEF TextsOf, r
<1> QED BY <1>1, <1>2

\* A save puts fresh words in the place of the old ones.
LEMMA TextsReplace ==
  ASSUME NEW q \in Seq(Prompts), NEW id, NEW t \in Texts, Ascending(q), DistinctTexts(q),
         Waits(q, id), t \notin TextsOf(q)
  PROVE  /\ DistinctTexts(ReplaceId(q, id, t))
         /\ TextOf(q, id) \in TextsOf(q)
         /\ TextsOf(ReplaceId(q, id, t)) = (TextsOf(q) \ {TextOf(q, id)}) \cup {t}
<1> DEFINE k == IndexOf(q, id)
           r == ReplaceId(q, id, t)
<1>1. k \in DOMAIN q /\ q[k].id = id /\ TextOf(q, id) = q[k].text
  BY DEF Waits, IndexOf, TextOf
<1>2. DOMAIN r = DOMAIN q /\ \A i \in DOMAIN q : r[i] = IF q[i].id = id THEN Entry(id, t) ELSE q[i]
  BY DEF ReplaceId
<1>3. \A i \in DOMAIN q : q[i].id = id => i = k
  <2> HIDE DEF k
  <2>1. DOMAIN q = 1 .. Len(q) /\ Len(q) \in Nat /\ \A i \in DOMAIN q : q[i].id \in Nat
    BY PromptParts
  <2>2. \A i, j \in DOMAIN q : i < j => q[i].id < q[j].id
    BY DEF Ascending
  <2> QED BY <1>1, <2>1, <2>2
<1> HIDE DEF k, r
<1>4. \A i \in DOMAIN q : r[i].text = IF i = k THEN t ELSE q[i].text
  BY <1>1, <1>2, <1>3 DEF Entry
<1>5. \A i \in DOMAIN q : q[i].text # t
  BY DEF TextsOf
<1>6. DistinctTexts(r)
  BY <1>2, <1>4, <1>5 DEF DistinctTexts
<1>7. TextsOf(r) = (TextsOf(q) \ {q[k].text}) \cup {t}
  <2>1. \A i \in DOMAIN q : i # k => q[i].text # q[k].text
    BY <1>1 DEF DistinctTexts
  <2>2. \A x \in TextsOf(r) : x \in (TextsOf(q) \ {q[k].text}) \cup {t}
    BY <1>2, <1>4, <2>1 DEF TextsOf
  <2>3. \A x \in (TextsOf(q) \ {q[k].text}) \cup {t} : x \in TextsOf(r)
    BY <1>1, <1>2, <1>4 DEF TextsOf
  <2> QED BY <2>2, <2>3
<1> QED BY <1>1, <1>6, <1>7 DEF TextsOf, r

\* What a frame hands back joins what waits.
LEMMA TextsRequeue ==
  ASSUME NEW q \in Seq(Prompts), NEW r \in Seq(Prompts), NEW taken \in Seq(Texts),
         DOMAIN r = DOMAIN taken, \A i \in DOMAIN r : r[i].text = taken[i],
         DistinctTexts(q), IsInjective(taken), TextsOf(q) \cap ToSet(taken) = {}
  PROVE  /\ TextsOf(q \o r) = TextsOf(q) \cup ToSet(taken)
         /\ DistinctTexts(q \o r)
<1> DEFINE s == q \o r
           n == Len(q)
           m == Len(r)
<1>1. /\ DOMAIN s = 1 .. n + m /\ DOMAIN q = 1 .. n /\ DOMAIN r = 1 .. m /\ n \in Nat /\ m \in Nat
      /\ \A i \in 1 .. n : s[i] = q[i]
      /\ \A i \in n + 1 .. n + m : s[i] = r[i - n]
  BY ConcatParts, PromptParts
<1> HIDE DEF s, n, m
<1>2. \A i \in DOMAIN s : \/ i \in DOMAIN q /\ s[i] = q[i] /\ s[i].text \in TextsOf(q)
                          \/ /\ ~(i \in DOMAIN q) /\ i - n \in DOMAIN taken
                             /\ s[i].text = taken[i - n] /\ s[i].text \in ToSet(taken)
  <2> SUFFICES ASSUME NEW i \in DOMAIN s
               PROVE  \/ i \in DOMAIN q /\ s[i] = q[i] /\ s[i].text \in TextsOf(q)
                      \/ /\ ~(i \in DOMAIN q) /\ i - n \in DOMAIN taken
                         /\ s[i].text = taken[i - n] /\ s[i].text \in ToSet(taken)
    OBVIOUS
  <2>1. CASE i \in 1 .. n
    BY <1>1, <2>1 DEF TextsOf
  <2>2. CASE ~(i \in 1 .. n)
    <3>1. i \in n + 1 .. n + m /\ i - n \in DOMAIN r
      BY <1>1, <2>2
    <3>2. s[i].text = taken[i - n] /\ i - n \in DOMAIN taken
      BY <1>1, <3>1
    <3> QED BY <1>1, <2>2, <3>2 DEF ToSet
  <2> QED BY <2>1, <2>2
<1>3. \A i \in DOMAIN q : i \in DOMAIN s /\ s[i] = q[i]
  BY <1>1
<1>4. \A i \in DOMAIN taken : n + i \in DOMAIN s /\ s[n + i].text = taken[i]
  BY <1>1
<1>5. TextsOf(s) = TextsOf(q) \cup ToSet(taken)
  <2>1. \A x \in TextsOf(s) : x \in TextsOf(q) \cup ToSet(taken)
    BY <1>2 DEF TextsOf
  <2>2. \A x \in TextsOf(q) : x \in TextsOf(s)
    BY <1>3 DEF TextsOf
  <2>3. \A x \in ToSet(taken) : x \in TextsOf(s)
    BY <1>4 DEF TextsOf, ToSet
  <2> QED BY <2>1, <2>2, <2>3
<1>6. DistinctTexts(s)
  <2> SUFFICES ASSUME NEW i \in DOMAIN s, NEW j \in DOMAIN s, s[i].text = s[j].text PROVE i = j
    BY DEF DistinctTexts
  <2>1. CASE i \in DOMAIN q /\ j \in DOMAIN q
    BY <1>3, <2>1 DEF DistinctTexts
  <2>2. CASE ~(i \in DOMAIN q) /\ ~(j \in DOMAIN q)
    <3>1. i - n \in DOMAIN taken /\ j - n \in DOMAIN taken /\ taken[i - n] = taken[j - n]
      BY <1>2, <2>2
    <3>2. i - n = j - n
      BY <3>1 DEF IsInjective
    <3> QED BY <1>1, <3>2
  <2>3. CASE i \in DOMAIN q /\ ~(j \in DOMAIN q)
    BY <1>2, <2>3
  <2>4. CASE ~(i \in DOMAIN q) /\ j \in DOMAIN q
    BY <1>2, <2>4
  <2> QED BY <2>1, <2>2, <2>3, <2>4
<1> QED BY <1>5, <1>6 DEF s

LEMMA CorrectedMember ==
  ASSUME NEW p, NEW x
  PROVE  x \in CorrectedTexts(p) <=> \E i \in DOMAIN p : p[i].kind = "Correct" /\ p[i].text = x
BY DEF CorrectedTexts, ToSet

LEMMA CorrectedEmpty == CorrectedTexts(<<>>) = {} /\ DistinctCorrections(<<>>)
BY DEF CorrectedTexts, ToSet, DistinctCorrections

LEMMA CorrectedAppend ==
  ASSUME NEW p \in Seq(Submissions), NEW m \in Submissions, DistinctCorrections(p)
  PROVE  /\ m.kind # "Correct" => /\ CorrectedTexts(Append(p, m)) = CorrectedTexts(p)
                                  /\ DistinctCorrections(Append(p, m))
         /\ m.kind = "Correct" /\ m.text \notin CorrectedTexts(p) =>
              /\ CorrectedTexts(Append(p, m)) = CorrectedTexts(p) \cup {m.text}
              /\ DistinctCorrections(Append(p, m))
<1> DEFINE s == Append(p, m)
           n == Len(p) + 1
<1>1. /\ DOMAIN s = 1 .. Len(p) + 1 /\ DOMAIN p = 1 .. Len(p) /\ Len(p) \in Nat
      /\ \A i \in 1 .. Len(p) : s[i] = p[i]
      /\ s[Len(p) + 1] = m
  BY AppendParts, PendingParts
<1> HIDE DEF s
<1>2. /\ \A i \in DOMAIN p : i \in DOMAIN s /\ s[i] = p[i] /\ i # n
      /\ n \in DOMAIN s /\ s[n] = m
      /\ \A i \in DOMAIN s : i \in DOMAIN p \/ i = n
  BY <1>1
<1> HIDE DEF n
<1>3. CASE m.kind # "Correct"
  <2>1. \A x : x \in CorrectedTexts(s) <=> x \in CorrectedTexts(p)
    BY <1>2, <1>3, CorrectedMember
  <2>2. DistinctCorrections(s)
    BY <1>2, <1>3 DEF DistinctCorrections
  <2> QED BY <1>3, <2>1, <2>2 DEF s
<1>4. CASE m.kind = "Correct" /\ m.text \notin CorrectedTexts(p)
  <2>1. \A x : x \in CorrectedTexts(s) <=> x \in CorrectedTexts(p) \/ x = m.text
    BY <1>2, <1>4, CorrectedMember
  <2>2. \A i \in DOMAIN p : p[i].kind = "Correct" => p[i].text # m.text
    BY <1>4, CorrectedMember
  <2>3. DistinctCorrections(s)
    BY <1>2, <2>2 DEF DistinctCorrections
  <2> QED BY <1>4, <2>1, <2>3 DEF s
<1> QED BY <1>3, <1>4 DEF s

LEMMA CorrectedTail ==
  ASSUME NEW p \in Seq(Submissions), p # <<>>, DistinctCorrections(p)
  PROVE  /\ DistinctCorrections(Tail(p))
         /\ Head(p).kind # "Correct" => CorrectedTexts(Tail(p)) = CorrectedTexts(p)
         /\ Head(p).kind = "Correct" => /\ Head(p).text \in CorrectedTexts(p)
                                        /\ CorrectedTexts(Tail(p)) = CorrectedTexts(p) \ {Head(p).text}
<1> DEFINE s == Tail(p)
           m == Head(p)
<1>1. /\ m = p[1] /\ Len(p) \in Nat \ {0} /\ DOMAIN s = 1 .. Len(p) - 1
      /\ DOMAIN p = 1 .. Len(p)
      /\ \A i \in 1 .. Len(p) - 1 : s[i] = p[i + 1]
  BY TailParts, PendingParts
<1> HIDE DEF s, m
<1>2. /\ \A i \in DOMAIN s : i + 1 \in DOMAIN p /\ i + 1 # 1 /\ s[i] = p[i + 1]
      /\ \A i, j \in DOMAIN s : i + 1 = j + 1 => i = j
      /\ \A i \in DOMAIN p : i = 1 \/ (i - 1 \in DOMAIN s /\ s[i - 1] = p[i])
      /\ 1 \in DOMAIN p
  BY <1>1
<1>3. DistinctCorrections(s)
  BY <1>2 DEF DistinctCorrections
<1>4. ASSUME m.kind # "Correct" PROVE CorrectedTexts(s) = CorrectedTexts(p)
  <2>1. \A x \in CorrectedTexts(s) : x \in CorrectedTexts(p)
    BY <1>2, CorrectedMember
  <2>2. ASSUME NEW x \in CorrectedTexts(p) PROVE x \in CorrectedTexts(s)
    <3>1. PICK i \in DOMAIN p : p[i].kind = "Correct" /\ p[i].text = x
      BY CorrectedMember
    <3>2. i - 1 \in DOMAIN s /\ s[i - 1] = p[i]
      BY <1>1, <1>2, <1>4, <3>1
    <3> QED BY <3>1, <3>2, CorrectedMember
  <2> QED BY <2>1, <2>2
<1>5. ASSUME m.kind = "Correct"
      PROVE  m.text \in CorrectedTexts(p) /\ CorrectedTexts(s) = CorrectedTexts(p) \ {m.text}
  <2>1. m.text \in CorrectedTexts(p)
    BY <1>1, <1>2, <1>5, CorrectedMember
  <2>2. \A i \in DOMAIN s : s[i].kind = "Correct" => s[i].text # m.text
    BY <1>1, <1>2, <1>5 DEF DistinctCorrections
  <2>3. \A x \in CorrectedTexts(s) : x \in CorrectedTexts(p) /\ x # m.text
    BY <1>2, <2>2, CorrectedMember
  <2>4. \A x \in CorrectedTexts(p) : x # m.text => x \in CorrectedTexts(s)
    BY <1>1, <1>2, CorrectedMember
  <2> QED BY <2>1, <2>3, <2>4
<1> QED BY <1>3, <1>4, <1>5 DEF s, m

LEMMA CorrectedConcat ==
  ASSUME NEW p \in Seq(Submissions), NEW s \in Seq(Submissions)
  PROVE  /\ CorrectedTexts(p \o s) = CorrectedTexts(p) \cup CorrectedTexts(s)
         /\ DistinctCorrections(p) /\ CorrectedTexts(s) = {} => DistinctCorrections(p \o s)
<1> DEFINE r == p \o s
           n == Len(p)
<1>1. /\ DOMAIN r = 1 .. n + Len(s) /\ DOMAIN p = 1 .. n /\ DOMAIN s = 1 .. Len(s)
      /\ n \in Nat /\ Len(s) \in Nat
      /\ \A i \in 1 .. n : r[i] = p[i]
      /\ \A i \in n + 1 .. n + Len(s) : r[i] = s[i - n]
  BY ConcatParts, PendingParts
<1> HIDE DEF r, n
<1>2. /\ \A i \in DOMAIN p : i \in DOMAIN r /\ r[i] = p[i]
      /\ \A i \in DOMAIN s : n + i \in DOMAIN r /\ r[n + i] = s[i]
      /\ \A i \in DOMAIN r : (i \in DOMAIN p /\ r[i] = p[i]) \/ (i - n \in DOMAIN s /\ r[i] = s[i - n])
  <2>1. \A i \in DOMAIN s : n + i \in n + 1 .. n + Len(s) /\ (n + i) - n = i
    BY <1>1
  <2>2. \A i \in DOMAIN r : i \in 1 .. n \/ i \in n + 1 .. n + Len(s)
    BY <1>1
  <2>3. \A i \in n + 1 .. n + Len(s) : i - n \in DOMAIN s
    BY <1>1
  <2> QED BY <1>1, <2>1, <2>2, <2>3
<1>3. CorrectedTexts(r) = CorrectedTexts(p) \cup CorrectedTexts(s)
  <2>1. \A x \in CorrectedTexts(r) : x \in CorrectedTexts(p) \cup CorrectedTexts(s)
    BY <1>2, CorrectedMember
  <2>2. \A x \in CorrectedTexts(p) : x \in CorrectedTexts(r)
    BY <1>2, CorrectedMember
  <2>3. \A x \in CorrectedTexts(s) : x \in CorrectedTexts(r)
    BY <1>2, CorrectedMember
  <2> QED BY <2>1, <2>2, <2>3
<1>4. ASSUME DistinctCorrections(p), CorrectedTexts(s) = {} PROVE DistinctCorrections(r)
  <2>1. \A i \in DOMAIN s : s[i].kind # "Correct"
    BY <1>4, CorrectedMember
  <2> QED BY <1>2, <1>4, <2>1 DEF DistinctCorrections
<1> QED BY <1>3, <1>4 DEF r

LEMMA CorrectedFront ==
  ASSUME NEW p \in Seq(Submissions), p # <<>>, Last(p).kind = "Correct"
  PROVE  CorrectedTexts(p) = CorrectedTexts(Front(p)) \cup {Last(p).text}
<1> DEFINE f == Front(p)
           n == Len(p)
<1>1. /\ n \in Nat \ {0} /\ DOMAIN p = 1 .. n /\ Last(p) = p[n]
      /\ DOMAIN f = 1 .. n - 1 /\ \A i \in 1 .. n - 1 : f[i] = p[i]
  <2>1. n \in Nat \ {0} /\ DOMAIN p = 1 .. n
    BY PendingParts
  <2> QED BY <2>1 DEF Front, Last
<1> HIDE DEF f, n
<1>2. /\ \A i \in DOMAIN f : i \in DOMAIN p /\ f[i] = p[i]
      /\ \A i \in DOMAIN p : i = n \/ (i \in DOMAIN f /\ f[i] = p[i])
      /\ n \in DOMAIN p
  BY <1>1
<1>3. \A x \in CorrectedTexts(p) : x \in CorrectedTexts(f) \cup {Last(p).text}
  BY <1>1, <1>2, CorrectedMember
<1>4. \A x \in CorrectedTexts(f) \cup {Last(p).text} : x \in CorrectedTexts(p)
  BY <1>1, <1>2, CorrectedMember
<1> QED BY <1>3, <1>4 DEF f

LEMMA WordsAppend ==
  ASSUME NEW s \in Seq(Texts), NEW t \in Texts, IsInjective(s), t \notin ToSet(s)
  PROVE  ToSet(Append(s, t)) = ToSet(s) \cup {t} /\ IsInjective(Append(s, t))
<1> DEFINE r == Append(s, t)
           n == Len(s) + 1
<1>1. /\ DOMAIN r = 1 .. Len(s) + 1 /\ DOMAIN s = 1 .. Len(s) /\ Len(s) \in Nat
      /\ \A i \in 1 .. Len(s) : r[i] = s[i]
      /\ r[Len(s) + 1] = t
  BY AppendParts, ElementsTyped
<1> HIDE DEF r
<1>2. /\ \A i \in DOMAIN s : i \in DOMAIN r /\ r[i] = s[i] /\ i # n /\ s[i] # t
      /\ n \in DOMAIN r /\ r[n] = t
      /\ \A i \in DOMAIN r : i \in DOMAIN s \/ i = n
  BY <1>1 DEF ToSet
<1> HIDE DEF n
<1>3. ToSet(r) = ToSet(s) \cup {t}
  BY <1>2 DEF ToSet
<1>4. IsInjective(r)
  BY <1>2 DEF IsInjective
<1> QED BY <1>3, <1>4 DEF r

\* Two runs of words, one behind the other.
LEMMA WordsPrefix ==
  ASSUME NEW s \in Seq(Texts), NEW t \in Seq(Texts)
  PROVE  /\ ToSet(s \o t) = ToSet(s) \cup ToSet(t)
         /\ IsInjective(s \o t) => IsInjective(s)
         /\ s \o <<>> = s
<1> DEFINE r == s \o t
           n == Len(s)
<1>1. /\ DOMAIN r = 1 .. n + Len(t) /\ DOMAIN s = 1 .. n /\ DOMAIN t = 1 .. Len(t)
      /\ n \in Nat /\ Len(t) \in Nat
      /\ \A i \in 1 .. n : r[i] = s[i]
      /\ \A i \in n + 1 .. n + Len(t) : r[i] = t[i - n]
  BY ConcatParts, ElementsTyped
<1>0. s \o <<>> = s
  OBVIOUS
<1> HIDE DEF r, n
<1>2. /\ \A i \in DOMAIN s : i \in DOMAIN r /\ r[i] = s[i]
      /\ \A i \in DOMAIN t : n + i \in DOMAIN r /\ r[n + i] = t[i]
      /\ \A i \in DOMAIN r : (i \in DOMAIN s /\ r[i] = s[i]) \/ (i - n \in DOMAIN t /\ r[i] = t[i - n])
  <2>1. \A i \in DOMAIN t : n + i \in n + 1 .. n + Len(t) /\ (n + i) - n = i
    BY <1>1
  <2>2. \A i \in DOMAIN r : i \in 1 .. n \/ i \in n + 1 .. n + Len(t)
    BY <1>1
  <2>3. \A i \in n + 1 .. n + Len(t) : i - n \in DOMAIN t
    BY <1>1
  <2> QED BY <1>1, <2>1, <2>2, <2>3
<1>3. ToSet(r) = ToSet(s) \cup ToSet(t)
  <2>1. \A x \in ToSet(r) : x \in ToSet(s) \cup ToSet(t)
    BY <1>2 DEF ToSet
  <2>2. \A x \in ToSet(s) : x \in ToSet(r)
    BY <1>2 DEF ToSet
  <2>3. \A x \in ToSet(t) : x \in ToSet(r)
    BY <1>2 DEF ToSet
  <2> QED BY <2>1, <2>2, <2>3
<1>4. IsInjective(r) => IsInjective(s)
  BY <1>2 DEF IsInjective
<1> QED BY <1>0, <1>3, <1>4 DEF r

\* What a turn's start leaves of a slot: the words ahead of those it read and the
\* words behind them.
LEMMA WordsWithout ==
  ASSUME NEW s \in Seq(Texts), NEW t \in Seq(Texts), NEW u \in Seq(Texts),
         IsInjective((s \o t) \o u)
  PROVE  IsInjective(s \o u)
<1> DEFINE r == (s \o t) \o u
           v == s \o u
           n == Len(s)
           k == Len(t)
           at(i) == IF i <= n THEN i ELSE i + k
<1>1. /\ n \in Nat /\ k \in Nat /\ Len(u) \in Nat
      /\ DOMAIN v = 1 .. n + Len(u) /\ DOMAIN r = 1 .. (n + k) + Len(u)
      /\ \A i \in 1 .. n : v[i] = s[i] /\ r[i] = s[i]
      /\ \A i \in n + 1 .. n + Len(u) : v[i] = u[i - n]
      /\ \A i \in (n + k) + 1 .. (n + k) + Len(u) : r[i] = u[i - (n + k)]
  <2>1. /\ s \o t \in Seq(Texts) /\ Len(s \o t) = n + k
        /\ \A i \in 1 .. n : (s \o t)[i] = s[i]
    BY ConcatParts
  <2>2. n \in Nat /\ k \in Nat /\ Len(u) \in Nat
    OBVIOUS
  <2>3. /\ DOMAIN v = 1 .. n + Len(u)
        /\ \A i \in 1 .. n : v[i] = s[i]
        /\ \A i \in n + 1 .. n + Len(u) : v[i] = u[i - n]
    BY ConcatParts
  <2>4. /\ DOMAIN r = 1 .. (n + k) + Len(u)
        /\ \A i \in 1 .. n + k : r[i] = (s \o t)[i]
        /\ \A i \in (n + k) + 1 .. (n + k) + Len(u) : r[i] = u[i - (n + k)]
    <3> DEFINE w == s \o t
    <3>1. w \in Seq(Texts) /\ Len(w) = n + k
      BY <2>1
    <3> HIDE DEF w, n, k
    <3>2. /\ DOMAIN (w \o u) = 1 .. Len(w) + Len(u)
          /\ \A i \in 1 .. Len(w) : (w \o u)[i] = w[i]
          /\ \A i \in Len(w) + 1 .. Len(w) + Len(u) : (w \o u)[i] = u[i - Len(w)]
      BY <3>1, ConcatParts
    <3> QED BY <3>1, <3>2 DEF w
  <2>5. \A i \in 1 .. n : i \in 1 .. n + k
    BY <2>2
  <2> HIDE DEF r, v, n, k
  <2> QED BY <2>1, <2>2, <2>3, <2>4, <2>5
<1>2. IsInjective(r)
  OBVIOUS
<1> HIDE DEF r, v, n, k
<1>3. ASSUME NEW i \in DOMAIN v
      PROVE  at(i) \in DOMAIN r /\ r[at(i)] = v[i]
  <2>1. CASE i <= n
    BY <1>1, <2>1
  <2>2. CASE ~(i <= n)
    <3>1. /\ i \in n + 1 .. n + Len(u) /\ i + k \in (n + k) + 1 .. (n + k) + Len(u)
          /\ (i + k) - (n + k) = i - n
      BY <1>1, <2>2
    <3> QED BY <1>1, <2>2, <3>1
  <2> QED BY <2>1, <2>2
<1>4. ASSUME NEW i \in DOMAIN v, NEW j \in DOMAIN v, at(i) = at(j)
      PROVE  i = j
  BY <1>1, <1>4
<1> HIDE DEF at
<1>5. IsInjective(v)
  BY <1>2, <1>3, <1>4 DEF IsInjective
<1> QED BY <1>5 DEF v

-----------------------------------------------------------------------------
(* Where the words are.                                                    *)

\* The order in which a slot would hand its words back.
SlotWords == Unread

Committed == 1 .. typed
QueueWords == TextsOf(queued)
LeftWords == ToSet(startupSlot.left)
Corrections == CorrectedTexts(Pending)
RunWords == IF pc = "running" THEN {runText} ELSE {}
SentWords == TextsAs({"sent"})
SteeredWords == TextsAs({"steered"})
UnsentWords == TextsAs({"unsent"})
Settled == released \cup SentWords \cup SteeredWords \cup UnsentWords

\* The exit has not yet shown what waits.
Early == app \in {"live", "quitting", "drawn"}

\* Each place holds a wording once.
OneByOne ==
  /\ DistinctTexts(queued) /\ DistinctCorrections(Pending)
  /\ IsInjective(SlotWords) /\ IsInjective(startupSlot.left)

\* No two places hold the same wording: the queue, the live slot, the startup slot,
\* the corrections on their way and the run; and a pin stands for a steer only.
Apart ==
  /\ QueueWords \cap (InSlot \cup LeftWords \cup Corrections \cup RunWords \cup pendingSteers) = {}
  /\ InSlot \cap (LeftWords \cup Corrections \cup RunWords) = {}
  /\ LeftWords \cap (Corrections \cup RunWords) = {}
  /\ (Corrections \cup pendingSteers) \cap RunWords = {}
  /\ Corrections \cap pendingSteers = {}
  /\ QueueWords \cup InSlot \cup LeftWords \cup Corrections \cup RunWords \cup pendingSteers
       \subseteq Committed

\* Until the flag nothing that could still go out has gone out, and the run in flight
\* has its row.
SentOnce ==
  /\ ~shuttingDown => SentWords \cap (QueueWords \cup InSlot \cup LeftWords \cup Corrections) = {}
  /\ Settled \cup rescued \subseteq Committed
  /\ RunWords \subseteq SentWords

\* What is not settled is somewhere, and the exit has shown what waits.
Kept ==
  /\ ~MayTimeOut =>
       Committed \subseteq Settled \cup QueueWords \cup Corrections \cup rescued \cup pendingSteers
  /\ ~Early => QueueWords \cup pendingSteers \subseteq Settled

\* Without steering no slot holds a word, and no wording is settled twice.
SettledOnce ==
  ~MaySteer =>
    /\ InSlot = {} /\ LeftWords = {} /\ pendingSteers = {} /\ SteeredWords = {}
    /\ (Corrections \cup rescued) \cap Settled = {}
    /\ Early => QueueWords \cap Settled = {}

\* Where the exit is and what it leaves of the driver.
ExitPlaces ==
  /\ app = "live" <=> ~shuttingDown
  /\ app \in {"quitting", "drawn"} => holder = "panel"
  /\ pc \in {"done", "aborted"} =>
       app \in {"leaving", "gone"} /\ channel = <<>> /\ revived = <<>>
  /\ app = "gone" => pc \in {"done", "aborted"} /\ rescued = {}
  /\ rescued # {} => pc = "done"

\* The steer ask is put only by a session that steers.
DropsOnly == ~MaySteer => confirmAct = "Drop"

WordsHeld == OneByOne /\ Apart /\ SentOnce /\ Kept /\ SettledOnce

LEMMA WordTypes ==
  ASSUME TypeOK
  PROVE  /\ SlotWords \in Seq(Texts) /\ startupSlot.left \in Seq(Texts)
         /\ steering.pocket \in Seq(Texts) /\ steering.drained \in Seq(Texts)
         /\ steering.live \in Seq(Texts)
         /\ InSlot = ToSet(SlotWords)
         /\ QueueWords \subseteq Texts /\ pendingSteers \subseteq Texts
         /\ typed \in Nat
<1>1. /\ steering.pocket \in Seq(Texts) /\ steering.drained \in Seq(Texts)
      /\ steering.live \in Seq(Texts)
      /\ startupSlot.left \in Seq(Texts)
  BY SlotTypes DEF TypeOK, EngineType, StartupSlots
<1>2. SlotWords \in Seq(Texts) /\ InSlot = ToSet(SlotWords)
  <2>1. steering.pocket \o steering.drained \in Seq(Texts)
    BY <1>1, SeqTypes
  <2> QED BY <1>1, <2>1, SeqTypes, WordsPrefix DEF SlotWords, Unread, InSlot
<1>3. QueueWords \subseteq Texts
  BY OrderTypes, TextsOfType DEF QueueWords
<1>4. typed \in Nat /\ pendingSteers \subseteq Texts
  BY BoundAssumption DEF TypeOK, GhostType, EngineType
<1> QED BY <1>1, <1>2, <1>3, <1>4

LEMMA SlotStays ==
  ASSUME UNCHANGED <<steering, startupSlot>>
  PROVE  UNCHANGED <<SlotWords, InSlot, LeftWords, startupSlot.left>>
BY DEF SlotWords, Unread, InSlot, LeftWords

LEMMA RowsStay ==
  ASSUME UNCHANGED RowsOwed
  PROVE  UNCHANGED <<SentWords, SteeredWords, UnsentWords>>
BY DEF SentWords, SteeredWords, UnsentWords, TextsAs

\* Rows of one kind for the texts X.
LEMMA RowsAdd ==
  ASSUME NEW X \in SUBSET Texts, NEW kind \in {"sent", "steered", "unsent"},
         RowsOwed' = RowsOwed \cup {Row(t, kind) : t \in X}
  PROVE  /\ SentWords' = SentWords \cup (IF kind = "sent" THEN X ELSE {})
         /\ SteeredWords' = SteeredWords \cup (IF kind = "steered" THEN X ELSE {})
         /\ UnsentWords' = UnsentWords \cup (IF kind = "unsent" THEN X ELSE {})
<1>1. \A t : Row(t, kind).text = t /\ Row(t, kind).kind = kind
  BY DEF Row
<1>2. ASSUME NEW k
      PROVE  TextsAs({k})' = TextsAs({k}) \cup (IF kind = k THEN X ELSE {})
  <2>1. ASSUME NEW t \in Texts
        PROVE  (\E row \in RowsOwed' : row.text = t /\ row.kind \in {k})
                 <=> \/ \E row \in RowsOwed : row.text = t /\ row.kind \in {k}
                     \/ kind = k /\ t \in X
    BY <1>1
  <2> QED BY <2>1 DEF TextsAs
<1> QED BY <1>2 DEF SentWords, SteeredWords, UnsentWords

-----------------------------------------------------------------------------
(* What the steps do to the slots.                                         *)

\* A slot that is left with its unread words in the pocket holds what it held.
LEMMA PocketKeeps ==
  ASSUME TypeOK,
         steering'.pocket = Unread, steering'.drained = <<>>, steering'.live = <<>>
  PROVE  SlotWords' = SlotWords /\ InSlot' = InSlot
<1>1. SlotWords \in Seq(Texts) /\ InSlot = ToSet(SlotWords)
  BY WordTypes
<1>2. steering'.pocket = SlotWords /\ steering'.drained = <<>> /\ steering'.live = <<>>
  BY DEF SlotWords
<1>3. SlotWords' = (SlotWords \o <<>>) \o <<>>
  BY <1>2 DEF SlotWords, Unread
<1>4. SlotWords \o <<>> = SlotWords
  BY <1>1, WordsPrefix, SeqTypes
<1>5. ToSet(<<>>) = {}
  BY DEF ToSet
<1>6. InSlot' = ToSet(SlotWords) \cup ToSet(<<>>)
  BY <1>2 DEF InSlot
<1> QED BY <1>1, <1>3, <1>4, <1>5, <1>6

\* So does a sealed one.
LEMMA SealKeeps ==
  ASSUME TypeOK, steering' = SealedSlot
  PROVE  SlotWords' = SlotWords /\ InSlot' = InSlot
<1>1. steering'.pocket = Unread /\ steering'.drained = <<>> /\ steering'.live = <<>>
  BY DEF SealedSlot, ClosedSlot
<1> QED BY <1>1, PocketKeeps

\* And one a run opens over what an earlier one left unread.
LEMMA OpenKeeps ==
  ASSUME TypeOK, steering' = [ClosedSlot EXCEPT !.open = TRUE, !.pocket = Unread]
  PROVE  SlotWords' = SlotWords /\ InSlot' = InSlot
<1>1. steering'.pocket = Unread /\ steering'.drained = <<>> /\ steering'.live = <<>>
  BY DEF ClosedSlot
<1> QED BY <1>1, PocketKeeps

\* A drain moves the live words behind those already drained.
LEMMA DrainKeeps ==
  ASSUME TypeOK, DrainsSlot
  PROVE  SlotWords' = SlotWords /\ InSlot' = InSlot
<1>1. /\ steering.pocket \in Seq(Texts) /\ steering.drained \in Seq(Texts)
      /\ steering.live \in Seq(Texts)
  BY WordTypes
<1>2. /\ steering'.pocket = steering.pocket
      /\ steering'.drained = steering.drained \o steering.live
      /\ steering'.live = <<>>
  BY DEF DrainsSlot, TypeOK, EngineType, SteeringSlots
<1>3. SlotWords' = SlotWords
  <2>1. SlotWords' = (steering.pocket \o (steering.drained \o steering.live)) \o <<>>
    BY <1>2 DEF SlotWords, Unread
  <2>2. /\ steering.drained \o steering.live \in Seq(Texts)
        /\ steering.pocket \o (steering.drained \o steering.live) \in Seq(Texts)
    BY <1>1, SeqTypes
  <2>3. SlotWords' = steering.pocket \o (steering.drained \o steering.live)
    BY <2>1, <2>2, WordsPrefix, SeqTypes
  <2>4. SlotWords = steering.pocket \o (steering.drained \o steering.live)
    <3>1. \A s, t, u \in Seq(Texts) : (s \o t) \o u = s \o (t \o u)
      BY ConcatAssociates
    <3>2. SlotWords = (steering.pocket \o steering.drained) \o steering.live
      BY DEF SlotWords, Unread
    <3> QED BY ONLY <1>1, <3>1, <3>2
  <2> QED BY <2>3, <2>4
<1>4. InSlot' = InSlot
  <2>1. ToSet(steering.drained \o steering.live) = ToSet(steering.drained) \cup ToSet(steering.live)
    BY <1>1, WordsPrefix
  <2>2. ToSet(<<>>) = {}
    BY DEF ToSet
  <2> QED BY <1>2, <2>1, <2>2 DEF InSlot
<1> QED BY <1>3, <1>4

\* A turn that starts reads what was drained for it and leaves the rest.
LEMMA TurnReads ==
  ASSUME TypeOK, steering' = [steering EXCEPT !.preparing = FALSE, !.drained = <<>>]
  PROVE  /\ InSlot' \subseteq InSlot
         /\ IsInjective(SlotWords) => IsInjective(SlotWords')
<1>1. /\ steering'.pocket = steering.pocket /\ steering'.drained = <<>>
      /\ steering'.live = steering.live
  BY DEF TypeOK, EngineType, SteeringSlots
<1>2. /\ steering.pocket \in Seq(Texts) /\ steering.drained \in Seq(Texts)
      /\ steering.live \in Seq(Texts)
  BY WordTypes
<1>3. SlotWords' = steering.pocket \o steering.live
  <2>1. steering.pocket \o <<>> = steering.pocket
    BY <1>2, WordsPrefix, SeqTypes
  <2> QED BY <1>1, <2>1 DEF SlotWords, Unread
<1>4. InSlot' \subseteq InSlot
  BY <1>1 DEF InSlot, ToSet
<1>5. IsInjective(SlotWords) => IsInjective(steering.pocket \o steering.live)
  BY <1>2, WordsWithout DEF SlotWords, Unread
<1> QED BY <1>3, <1>4, <1>5

\* An offer the slot takes goes behind what it holds.
LEMMA OfferTaken ==
  ASSUME TypeOK, NEW text \in Texts,
         steering' = [steering EXCEPT !.live = Append(@, text)]
  PROVE  /\ SlotWords' = Append(SlotWords, text) /\ InSlot' = InSlot \cup {text}
         /\ text \notin InSlot /\ IsInjective(SlotWords) => IsInjective(SlotWords')
<1>1. /\ steering'.pocket = steering.pocket /\ steering'.drained = steering.drained
      /\ steering'.live = Append(steering.live, text)
  BY DEF TypeOK, EngineType, SteeringSlots
<1>2. /\ steering.pocket \in Seq(Texts) /\ steering.drained \in Seq(Texts)
      /\ steering.live \in Seq(Texts)
      /\ SlotWords \in Seq(Texts) /\ InSlot = ToSet(SlotWords)
  BY WordTypes
<1>3. SlotWords' = Append(SlotWords, text)
  <2> DEFINE ahead == steering.pocket \o steering.drained
  <2>1. ahead \in Seq(Texts)
    BY <1>2, SeqTypes
  <2>2. SlotWords' = ahead \o Append(steering.live, text) /\ SlotWords = ahead \o steering.live
    BY <1>1 DEF SlotWords, Unread
  <2> HIDE DEF ahead
  <2>3. ahead \o Append(steering.live, text) = Append(ahead \o steering.live, text)
    <3>1. \A s, u \in Seq(Texts), e \in Texts : s \o Append(u, e) = Append(s \o u, e)
      BY ConcatAppend
    <3> QED BY ONLY <1>2, <2>1, <3>1, text \in Texts
  <2> QED BY <2>2, <2>3
<1>4. ToSet(Append(steering.live, text)) = ToSet(steering.live) \cup {text}
  <2> DEFINE s == steering.live
             r == Append(s, text)
  <2>1. /\ DOMAIN r = 1 .. Len(s) + 1 /\ DOMAIN s = 1 .. Len(s) /\ Len(s) \in Nat
        /\ \A i \in 1 .. Len(s) : r[i] = s[i]
        /\ r[Len(s) + 1] = text
    BY <1>2, AppendParts, ElementsTyped
  <2> HIDE DEF r, s
  <2> QED BY <2>1 DEF ToSet, r, s
<1>5. InSlot' = InSlot \cup {text}
  BY <1>1, <1>4 DEF InSlot
<1>6. text \notin InSlot /\ IsInjective(SlotWords) => IsInjective(SlotWords')
  BY <1>2, <1>3, WordsAppend
<1> QED BY <1>3, <1>5, <1>6

\* A rebuilt runner's slot is empty; the first rebuild leaves the old one's words.
LEMMA AdoptMoves ==
  ASSUME TypeOK, AdoptRunner
  PROVE  /\ SlotWords' = <<>> /\ InSlot' = {}
         /\ startupSlot'.rebuilt
         /\ startupSlot.rebuilt => startupSlot' = startupSlot
         /\ ~startupSlot.rebuilt => startupSlot'.left = SlotWords
<1>1. SlotWords' = <<>> /\ InSlot' = {}
  BY DEF AdoptRunner, ClosedSlot, SlotWords, Unread, InSlot, ToSet
<1> QED BY <1>1 DEF AdoptRunner, SlotWords

-----------------------------------------------------------------------------
(* The pins.                                                               *)

\* The steps of the panel that leave slots and pins alone.
LEMMA SheetKeepsSlots ==
  ASSUME \/ SubmitPrompt \/ FocusQueue \/ StepView \/ UnfocusQueue \/ AskConfirm \/ DeclineAsk
         \/ ConfirmDrop \/ OpenEdit \/ AbortEdit \/ CommitEdit \/ ClearCommand \/ ResumeCommand
         \/ OtherCommand \/ ClosePicker \/ CancelRun \/ QuitKey \/ ApplyUpdate \/ DriverJoined
  PROVE  UNCHANGED <<steering, startupSlot, pendingSteers>>
<1>1. CASE SubmitPrompt \/ FocusQueue \/ StepView \/ UnfocusQueue \/ AskConfirm \/ DeclineAsk
           \/ ConfirmDrop \/ OpenEdit \/ AbortEdit
  BY <1>1 DEF SubmitPrompt, FocusQueue, StepView, UnfocusQueue, AskConfirm, DeclineAsk, ConfirmDrop,
              OpenEdit, AbortEdit, SheetOnly, engineVars
<1>2. CASE CommitEdit \/ ClearCommand \/ ResumeCommand \/ OtherCommand \/ ClosePicker \/ CancelRun
           \/ QuitKey \/ ApplyUpdate \/ DriverJoined
  BY <1>2 DEF CommitEdit, ClearCommand, ResumeCommand, OtherCommand, ClosePicker, CancelRun, QuitKey,
              ApplyUpdate, DriverJoined, engineVars
<1> QED BY <1>1, <1>2

\* What the keys that steer do to them.
LEMMA DeliverSlots ==
  ASSUME TypeOK, NEW q, NEW text \in Texts, DeliverGuidance(q, text)
  PROVE  \/ UNCHANGED <<steering, pendingSteers>>
         \/ /\ SlotWords' = Append(SlotWords, text) /\ InSlot' = InSlot \cup {text}
            /\ pendingSteers' = pendingSteers \cup {text}
<1>1. CASE steering.open
  <2>1. /\ steering' = [steering EXCEPT !.live = Append(@, text)]
        /\ pendingSteers' = pendingSteers \cup {text}
    BY <1>1 DEF DeliverGuidance
  <2> QED BY <2>1, OfferTaken
<1>2. CASE ~steering.open
  BY <1>2 DEF DeliverGuidance
<1> QED BY <1>1, <1>2

\* What a frame takes out of them.
LEMMA FrameSlots ==
  ASSUME TypeOK, DrawFrame
  PROVE  /\ startupSlot'.rebuilt = startupSlot.rebuilt
         /\ pendingSteers' = pendingSteers \ ToSet(Returned)
         /\ \/ /\ Returned = <<>> /\ UNCHANGED <<steering, startupSlot>>
            \/ /\ Returned = SlotWords /\ ~agentRunning /\ UNCHANGED startupSlot
               /\ SlotWords' = <<>> /\ InSlot' = {}
            \/ /\ Returned = startupSlot.left /\ SlotWords = <<>> /\ ~agentRunning
               /\ UNCHANGED steering /\ startupSlot'.left = <<>>
<1>1. pendingSteers' = pendingSteers \ ToSet(Returned) /\ SlotsTaken
  BY DEF DrawFrame, Unpinned
<1>2. CASE agentRunning
  BY <1>1, <1>2 DEF Returned, SlotsTaken
<1>3. CASE ~agentRunning /\ SlotWords # <<>>
  <2>1. Returned = SlotWords
    BY <1>3 DEF Returned, SlotWords
  <2>2. /\ steering' = [steering EXCEPT !.live = <<>>, !.drained = <<>>, !.pocket = <<>>]
        /\ UNCHANGED startupSlot
    BY <1>1, <1>3 DEF SlotsTaken, SlotWords
  <2>3. steering'.live = <<>> /\ steering'.drained = <<>> /\ steering'.pocket = <<>>
    BY <2>2 DEF TypeOK, EngineType, SteeringSlots
  <2>4. SlotWords' = <<>> /\ InSlot' = {}
    BY <2>3 DEF SlotWords, Unread, InSlot, ToSet
  <2> QED BY <1>1, <1>3, <2>1, <2>2, <2>4
<1>4. CASE ~agentRunning /\ SlotWords = <<>>
  <2>1. Returned = startupSlot.left
    BY <1>4 DEF Returned, SlotWords
  <2>2. startupSlot' = [startupSlot EXCEPT !.left = <<>>] /\ UNCHANGED steering
    BY <1>1, <1>4 DEF SlotsTaken, SlotWords
  <2>3. startupSlot'.left = <<>> /\ startupSlot'.rebuilt = startupSlot.rebuilt
    BY <2>2 DEF TypeOK, EngineType, StartupSlots
  <2> QED BY <1>1, <1>4, <2>1, <2>2, <2>3
<1> QED BY <1>2, <1>3, <1>4

\* What the driver's handling of a submission does to them.
LEMMA HandleSlots ==
  ASSUME TypeOK, NEW m \in Submissions, Handle(m)
  PROVE  UNCHANGED <<SlotWords, InSlot, startupSlot, pendingSteers>>
<1>1. \/ UNCHANGED <<steering, startupSlot, pendingSteers>>
      \/ \E text : StartRun(text)
  <2>1. CASE m.kind = "Run"
    BY <2>1 DEF Handle, HandleRun, Continue, CommandKinds, engineVars
  <2>2. CASE m.kind = "Correct"
    BY <2>2 DEF Handle, HandleCorrect, CommandKinds
  <2>3. CASE m.kind \in CommandKinds
    <3>1. HandleCommand(m.kind)
      BY <2>3 DEF Handle, CommandKinds
    <3> QED BY <3>1 DEF HandleCommand, Continue, engineVars
  <2> QED BY <2>1, <2>2, <2>3, MessageParts
<1>2. ASSUME NEW text, StartRun(text)
      PROVE  UNCHANGED <<SlotWords, InSlot, startupSlot, pendingSteers>>
  <2>1. /\ steering' = [ClosedSlot EXCEPT !.open = TRUE, !.pocket = Unread]
        /\ UNCHANGED <<startupSlot, pendingSteers>>
    BY <1>2 DEF StartRun
  <2> QED BY <2>1, OpenKeeps
<1> QED BY <1>1, <1>2, SlotStays

\* What the other steps of the driver do to them.
LEMMA DriverSlots ==
  ASSUME TypeOK, Park \/ Leave \/ RunResolves \/ SlotSeals \/ DrainsSlot \/ DriverAborted
  PROVE  UNCHANGED <<SlotWords, InSlot, startupSlot, pendingSteers>>
<1>1. CASE Park \/ Leave \/ DriverAborted
  <2>1. UNCHANGED <<steering, startupSlot, pendingSteers>>
    BY <1>1 DEF Park, Leave, DriverAborted, engineVars
  <2> QED BY <2>1, SlotStays
<1>2. CASE RunResolves \/ SlotSeals
  <2>1. steering' = SealedSlot /\ UNCHANGED <<startupSlot, pendingSteers>>
    BY <1>2 DEF RunResolves, RunFinishes, RunCancelled, RunOver, RunCancelledByExit, SlotSeals
  <2> QED BY <2>1, SealKeeps
<1>3. CASE DrainsSlot
  <2>1. UNCHANGED <<startupSlot, pendingSteers>>
    BY <1>3 DEF DrainsSlot
  <2> QED BY <1>3, <2>1, DrainKeeps
<1> QED BY <1>1, <1>2, <1>3

LEMMA ApplySlots ==
  ASSUME TypeOK, ApplyCommand
  PROVE  /\ UNCHANGED pendingSteers
         /\ \/ UNCHANGED <<steering, startupSlot>>
            \/ /\ SlotWords' = <<>> /\ InSlot' = {} /\ startupSlot'.rebuilt
               /\ startupSlot.rebuilt => startupSlot' = startupSlot
               /\ ~startupSlot.rebuilt => startupSlot'.left = SlotWords
<1>1. UNCHANGED pendingSteers /\ (UNCHANGED <<steering, startupSlot>> \/ AdoptRunner)
  BY DEF ApplyCommand, CompactApplied, RebuildApplied, ResumeApplied, CommandDeclined
<1> QED BY <1>1, AdoptMoves

LEMMA PanelPins == TypeOK /\ PinsStandForWords /\ PanelStep => PinsStandForWords'
<1> SUFFICES ASSUME TypeOK, PinsStandForWords, PanelStep PROVE PinsStandForWords'
  OBVIOUS
<1>1. CASE SubmitPrompt \/ FocusQueue \/ StepView \/ UnfocusQueue \/ AskConfirm \/ DeclineAsk
           \/ ConfirmDrop \/ OpenEdit \/ AbortEdit \/ CommitEdit \/ ClearCommand \/ ResumeCommand
           \/ OtherCommand \/ ClosePicker \/ CancelRun \/ QuitKey \/ ApplyUpdate \/ DriverJoined
  <2>1. UNCHANGED <<steering, startupSlot, pendingSteers>>
    BY <1>1, SheetKeepsSlots
  <2> QED BY <2>1, SlotStays DEF PinsStandForWords
<1>2. CASE SteerNow \/ ConfirmSteer
  <2>1. UNCHANGED startupSlot
    BY <1>2 DEF SteerNow, ConfirmSteer
  <2>2. UNCHANGED <<steering, pendingSteers>> \/ \E q, text : text \in Texts /\ DeliverGuidance(q, text)
    <3>1. CASE SteerNow
      BY <3>1, FreshType DEF SteerNow
    <3>2. CASE ConfirmSteer
      BY <3>2, ViewedType DEF ConfirmSteer
    <3> QED BY <1>2, <3>1, <3>2
  <2>3. \/ UNCHANGED <<steering, pendingSteers>>
        \/ \E text : /\ InSlot' = InSlot \cup {text}
                     /\ pendingSteers' = pendingSteers \cup {text}
    BY <2>2, DeliverSlots
  <2> QED BY <2>1, <2>3, SlotStays DEF PinsStandForWords
<1>3. CASE Frame \/ LastFrame
  <2>1. DrawFrame
    BY <1>3 DEF Frame, LastFrame
  <2>2. InSlot = ToSet(SlotWords) /\ ToSet(<<>>) = {}
    BY WordTypes DEF ToSet
  <2> QED BY <2>1, <2>2, FrameSlots, SlotStays DEF PinsStandForWords
<1>4. CASE LeaveScreen \/ TerminalCloses
  BY <1>4 DEF LeaveScreen, TerminalCloses, ExitStretch, PinsStandForWords
<1> QED BY <1>1, <1>2, <1>3, <1>4 DEF PanelStep, KeyPress

LEMMA StepPins == TypeOK /\ PinsStandForWords /\ [Next]_vars => PinsStandForWords'
<1> SUFFICES ASSUME TypeOK, PinsStandForWords, [Next]_vars PROVE PinsStandForWords'
  OBVIOUS
<1>1. CASE TakeRevived \/ TakeChannel \/ Wake
  <2>1. PICK m \in Submissions : Handle(m)
    BY <1>1, OrderTypes, SeqTypes DEF TakeRevived, TakeChannel, Wake
  <2> QED BY <2>1, HandleSlots DEF PinsStandForWords
<1>2. CASE Park \/ Leave \/ RunResolves \/ SlotSeals \/ DrainsSlot \/ DriverAborted
  BY <1>2, DriverSlots DEF PinsStandForWords
<1>3. CASE ApplyCommand
  BY <1>3, ApplySlots, SlotStays DEF PinsStandForWords
<1>4. CASE TurnStarts
  BY <1>4 DEF TurnStarts, PinsStandForWords
<1>5. CASE UNCHANGED vars
  BY <1>5 DEF vars, engineVars, PinsStandForWords, InSlot
<1> QED BY <1>1, <1>2, <1>3, <1>4, <1>5, PanelPins, NextSteps DEF RunResolves, TurnBoundary

\* On the runner the session started with, every steer the panel shows as pinned is
\* one no model has read: it is in that runner's slot, or drained for a turn that
\* has not started (push_steered, on_turn_start, return_guidance).
THEOREM PinsHoldWords == Spec => []PinsStandForWords
<1>1. Init => PinsStandForWords
  BY DEF Init, PinsStandForWords
<1>2. TypeOK /\ PinsStandForWords /\ [Next]_vars => PinsStandForWords'
  BY StepPins
<1> QED BY <1>1, <1>2, TypeCorrect, PTL DEF Spec

-----------------------------------------------------------------------------
(* What is on its way to the driver.                                       *)

LEMMA FramePends ==
  ASSUME TypeOK, DrawFrame
  PROVE  Pending' = Pending \o PromisedRuns(Returned)
<1> DEFINE s == PromisedRuns(Returned)
<1>1. channel' = channel \o s /\ s \in Seq(Submissions) /\ revived' = revived
  BY FrameSends DEF DrawFrame, driverVars
<1> HIDE DEF s
<1>2. revived \in Seq(Submissions) /\ channel \in Seq(Submissions)
  BY OrderTypes
<1>3. (revived \o channel) \o s = revived \o (channel \o s)
  BY <1>1, <1>2, ConcatAssociates
<1> QED BY <1>1, <1>3 DEF Pending, s

LEMMA KeyPends ==
  ASSUME TypeOK, KeyPress \/ ApplyUpdate
  PROVE  Pending' = Pending \/ \E m \in Submissions : Pending' = Append(Pending, m) /\ SentByKey(m)
<1>1. revived' = revived
  BY PanelLeavesDriver DEF PanelStep, driverVars
<1>2. CASE channel' = channel
  BY <1>1, <1>2 DEF Pending
<1>3. CASE channel' # channel
  <2>1. PICK m \in Submissions : channel' = Append(channel, m) /\ SentByKey(m)
    BY <1>3, KeySends
  <2>2. revived \o Append(channel, m) = Append(revived \o channel, m)
    BY OrderTypes, ConcatAppend
  <2> QED BY <1>1, <2>1, <2>2 DEF Pending
<1> QED BY <1>2, <1>3

\* A step either leaves what is on its way, takes its head, adds to it or ends it.
LEMMA PendingMoves ==
  ASSUME TypeOK, SendOrder, [Next]_vars
  PROVE  \/ Pending' = Pending
         \/ Pending' = <<>>
         \/ Pending # <<>> /\ Pending' = Tail(Pending)
         \/ \E m \in Submissions : Pending' = Append(Pending, m) /\ SentByKey(m)
         \/ \E s \in Seq(Submissions) :
              Pending' = Pending \o s /\ \A i \in DOMAIN s : s[i].kind = "Run"
<1>1. CASE KeyPress \/ ApplyUpdate
  BY <1>1, KeyPends
<1>2. CASE Frame \/ LastFrame
  <2>1. DrawFrame
    BY <1>2 DEF Frame, LastFrame
  <2>2. /\ PromisedRuns(Returned) \in Seq(Submissions)
        /\ \A i \in DOMAIN PromisedRuns(Returned) : PromisedRuns(Returned)[i].kind = "Run"
    BY <2>1, FrameSends
  <2> QED BY <2>1, <2>2, FramePends
<1>3. CASE LeaveScreen \/ TerminalCloses \/ DriverJoined \/ Park \/ ApplyCommand \/ TurnBoundary
           \/ SlotSeals \/ UNCHANGED vars
  <2>1. revived' = revived /\ channel' = channel
    BY <1>3 DEF LeaveScreen, TerminalCloses, ExitStretch, DriverJoined, Park, ApplyCommand,
                TurnBoundary, DrainsSlot, TurnStarts, SlotSeals, vars, channelVars, driverVars
  <2> QED BY <2>1 DEF Pending
<1>4. CASE DriverAborted \/ Leave \/ RunCancelledByExit
  <2>1. revived' = <<>> /\ channel' = <<>>
    BY <1>4 DEF DriverAborted, Leave, RunCancelledByExit, EndWithRescue
  <2> QED BY <2>1 DEF Pending
<1>5. CASE TakeRevived \/ TakeChannel \/ Wake
  BY <1>5, TakePends
<1>6. CASE RunFinishes \/ RunCancelled
  BY <1>6, RunOverPends
<1> QED BY <1>1, <1>2, <1>3, <1>4, <1>5, <1>6, NextSteps DEF PanelStep

\* Where a submission on its way comes from.
LEMMA PendingComes ==
  ASSUME TypeOK, SendOrder, [Next]_vars, NEW i \in DOMAIN Pending'
  PROVE  \/ \E j \in DOMAIN Pending : Pending'[i] = Pending[j]
         \/ Pending'[i].kind = "Run"
         \/ SentByKey(Pending'[i])
<1> DEFINE p == Pending
<1>1. p \in Seq(Submissions) /\ DOMAIN p = 1 .. Len(p) /\ Len(p) \in Nat
  BY OrderTypes, PendingParts
<1> HIDE DEF p
<1>2. CASE Pending' = p \/ Pending' = <<>>
  BY <1>2 DEF p
<1>3. CASE p # <<>> /\ Pending' = Tail(p)
  <2>1. i \in 1 .. Len(p) - 1 /\ Tail(p)[i] = p[i + 1] /\ i + 1 \in DOMAIN p
    BY <1>1, <1>3, TailParts
  <2> QED BY <1>3, <2>1 DEF p
<1>4. ASSUME NEW m \in Submissions, Pending' = Append(p, m), SentByKey(m)
      PROVE  (\E j \in DOMAIN p : Pending'[i] = p[j]) \/ SentByKey(Pending'[i])
  <2>1. i \in 1 .. Len(p) \/ i = Len(p) + 1
    BY <1>1, <1>4, AppendParts
  <2> QED BY <1>1, <1>4, <2>1, AppendParts
<1>5. ASSUME NEW s \in Seq(Submissions), Pending' = p \o s, \A j \in DOMAIN s : s[j].kind = "Run"
      PROVE  (\E j \in DOMAIN p : Pending'[i] = p[j]) \/ Pending'[i].kind = "Run"
  <2>1. DOMAIN s = 1 .. Len(s) /\ Len(s) \in Nat /\ i \in 1 .. Len(p) + Len(s)
    BY <1>1, <1>5, PendingParts, ConcatParts
  <2>2. CASE i \in 1 .. Len(p)
    BY <1>1, <1>5, <2>2, ConcatParts
  <2>3. CASE i \in Len(p) + 1 .. Len(p) + Len(s)
    <3>1. Pending'[i] = s[i - Len(p)] /\ i - Len(p) \in DOMAIN s
      BY <1>1, <1>5, <2>1, <2>3, ConcatParts
    <3> QED BY <1>5, <3>1
  <2> QED BY <1>1, <2>1, <2>2, <2>3
<1> QED BY <1>2, <1>3, <1>4, <1>5, PendingMoves DEF p

-----------------------------------------------------------------------------
(* The commands a session never sends.                                     *)

\* A command the user does not send is neither on its way nor being applied.
Unheard(command) ==
  /\ applying # command
  /\ \A i \in DOMAIN Pending : Pending[i].kind # command

LEMMA StepUnheard ==
  ASSUME NEW command \in CommandKinds, command \notin Commands,
         TypeOK, SendOrder, Unheard(command), [Next]_vars
  PROVE  Unheard(command)'
<1>1. \A i \in DOMAIN Pending' : Pending'[i].kind # command
  <2> SUFFICES ASSUME NEW i \in DOMAIN Pending' PROVE Pending'[i].kind # command
    OBVIOUS
  <2>1. ASSUME SentByKey(Pending'[i]) PROVE Pending'[i].kind # command
    BY <2>1 DEF SentByKey, CorrectMsg, CommandMsg, Submission, CommandKinds
  <2> QED BY <2>1, PendingComes DEF Unheard, CommandKinds
<1>2. applying' # command
  <2>1. CASE TakeRevived \/ TakeChannel \/ Wake
    <3>1. Pending # <<>> /\ Handle(Head(Pending)) /\ 1 \in DOMAIN Pending /\ Head(Pending) = Pending[1]
      BY <2>1, TakePends, OrderTypes, TailParts, PendingParts
    <3>2. Head(Pending).kind # command /\ applying # command
      BY <3>1 DEF Unheard
    <3> QED BY <3>1, <3>2 DEF Handle, HandleRun, HandleCorrect, HandleCommand
  <2>2. CASE PanelStep
    BY <2>2, PanelLeavesDriver DEF Unheard, driverVars
  <2>3. CASE ~(TakeRevived \/ TakeChannel \/ Wake \/ PanelStep)
    <3>1. applying' = applying \/ applying' = "none"
      BY <2>3, NextSteps DEF DriverAborted, Park, Leave, RunFinishes, RunCancelled, RunOver,
         RunCancelledByExit, ApplyCommand, TurnBoundary, DrainsSlot, TurnStarts, SlotSeals, vars,
         driverVars
    <3> QED BY <3>1 DEF Unheard, CommandKinds
  <2> QED BY <2>1, <2>2, <2>3
<1> QED BY <1>1, <1>2 DEF Unheard

\* With no /resume nothing empties the queue under an editor, and no id is lost.
NeverResumed ==
  /\ Unheard("Resume")
  /\ \A i \in DOMAIN updates : updates[i] # "Resumed"
  /\ swept = {} /\ resumeMark = 0

LEMMA StepNeverResumed ==
  ASSUME "Resume" \notin Commands, TypeOK, SendOrder, NeverResumed, [Next]_vars
  PROVE  NeverResumed'
<1>1. Unheard("Resume")'
  BY StepUnheard DEF NeverResumed, CommandKinds
<1> DEFINE u == updates
<1>2. u \in Seq({"Resumed", "SessionCatalog"}) /\ \A i \in DOMAIN u : u[i] # "Resumed"
  BY DEF TypeOK, ChannelType, NeverResumed
<1>3. ~ResumeCommand
  BY DEF ResumeCommand, CommandKey
<1>4. \/ u' = u \/ u' = Append(u, "SessionCatalog")
      \/ u # <<>> /\ u' = Tail(u) /\ ApplyUpdate
  <2>1. CASE TakeRevived \/ TakeChannel \/ Wake
    <3>1. PICK m \in Submissions : Handle(m)
      BY <2>1, OrderTypes, SeqTypes DEF TakeRevived, TakeChannel, Wake
    <3> QED BY <3>1 DEF Handle, HandleCommand
  <2>2. CASE PanelStep
    <3>1. CASE KeyPress
      <4>1. CASE SubmitPrompt \/ SteerNow \/ FocusQueue \/ StepView \/ UnfocusQueue \/ AskConfirm
                 \/ DeclineAsk \/ ConfirmDrop \/ ConfirmSteer \/ OpenEdit \/ AbortEdit
        BY <4>1 DEF SubmitPrompt, SteerNow, FocusQueue, StepView, UnfocusQueue, AskConfirm,
                    DeclineAsk, ConfirmDrop, ConfirmSteer, OpenEdit, AbortEdit, SheetOnly, channelVars
      <4>2. CASE CommitEdit \/ ClearCommand \/ OtherCommand \/ ClosePicker \/ CancelRun \/ QuitKey
        BY <4>2 DEF CommitEdit, ClearCommand, OtherCommand, ClosePicker, CancelRun, QuitKey, channelVars
      <4> QED BY <1>3, <3>1, <4>1, <4>2 DEF KeyPress
    <3>2. CASE ApplyUpdate
      BY <3>2 DEF ApplyUpdate
    <3>3. CASE Frame \/ LastFrame \/ LeaveScreen \/ TerminalCloses \/ DriverJoined
      BY <3>3 DEF Frame, LastFrame, DrawFrame, LeaveScreen, TerminalCloses, ExitStretch, DriverJoined,
                  channelVars
    <3> QED BY <2>2, <3>1, <3>2, <3>3 DEF PanelStep
  <2>3. CASE ApplyCommand
    <3>1. ~ResumeApplied
      BY DEF ResumeApplied, NeverResumed, Unheard
    <3> QED BY <2>3, <3>1 DEF ApplyCommand, CompactApplied, RebuildApplied, CommandDeclined
  <2>4. CASE DriverAborted \/ Park \/ Leave \/ RunFinishes \/ RunCancelled \/ RunCancelledByExit
             \/ TurnBoundary \/ SlotSeals \/ UNCHANGED vars
    BY <2>4 DEF DriverAborted, Park, Leave, RunFinishes, RunCancelled, RunOver, RunCancelledByExit,
                TurnBoundary, DrainsSlot, TurnStarts, SlotSeals, vars, channelVars
  <2> QED BY <2>1, <2>2, <2>3, <2>4, NextSteps
<1> HIDE DEF u
<1>5. \A i \in DOMAIN u' : u'[i] # "Resumed"
  <2>1. CASE u' = u
    BY <1>2, <2>1
  <2>2. CASE u' = Append(u, "SessionCatalog")
    <3> DEFINE v == Append(u, "SessionCatalog")
    <3>1. /\ DOMAIN v = 1 .. Len(u) + 1 /\ DOMAIN u = 1 .. Len(u) /\ Len(u) \in Nat
          /\ \A i \in 1 .. Len(u) : v[i] = u[i]
          /\ v[Len(u) + 1] = "SessionCatalog"
      BY <1>2, AppendParts, ElementsTyped
    <3> HIDE DEF v
    <3>2. \A i \in DOMAIN v : i \in DOMAIN u \/ i = Len(u) + 1
      BY <3>1
    <3> QED BY <1>2, <2>2, <3>1, <3>2 DEF v
  <2>3. CASE u # <<>> /\ u' = Tail(u)
    <3>1. \A i \in DOMAIN Tail(u) : i + 1 \in DOMAIN u /\ Tail(u)[i] = u[i + 1]
      BY <1>2, <2>3, TailParts, ElementsTyped
    <3> QED BY <1>2, <2>3, <3>1
  <2> QED BY <1>4, <2>1, <2>2, <2>3
<1>6. swept' = swept /\ resumeMark' = resumeMark
  <2>1. CASE ApplyUpdate
    <3>1. Head(u) # "Resumed"
      <4>1. u # <<>>
        BY <2>1 DEF ApplyUpdate, u
      <4>2. Head(u) = u[1] /\ 1 \in DOMAIN u
        BY <1>2, <4>1, TailParts, ElementsTyped
      <4> QED BY <1>2, <4>2
    <3> QED BY <2>1, <3>1 DEF ApplyUpdate, u
  <2>2. CASE KeyPress
    <3>1. CASE SubmitPrompt \/ SteerNow \/ FocusQueue \/ StepView \/ UnfocusQueue \/ AskConfirm
               \/ DeclineAsk \/ ConfirmDrop \/ ConfirmSteer \/ OpenEdit \/ AbortEdit
      BY <3>1 DEF SubmitPrompt, SteerNow, FocusQueue, StepView, UnfocusQueue, AskConfirm,
                  DeclineAsk, ConfirmDrop, ConfirmSteer, OpenEdit, AbortEdit, SheetOnly
    <3>2. CASE CommitEdit \/ ClearCommand \/ OtherCommand \/ ClosePicker \/ CancelRun \/ QuitKey
      BY <3>2 DEF CommitEdit, ClearCommand, OtherCommand, ClosePicker, CancelRun, QuitKey,
                  ghostVars, userVars
    <3> QED BY <1>3, <2>2, <3>1, <3>2 DEF KeyPress
  <2>3. CASE TakeRevived \/ TakeChannel \/ Wake \/ Park \/ Leave \/ ApplyCommand
    BY <2>3 DEF TakeRevived, TakeChannel, Wake, Park, Leave, ApplyCommand, userVars, ghostVars
  <2>4. CASE Frame \/ LastFrame \/ LeaveScreen \/ TerminalCloses \/ DriverJoined \/ DriverAborted
    BY <2>4 DEF Frame, LastFrame, DrawFrame, LeaveScreen, TerminalCloses, ExitStretch, DriverJoined,
                DriverAborted, ghostVars, userVars
  <2>5. CASE RunFinishes \/ RunCancelled \/ RunCancelledByExit \/ TurnBoundary \/ SlotSeals
             \/ UNCHANGED vars
    BY <2>5 DEF RunFinishes, RunCancelled, RunOver, RunCancelledByExit, TurnBoundary, DrainsSlot,
           TurnStarts, SlotSeals,
                vars, ghostVars, userVars
  <2> QED BY <2>1, <2>2, <2>3, <2>4, <2>5, NextSteps DEF PanelStep
<1> QED BY <1>1, <1>5, <1>6 DEF NeverResumed, u

-----------------------------------------------------------------------------
(* The prompt an editor holds and the claim a correction names.            *)

LEMMA IdsAppend ==
  ASSUME NEW q \in Seq(Prompts), NEW e \in Prompts
  PROVE  IdsOf(Append(q, e)) = IdsOf(q) \cup {e.id}
<1> DEFINE r == Append(q, e)
<1>1. /\ DOMAIN r = 1 .. Len(q) + 1 /\ DOMAIN q = 1 .. Len(q) /\ Len(q) \in Nat
      /\ \A i \in 1 .. Len(q) : r[i] = q[i]
      /\ r[Len(q) + 1] = e
  BY AppendParts, PromptParts
<1> HIDE DEF r
<1> QED BY <1>1 DEF IdsOf, r

LEMMA IdsConcat ==
  ASSUME NEW q \in Seq(Prompts), NEW r \in Seq(Prompts)
  PROVE  IdsOf(q) \subseteq IdsOf(q \o r)
<1> DEFINE s == q \o r
<1>1. \A i \in DOMAIN q : i \in DOMAIN s /\ s[i] = q[i]
  BY ConcatParts, PromptParts
<1> HIDE DEF s
<1> QED BY <1>1 DEF IdsOf, s

LEMMA IdsRemove ==
  ASSUME NEW q \in Seq(Prompts), NEW id
  PROVE  IdsOf(q) \subseteq IdsOf(RemoveId(q, id)) \cup {id}
<1>1. CASE ~Waits(q, id)
  BY <1>1 DEF RemoveId
<1>2. CASE Waits(q, id)
  <2> DEFINE k == IndexOf(q, id)
             r == RemoveId(q, id)
  <2>1. k \in DOMAIN q /\ q[k].id = id
    BY <1>2 DEF Waits, IndexOf
  <2>2. r = RemoveAt(q, k)
    BY <1>2 DEF RemoveId
  <2> HIDE DEF k, r
  <2>3. /\ r \in Queues(Texts) /\ Len(r) = Len(q) - 1
        /\ \A j \in 1 .. Len(q) - 1 : r[j] = IF j < k THEN q[j] ELSE q[j + 1]
    BY <2>1, <2>2, QueuesArePrompts, RemoveAtFacts DEF Queues
  <2>4. DOMAIN q = 1 .. Len(q) /\ Len(q) \in Nat /\ DOMAIN r = 1 .. Len(q) - 1
    BY <2>3, PromptParts, QueueFacts
  <2>5. ASSUME NEW i \in DOMAIN q PROVE q[i].id \in IdsOf(r) \cup {id}
    <3>1. CASE i = k
      BY <2>1, <3>1
    <3>2. CASE i < k
      <4>1. i \in DOMAIN r /\ r[i] = q[i]
        BY <2>1, <2>3, <2>4, <3>2
      <4> QED BY <4>1 DEF IdsOf
    <3>3. CASE i > k
      <4>1. i - 1 \in DOMAIN r /\ ~(i - 1 < k) /\ (i - 1) + 1 = i
        BY <2>1, <2>4, <3>3
      <4>2. r[i - 1] = q[i]
        BY <2>3, <2>4, <4>1
      <4> QED BY <4>1, <4>2 DEF IdsOf
    <3> QED BY <2>1, <2>4, <3>1, <3>2, <3>3
  <2> QED BY <2>5 DEF IdsOf, r
<1> QED BY <1>1, <1>2

\* The ids that /resume or the adoption of its session took from the queue.
ResumedIds == swept \cup 0 .. resumeMark - 1

\* What an id may stand for that the queue no longer holds.
Gone == IdsOf(claims) \cup ResumedIds

\* An open editor's prompt waits, was claimed, or went with a resumed session; so
\* did the prompt a correction names, except that it no longer waits.
Edited ==
  /\ queueMode = "Editing" => editing \in IdsOf(queued) \cup Gone
  /\ \A i \in DOMAIN Pending : Pending[i].kind = "Correct" => Pending[i].id \in Gone
  /\ resumeMark <= nextId

\* How a step treats the open editor.
EditorKept ==
  /\ Gone \subseteq Gone' /\ resumeMark' <= nextId'
  /\ queueMode' = "Editing" =>
       \/ /\ queueMode = "Editing" /\ editing' = editing
          /\ IdsOf(queued) \subseteq IdsOf(queued)' \cup Gone'
       \/ editing' \in IdsOf(queued)'

LEMMA EditorStays ==
  ASSUME UNCHANGED <<claims, swept, resumeMark>>,
         resumeMark \in Nat, nextId \in Nat, nextId' \in Nat,
         resumeMark <= nextId, nextId <= nextId',
         \/ queueMode' # "Editing"
         \/ UNCHANGED <<queueMode, editing>> /\ IdsOf(queued) \subseteq IdsOf(queued)'
  PROVE  EditorKept
BY DEF EditorKept, Gone, ResumedIds

LEMMA KeysKeepEditor ==
  ASSUME TypeOK, SendOrder, Edited, KeyPress \/ ApplyUpdate
  PROVE  EditorKept
<1>1. /\ resumeMark \in Nat /\ nextId \in Nat /\ resumeMark <= nextId /\ queued \in Seq(Prompts)
      /\ \A id \in IdsOf(queued) : id \in 0 .. nextId - 1
  <2>1. Below(queued, nextId) /\ queued \in Seq(Prompts) /\ nextId \in Nat
    BY OrderTypes, OrderParts DEF Ordered
  <2>2. \A i \in DOMAIN queued : queued[i].id \in 0 .. nextId - 1
    BY <2>1, PromptParts DEF Below
  <2> QED BY <2>1, <2>2 DEF TypeOK, GhostType, Edited, IdsOf
<1>2. CASE FocusQueue \/ StepView \/ UnfocusQueue \/ AskConfirm \/ DeclineAsk \/ AbortEdit
  <2>1. queueMode' # "Editing" /\ UNCHANGED <<claims, swept, resumeMark, nextId>>
    BY <1>2 DEF FocusQueue, StepView, UnfocusQueue, AskConfirm, DeclineAsk, AbortEdit, AfterEdit,
                SheetOnly, queueVars
  <2> QED BY <1>1, <2>1, EditorStays
<1>3. CASE OpenEdit
  <2>1. UNCHANGED <<claims, swept, resumeMark, queued, nextId>>
    BY <1>3 DEF OpenEdit, SheetOnly, queueVars
  <2>2. CASE ViewHolds
    <3>1. editing' = queued[queueView + 1].id
      BY <1>3, <2>2 DEF OpenEdit, Viewed
    <3>2. queueView + 1 \in DOMAIN queued
      BY <1>1, <2>2, PromptParts DEF ViewHolds, TypeOK, PanelType
    <3>3. editing' \in IdsOf(queued)'
      BY <2>1, <3>1, <3>2 DEF IdsOf
    <3> QED BY <1>1, <2>1, <3>3 DEF EditorKept, Gone, ResumedIds
  <2>3. CASE ~ViewHolds
    <3>1. UNCHANGED <<queueMode, editing>>
      BY <1>3, <2>3 DEF OpenEdit
    <3> QED BY <1>1, <2>1, <3>1, EditorStays
  <2> QED BY <2>2, <2>3
<1>4. CASE ClosePicker \/ CancelRun \/ QuitKey \/ OtherCommand
  <2>1. UNCHANGED <<claims, swept, resumeMark, queued, nextId, queueMode, editing>>
    BY <1>4 DEF ClosePicker, CancelRun, QuitKey, OtherCommand, queueVars, sheetVars, panelVars, ghostVars,
                userVars
  <2> QED BY <1>1, <2>1, EditorStays
<1>5. CASE SubmitPrompt \/ SteerNow \/ ConfirmSteer \/ ConfirmDrop \/ CommitEdit \/ ClearCommand
  <2>1. UNCHANGED <<claims, swept, resumeMark>>
    BY <1>5 DEF SubmitPrompt, SteerNow, ConfirmSteer, ConfirmDrop, CommitEdit, ClearCommand
  <2>2. nextId' \in Nat /\ nextId <= nextId'
    <3>1. nextId' = nextId \/ nextId' = nextId + 1
      BY <1>5 DEF SubmitPrompt, SteerNow, ConfirmSteer, ConfirmDrop, CommitEdit, ClearCommand,
                  SubmitText, DeliverGuidance, queueVars
    <3> QED BY <1>1, <3>1
  <2>3. CASE SubmitPrompt \/ ConfirmSteer \/ ConfirmDrop \/ CommitEdit \/ ClearCommand
    <3>1. queueMode' # "Editing"
      BY <2>3 DEF SubmitPrompt, ConfirmSteer, ConfirmDrop, CommitEdit, ClearCommand, sheetVars,
                  Released, AfterEdit
    <3> QED BY <1>1, <2>1, <2>2, <3>1, EditorStays
  <2>4. CASE SteerNow
    <3>1. queueMode' # "Editing"
      BY <2>4 DEF SteerNow, AfterEdit
    <3> QED BY <1>1, <2>1, <2>2, <3>1, EditorStays
  <2> QED BY <1>5, <2>3, <2>4
<1>6. CASE ResumeCommand
  <2>1. /\ UNCHANGED <<claims, swept, nextId, queueMode, editing>> /\ resumeMark' = nextId
    BY <1>6 DEF ResumeCommand, sheetVars
  <2>2. IdsOf(queued) \subseteq 0 .. nextId - 1 /\ 0 .. resumeMark - 1 \subseteq 0 .. nextId - 1
    BY <1>1
  <2> QED BY <1>1, <2>1, <2>2 DEF EditorKept, Gone, ResumedIds
<1>7. CASE ApplyUpdate
  <2>1. /\ UNCHANGED <<claims, nextId, resumeMark, queueMode, editing>>
        /\ UNCHANGED <<queued, swept>> \/ swept' = swept \cup IdsOf(queued)
    BY <1>7 DEF ApplyUpdate, sheetVars
  <2> QED BY <1>1, <2>1 DEF EditorKept, Gone, ResumedIds
<1> QED BY <1>2, <1>3, <1>4, <1>5, <1>6, <1>7 DEF KeyPress

LEMMA StepsKeepEditor ==
  ASSUME TypeOK, SendOrder, Edited, [Next]_vars
  PROVE  EditorKept
<1>1. resumeMark \in Nat /\ nextId \in Nat /\ resumeMark <= nextId /\ queued \in Seq(Prompts)
  BY OrderTypes DEF TypeOK, GhostType, Edited
<1>2. CASE Frame \/ LastFrame
  <2> DEFINE r == [i \in DOMAIN Returned |-> Entry(nextId + i - 1, Returned[i])]
  <2>1. /\ UNCHANGED <<claims, swept, resumeMark, editing>>
        /\ queued' = queued \o r /\ nextId' = nextId + Len(Returned)
        /\ queueMode' = queueMode \/ queueMode' = "Plain"
    BY <1>2 DEF Frame, LastFrame, DrawFrame, Released, Requeued, ghostVars, userVars
  <2>2. r \in Seq(Prompts) /\ Len(Returned) \in Nat
    <3> DEFINE taken == Returned
    <3>1. taken \in Seq(Texts)
      BY ReturnedType
    <3> HIDE DEF taken
    <3>2. DOMAIN taken = 1 .. Len(taken) /\ Len(taken) \in Nat /\ \A i \in 1 .. Len(taken) : taken[i] \in Texts
      BY <3>1, ElementsTyped
    <3>3. \A i \in 1 .. Len(taken) : Entry(nextId + i - 1, taken[i]) \in Prompts
      BY <1>1, <3>2, PromptTypes DEF Ids
    <3>4. [i \in DOMAIN taken |-> Entry(nextId + i - 1, taken[i])] \in Seq(Prompts)
      BY <3>2, <3>3
    <3> QED BY <3>2, <3>4 DEF taken
  <2> HIDE DEF r
  <2>3. IdsOf(queued) \subseteq IdsOf(queued)'
    BY <1>1, <2>1, <2>2, IdsConcat
  <2> QED BY <1>1, <2>1, <2>2, <2>3, EditorStays
<1>3. CASE LeaveScreen \/ TerminalCloses \/ DriverJoined \/ DriverAborted \/ Park \/ Leave \/ ApplyCommand
           \/ TurnBoundary \/ SlotSeals \/ RunFinishes \/ RunCancelled \/ UNCHANGED vars
  <2>1. UNCHANGED <<claims, swept, resumeMark, queueMode, editing>>
    BY <1>3 DEF LeaveScreen, TerminalCloses, ExitStretch, DriverJoined, DriverAborted, Park, Leave,
                ApplyCommand, TurnBoundary, DrainsSlot, TurnStarts, SlotSeals, RunFinishes,
                RunCancelled, RunOver, vars,
                ghostVars, userVars, panelVars, sheetVars
  <2>2. UNCHANGED <<queued, nextId>>
    BY <1>3 DEF LeaveScreen, TerminalCloses, ExitStretch, DriverJoined, DriverAborted, Park, Leave,
                ApplyCommand, TurnBoundary, DrainsSlot, TurnStarts, SlotSeals, RunFinishes,
                RunCancelled, RunOver, vars, queueVars
  <2> QED BY <1>1, <2>1, <2>2, EditorStays
<1>4. CASE RunCancelledByExit
  <2>1. UNCHANGED <<claims, swept, resumeMark, queueMode, editing>>
    BY <1>4 DEF RunCancelledByExit, ghostVars, userVars, panelVars, sheetVars
  <2>2. \/ UNCHANGED <<queued, nextId>>
        \/ queued' = Append(queued, Entry(nextId, runText)) /\ nextId' = nextId + 1
    BY <1>4 DEF RunCancelledByExit, Push, queueVars
  <2>3. Entry(nextId, runText) \in Prompts
    BY <1>1, <1>4, PromptTypes DEF RunCancelledByExit, TypeOK, Ids
  <2>4. IdsOf(queued) \subseteq IdsOf(queued)'
    BY <1>1, <2>2, <2>3, IdsAppend
  <2>5. nextId' \in Nat /\ nextId <= nextId'
    BY <1>1, <2>2
  <2> QED BY <1>1, <2>1, <2>4, <2>5, EditorStays
<1>5. CASE TakeRevived \/ TakeChannel \/ Wake
  <2>1. PICK m \in Submissions : Handle(m)
    BY <1>5, OrderTypes, SeqTypes DEF TakeRevived, TakeChannel, Wake
  <2>2. UNCHANGED <<swept, resumeMark, queueMode, editing>>
    BY <1>5 DEF TakeRevived, TakeChannel, Wake, userVars, panelVars, sheetVars
  <2>3. CASE UNCHANGED <<queued, nextId, claims>>
    BY <1>1, <2>2, <2>3, EditorStays
  <2>4. CASE ~UNCHANGED <<queued, nextId, claims>>
    <3>1. m.kind = "Run" /\ HandleRun(m.id) /\ Claimable(m.id)
      BY <2>1, <2>4 DEF Handle, HandleRun, HandleCorrect, HandleCommand, queueVars
    <3>2. /\ queued' = RemoveId(queued, m.id) /\ nextId' = nextId
          /\ claims' = Append(claims, Entry(m.id, TextOf(queued, m.id)))
      BY <3>1 DEF HandleRun
    <3>3. Entry(m.id, TextOf(queued, m.id)) \in Prompts /\ claims \in Seq(Prompts)
      BY <1>1, <3>1, OrderTypes, TextOfType, QueuesArePrompts, PromptTypes DEF Claimable, Ids
    <3>4. IdsOf(claims)' = IdsOf(claims) \cup {m.id}
      BY <3>2, <3>3, IdsAppend DEF Entry
    <3>5. IdsOf(queued) \subseteq IdsOf(queued)' \cup {m.id}
      BY <1>1, <3>2, IdsRemove
    <3> QED BY <1>1, <2>2, <3>2, <3>4, <3>5 DEF EditorKept, Gone, ResumedIds
  <2> QED BY <2>3, <2>4
<1> QED BY <1>2, <1>3, <1>4, <1>5, KeysKeepEditor, NextSteps DEF PanelStep

LEMMA StepEdited == TypeOK /\ SendOrder /\ Edited /\ [Next]_vars => Edited'
<1> SUFFICES ASSUME TypeOK, SendOrder, Edited, [Next]_vars PROVE Edited'
  OBVIOUS
<1>1. EditorKept
  BY StepsKeepEditor
<1>2. ASSUME NEW i \in DOMAIN Pending', Pending'[i].kind = "Correct"
      PROVE  Pending'[i].id \in Gone'
  <2>1. CASE \E j \in DOMAIN Pending : Pending'[i] = Pending[j]
    BY <1>1, <1>2, <2>1 DEF Edited, EditorKept
  <2>2. CASE SentByKey(Pending'[i])
    <3>1. CommitEdit /\ ~EditStillWaits /\ Pending'[i] = CorrectMsg(editing, Fresh)
      BY <1>2, <2>2, CommandsAssumption DEF SentByKey, CommandMsg, Submission, CommandKinds
    <3>2. queueMode = "Editing" /\ editing \notin IdsOf(queued)
      BY <3>1 DEF CommitEdit, EditStillWaits, Waits, IdsOf
    <3> QED BY <1>1, <3>1, <3>2 DEF Edited, EditorKept, CorrectMsg, Submission
  <2> QED BY <1>2, <2>1, <2>2, PendingComes
<1> QED BY <1>1, <1>2 DEF Edited, EditorKept

LEMMA InitEdited == Init => Edited /\ Unheard("Resume") /\ Unheard("Compact") /\ NeverResumed
<1>1. Init => Pending = <<>> /\ updates = <<>>
  BY DEF Init, Pending
<1> QED BY <1>1 DEF Init, Edited, Unheard, NeverResumed

\* A correction names a prompt that was claimed, or one that a resumed session took
\* from under the open editor (commit_queue_edit, adopt_resumed_session).
THEOREM EditedHolds == Spec => []Edited
BY InitEdited, StepEdited, TypeCorrect, SendOrderHolds, PTL DEF Spec

\* In a session that resumes no other, a correction names a claim.
THEOREM CorrectionsHitClaims ==
  ASSUME "Resume" \notin Commands
  PROVE  Spec => []CorrectionsNameClaims
<1>1. TypeOK /\ SendOrder /\ NeverResumed /\ [Next]_vars => NeverResumed'
  BY StepNeverResumed
<1>2. Edited /\ NeverResumed => CorrectionsNameClaims
  BY DEF Edited, NeverResumed, CorrectionsNameClaims, Gone, ResumedIds
<1> QED BY <1>1, <1>2, InitEdited, EditedHolds, TypeCorrect, SendOrderHolds, PTL DEF Spec

-----------------------------------------------------------------------------
(* The exit.                                                               *)

LEMMA KeysExit == TypeOK /\ ExitPlaces /\ (KeyPress \/ ApplyUpdate) => ExitPlaces'
<1> SUFFICES ASSUME TypeOK, ExitPlaces, KeyPress \/ ApplyUpdate PROVE ExitPlaces'
  OBVIOUS
<1>1. UNCHANGED <<pc, revived>>
  BY PanelLeavesDriver DEF PanelStep, driverVars
<1>2. app = "live" /\ rescued' = rescued
  <2>1. CASE SubmitPrompt \/ SteerNow \/ FocusQueue \/ StepView \/ UnfocusQueue \/ AskConfirm
             \/ DeclineAsk \/ ConfirmDrop \/ ConfirmSteer \/ OpenEdit \/ AbortEdit
    BY <2>1 DEF SubmitPrompt, SteerNow, FocusQueue, StepView, UnfocusQueue, AskConfirm, DeclineAsk,
                ConfirmDrop, ConfirmSteer, OpenEdit, AbortEdit, SheetKey, SheetOnly, PanelTurn,
                channelVars
  <2>2. CASE CommitEdit \/ ClearCommand \/ ResumeCommand \/ OtherCommand \/ ClosePicker \/ CancelRun
             \/ QuitKey \/ ApplyUpdate
    BY <2>2 DEF CommitEdit, ClearCommand, ResumeCommand, OtherCommand, ClosePicker, CancelRun, QuitKey,
                ApplyUpdate, CommandKey, SheetKey, PanelTurn, channelVars
  <2> QED BY <2>1, <2>2 DEF KeyPress
<1>3. (app' = "live" /\ ~shuttingDown') \/ (app' = "quitting" /\ shuttingDown' /\ holder' = "panel")
  <2>1. CASE SubmitPrompt \/ SteerNow \/ FocusQueue \/ StepView \/ UnfocusQueue \/ AskConfirm
             \/ DeclineAsk \/ ConfirmDrop \/ ConfirmSteer \/ OpenEdit \/ AbortEdit
    BY <1>2, <2>1 DEF SubmitPrompt, SteerNow, FocusQueue, StepView, UnfocusQueue, AskConfirm, DeclineAsk,
                ConfirmDrop, ConfirmSteer, OpenEdit, AbortEdit, SheetOnly, signalVars, ExitPlaces
  <2>2. CASE CommitEdit \/ ClearCommand \/ ResumeCommand \/ OtherCommand \/ ClosePicker \/ CancelRun
             \/ ApplyUpdate
    BY <1>2, <2>2 DEF CommitEdit, ClearCommand, ResumeCommand, OtherCommand, ClosePicker, CancelRun,
                ApplyUpdate, signalVars, panelVars, ExitPlaces
  <2>3. CASE QuitKey
    BY <2>3 DEF QuitKey, PanelTurn
  <2> QED BY <2>1, <2>2, <2>3 DEF KeyPress
<1>4. pc \notin {"done", "aborted"} /\ rescued = {}
  BY <1>2 DEF ExitPlaces
<1> QED BY <1>1, <1>2, <1>3, <1>4 DEF ExitPlaces

LEMMA LeavingExits ==
  TypeOK /\ ExitPlaces
  /\ (Frame \/ LastFrame \/ LeaveScreen \/ TerminalCloses \/ DriverJoined \/ DriverAborted)
    => ExitPlaces'
<1> SUFFICES ASSUME TypeOK, ExitPlaces,
                    Frame \/ LastFrame \/ LeaveScreen \/ TerminalCloses \/ DriverJoined \/ DriverAborted
             PROVE  ExitPlaces'
  OBVIOUS
<1>1. CASE Frame \/ LastFrame
  <2>1. UNCHANGED <<pc, revived, rescued, shuttingDown>>
    BY <1>1 DEF Frame, LastFrame, DrawFrame, driverVars, signalVars
  <2>2. \/ app = "live" /\ app' = "live"
        \/ app = "quitting" /\ app' = "drawn" /\ holder' = holder
    BY <1>1 DEF Frame, LastFrame
  <2> QED BY <2>1, <2>2 DEF ExitPlaces
<1>2. CASE LeaveScreen \/ TerminalCloses
  BY <1>2 DEF LeaveScreen, TerminalCloses, ExitStretch, ExitPlaces, driverVars, channelVars
<1>3. CASE DriverJoined \/ DriverAborted
  BY <1>3 DEF DriverJoined, DriverAborted, ExitPlaces, driverVars, signalVars
<1> QED BY <1>1, <1>2, <1>3

LEMMA DriverExits ==
  TypeOK /\ ExitPlaces
  /\ (TakeRevived \/ TakeChannel \/ Wake \/ Park \/ Leave \/ RunResolves \/ ApplyCommand
      \/ TurnBoundary \/ SlotSeals)
    => ExitPlaces'
<1> SUFFICES ASSUME TypeOK, ExitPlaces,
                    TakeRevived \/ TakeChannel \/ Wake \/ Park \/ Leave \/ RunResolves \/ ApplyCommand
                    \/ TurnBoundary \/ SlotSeals
             PROVE  ExitPlaces'
  OBVIOUS
<1>1. pc \notin {"done", "aborted"} /\ holder \in {"free", "driver"} /\ rescued = {}
  <2>1. pc \notin {"done", "aborted"} /\ holder \in {"free", "driver"}
    BY DEF TakeRevived, TakeChannel, Wake, Park, Leave, RunResolves, RunFinishes, RunCancelled, RunOver,
           RunCancelledByExit, ApplyCommand, TurnBoundary, DrainsSlot, TurnStarts, SlotSeals
  <2> QED BY <2>1 DEF ExitPlaces
<1>2. app \notin {"quitting", "drawn", "gone"} /\ app' = app /\ shuttingDown' = shuttingDown
  <2>1. app \notin {"quitting", "drawn", "gone"}
    BY <1>1 DEF ExitPlaces
  <2>2. app' = app
    BY DEF TakeRevived, TakeChannel, Wake, Park, Leave, RunResolves, RunFinishes, RunCancelled, RunOver,
           RunCancelledByExit, ApplyCommand, TurnBoundary, DrainsSlot, TurnStarts, SlotSeals,
           panelVars
  <2>3. CASE TakeRevived \/ TakeChannel \/ Wake
    <3>1. PICK m \in Submissions : Handle(m)
      BY <2>3, OrderTypes, SeqTypes DEF TakeRevived, TakeChannel, Wake
    <3>2. shuttingDown' = shuttingDown
      BY <3>1 DEF Handle, HandleRun, HandleCorrect, HandleCommand, StartRun, Continue
    <3> QED BY <2>1, <2>2, <3>2
  <2>4. CASE Park \/ Leave \/ RunResolves \/ ApplyCommand \/ TurnBoundary \/ SlotSeals
    BY <2>1, <2>2, <2>4 DEF Park, Leave, RunResolves, RunFinishes, RunCancelled, RunOver,
           RunCancelledByExit, ApplyCommand, TurnBoundary, DrainsSlot, TurnStarts, SlotSeals,
           signalVars
  <2> QED BY <2>3, <2>4
<1>3. CASE TakeRevived \/ TakeChannel \/ Wake
  <2>1. PICK m \in Submissions : Handle(m)
    BY <1>3, OrderTypes, SeqTypes DEF TakeRevived, TakeChannel, Wake
  <2>2. pc' \in {"running", "loop", "applying"}
    BY <2>1 DEF Handle, HandleRun, HandleCorrect, HandleCommand, StartRun, Continue
  <2>3. rescued' = rescued
    BY <1>3 DEF TakeRevived, TakeChannel, Wake
  <2> QED BY <1>1, <1>2, <2>2, <2>3 DEF ExitPlaces
<1>4. CASE Park \/ RunFinishes \/ RunCancelled \/ ApplyCommand \/ TurnBoundary \/ SlotSeals
  <2>1. pc' \in {"parked", "loop", "running"} /\ rescued' = rescued
    BY <1>4 DEF Park, RunFinishes, RunCancelled, ApplyCommand, TurnBoundary, DrainsSlot,
           TurnStarts, SlotSeals, channelVars,
                driverVars
  <2> QED BY <1>1, <1>2, <2>1 DEF ExitPlaces
<1>5. CASE Leave \/ RunCancelledByExit
  <2>1. pc' = "done" /\ revived' = <<>> /\ channel' = <<>> /\ shuttingDown
    BY <1>5 DEF Leave, RunCancelledByExit, EndWithRescue
  <2>2. app = "leaving"
    BY <1>2, <2>1 DEF ExitPlaces, TypeOK, PanelType
  <2> QED BY <1>2, <2>1, <2>2 DEF ExitPlaces
<1> QED BY <1>3, <1>4, <1>5 DEF RunResolves

LEMMA StepExits == TypeOK /\ ExitPlaces /\ [Next]_vars => ExitPlaces'
<1> SUFFICES ASSUME TypeOK, ExitPlaces, [Next]_vars PROVE ExitPlaces'
  OBVIOUS
<1>1. CASE UNCHANGED vars
  BY <1>1 DEF vars, driverVars, signalVars, panelVars, channelVars, ExitPlaces
<1> QED BY <1>1, KeysExit, LeavingExits, DriverExits, NextSteps DEF PanelStep, RunResolves

LEMMA InitExits == Init => ExitPlaces
BY DEF Init, ExitPlaces

-----------------------------------------------------------------------------
(* How a step moves the words.  Every step is one of these moves.          *)

RowsKept == UNCHANGED <<SentWords, SteeredWords, UnsentWords>>
ExitKept == Early' = Early /\ (shuttingDown => shuttingDown')

\* Nothing moves; a run may end.
Still ==
  /\ ExitKept /\ RowsKept
  /\ UNCHANGED <<QueueWords, InSlot, LeftWords, Corrections, pendingSteers>>
  /\ UNCHANGED <<Committed, released, rescued>>
  /\ RunWords' \subseteq RunWords

\* A fresh wording joins the queue, the live slot or the corrections, and the words X
\* that waited are let go for it.
Commits(X) ==
  /\ Early /\ rescued = {} /\ ExitKept /\ RowsKept
  /\ X \subseteq QueueWords
  /\ Committed' = Committed \cup {Fresh} /\ Fresh \notin Committed
  /\ released' = released \cup X
  /\ UNCHANGED <<LeftWords, RunWords, rescued>>
  /\ \/ /\ QueueWords' = (QueueWords \ X) \cup {Fresh}
        /\ UNCHANGED <<InSlot, Corrections, pendingSteers>>
     \/ /\ MaySteer
        /\ QueueWords' = QueueWords \ X
        /\ InSlot' = InSlot \cup {Fresh} /\ pendingSteers' = pendingSteers \cup {Fresh}
        /\ UNCHANGED Corrections
     \/ /\ QueueWords' = QueueWords \ X
        /\ Corrections' = Corrections \cup {Fresh}
        /\ UNCHANGED <<InSlot, pendingSteers>>

\* The user lets go of words that wait.
LetsGo(X) ==
  /\ Early /\ rescued = {} /\ ExitKept /\ RowsKept
  /\ X \subseteq QueueWords
  /\ QueueWords' = QueueWords \ X /\ released' = released \cup X
  /\ UNCHANGED <<InSlot, LeftWords, Corrections, RunWords, pendingSteers, Committed, rescued>>

\* A waiting wording goes into the live slot.
Steers(t) ==
  /\ MaySteer /\ ExitKept /\ RowsKept
  /\ t \in QueueWords
  /\ QueueWords' = QueueWords \ {t}
  /\ InSlot' = InSlot \cup {t} /\ pendingSteers' = pendingSteers \cup {t}
  /\ UNCHANGED <<LeftWords, Corrections, RunWords, Committed, released, rescued>>

\* A frame takes the words T out of a slot and lets them wait.
Returns(T) ==
  /\ Early /\ ExitKept /\ RowsKept
  /\ T \in {{}, InSlot, LeftWords}
  /\ QueueWords' = QueueWords \cup T
  /\ InSlot' = InSlot \ T /\ LeftWords' = LeftWords \ T
  /\ pendingSteers' = pendingSteers \ T
  /\ UNCHANGED <<Corrections, RunWords, Committed, released, rescued>>

\* A run starts on a wording that waited or came as a correction.
Claims(t) ==
  /\ ~shuttingDown /\ Early /\ rescued = {} /\ RunWords = {} /\ ExitKept
  /\ t \in QueueWords \cup Corrections
  /\ QueueWords' = QueueWords \ {t} /\ Corrections' = Corrections \ {t}
  /\ RunWords' = {t} /\ SentWords' = SentWords \cup {t}
  /\ UNCHANGED <<InSlot, LeftWords, pendingSteers, Committed, released, rescued>>
  /\ UNCHANGED <<SteeredWords, UnsentWords>>

\* A turn that starts reads what was drained for it, and graduates the pins.
Graduates ==
  /\ ExitKept
  /\ InSlot' \subseteq InSlot /\ pendingSteers' = {}
  /\ SteeredWords' = SteeredWords \cup pendingSteers
  /\ UNCHANGED <<QueueWords, LeftWords, Corrections, RunWords, Committed, released, rescued>>
  /\ UNCHANGED <<SentWords, UnsentWords>>

\* A rebuilt runner: the slot's words stay behind.
Rebuilds ==
  /\ ExitKept /\ RowsKept
  /\ InSlot' = {} /\ LeftWords' \in {LeftWords, InSlot}
  /\ RunWords' \subseteq RunWords
  /\ UNCHANGED <<QueueWords, Corrections, pendingSteers, Committed, released, rescued>>

\* The driver ends: its corrections are rescued, and the run's words wait again when
\* no correction of them was on its way.
Rescues ==
  /\ ~Early /\ shuttingDown /\ ExitKept /\ RowsKept
  /\ QueueWords' \in {QueueWords, QueueWords \cup RunWords} /\ RunWords' = {}
  /\ Corrections' = {} /\ rescued' = rescued \cup Corrections
  /\ UNCHANGED <<InSlot, LeftWords, pendingSteers, Committed, released>>

\* The exit shows what waits.
Shows ==
  /\ Early /\ rescued = {} /\ ~Early' /\ shuttingDown'
  /\ UnsentWords' = UnsentWords \cup QueueWords \cup pendingSteers /\ pendingSteers' = {}
  /\ UNCHANGED <<QueueWords, InSlot, LeftWords, Corrections, RunWords, Committed, released, rescued>>
  /\ UNCHANGED <<SentWords, SteeredWords>>

\* The session is over: the rescued words are shown.
Ends ==
  /\ ~Early /\ ExitKept
  /\ ~MayTimeOut => Corrections = {}
  /\ Corrections' = {} /\ RunWords' = {}
  /\ UnsentWords' = UnsentWords \cup rescued /\ rescued' = {}
  /\ UNCHANGED <<QueueWords, InSlot, LeftWords, pendingSteers, Committed, released>>
  /\ UNCHANGED <<SentWords, SteeredWords>>

WordMove ==
  \/ Still
  \/ \E X : Commits(X) \/ LetsGo(X)
  \/ \E t : Steers(t) \/ Claims(t)
  \/ \E T : Returns(T)
  \/ Graduates \/ Rebuilds \/ Rescues \/ Shows \/ Ends

LEMMA StillHolds == Apart /\ SentOnce /\ Kept /\ SettledOnce /\ Still
                      => Apart' /\ SentOnce' /\ Kept' /\ SettledOnce'
<1> SUFFICES ASSUME Apart, SentOnce, Kept, SettledOnce, Still
             PROVE  Apart' /\ SentOnce' /\ Kept' /\ SettledOnce'
  OBVIOUS
<1>1. Apart'
  BY DEF Apart, Still
<1>2. SentOnce'
  BY DEF SentOnce, Settled, Still, RowsKept, ExitKept
<1>3. Kept'
  BY DEF Kept, Settled, Still, RowsKept, ExitKept
<1>4. SettledOnce'
  BY DEF SettledOnce, Settled, Still, RowsKept, ExitKept
<1> QED BY <1>1, <1>2, <1>3, <1>4

LEMMA CommitsHolds ==
  ASSUME Apart, SentOnce, Kept, SettledOnce, NEW X, Commits(X)
  PROVE  Apart' /\ SentOnce' /\ Kept' /\ SettledOnce'
<1>1. Apart'
  BY DEF Apart, Commits
<1>2. SentOnce'
  BY DEF Apart, SentOnce, Settled, Commits, RowsKept, ExitKept
<1>3. Kept'
  BY DEF Kept, Settled, Commits, RowsKept, ExitKept
<1>4. SettledOnce'
  BY DEF Apart, SentOnce, SettledOnce, Settled, Commits, RowsKept, ExitKept
<1> QED BY <1>1, <1>2, <1>3, <1>4

LEMMA LetsGoHolds ==
  ASSUME Apart, SentOnce, Kept, SettledOnce, NEW X, LetsGo(X)
  PROVE  Apart' /\ SentOnce' /\ Kept' /\ SettledOnce'
<1>1. Apart'
  BY DEF Apart, LetsGo
<1>2. SentOnce'
  BY DEF Apart, SentOnce, Settled, LetsGo, RowsKept, ExitKept
<1>3. Kept'
  BY DEF Kept, Settled, LetsGo, RowsKept, ExitKept
<1>4. SettledOnce'
  BY DEF Apart, SettledOnce, Settled, LetsGo, RowsKept, ExitKept
<1> QED BY <1>1, <1>2, <1>3, <1>4

LEMMA SteersHolds ==
  ASSUME Apart, SentOnce, Kept, SettledOnce, NEW t, Steers(t)
  PROVE  Apart' /\ SentOnce' /\ Kept' /\ SettledOnce'
<1>1. Apart'
  BY DEF Apart, Steers
<1>2. SentOnce'
  BY DEF SentOnce, Settled, Steers, RowsKept, ExitKept
<1>3. Kept'
  BY DEF Kept, Settled, Steers, RowsKept, ExitKept
<1>4. SettledOnce'
  BY DEF SettledOnce, Steers
<1> QED BY <1>1, <1>2, <1>3, <1>4

LEMMA ReturnsHolds ==
  ASSUME Apart, SentOnce, Kept, SettledOnce, NEW T, Returns(T)
  PROVE  Apart' /\ SentOnce' /\ Kept' /\ SettledOnce'
<1>1. Apart'
  BY DEF Apart, Returns
<1>2. SentOnce'
  BY DEF SentOnce, Settled, Returns, RowsKept, ExitKept
<1>3. Kept'
  BY DEF Kept, Settled, Returns, RowsKept, ExitKept
<1>4. SettledOnce'
  BY DEF SettledOnce, Settled, Returns, RowsKept, ExitKept
<1> QED BY <1>1, <1>2, <1>3, <1>4

LEMMA ClaimsHolds ==
  ASSUME Apart, SentOnce, Kept, SettledOnce, NEW t, Claims(t)
  PROVE  Apart' /\ SentOnce' /\ Kept' /\ SettledOnce'
<1>1. Apart'
  BY DEF Apart, Claims
<1>2. SentOnce'
  BY DEF Apart, SentOnce, Settled, Claims, ExitKept
<1>3. Kept'
  BY DEF Kept, Settled, Claims, ExitKept
<1>4. SettledOnce'
  BY DEF Apart, SettledOnce, Settled, Claims, ExitKept
<1> QED BY <1>1, <1>2, <1>3, <1>4

LEMMA DriverHolds ==
  ASSUME Apart, SentOnce, Kept, SettledOnce, Graduates \/ Rebuilds \/ Rescues
  PROVE  Apart' /\ SentOnce' /\ Kept' /\ SettledOnce'
<1>1. CASE Graduates
  <2>1. Apart'
    BY <1>1 DEF Apart, Graduates
  <2>2. SentOnce'
    BY <1>1 DEF Apart, SentOnce, Settled, Graduates, ExitKept
  <2>3. Kept'
    BY <1>1 DEF Kept, Settled, Graduates, ExitKept
  <2>4. SettledOnce'
    BY <1>1 DEF SettledOnce, Settled, Graduates, ExitKept
  <2> QED BY <2>1, <2>2, <2>3, <2>4
<1>2. CASE Rebuilds
  <2>1. Apart'
    BY <1>2 DEF Apart, Rebuilds
  <2>2. SentOnce'
    BY <1>2 DEF SentOnce, Settled, Rebuilds, RowsKept, ExitKept
  <2>3. Kept'
    BY <1>2 DEF Kept, Settled, Rebuilds, RowsKept, ExitKept
  <2>4. SettledOnce'
    BY <1>2 DEF SettledOnce, Settled, Rebuilds, RowsKept, ExitKept
  <2> QED BY <2>1, <2>2, <2>3, <2>4
<1>3. CASE Rescues
  <2>1. Apart'
    BY <1>3 DEF Apart, Rescues
  <2>2. SentOnce'
    BY <1>3 DEF Apart, SentOnce, Settled, Rescues, RowsKept, ExitKept
  <2>3. Kept'
    BY <1>3 DEF SentOnce, Kept, Settled, Rescues, RowsKept, ExitKept
  <2>4. SettledOnce'
    BY <1>3 DEF SettledOnce, Settled, Rescues, RowsKept, ExitKept
  <2> QED BY <2>1, <2>2, <2>3, <2>4
<1> QED BY <1>1, <1>2, <1>3

LEMMA ExitHolds ==
  ASSUME Apart, SentOnce, Kept, SettledOnce, Shows \/ Ends
  PROVE  Apart' /\ SentOnce' /\ Kept' /\ SettledOnce'
<1>1. CASE Shows
  <2>1. Apart'
    BY <1>1 DEF Apart, Shows
  <2>2. SentOnce'
    BY <1>1 DEF Apart, SentOnce, Settled, Shows
  <2>3. Kept'
    BY <1>1 DEF Kept, Settled, Shows
  <2>4. SettledOnce'
    BY <1>1 DEF Apart, SettledOnce, Settled, Shows
  <2> QED BY <2>1, <2>2, <2>3, <2>4
<1>2. CASE Ends
  <2>1. Apart'
    BY <1>2 DEF Apart, Ends
  <2>2. SentOnce'
    BY <1>2 DEF SentOnce, Settled, Ends, ExitKept
  <2>3. Kept'
    BY <1>2 DEF Kept, Settled, Ends, ExitKept
  <2>4. SettledOnce'
    BY <1>2 DEF SettledOnce, Settled, Ends, ExitKept
  <2> QED BY <2>1, <2>2, <2>3, <2>4
<1> QED BY <1>1, <1>2

LEMMA MovesHold == Apart /\ SentOnce /\ Kept /\ SettledOnce /\ WordMove
                     => Apart' /\ SentOnce' /\ Kept' /\ SettledOnce'
BY StillHolds, CommitsHolds, LetsGoHolds, SteersHolds, ReturnsHolds, ClaimsHolds, DriverHolds,
   ExitHolds DEF WordMove

-----------------------------------------------------------------------------
(* The panel's keys, as moves.                                             *)

\* The shapes of the state that hold by now, the words among them.
WordFacts == TypeOK /\ SendOrder /\ ExitPlaces /\ DropsOnly /\ WordsHeld

LEMMA FreshIsNew ==
  ASSUME TypeOK
  PROVE  /\ Fresh \notin Committed
         /\ TypesOne => Committed' = Committed \cup {Fresh} /\ Fresh \in Texts
         /\ typed' = typed => Committed' = Committed
<1>1. typed \in Nat
  BY WordTypes
<1>2. TypesOne => Committed' = Committed \cup {Fresh}
  BY <1>1 DEF TypesOne, Committed, Fresh
<1> QED BY <1>1, <1>2, FreshType DEF Committed, Fresh

\* A key is read while the screen is live, and only the last one ends that.
LEMMA KeyApp == KeyPress \/ ApplyUpdate => app = "live" /\ app' \in {"live", "quitting"}
<1> SUFFICES ASSUME KeyPress \/ ApplyUpdate PROVE app = "live" /\ app' \in {"live", "quitting"}
  OBVIOUS
<1>1. CASE SubmitPrompt \/ SteerNow \/ FocusQueue \/ StepView \/ UnfocusQueue \/ AskConfirm
           \/ DeclineAsk \/ ConfirmDrop \/ ConfirmSteer \/ OpenEdit \/ AbortEdit
  BY <1>1 DEF SubmitPrompt, SteerNow, FocusQueue, StepView, UnfocusQueue, AskConfirm, DeclineAsk,
              ConfirmDrop, ConfirmSteer, OpenEdit, AbortEdit, SheetKey, SheetOnly, PanelTurn
<1>2. CASE CommitEdit \/ ClearCommand \/ ResumeCommand \/ OtherCommand \/ ClosePicker \/ CancelRun
           \/ QuitKey \/ ApplyUpdate
  BY <1>2 DEF CommitEdit, ClearCommand, ResumeCommand, OtherCommand, ClosePicker, CancelRun, QuitKey,
              ApplyUpdate, CommandKey, SheetKey, PanelTurn, panelVars
<1> QED BY <1>1, <1>2 DEF KeyPress

\* What no key and no update touches.
LEMMA KeyGround ==
  ASSUME TypeOK, ExitPlaces, KeyPress \/ ApplyUpdate
  PROVE  /\ Early /\ ExitKept /\ RowsKept /\ rescued = {}
         /\ UNCHANGED <<RunWords, startupSlot, LeftWords, rescued>>
<1>1. UNCHANGED <<pc, runText>>
  BY PanelLeavesDriver DEF PanelStep, driverVars
<1>2. UNCHANGED <<startupSlot, landed, graduations, rescued>>
  <2>1. CASE SubmitPrompt \/ SteerNow \/ FocusQueue \/ StepView \/ UnfocusQueue \/ AskConfirm
             \/ DeclineAsk \/ ConfirmDrop \/ ConfirmSteer \/ OpenEdit \/ AbortEdit
    BY <2>1 DEF SubmitPrompt, SteerNow, FocusQueue, StepView, UnfocusQueue, AskConfirm, DeclineAsk,
                ConfirmDrop, ConfirmSteer, OpenEdit, AbortEdit, SheetOnly, engineVars, channelVars
  <2>2. CASE CommitEdit \/ ClearCommand \/ ResumeCommand \/ OtherCommand \/ ClosePicker \/ CancelRun
             \/ QuitKey \/ ApplyUpdate
    BY <2>2 DEF CommitEdit, ClearCommand, ResumeCommand, OtherCommand, ClosePicker, CancelRun, QuitKey,
                ApplyUpdate, engineVars, channelVars, panelVars
  <2> QED BY <2>1, <2>2 DEF KeyPress
<1>3. app = "live" /\ app' \in {"live", "quitting"}
  BY KeyApp
<1>4. ~shuttingDown /\ rescued = {}
  BY <1>3 DEF ExitPlaces
<1> QED BY <1>1, <1>2, <1>3, <1>4, RowsStay
        DEF Early, ExitKept, RowsKept, RunWords, LeftWords, RowsOwed

\* A key that saves no edit sends no correction.
LEMMA KeysCorrect ==
  ASSUME TypeOK, DistinctCorrections(Pending), KeyPress \/ ApplyUpdate, ~CommitEdit
  PROVE  Corrections' = Corrections /\ DistinctCorrections(Pending)'
<1>1. CASE Pending' = Pending
  BY <1>1 DEF Corrections
<1>2. ASSUME NEW m \in Submissions, Pending' = Append(Pending, m), SentByKey(m)
      PROVE  Corrections' = Corrections /\ DistinctCorrections(Pending)'
  <2>1. m.kind # "Correct"
    BY <1>2, CommandsAssumption DEF SentByKey, CommandMsg, Submission, CommandKinds
  <2> QED BY <1>2, <2>1, OrderTypes, CorrectedAppend DEF Corrections
<1> QED BY <1>1, <1>2, KeyPends

LEMMA SheetMoves ==
  ASSUME WordFacts,
         \/ FocusQueue \/ StepView \/ UnfocusQueue \/ AskConfirm \/ DeclineAsk \/ OpenEdit \/ AbortEdit
         \/ OtherCommand \/ ClosePicker \/ CancelRun \/ QuitKey
  PROVE  OneByOne' /\ WordMove
<1>1. UNCHANGED <<queued, steering, startupSlot, pendingSteers, typed, released>>
  <2>1. CASE FocusQueue \/ StepView \/ UnfocusQueue \/ AskConfirm \/ DeclineAsk \/ OpenEdit \/ AbortEdit
    BY <2>1 DEF FocusQueue, StepView, UnfocusQueue, AskConfirm, DeclineAsk, OpenEdit, AbortEdit,
                SheetOnly, queueVars, engineVars
  <2>2. CASE OtherCommand \/ ClosePicker \/ CancelRun \/ QuitKey
    BY <2>2 DEF OtherCommand, ClosePicker, CancelRun, QuitKey, queueVars, engineVars, ghostVars, userVars
  <2> QED BY <2>1, <2>2
<1>2. Corrections' = Corrections /\ DistinctCorrections(Pending)'
  <2>1. ~CommitEdit \/ Pending' = Pending
    <3>1. CASE FocusQueue \/ StepView \/ UnfocusQueue \/ AskConfirm \/ DeclineAsk \/ OpenEdit \/ AbortEdit
      BY <3>1 DEF FocusQueue, StepView, UnfocusQueue, AskConfirm, DeclineAsk, OpenEdit, AbortEdit,
                  SheetOnly, channelVars, driverVars, Pending
    <3>2. CASE ClosePicker \/ CancelRun \/ QuitKey
      BY <3>2 DEF ClosePicker, CancelRun, QuitKey, channelVars, driverVars, Pending
    <3>3. CASE OtherCommand
      BY <3>3 DEF OtherCommand, CommitEdit
    <3> QED BY <3>1, <3>2, <3>3
  <2>2. CASE ~CommitEdit
    BY <2>2, KeysCorrect DEF WordFacts, WordsHeld, OneByOne, KeyPress
  <2>3. CASE Pending' = Pending
    BY <2>3 DEF Corrections, WordFacts, WordsHeld, OneByOne
  <2> QED BY <2>1, <2>2, <2>3
<1>3. UNCHANGED <<QueueWords, InSlot, SlotWords, Committed>>
  BY <1>1, SlotStays, FreshIsNew DEF QueueWords, WordFacts
<1>4. OneByOne'
  BY <1>1, <1>2, <1>3 DEF WordFacts, WordsHeld, OneByOne
<1>5. Still
  BY <1>1, <1>2, <1>3, KeyGround DEF WordFacts, Still, KeyPress
<1> QED BY <1>4, <1>5 DEF WordMove

LEMMA SubmitMoves == ASSUME WordFacts, SubmitPrompt PROVE OneByOne' /\ WordMove
<1>1. Corrections' = Corrections /\ DistinctCorrections(Pending)'
  BY KeysCorrect DEF WordFacts, WordsHeld, OneByOne, KeyPress, SubmitPrompt, CommitEdit, SheetKey
<1>2. /\ queued' = Push(queued, nextId, Fresh) /\ TypesOne
      /\ UNCHANGED <<steering, startupSlot, pendingSteers, released>>
  BY DEF SubmitPrompt, SubmitText, engineVars
<1>3. /\ Fresh \notin Committed /\ Committed' = Committed \cup {Fresh} /\ Fresh \in Texts
  BY <1>2, FreshIsNew DEF WordFacts
<1>4. Fresh \notin TextsOf(queued) /\ DistinctTexts(queued)
  BY <1>3 DEF WordFacts, WordsHeld, OneByOne, Apart, QueueWords
<1>5. QueueWords' = QueueWords \cup {Fresh} /\ DistinctTexts(queued)'
  BY <1>2, <1>3, <1>4, OrderTypes, TextsPush DEF WordFacts, QueueWords
<1>6. UNCHANGED <<InSlot, SlotWords>>
  BY <1>2, SlotStays
<1>7. OneByOne'
  BY <1>1, <1>2, <1>5, <1>6 DEF WordFacts, WordsHeld, OneByOne
<1>8. Commits({})
  BY <1>1, <1>2, <1>3, <1>5, <1>6, KeyGround DEF WordFacts, Commits, KeyPress
<1> QED BY <1>7, <1>8 DEF WordMove

\* A text delivered as guidance goes into the live slot or behind the queue.
LEMMA DeliverMoves ==
  ASSUME TypeOK, NEW q \in Seq(Prompts), NEW text \in Texts, DeliverGuidance(q, text),
         DistinctTexts(q), text \notin TextsOf(q), IsInjective(SlotWords), text \notin InSlot
  PROVE  /\ DistinctTexts(queued)' /\ IsInjective(SlotWords)'
         /\ \/ /\ QueueWords' = TextsOf(q) \cup {text}
               /\ UNCHANGED <<InSlot, pendingSteers>>
            \/ /\ QueueWords' = TextsOf(q) /\ InSlot' = InSlot \cup {text}
               /\ pendingSteers' = pendingSteers \cup {text}
<1>1. CASE steering.open
  <2>1. /\ steering' = [steering EXCEPT !.live = Append(@, text)]
        /\ pendingSteers' = pendingSteers \cup {text} /\ queued' = q
    BY <1>1 DEF DeliverGuidance
  <2> QED BY <2>1, OfferTaken DEF QueueWords
<1>2. CASE ~steering.open
  <2>1. queued' = Push(q, nextId, text) /\ UNCHANGED <<steering, pendingSteers>>
    BY <1>2 DEF DeliverGuidance, SubmitText
  <2>2. InSlot' = InSlot /\ SlotWords' = SlotWords
    BY <2>1 DEF InSlot, SlotWords, Unread
  <2>3. TextsOf(Push(q, nextId, text)) = TextsOf(q) \cup {text} /\ DistinctTexts(Push(q, nextId, text))
    BY OrderTypes, TextsPush
  <2> QED BY <2>1, <2>2, <2>3 DEF QueueWords
<1> QED BY <1>1, <1>2

LEMMA QueueDistinct ==
  ASSUME WordFacts
  PROVE  queued \in Seq(Prompts) /\ Ascending(queued) /\ DistinctTexts(queued)
BY OrderTypes, OrderParts DEF WordFacts, WordsHeld, OneByOne, Ordered

LEMMA SteerNowMoves == ASSUME WordFacts, SteerNow PROVE OneByOne' /\ WordMove
<1> DEFINE q == IF queueMode = "Editing" THEN RemoveId(queued, editing) ELSE queued
           X == IF queueMode = "Editing" /\ Waits(queued, editing) THEN {TextOf(queued, editing)} ELSE {}
<1>1. /\ DeliverGuidance(q, Fresh) /\ TypesOne /\ MaySteer
      /\ released' = released \cup X /\ UNCHANGED startupSlot
  BY DEF SteerNow
<1>2. q \in Seq(Prompts) /\ DistinctTexts(q) /\ X \subseteq QueueWords /\ TextsOf(q) = QueueWords \ X
  <2>1. queued \in Seq(Prompts) /\ Ascending(queued) /\ DistinctTexts(queued)
    BY QueueDistinct
  <2>2. CASE queueMode = "Editing"
    BY <2>1, <2>2, TextsRemove, RemoveIdType DEF QueueWords
  <2>3. CASE queueMode # "Editing"
    BY <2>1, <2>3 DEF QueueWords
  <2> QED BY <2>2, <2>3
<1> HIDE DEF q, X
<1>3. Fresh \notin Committed /\ Committed' = Committed \cup {Fresh} /\ Fresh \in Texts
  BY <1>1, FreshIsNew DEF WordFacts
<1>4. Fresh \notin TextsOf(q) /\ Fresh \notin InSlot
  BY <1>2, <1>3 DEF WordFacts, WordsHeld, Apart
<1>5. /\ DistinctTexts(queued)' /\ IsInjective(SlotWords)'
      /\ \/ /\ QueueWords' = TextsOf(q) \cup {Fresh}
            /\ UNCHANGED <<InSlot, pendingSteers>>
         \/ /\ QueueWords' = TextsOf(q) /\ InSlot' = InSlot \cup {Fresh}
            /\ pendingSteers' = pendingSteers \cup {Fresh}
  BY <1>1, <1>2, <1>3, <1>4, DeliverMoves DEF WordFacts, WordsHeld, OneByOne
<1>6. Corrections' = Corrections /\ DistinctCorrections(Pending)'
  <2>1. Pending' = Pending \/ \E m : Pending' = Append(Pending, m) /\ m \in Submissions /\ m.kind # "Correct"
    <3>1. revived' = revived /\ (channel' = channel \/ channel' = Append(channel, RunMsg(nextId)))
      BY DEF SteerNow, DeliverGuidance, SubmitText, driverVars
    <3>2. RunMsg(nextId) \in Submissions /\ RunMsg(nextId).kind # "Correct"
      BY OrderTypes, MessageTypes DEF WordFacts, Ids, RunMsg, Submission
    <3>3. revived \o Append(channel, RunMsg(nextId)) = Append(revived \o channel, RunMsg(nextId))
      BY <3>2, OrderTypes, ConcatAppend DEF WordFacts
    <3> QED BY <3>1, <3>2, <3>3 DEF Pending
  <2> QED BY <2>1, OrderTypes, CorrectedAppend DEF Corrections, WordFacts, WordsHeld, OneByOne
<1>7. OneByOne'
  BY <1>1, <1>5, <1>6 DEF WordFacts, WordsHeld, OneByOne
<1>8. Commits(X)
  BY <1>1, <1>2, <1>3, <1>5, <1>6, KeyGround DEF WordFacts, Commits, KeyPress
<1> QED BY <1>7, <1>8 DEF WordMove

\* The prompt under the view, by its id.
LEMMA ViewedWaits ==
  ASSUME WordFacts, ViewHolds
  PROVE  /\ Waits(queued, Viewed.id) /\ TextOf(queued, Viewed.id) = Viewed.text
         /\ Viewed.text \in QueueWords /\ Viewed.text \in Texts
<1>1. queued \in Seq(Prompts) /\ Ascending(queued)
  BY QueueDistinct
<1> DEFINE k == queueView + 1
           j == IndexOf(queued, Viewed.id)
<1>2. k \in DOMAIN queued /\ Viewed = queued[k]
  BY <1>1, PromptParts DEF WordFacts, TypeOK, PanelType, ViewHolds, Viewed
<1>3. j \in DOMAIN queued /\ queued[j].id = queued[k].id
  BY <1>2 DEF IndexOf
<1> HIDE DEF k, j
<1>4. k = j
  <2>1. DOMAIN queued = 1 .. Len(queued) /\ Len(queued) \in Nat /\ \A i \in DOMAIN queued : queued[i].id \in Nat
    BY <1>1, PromptParts
  <2>2. \A i, l \in DOMAIN queued : i < l => queued[i].id < queued[l].id
    BY <1>1 DEF Ascending
  <2> QED BY <1>2, <1>3, <2>1, <2>2
<1>5. Viewed.text \in Texts
  BY ViewedType DEF WordFacts
<1> QED BY <1>2, <1>4, <1>5 DEF Waits, TextOf, QueueWords, TextsOf, j

LEMMA ConfirmSteerMoves == ASSUME WordFacts, ConfirmSteer PROVE OneByOne' /\ WordMove
<1>1. MaySteer
  BY DEF ConfirmSteer, WordFacts, DropsOnly
<1>2. UNCHANGED <<startupSlot, typed, released>> /\ ~CommitEdit
  BY DEF ConfirmSteer, CommitEdit
<1>3. Corrections' = Corrections /\ DistinctCorrections(Pending)'
  BY <1>2, KeysCorrect DEF WordFacts, WordsHeld, OneByOne, KeyPress
<1>4. CASE ViewHolds /\ agentRunning
  <2> DEFINE q == RemoveId(queued, Viewed.id)
             t == Viewed.text
  <2>1. DeliverGuidance(q, t)
    BY <1>4 DEF ConfirmSteer
  <2>2. q \in Seq(Prompts) /\ DistinctTexts(q) /\ t \in QueueWords /\ t \in Texts /\ TextsOf(q) = QueueWords \ {t}
    BY <1>4, QueueDistinct, ViewedWaits, TextsRemove, RemoveIdType DEF QueueWords
  <2> HIDE DEF q, t
  <2>3. t \notin InSlot /\ t \notin TextsOf(q)
    BY <2>2 DEF WordFacts, WordsHeld, Apart
  <2>4. /\ DistinctTexts(queued)' /\ IsInjective(SlotWords)'
        /\ \/ /\ QueueWords' = TextsOf(q) \cup {t}
              /\ UNCHANGED <<InSlot, pendingSteers>>
           \/ /\ QueueWords' = TextsOf(q) /\ InSlot' = InSlot \cup {t}
              /\ pendingSteers' = pendingSteers \cup {t}
    BY <2>1, <2>2, <2>3, DeliverMoves DEF WordFacts, WordsHeld, OneByOne
  <2>5. OneByOne'
    BY <1>2, <1>3, <2>4 DEF WordFacts, WordsHeld, OneByOne
  <2>6. Committed' = Committed
    BY <1>2, FreshIsNew DEF WordFacts
  <2>7. Still \/ Steers(t)
    BY <1>1, <1>2, <1>3, <2>2, <2>4, <2>6, KeyGround DEF WordFacts, Still, Steers, KeyPress
  <2> QED BY <2>5, <2>7 DEF WordMove
<1>5. CASE ~(ViewHolds /\ agentRunning)
  <2>1. UNCHANGED <<queued, steering, pendingSteers>>
    BY <1>5 DEF ConfirmSteer, queueVars
  <2>2. UNCHANGED <<QueueWords, InSlot, SlotWords, Committed>>
    BY <1>2, <2>1, SlotStays, FreshIsNew DEF QueueWords, WordFacts
  <2>3. OneByOne'
    BY <1>2, <1>3, <2>1, <2>2 DEF WordFacts, WordsHeld, OneByOne
  <2>4. Still
    BY <1>2, <1>3, <2>1, <2>2, KeyGround DEF WordFacts, Still, KeyPress
  <2> QED BY <2>3, <2>4 DEF WordMove
<1> QED BY <1>4, <1>5

\* The queue loses the words X, which the user lets go.
LEMMA LosesMoves ==
  ASSUME WordFacts, KeyPress \/ ApplyUpdate, ~CommitEdit, NEW X \in SUBSET QueueWords,
         UNCHANGED <<steering, pendingSteers, typed>>,
         DistinctTexts(queued)', QueueWords' = QueueWords \ X, released' = released \cup X
  PROVE  OneByOne' /\ WordMove
<1>1. Corrections' = Corrections /\ DistinctCorrections(Pending)'
  BY KeysCorrect DEF WordFacts, WordsHeld, OneByOne
<1>2. /\ Early /\ ExitKept /\ RowsKept /\ rescued = {}
      /\ UNCHANGED <<RunWords, startupSlot, LeftWords, rescued>>
  BY KeyGround DEF WordFacts
<1>3. UNCHANGED <<InSlot, SlotWords, Committed>>
  BY <1>2, SlotStays, FreshIsNew DEF WordFacts
<1>4. OneByOne'
  BY <1>1, <1>2, <1>3 DEF WordFacts, WordsHeld, OneByOne
<1>5. LetsGo(X)
  BY <1>1, <1>2, <1>3 DEF LetsGo
<1> QED BY <1>4, <1>5 DEF WordMove

LEMMA DropMoves ==
  ASSUME WordFacts, ConfirmDrop \/ ClearCommand \/ ResumeCommand \/ ApplyUpdate
  PROVE  OneByOne' /\ WordMove
<1>0. TextsOf(<<>>) = {} /\ DistinctTexts(<<>>)
  BY TextsOfEmpty
<1>1. CASE ConfirmDrop
  <2>1. ~CommitEdit /\ UNCHANGED <<steering, pendingSteers, typed>> /\ KeyPress
    BY <1>1 DEF ConfirmDrop, CommitEdit, engineVars, KeyPress
  <2>2. CASE ViewHolds
    <3>1. queued' = RemoveId(queued, Viewed.id) /\ released' = released \cup {Viewed.text}
      BY <1>1, <2>2 DEF ConfirmDrop
    <3>2. /\ Viewed.text \in QueueWords /\ DistinctTexts(queued)'
          /\ QueueWords' = QueueWords \ {Viewed.text}
      BY <2>2, <3>1, QueueDistinct, ViewedWaits, TextsRemove DEF QueueWords
    <3> QED BY <2>1, <3>1, <3>2, LosesMoves
  <2>3. CASE ~ViewHolds
    <3>1. UNCHANGED <<queued, released>>
      BY <1>1, <2>3 DEF ConfirmDrop
    <3> DEFINE X == {}
    <3>2. /\ X \in SUBSET QueueWords /\ QueueWords' = QueueWords \ X
          /\ released' = released \cup X /\ DistinctTexts(queued)'
      BY <3>1, QueueDistinct DEF QueueWords
    <3> HIDE DEF X
    <3> QED BY <2>1, <3>2, LosesMoves
  <2> QED BY <2>2, <2>3
<1>2. CASE ClearCommand \/ ResumeCommand
  <2>1. ~CommitEdit /\ UNCHANGED <<steering, pendingSteers, typed>> /\ KeyPress
    <3>1. UNCHANGED <<steering, pendingSteers, typed>> /\ KeyPress /\ commandsSent' = commandsSent + 1
      BY <1>2 DEF ClearCommand, ResumeCommand, CommandKey, engineVars, KeyPress
    <3>2. CommitEdit => commandsSent' = commandsSent
      BY DEF CommitEdit
    <3>3. commandsSent \in Int
      BY DEF WordFacts, TypeOK, GhostType
    <3> QED BY <3>1, <3>2, <3>3
  <2>2. queued' = <<>> /\ released' = released \cup TextsOf(queued)
    BY <1>2 DEF ClearCommand, ResumeCommand, EmptyQueue
  <2>3. QueueWords' = QueueWords \ QueueWords /\ released' = released \cup QueueWords /\ DistinctTexts(queued)'
    BY <1>0, <2>2 DEF QueueWords
  <2> QED BY <2>1, <2>3, LosesMoves
<1>3. CASE ApplyUpdate
  <2>1. ~CommitEdit /\ UNCHANGED <<steering, pendingSteers, typed>>
    <3>1. UNCHANGED <<steering, pendingSteers, typed>>
      BY <1>3 DEF ApplyUpdate, engineVars
    <3>2. CommitEdit => typed' = typed + 1
      BY DEF CommitEdit, TypesOne
    <3>3. typed \in Nat
      BY WordTypes DEF WordFacts
    <3> QED BY <3>1, <3>2, <3>3
  <2>2. \/ queued' = <<>> /\ released' = released \cup TextsOf(queued)
        \/ UNCHANGED <<queued, released>>
    BY <1>3 DEF ApplyUpdate
  <2>3. DistinctTexts(queued)'
    BY <1>0, <2>2, QueueDistinct
  <2>4. PICK X \in SUBSET QueueWords : QueueWords' = QueueWords \ X /\ released' = released \cup X
    <3>1. CASE queued' = <<>> /\ released' = released \cup TextsOf(queued)
      <4>1. QueueWords' = QueueWords \ QueueWords /\ released' = released \cup QueueWords
        BY <1>0, <3>1 DEF QueueWords
      <4> QED BY <4>1
    <3>2. CASE UNCHANGED <<queued, released>>
      <4>1. QueueWords' = QueueWords \ {} /\ released' = released \cup {}
        BY <3>2 DEF QueueWords
      <4> QED BY <4>1
    <3> QED BY <2>2, <3>1, <3>2
  <2> QED BY <1>3, <2>1, <2>3, <2>4, LosesMoves
<1> QED BY <1>1, <1>2, <1>3

LEMMA CommitEditMoves == ASSUME WordFacts, CommitEdit PROVE OneByOne' /\ WordMove
<1>1. /\ Fresh \notin Committed /\ Committed' = Committed \cup {Fresh} /\ Fresh \in Texts
  BY FreshIsNew DEF WordFacts, CommitEdit
<1>2. Fresh \notin TextsOf(queued) /\ Fresh \notin Corrections
  BY <1>1 DEF WordFacts, WordsHeld, Apart, QueueWords
<1>3. UNCHANGED <<steering, startupSlot, pendingSteers>>
  BY DEF CommitEdit, engineVars
<1>4. UNCHANGED <<InSlot, SlotWords>>
  BY <1>3, SlotStays
<1>5. CASE EditStillWaits
  <2> DEFINE X == {TextOf(queued, editing)}
  <2>1. /\ queued' = ReplaceId(queued, editing, Fresh)
        /\ released' = released \cup X /\ Pending' = Pending
    BY <1>5 DEF CommitEdit, Pending, driverVars
  <2>2. /\ DistinctTexts(queued)' /\ X \subseteq QueueWords
        /\ QueueWords' = (QueueWords \ X) \cup {Fresh}
    BY <1>1, <1>2, <1>5, <2>1, QueueDistinct, TextsReplace DEF EditStillWaits, QueueWords
  <2> HIDE DEF X
  <2>3. Corrections' = Corrections /\ DistinctCorrections(Pending)'
    BY <2>1 DEF Corrections, WordFacts, WordsHeld, OneByOne
  <2>4. OneByOne'
    BY <1>3, <1>4, <2>2, <2>3 DEF WordFacts, WordsHeld, OneByOne
  <2>5. Commits(X)
    BY <1>1, <1>3, <1>4, <2>1, <2>2, <2>3, KeyGround DEF WordFacts, Commits, KeyPress
  <2> QED BY <2>4, <2>5 DEF WordMove
<1>6. CASE ~EditStillWaits
  <2> DEFINE m == CorrectMsg(editing, Fresh)
  <2>1. UNCHANGED <<queued, released>> /\ channel' = Append(channel, m) /\ revived' = revived
    BY <1>6 DEF CommitEdit, CorrectClaimed, driverVars
  <2>2. m \in Submissions /\ m.kind = "Correct" /\ m.text = Fresh
    BY <1>1, MessageTypes DEF WordFacts, TypeOK, PanelType, CorrectMsg, Submission
  <2> HIDE DEF m
  <2>3. Pending' = Append(Pending, m)
    <3>1. revived \o Append(channel, m) = Append(revived \o channel, m)
      BY <2>2, OrderTypes, ConcatAppend DEF WordFacts
    <3> QED BY <2>1, <3>1 DEF Pending
  <2>4. Corrections' = Corrections \cup {Fresh} /\ DistinctCorrections(Pending)'
    BY <1>2, <2>2, <2>3, OrderTypes, CorrectedAppend DEF Corrections, WordFacts, WordsHeld, OneByOne
  <2>5. QueueWords' = QueueWords \ {} /\ released' = released \cup {}
    BY <2>1 DEF QueueWords
  <2>6. OneByOne'
    BY <1>3, <1>4, <2>1, <2>4 DEF WordFacts, WordsHeld, OneByOne
  <2>7. Commits({})
    BY <1>1, <1>3, <1>4, <2>4, <2>5, KeyGround DEF WordFacts, Commits, KeyPress
  <2> QED BY <2>6, <2>7 DEF WordMove
<1> QED BY <1>5, <1>6

-----------------------------------------------------------------------------
(* The frame and the exit, as moves.                                       *)

LEMMA FrameMoves == ASSUME WordFacts, Frame \/ LastFrame PROVE OneByOne' /\ WordMove
<1> DEFINE taken == Returned
           r == [i \in DOMAIN taken |-> Entry(nextId + i - 1, taken[i])]
           T == ToSet(taken)
<1>1. DrawFrame /\ Early /\ Early' /\ UNCHANGED shuttingDown
  BY DEF Frame, LastFrame, Early, DrawFrame, signalVars
<1>2. queued' = queued \o r /\ UNCHANGED <<typed, released, rescued, pc, runText>>
  BY <1>1 DEF DrawFrame, Requeued, ghostVars, userVars, driverVars
<1>3. RowsKept
  <2>1. RowsOwed' = RowsOwed
    BY <1>1 DEF DrawFrame, RowsOwed
  <2> QED BY <2>1, RowsStay DEF RowsKept
<1>4. /\ pendingSteers' = pendingSteers \ T
      /\ \/ /\ taken = <<>> /\ UNCHANGED <<steering, startupSlot>>
         \/ /\ taken = SlotWords /\ UNCHANGED startupSlot
            /\ SlotWords' = <<>> /\ InSlot' = {}
         \/ /\ taken = startupSlot.left /\ SlotWords = <<>>
            /\ UNCHANGED steering /\ startupSlot'.left = <<>>
  BY <1>1, FrameSlots DEF WordFacts
<1>5. taken \in Seq(Texts)
  BY ReturnedType DEF WordFacts
<1>6. /\ Corrections' = Corrections /\ DistinctCorrections(Pending)'
  <2> DEFINE s == PromisedRuns(taken)
  <2>1. Pending' = Pending \o s /\ s \in Seq(Submissions) /\ \A i \in DOMAIN s : s[i].kind = "Run"
    BY <1>1, FramePends, FrameSends DEF WordFacts
  <2> HIDE DEF s
  <2>2. CorrectedTexts(s) = {}
    BY <2>1, CorrectedMember
  <2>3. Pending \in Seq(Submissions) /\ DistinctCorrections(Pending)
    BY OrderTypes DEF WordFacts, WordsHeld, OneByOne
  <2>4. /\ CorrectedTexts(Pending \o s) = CorrectedTexts(Pending) \cup {}
        /\ DistinctCorrections(Pending \o s)
    BY <2>1, <2>2, <2>3, CorrectedConcat
  <2> QED BY <2>1, <2>4 DEF Corrections
<1> HIDE DEF taken
<1>7. ToSet(<<>>) = {} /\ IsInjective(<<>>)
  BY DEF ToSet, IsInjective
<1>8. /\ IsInjective(taken) /\ T \in {{}, InSlot, LeftWords} /\ TextsOf(queued) \cap T = {}
      /\ InSlot' = InSlot \ T /\ LeftWords' = LeftWords \ T
      /\ IsInjective(SlotWords)' /\ IsInjective(startupSlot.left)'
  <2>1. /\ InSlot = ToSet(SlotWords) /\ InSlot \cap LeftWords = {}
        /\ TextsOf(queued) \cap (InSlot \cup LeftWords) = {}
        /\ IsInjective(SlotWords) /\ IsInjective(startupSlot.left)
    BY WordTypes DEF WordFacts, WordsHeld, OneByOne, Apart, QueueWords
  <2>2. CASE taken = <<>> /\ UNCHANGED <<steering, startupSlot>>
    <3>1. UNCHANGED <<InSlot, SlotWords, LeftWords>> /\ T = {}
      BY <1>7, <2>2, SlotStays
    <3> QED BY <1>7, <2>1, <2>2, <3>1
  <2>3. CASE taken = SlotWords /\ UNCHANGED startupSlot /\ SlotWords' = <<>> /\ InSlot' = {}
    <3>1. LeftWords' = LeftWords /\ T = InSlot
      BY <2>1, <2>3 DEF LeftWords
    <3> QED BY <1>7, <2>1, <2>3, <3>1
  <2>4. CASE taken = startupSlot.left /\ SlotWords = <<>> /\ UNCHANGED steering /\ startupSlot'.left = <<>>
    <3>1. /\ UNCHANGED <<InSlot, SlotWords>> /\ InSlot = {} /\ LeftWords' = {} /\ T = LeftWords
      BY <1>7, <2>1, <2>4 DEF InSlot, SlotWords, Unread, LeftWords
    <3> QED BY <1>7, <2>1, <2>4, <3>1
  <2> QED BY <1>4, <2>2, <2>3, <2>4
<1>9. QueueWords' = QueueWords \cup T /\ DistinctTexts(queued)'
  <2>1. r \in Seq(Prompts) /\ DOMAIN r = DOMAIN taken /\ \A i \in DOMAIN r : r[i].text = taken[i]
    <3>1. DOMAIN taken = 1 .. Len(taken) /\ Len(taken) \in Nat /\ \A i \in 1 .. Len(taken) : taken[i] \in Texts
      BY <1>5, ElementsTyped
    <3>2. \A i \in 1 .. Len(taken) : Entry(nextId + i - 1, taken[i]) \in Prompts
      BY <3>1, OrderTypes, PromptTypes DEF WordFacts, Ids
    <3>3. r \in Seq(Prompts)
      BY <3>1, <3>2
    <3> QED BY <3>3 DEF Entry
  <2> HIDE DEF r
  <2>2. TextsOf(queued \o r) = TextsOf(queued) \cup T /\ DistinctTexts(queued \o r)
    BY <1>5, <1>8, <2>1, QueueDistinct, TextsRequeue
  <2> QED BY <1>2, <2>2 DEF QueueWords
<1> HIDE DEF r, T
<1>10. OneByOne'
  BY <1>6, <1>8, <1>9 DEF OneByOne
<1>11. UNCHANGED <<Committed, RunWords>>
  BY <1>2 DEF Committed, RunWords
<1>12. Returns(T)
  BY <1>1, <1>2, <1>3, <1>4, <1>6, <1>8, <1>9, <1>11 DEF Returns, ExitKept
<1> QED BY <1>10, <1>12 DEF WordMove

\* Rows of one kind leave the rows of the others as they are.
LEMMA RowsUnsent ==
  ASSUME NEW X, X \subseteq Texts, RowsOwed' = RowsOwed \cup {Row(t, "unsent") : t \in X}
  PROVE  /\ SentWords' = SentWords /\ SteeredWords' = SteeredWords
         /\ UnsentWords' = UnsentWords \cup X
<1> DEFINE kind == "unsent"
<1>1. kind \in {"sent", "steered", "unsent"} /\ kind # "sent" /\ kind # "steered" /\ kind = "unsent"
  OBVIOUS
<1>2. RowsOwed' = RowsOwed \cup {Row(t, kind) : t \in X}
  OBVIOUS
<1> HIDE DEF kind
<1>3. /\ SentWords' = SentWords \cup (IF kind = "sent" THEN X ELSE {})
      /\ SteeredWords' = SteeredWords \cup (IF kind = "steered" THEN X ELSE {})
      /\ UnsentWords' = UnsentWords \cup (IF kind = "unsent" THEN X ELSE {})
  BY <1>1, <1>2, RowsAdd
<1> QED BY <1>1, <1>3

LEMMA RowsSteered ==
  ASSUME NEW X, X \subseteq Texts, RowsOwed' = RowsOwed \cup {Row(t, "steered") : t \in X}
  PROVE  /\ SentWords' = SentWords /\ UnsentWords' = UnsentWords
         /\ SteeredWords' = SteeredWords \cup X
<1> DEFINE kind == "steered"
<1>1. kind \in {"sent", "steered", "unsent"} /\ kind # "sent" /\ kind # "unsent" /\ kind = "steered"
  OBVIOUS
<1>2. RowsOwed' = RowsOwed \cup {Row(t, kind) : t \in X}
  OBVIOUS
<1> HIDE DEF kind
<1>3. /\ SentWords' = SentWords \cup (IF kind = "sent" THEN X ELSE {})
      /\ SteeredWords' = SteeredWords \cup (IF kind = "steered" THEN X ELSE {})
      /\ UnsentWords' = UnsentWords \cup (IF kind = "unsent" THEN X ELSE {})
  BY <1>1, <1>2, RowsAdd
<1> QED BY <1>1, <1>3

LEMMA RowsSent ==
  ASSUME NEW text \in Texts, RowsOwed' = RowsOwed \cup {Row(text, "sent")}
  PROVE  /\ SentWords' = SentWords \cup {text}
         /\ SteeredWords' = SteeredWords /\ UnsentWords' = UnsentWords
<1> DEFINE kind == "sent"
           X == {text}
<1>1. kind \in {"sent", "steered", "unsent"} /\ kind = "sent" /\ kind # "unsent" /\ kind # "steered"
  OBVIOUS
<1>2. RowsOwed' = RowsOwed \cup {Row(t, kind) : t \in X} /\ X \in SUBSET Texts /\ X = {text}
  OBVIOUS
<1> HIDE DEF kind, X
<1>3. /\ SentWords' = SentWords \cup (IF kind = "sent" THEN X ELSE {})
      /\ SteeredWords' = SteeredWords \cup (IF kind = "steered" THEN X ELSE {})
      /\ UnsentWords' = UnsentWords \cup (IF kind = "unsent" THEN X ELSE {})
  BY <1>1, <1>2, RowsAdd
<1> QED BY <1>1, <1>2, <1>3

LEMMA ShowMoves == ASSUME WordFacts, LeaveScreen \/ TerminalCloses PROVE OneByOne' /\ WordMove
<1>1. ExitStretch /\ app \in {"live", "drawn"}
  BY DEF LeaveScreen, TerminalCloses
<1>2. Early /\ ~Early' /\ shuttingDown' /\ rescued = {} /\ pendingSteers' = {}
  BY <1>1 DEF ExitStretch, Early, WordFacts, ExitPlaces
<1>3. UNCHANGED <<queued, channel, revived, steering, startupSlot, pc, runText, typed, released, rescued>>
  BY <1>1 DEF ExitStretch, queueVars, channelVars, driverVars, ghostVars, userVars
<1>4. UNCHANGED <<Pending, QueueWords, Corrections, RunWords, Committed, InSlot, SlotWords, LeftWords>>
  BY <1>3, SlotStays DEF Pending, QueueWords, Corrections, RunWords, Committed
<1>5. OneByOne'
  BY <1>3, <1>4 DEF WordFacts, WordsHeld, OneByOne
<1> DEFINE X == TextsOf(queued) \cup pendingSteers
<1>6. X \subseteq Texts /\ X = QueueWords \cup pendingSteers
  BY WordTypes DEF WordFacts, QueueWords
<1>7. RowsOwed' = RowsOwed \cup {Row(t, "unsent") : t \in X}
  BY <1>1 DEF ExitStretch, RowsOwed, WaitingAtExit, Unsent
<1> HIDE DEF X
<1>8. /\ SentWords' = SentWords /\ SteeredWords' = SteeredWords
      /\ UnsentWords' = UnsentWords \cup X
  BY <1>6, <1>7, RowsUnsent
<1>9. Shows
  BY <1>2, <1>3, <1>4, <1>6, <1>8 DEF Shows
<1> QED BY <1>5, <1>9 DEF WordMove

LEMMA EndMoves == ASSUME WordFacts, DriverJoined \/ DriverAborted PROVE OneByOne' /\ Ends
<1>1. /\ app = "leaving" /\ app' = "gone" /\ rescued' = {}
      /\ UNCHANGED <<queued, steering, startupSlot, pendingSteers, typed, released, shuttingDown, runText,
                     graduations>>
      /\ landed' = landed \cup Unsent(rescued)
  BY DEF DriverJoined, DriverAborted, queueVars, engineVars, ghostVars, userVars, signalVars, driverVars
<1>2. ~Early /\ ExitKept
  BY <1>1 DEF Early, ExitKept
<1>3. Pending' = <<>> /\ pc' # "running" /\ (~MayTimeOut => Pending = <<>>)
  <2>1. CASE DriverJoined
    <3>1. pc = "done" /\ UNCHANGED <<pc, channel, revived>>
      BY <2>1 DEF DriverJoined, driverVars
    <3>2. channel = <<>> /\ revived = <<>>
      BY <3>1 DEF WordFacts, ExitPlaces
    <3> QED BY <3>1, <3>2 DEF Pending
  <2>2. CASE DriverAborted
    <3>1. /\ pc' = "aborted" /\ channel' = <<>> /\ revived' = <<>>
          /\ ~MayTimeOut => pc = "parked" /\ channel = <<>>
      BY <2>2 DEF DriverAborted, BoundExpires
    <3>2. pc = "parked" => revived = <<>>
      BY DEF WordFacts, SendOrder
    <3> QED BY <3>1, <3>2 DEF Pending
  <2> QED BY <2>1, <2>2
<1>4. /\ Corrections' = {} /\ DistinctCorrections(Pending)' /\ (~MayTimeOut => Corrections = {})
      /\ RunWords' = {}
  BY <1>3, CorrectedEmpty DEF Corrections, RunWords
<1>5. UNCHANGED <<QueueWords, Committed, InSlot, SlotWords, LeftWords>>
  BY <1>1, SlotStays DEF QueueWords, Committed
<1>6. OneByOne'
  BY <1>1, <1>4, <1>5 DEF WordFacts, WordsHeld, OneByOne
<1>7. rescued \subseteq Texts
  BY DEF WordFacts, TypeOK, ChannelType
<1>8. RowsOwed' = RowsOwed \cup {Row(t, "unsent") : t \in rescued}
  BY <1>1 DEF RowsOwed, Unsent
<1>9. /\ SentWords' = SentWords /\ SteeredWords' = SteeredWords
      /\ UnsentWords' = UnsentWords \cup rescued
  BY <1>7, <1>8, RowsUnsent
<1>10. Ends
  BY <1>1, <1>2, <1>4, <1>5, <1>9 DEF Ends
<1> QED BY <1>6, <1>10

-----------------------------------------------------------------------------
(* The driver and the run, as moves.                                       *)

\* What starting a run on text does to the rows and the run.
LEMMA StartMoves ==
  ASSUME TypeOK, NEW text \in Texts, StartRun(text), UNCHANGED landed
  PROVE  /\ RunWords' = {text} /\ SentWords' = SentWords \cup {text}
         /\ UNCHANGED <<SteeredWords, UnsentWords>>
<1>1. RowsOwed' = RowsOwed \cup {Row(text, "sent")}
  BY DEF StartRun, RowsOwed
<1>2. RunWords' = {text}
  BY DEF StartRun, RunWords
<1> QED BY <1>1, <1>2, RowsSent

LEMMA TakeMoves == ASSUME WordFacts, TakeRevived \/ TakeChannel \/ Wake PROVE OneByOne' /\ WordMove
<1> DEFINE m == Head(Pending)
<1>1. Pending # <<>> /\ Handle(m) /\ Pending' = Tail(Pending)
  BY TakePends DEF WordFacts
<1>2. /\ ~shuttingDown /\ pc \in {"loop", "parked"}
      /\ UNCHANGED <<rescued, app, landed, typed, released>>
  BY DEF TakeRevived, TakeChannel, Wake, panelVars, userVars
<1>3. Early /\ Early' /\ rescued = {} /\ RunWords = {} /\ ExitKept
  BY <1>2 DEF WordFacts, ExitPlaces, Early, RunWords, ExitKept
<1>4. m \in Submissions /\ Pending \in Seq(Submissions)
  BY <1>1, OrderTypes, SeqTypes DEF WordFacts
<1>5. UNCHANGED <<SlotWords, InSlot, startupSlot, LeftWords, pendingSteers, Committed>>
  BY <1>1, <1>2, <1>4, HandleSlots DEF WordFacts, LeftWords, Committed
<1>6. /\ DistinctCorrections(Pending)'
      /\ m.kind # "Correct" => Corrections' = Corrections
      /\ m.kind = "Correct" => m.text \in Corrections /\ Corrections' = Corrections \ {m.text}
  BY <1>1, <1>4, CorrectedTail DEF Corrections, WordFacts, WordsHeld, OneByOne
<1> HIDE DEF m
<1>7. CASE m.kind = "Run" /\ Claimable(m.id)
  <2> DEFINE t == TextOf(queued, m.id)
  <2>1. /\ queued' = RemoveId(queued, m.id) /\ StartRun(t) /\ Waits(queued, m.id)
    BY <1>1, <1>7 DEF Handle, HandleRun, CommandKinds, Claimable
  <2>2. /\ t \in QueueWords /\ QueueWords' = QueueWords \ {t} /\ DistinctTexts(queued)' /\ t \in Texts
    BY <2>1, QueueDistinct, TextsRemove, WordTypes DEF QueueWords, WordFacts
  <2> HIDE DEF t
  <2>3. t \notin Corrections /\ Corrections' = Corrections
    BY <1>6, <1>7, <2>2 DEF WordFacts, WordsHeld, Apart
  <2>4. /\ RunWords' = {t} /\ SentWords' = SentWords \cup {t}
        /\ UNCHANGED <<SteeredWords, UnsentWords>>
    BY <1>2, <2>1, <2>2, StartMoves DEF WordFacts
  <2>5. Claims(t)
    BY <1>2, <1>3, <1>5, <2>2, <2>3, <2>4 DEF Claims
  <2>6. OneByOne'
    BY <1>5, <1>6, <2>2 DEF WordFacts, WordsHeld, OneByOne
  <2> QED BY <2>5, <2>6 DEF WordMove
<1>8. CASE m.kind = "Correct"
  <2> DEFINE t == m.text
  <2>1. queued' = queued /\ StartRun(t) /\ t \in Texts
    BY <1>1, <1>4, <1>8, MessageParts DEF Handle, HandleCorrect, CommandKinds
  <2>2. t \in Corrections /\ Corrections' = Corrections \ {t}
    BY <1>6, <1>8
  <2> HIDE DEF t
  <2>3. t \notin QueueWords /\ QueueWords' = QueueWords /\ DistinctTexts(queued)'
    BY <2>1, <2>2, QueueDistinct DEF WordFacts, WordsHeld, Apart, QueueWords
  <2>4. /\ RunWords' = {t} /\ SentWords' = SentWords \cup {t}
        /\ UNCHANGED <<SteeredWords, UnsentWords>>
    BY <1>2, <2>1, StartMoves DEF WordFacts
  <2>5. Claims(t)
    BY <1>2, <1>3, <1>5, <2>2, <2>3, <2>4 DEF Claims
  <2>6. OneByOne'
    BY <1>5, <1>6, <2>3 DEF WordFacts, WordsHeld, OneByOne
  <2> QED BY <2>5, <2>6 DEF WordMove
<1>9. CASE ~(m.kind = "Run" /\ Claimable(m.id)) /\ m.kind # "Correct"
  <2>1. UNCHANGED <<queued, graduations>> /\ pc' # "running"
    <3>1. CASE m.kind = "Run"
      BY <1>1, <1>9, <3>1 DEF Handle, HandleRun, CommandKinds, Continue, engineVars
    <3>2. CASE m.kind \in CommandKinds
      <4>1. HandleCommand(m.kind)
        BY <1>1, <3>2 DEF Handle, CommandKinds
      <4> QED BY <4>1 DEF HandleCommand, Continue, engineVars, queueVars
    <3> QED BY <1>4, <1>9, <3>1, <3>2, MessageParts
  <2>2. RowsKept
    <3>1. RowsOwed' = RowsOwed
      BY <1>2, <2>1 DEF RowsOwed
    <3> QED BY <3>1, RowsStay DEF RowsKept
  <2>3. QueueWords' = QueueWords /\ DistinctTexts(queued)' /\ RunWords' = {} /\ Corrections' = Corrections
    BY <1>6, <1>9, <2>1, QueueDistinct DEF QueueWords, RunWords
  <2>4. Still
    BY <1>2, <1>3, <1>5, <2>2, <2>3 DEF Still
  <2>5. OneByOne'
    BY <1>5, <1>6, <2>3 DEF WordFacts, WordsHeld, OneByOne
  <2> QED BY <2>4, <2>5 DEF WordMove
<1> QED BY <1>7, <1>8, <1>9

LEMMA RestMoves ==
  ASSUME WordFacts, Park \/ SlotSeals \/ DrainsSlot \/ RunFinishes \/ RunCancelled \/ UNCHANGED vars
  PROVE  OneByOne' /\ WordMove
<1>1. UNCHANGED <<queued, landed, graduations, pendingSteers, typed, released, rescued, app, shuttingDown>>
  BY DEF Park, SlotSeals, DrainsSlot, RunFinishes, RunCancelled, RunOver, vars, queueVars, panelVars,
         engineVars, ghostVars, userVars, channelVars, signalVars
<1>2. UNCHANGED <<SlotWords, InSlot, startupSlot>>
  <2>1. CASE UNCHANGED vars
    BY <2>1, SlotStays DEF vars, engineVars
  <2> QED BY <2>1, DriverSlots DEF WordFacts, RunResolves
<1>3. Pending' = Pending
  <2>1. CASE Park \/ SlotSeals \/ DrainsSlot \/ UNCHANGED vars
    BY <2>1 DEF Park, SlotSeals, DrainsSlot, vars, channelVars, driverVars, Pending
  <2> QED BY <2>1, RunOverPends DEF WordFacts
<1>4. RunWords' \subseteq RunWords
  <2>1. pc' # "running" \/ UNCHANGED <<pc, runText>>
    BY DEF Park, SlotSeals, DrainsSlot, RunFinishes, RunCancelled, vars, driverVars
  <2> QED BY <2>1 DEF RunWords
<1>5. RowsKept
  <2>1. RowsOwed' = RowsOwed
    BY <1>1 DEF RowsOwed
  <2> QED BY <2>1, RowsStay DEF RowsKept
<1>6. UNCHANGED <<QueueWords, LeftWords, Corrections, Committed>> /\ ExitKept
  BY <1>1, <1>2, <1>3 DEF QueueWords, LeftWords, Corrections, Committed, ExitKept, Early
<1>7. Still
  BY <1>1, <1>2, <1>4, <1>5, <1>6 DEF Still
<1>8. OneByOne'
  BY <1>1, <1>2, <1>3 DEF WordFacts, WordsHeld, OneByOne
<1> QED BY <1>7, <1>8 DEF WordMove

LEMMA TurnMoves == ASSUME WordFacts, TurnStarts PROVE OneByOne' /\ WordMove
<1>1. /\ UNCHANGED <<queued, startupSlot, landed, pc, runText, typed, released, rescued, app, shuttingDown,
                     revived, channel>>
      /\ pendingSteers' = {} /\ steering' = [steering EXCEPT !.preparing = FALSE, !.drained = <<>>]
  BY DEF TurnStarts, queueVars, panelVars, driverVars, ghostVars, userVars, channelVars, signalVars
<1>2. InSlot' \subseteq InSlot /\ IsInjective(SlotWords)'
  BY <1>1, TurnReads DEF WordFacts, WordsHeld, OneByOne
<1>3. pendingSteers \subseteq Texts
  BY WordTypes DEF WordFacts
<1>4. RowsOwed' = RowsOwed \cup {Row(t, "steered") : t \in pendingSteers}
  <2>1. graduations' = graduations \cup {Row(t, "steered") : t \in pendingSteers} /\ landed' = landed
    BY DEF TurnStarts, panelVars
  <2> QED BY <2>1 DEF RowsOwed
<1>5. /\ SteeredWords' = SteeredWords \cup pendingSteers
      /\ UNCHANGED <<SentWords, UnsentWords>>
  BY <1>3, <1>4, RowsSteered
<1>6. UNCHANGED <<QueueWords, LeftWords, Pending, Corrections, RunWords, Committed>> /\ ExitKept
  BY <1>1 DEF QueueWords, LeftWords, Pending, Corrections, RunWords, Committed, ExitKept, Early
<1>7. Graduates
  BY <1>1, <1>2, <1>5, <1>6 DEF Graduates
<1>8. OneByOne'
  BY <1>1, <1>2, <1>6 DEF WordFacts, WordsHeld, OneByOne
<1> QED BY <1>7, <1>8 DEF WordMove

LEMMA ApplyMoves == ASSUME WordFacts, ApplyCommand PROVE OneByOne' /\ WordMove
<1>1. /\ UNCHANGED <<queued, landed, graduations, pendingSteers, typed, released, rescued, app, shuttingDown,
                     revived, channel>>
      /\ pc' = "loop"
  BY DEF ApplyCommand, queueVars, panelVars, ghostVars, userVars
<1>2. UNCHANGED <<QueueWords, Pending, Corrections, Committed, RowsOwed>> /\ ExitKept /\ RunWords' = {}
  BY <1>1 DEF QueueWords, Pending, Corrections, RunWords, Committed, ExitKept, Early, RowsOwed
<1>3. RowsKept
  BY <1>2, RowsStay DEF RowsKept
<1>4. CASE UNCHANGED <<steering, startupSlot>>
  <2>1. UNCHANGED <<InSlot, SlotWords, LeftWords>>
    BY <1>4, SlotStays
  <2>2. Still
    BY <1>1, <1>2, <1>3, <2>1 DEF Still
  <2>3. OneByOne'
    BY <1>1, <1>2, <1>4, <2>1 DEF WordFacts, WordsHeld, OneByOne
  <2> QED BY <2>2, <2>3 DEF WordMove
<1>5. CASE /\ SlotWords' = <<>> /\ InSlot' = {}
           /\ startupSlot.rebuilt => startupSlot' = startupSlot
           /\ ~startupSlot.rebuilt => startupSlot'.left = SlotWords
  <2>1. startupSlot'.left \in {startupSlot.left, SlotWords}
    BY <1>5
  <2>2. InSlot = ToSet(SlotWords) /\ IsInjective(<<>>)
    BY WordTypes DEF WordFacts, IsInjective
  <2>3. LeftWords' \in {LeftWords, InSlot}
    BY <2>1, <2>2 DEF LeftWords
  <2>4. Rebuilds
    BY <1>1, <1>2, <1>3, <1>5, <2>3 DEF Rebuilds
  <2>5. OneByOne'
    BY <1>1, <1>2, <1>5, <2>1, <2>2 DEF WordFacts, WordsHeld, OneByOne
  <2> QED BY <2>4, <2>5 DEF WordMove
<1> QED BY <1>4, <1>5, ApplySlots DEF WordFacts

\* What the driver ends with is rescued.
LEMMA RescueMoves == ASSUME WordFacts, Leave \/ RunCancelledByExit PROVE OneByOne' /\ WordMove
<1>1. /\ UNCHANGED <<landed, graduations, pendingSteers, typed, released, app, shuttingDown>>
      /\ pc' = "done" /\ revived' = <<>> /\ channel' = <<>> /\ shuttingDown
      /\ pc \notin {"done", "aborted"} /\ holder \in {"free", "driver"}
  BY DEF Leave, RunCancelledByExit, EndWithRescue, panelVars, engineVars, ghostVars, userVars
<1>2. ~Early /\ ExitKept
  BY <1>1 DEF WordFacts, ExitPlaces, Early, ExitKept
<1>3. Pending' = <<>> /\ Corrections' = {} /\ DistinctCorrections(Pending)' /\ RunWords' = {}
  BY <1>1, CorrectedEmpty, SeqTypes DEF Pending, Corrections, RunWords
<1>4. RowsKept
  <2>1. RowsOwed' = RowsOwed
    BY <1>1 DEF RowsOwed
  <2> QED BY <2>1, RowsStay DEF RowsKept
<1>5. UNCHANGED <<SlotWords, InSlot, startupSlot, LeftWords, Committed>>
  BY <1>1, DriverSlots DEF WordFacts, RunResolves, LeftWords, Committed
<1>6. CASE Leave
  <2>1. queued' = queued /\ rescued' = rescued \cup CorrectedTexts(revived \o channel)
    BY <1>6 DEF Leave, EndWithRescue, queueVars
  <2>2. QueueWords' = QueueWords /\ rescued' = rescued \cup Corrections
    BY <2>1 DEF QueueWords, Corrections, Pending
  <2>3. Rescues
    BY <1>1, <1>2, <1>3, <1>4, <1>5, <2>2 DEF Rescues
  <2>4. OneByOne'
    BY <1>3, <1>5, <2>1 DEF WordFacts, WordsHeld, OneByOne
  <2> QED BY <2>3, <2>4 DEF WordMove
<1>7. CASE RunCancelledByExit
  <2> DEFINE id == lastClaim.id
             pulled == IF id = NoId THEN <<>> ELSE Pulled(id)
             left == IF id = NoId THEN channel ELSE LeftInChannel(id)
             buffered == id # NoId /\ CorrectionAt(channel, id) # 0
  <2>1. /\ buffered => /\ rescued' = (rescued \cup {Last(pulled).text})
                                       \cup CorrectedTexts(revived \o Front(pulled) \o left)
                       /\ queued' = queued
        /\ ~buffered => /\ rescued' = rescued \cup CorrectedTexts(revived \o pulled \o left)
                        /\ queued' = Push(queued, nextId, runText)
    BY <1>7 DEF RunCancelledByExit, EndWithRescue, queueVars
  <2>2. /\ pulled \in Seq(Submissions) /\ left \in Seq(Submissions) /\ pulled \o left = channel
        /\ buffered => /\ pulled # <<>> /\ Last(pulled).kind = "Correct"
                       /\ Front(pulled) \in Seq(Submissions)
    BY OrderTypes, PulledFacts, SeqTypes DEF WordFacts
  <2> HIDE DEF pulled, left, buffered, id
  <2>3. revived \in Seq(Submissions) /\ Corrections = CorrectedTexts(revived) \cup CorrectedTexts(pulled)
                                                        \cup CorrectedTexts(left)
    <3>1. revived \in Seq(Submissions)
      BY OrderTypes DEF WordFacts
    <3>2. CorrectedTexts(pulled \o left) = CorrectedTexts(pulled) \cup CorrectedTexts(left)
      BY <2>2, CorrectedConcat
    <3>3. CorrectedTexts(revived \o channel) = CorrectedTexts(revived) \cup CorrectedTexts(channel)
      BY <3>1, OrderTypes, CorrectedConcat DEF WordFacts
    <3> QED BY <2>2, <3>1, <3>2, <3>3 DEF Corrections, Pending
  <2>4. \A p \in Seq(Submissions) :
          CorrectedTexts(revived \o p \o left)
            = CorrectedTexts(revived) \cup CorrectedTexts(p) \cup CorrectedTexts(left)
    <3> SUFFICES ASSUME NEW p \in Seq(Submissions)
                 PROVE  CorrectedTexts((revived \o p) \o left)
                          = CorrectedTexts(revived) \cup CorrectedTexts(p) \cup CorrectedTexts(left)
      OBVIOUS
    <3>1. revived \o p \in Seq(Submissions)
      BY <2>3, SeqTypes
    <3>2. CorrectedTexts((revived \o p) \o left) = CorrectedTexts(revived \o p) \cup CorrectedTexts(left)
      BY <2>2, <3>1, CorrectedConcat
    <3>3. CorrectedTexts(revived \o p) = CorrectedTexts(revived) \cup CorrectedTexts(p)
      BY <2>3, CorrectedConcat
    <3> QED BY <3>2, <3>3
  <2>5. rescued' = rescued \cup Corrections
    <3>1. CASE buffered
      <4>1. CorrectedTexts(pulled) = CorrectedTexts(Front(pulled)) \cup {Last(pulled).text}
        BY <2>2, <3>1, CorrectedFront
      <4>2. CorrectedTexts(revived \o Front(pulled) \o left)
              = CorrectedTexts(revived) \cup CorrectedTexts(Front(pulled)) \cup CorrectedTexts(left)
        BY <2>2, <2>4, <3>1
      <4> QED BY <2>1, <2>3, <3>1, <4>1, <4>2
    <3>2. CASE ~buffered
      <4>1. CorrectedTexts(revived \o pulled \o left)
              = CorrectedTexts(revived) \cup CorrectedTexts(pulled) \cup CorrectedTexts(left)
        BY <2>2, <2>4
      <4> QED BY <2>1, <2>3, <3>2, <4>1
    <3> QED BY <3>1, <3>2
  <2>6. QueueWords' \in {QueueWords, QueueWords \cup RunWords} /\ DistinctTexts(queued)'
    <3>1. RunWords = {runText} /\ runText \in Texts /\ runText \notin TextsOf(queued) /\ nextId \in Nat
      <4>1. RunWords = {runText} /\ runText \in Texts
        BY <1>7 DEF RunCancelledByExit, RunWords, WordFacts, TypeOK
      <4>2. runText \notin QueueWords
        BY <4>1 DEF WordFacts, WordsHeld, Apart
      <4> QED BY <4>1, <4>2, OrderTypes DEF WordFacts, QueueWords
    <3>2. queued' = queued \/ queued' = Push(queued, nextId, runText)
      BY <2>1
    <3>3. /\ TextsOf(Push(queued, nextId, runText)) = TextsOf(queued) \cup {runText}
          /\ DistinctTexts(Push(queued, nextId, runText))
      BY <3>1, QueueDistinct, TextsPush
    <3> QED BY <3>1, <3>2, <3>3, QueueDistinct DEF QueueWords
  <2>7. Rescues
    BY <1>1, <1>2, <1>3, <1>4, <1>5, <2>5, <2>6 DEF Rescues
  <2>8. OneByOne'
    BY <1>3, <1>5, <2>6 DEF WordFacts, WordsHeld, OneByOne
  <2> QED BY <2>7, <2>8 DEF WordMove
<1> QED BY <1>6, <1>7

-----------------------------------------------------------------------------
(* Every step is a move.                                                   *)

LEMMA StepDrops == DropsOnly /\ [Next]_vars => DropsOnly'
<1> SUFFICES ASSUME DropsOnly, [Next]_vars PROVE DropsOnly'
  OBVIOUS
<1>1. CASE SubmitPrompt \/ SteerNow \/ FocusQueue \/ StepView \/ UnfocusQueue
           \/ DeclineAsk \/ ConfirmDrop \/ ConfirmSteer
  BY <1>1 DEF SubmitPrompt, SteerNow, FocusQueue, StepView, UnfocusQueue, DeclineAsk, ConfirmDrop,
              ConfirmSteer, panelVars, sheetVars, DropsOnly
<1>2. CASE AskConfirm
  BY <1>2 DEF AskConfirm, DropsOnly
<1>3. CASE OpenEdit \/ AbortEdit \/ CommitEdit \/ ClearCommand \/ ResumeCommand \/ OtherCommand
           \/ ClosePicker \/ CancelRun \/ QuitKey \/ ApplyUpdate
  BY <1>3 DEF OpenEdit, AbortEdit, CommitEdit, ClearCommand, ResumeCommand, OtherCommand, ClosePicker,
              CancelRun, QuitKey, ApplyUpdate, panelVars, sheetVars, DropsOnly
<1>4. CASE Frame \/ LastFrame \/ LeaveScreen \/ TerminalCloses \/ DriverJoined \/ DriverAborted
  BY <1>4 DEF Frame, LastFrame, DrawFrame, LeaveScreen, TerminalCloses, ExitStretch, DriverJoined,
              DriverAborted, panelVars, sheetVars, DropsOnly
<1>5. CASE TakeRevived \/ TakeChannel \/ Wake
  <2>1. UNCHANGED panelVars
    BY <1>5 DEF TakeRevived, TakeChannel, Wake
  <2> QED BY <2>1 DEF panelVars, sheetVars, DropsOnly
<1>6. CASE \/ Park \/ Leave \/ RunFinishes \/ RunCancelled \/ RunCancelledByExit \/ ApplyCommand
           \/ TurnBoundary \/ SlotSeals \/ UNCHANGED vars
  <2>1. UNCHANGED confirmAct
    BY <1>6 DEF Park, Leave, RunFinishes, RunCancelled, RunCancelledByExit, RunOver, EndWithRescue,
                ApplyCommand, TurnBoundary, DrainsSlot, TurnStarts, SlotSeals, vars, panelVars,
                sheetVars
  <2> QED BY <2>1 DEF DropsOnly
<1> QED BY <1>1, <1>2, <1>3, <1>4, <1>5, <1>6, NextSteps DEF PanelStep, KeyPress

LEMMA StepMoves == WordFacts /\ [Next]_vars => OneByOne' /\ WordMove
<1> SUFFICES ASSUME WordFacts, [Next]_vars PROVE OneByOne' /\ WordMove
  OBVIOUS
<1>1. CASE KeyPress \/ ApplyUpdate
  BY <1>1, SheetMoves, SubmitMoves, SteerNowMoves, ConfirmSteerMoves, DropMoves, CommitEditMoves
     DEF KeyPress
<1>2. CASE Frame \/ LastFrame \/ LeaveScreen \/ TerminalCloses \/ DriverJoined \/ DriverAborted
  BY <1>2, FrameMoves, ShowMoves, EndMoves DEF WordMove
<1>3. CASE TakeRevived \/ TakeChannel \/ Wake \/ Leave \/ RunCancelledByExit \/ ApplyCommand \/ TurnStarts
  BY <1>3, TakeMoves, RescueMoves, ApplyMoves, TurnMoves
<1>4. CASE Park \/ SlotSeals \/ DrainsSlot \/ RunFinishes \/ RunCancelled \/ UNCHANGED vars
  BY <1>4, RestMoves
<1> QED BY <1>1, <1>2, <1>3, <1>4, NextSteps DEF PanelStep, TurnBoundary

LEMMA InitWords == Init => ExitPlaces /\ DropsOnly /\ WordsHeld
<1> SUFFICES ASSUME Init PROVE ExitPlaces /\ DropsOnly /\ WordsHeld
  OBVIOUS
<1>1. Pending = <<>>
  BY DEF Init, Pending
<1>2. SlotWords = <<>> /\ InSlot = {} /\ LeftWords = {} /\ startupSlot.left = <<>>
  BY DEF Init, ClosedSlot, SlotWords, Unread, InSlot, LeftWords, ToSet
<1>3. QueueWords = {} /\ Corrections = {} /\ RunWords = {} /\ Committed = {}
  BY <1>1 DEF Init, QueueWords, TextsOf, Corrections, CorrectedTexts, ToSet, RunWords, Committed
<1>4. SentWords = {} /\ SteeredWords = {} /\ UnsentWords = {} /\ Settled = {} /\ rescued = {}
  BY DEF Init, SentWords, SteeredWords, UnsentWords, Settled, TextsAs, RowsOwed
<1>5. OneByOne
  BY <1>1, <1>2 DEF Init, OneByOne, DistinctTexts, DistinctCorrections, IsInjective
<1>6. Apart /\ SentOnce /\ Kept /\ SettledOnce
  BY <1>2, <1>3, <1>4 DEF Init, Apart, SentOnce, Kept, SettledOnce, Early
<1> QED BY <1>5, <1>6, InitExits DEF Init, DropsOnly, WordsHeld

\* Each place holds a wording once, no two places hold the same one, what could still
\* go out has not gone out, and what is not settled is somewhere.
THEOREM WordsHold == Spec => []WordFacts
<1>1. Init => WordFacts
  BY InitWords, InitOrder, InitType DEF WordFacts
<1>2. WordFacts /\ [Next]_vars => WordFacts'
  <2> SUFFICES ASSUME WordFacts, [Next]_vars PROVE WordFacts'
    OBVIOUS
  <2>1. OneByOne' /\ WordMove
    BY StepMoves
  <2>2. Apart' /\ SentOnce' /\ Kept' /\ SettledOnce'
    BY <2>1, MovesHold DEF WordFacts, WordsHeld
  <2>3. TypeOK' /\ SendOrder'
    BY StepType, StepOrder DEF WordFacts
  <2> QED BY <2>1, <2>2, <2>3, StepExits, StepDrops DEF WordFacts, WordsHeld
<1> QED BY <1>1, <1>2, PTL DEF Spec

\* What a slot holds does not wait in the queue, and what waits is not pinned: a steer
\* is delivered or submitted, never both, and return_guidance moves what it returns.
THEOREM SteersInOnePlace == Spec => []SteerInOnePlace
<1>1. WordFacts => SteerInOnePlace
  BY DEF WordFacts, WordsHeld, Apart, SteerInOnePlace, QueueWords, LeftWords
<1> QED BY <1>1, WordsHold, PTL

\* When the session is over every wording has its row or was let go: the exit shows
\* the queue and the pins, and the driver hands over the corrections it did not reach.
\* A driver aborted at the bound takes its corrections along.
THEOREM NothingIsLost ==
  ASSUME ~MayTimeOut
  PROVE  Spec => []NothingLost
<1>1. WordFacts => NothingLost
  <2> SUFFICES ASSUME WordFacts, app = "gone", NEW t \in Committed
               PROVE  t \in released \cup TextsAs({"sent", "steered", "unsent"})
    BY DEF NothingLost, Committed
  <2>1. revived = <<>> /\ channel = <<>> /\ rescued = {}
    BY DEF WordFacts, ExitPlaces
  <2>2. Corrections = {}
    BY <2>1 DEF Corrections, Pending, CorrectedTexts, ToSet
  <2>3. t \in Settled \cup QueueWords \cup Corrections \cup rescued \cup pendingSteers
    BY DEF WordFacts, WordsHeld, Kept
  <2>4. t \in Settled
    BY <2>1, <2>2, <2>3 DEF WordFacts, WordsHeld, Kept, Early
  <2>5. SentWords \cup SteeredWords \cup UnsentWords \subseteq TextsAs({"sent", "steered", "unsent"})
    BY DEF SentWords, SteeredWords, UnsentWords, TextsAs
  <2> QED BY <2>4, <2>5 DEF Settled
<1> QED BY <1>1, WordsHold, PTL

LEMMA CommittedTypes == TypeOK => Committed \subseteq Texts
BY BoundAssumption DEF Committed, Texts, TypeOK, GhostType

\* A step that starts a run claims a wording that waited or came as a correction.
LEMMA StartsClaim ==
  ASSUME WordMove, RunStarts
  PROVE  Claims(runText')
<1>1. RunWords = {} /\ RunWords' = {runText'}
  BY DEF RunStarts, RunWords
<1>2. ~Still /\ ~Graduates /\ ~Rebuilds /\ ~Rescues /\ ~Shows /\ ~Ends
  BY <1>1 DEF Still, Graduates, Rebuilds, Rescues, Shows, Ends
<1>3. \A X : ~Commits(X) /\ ~LetsGo(X)
  BY <1>1 DEF Commits, LetsGo
<1>4. \A X : ~Returns(X) /\ ~Steers(X)
  BY <1>1 DEF Returns, Steers
<1>5. PICK t : Claims(t)
  BY <1>2, <1>3, <1>4 DEF WordMove
<1>6. t = runText'
  BY <1>1, <1>5 DEF Claims
<1> QED BY <1>5, <1>6

\* No wording starts two runs: the run's row is owed as soon as it starts, and until
\* the flag nothing that waits or is on its way as a correction has such a row.
THEOREM WordingsRunOnce == Spec => NoWordingRunsTwice
<1>1. WordFacts /\ [Next]_vars => [RunStarts => Row(runText', "sent") \notin RowsOwed]_vars
  <2> SUFFICES ASSUME WordFacts, [Next]_vars, RunStarts
               PROVE  Row(runText', "sent") \notin RowsOwed
    OBVIOUS
  <2>1. Claims(runText')
    BY StepMoves, StartsClaim
  <2>2. runText' \notin SentWords
    BY <2>1 DEF Claims, WordFacts, WordsHeld, SentOnce
  <2>3. runText' \in QueueWords \cup Corrections
    BY <2>1 DEF Claims
  <2>4. runText' \in Texts
    BY <2>3, CommittedTypes DEF WordFacts, WordsHeld, Apart
  <2> QED BY <2>2, <2>4 DEF SentWords, TextsAs, Row
<1> QED BY <1>1, WordsHold, PTL DEF Spec, NoWordingRunsTwice

-----------------------------------------------------------------------------
(* The session implements PromptFate.                                      *)

\* Nothing moves once the session is over, and only the driver's end ends it.
LEMMA GoneStays ==
  ASSUME WordFacts, [Next]_vars
  PROVE  /\ app = "gone" => UNCHANGED vars
         /\ app # "gone" /\ app' = "gone" => DriverJoined \/ DriverAborted
<1>1. app = "gone" => pc \in {"done", "aborted"}
  BY DEF WordFacts, ExitPlaces
<1>2. CASE KeyPress
  <2>1. app = "live" /\ app' \in {"live", "quitting"}
    BY <1>2, KeyApp
  <2> QED BY <2>1
<1>3. CASE ApplyUpdate \/ Frame \/ LastFrame \/ LeaveScreen \/ TerminalCloses
  BY <1>3 DEF ApplyUpdate, Frame, LastFrame, LeaveScreen, TerminalCloses, ExitStretch
<1>4. CASE DriverJoined \/ DriverAborted
  BY <1>4 DEF DriverJoined, DriverAborted
<1>5. CASE TakeRevived \/ TakeChannel \/ Wake
  BY <1>1, <1>5 DEF TakeRevived, TakeChannel, Wake, panelVars
<1>6. CASE \/ Park \/ Leave \/ RunFinishes \/ RunCancelled \/ RunCancelledByExit \/ ApplyCommand
           \/ TurnBoundary \/ SlotSeals
  BY <1>1, <1>6 DEF Park, Leave, RunFinishes, RunCancelled, RunCancelledByExit, RunOver,
                    ApplyCommand, TurnBoundary, DrainsSlot, TurnStarts, SlotSeals, panelVars
<1>7. CASE UNCHANGED vars
  BY <1>7 DEF vars, panelVars
<1> QED BY <1>2, <1>3, <1>4, <1>5, <1>6, <1>7, NextSteps DEF PanelStep

\* What PromptFate sees of the words in a session that does not steer.
LEMMA FateWords ==
  ASSUME ~MaySteer, SettledOnce, SettledOnce'
  PROVE  /\ TextsAs({"sent", "steered"}) = SentWords
         /\ TextsAs({"sent", "steered"})' = SentWords'
<1>1. SteeredWords = {} /\ SteeredWords' = {}
  BY DEF SettledOnce
<1>2. TextsAs({"sent", "steered"}) = SentWords \cup SteeredWords
  BY DEF TextsAs, SentWords, SteeredWords
<1>3. TextsAs({"sent", "steered"})' = SentWords' \cup SteeredWords'
  BY DEF TextsAs, SentWords, SteeredWords
<1> QED BY <1>1, <1>2, <1>3

\* Each move of the words is a step of PromptFate or leaves what it sees alone.
LEMMA MovesSettle ==
  ASSUME ~MaySteer, WordFacts, SettledOnce', Committed' \subseteq Texts, WordMove,
         app # "gone", app' # "gone"
  PROVE  [Fate!FateNext]_(Fate!fateVars)
<1> DEFINE waiting == Committed \ Settled
<1>1. /\ TextsAs({"sent", "steered"}) = SentWords /\ TextsAs({"sent", "steered"})' = SentWords'
      /\ TextsAs({"unsent"}) = UnsentWords /\ TextsAs({"unsent"})' = UnsentWords'
      /\ 1 .. typed = Committed /\ (1 .. typed)' = Committed'
  BY FateWords DEF WordFacts, WordsHeld, UnsentWords, Committed
<1>2. Fate!Waiting = waiting
  BY <1>1 DEF Fate!Waiting, Settled, WordFacts, WordsHeld, SettledOnce
<1>3. (app = "gone") = FALSE /\ (app = "gone")' = FALSE
  OBVIOUS
<1>4. Early => QueueWords \cup Corrections \subseteq waiting
  BY DEF WordFacts, WordsHeld, Apart, SettledOnce
<1>5. ASSUME NEW X, Commits(X) PROVE Fate!Commit
  <2>1. Fresh \in Texts \ Committed /\ Committed' = Committed \cup {Fresh}
    BY <1>5 DEF Commits
  <2>2. X \in SUBSET waiting /\ released' = released \cup X
    BY <1>4, <1>5 DEF Commits
  <2>3. SentWords' = SentWords /\ UnsentWords' = UnsentWords
    BY <1>5 DEF Commits, RowsKept
  <2> QED BY <1>1, <1>2, <1>3, <2>1, <2>2, <2>3 DEF Fate!Commit
<1>6. ASSUME NEW X, LetsGo(X) PROVE Fate!LetGo
  <2>1. X \in SUBSET waiting /\ released' = released \cup X /\ Committed' = Committed
    BY <1>4, <1>6 DEF LetsGo
  <2>2. SentWords' = SentWords /\ UnsentWords' = UnsentWords
    BY <1>6 DEF LetsGo, RowsKept
  <2> QED BY <1>1, <1>2, <1>3, <2>1, <2>2 DEF Fate!LetGo
<1>7. ASSUME NEW t, Claims(t) PROVE Fate!Send
  <2>1. t \in waiting /\ SentWords' = SentWords \cup {t}
    BY <1>4, <1>7 DEF Claims
  <2>2. Committed' = Committed /\ released' = released /\ UnsentWords' = UnsentWords
    BY <1>7 DEF Claims
  <2> QED BY <1>1, <1>2, <1>3, <2>1, <2>2 DEF Fate!Send
<1>8. ASSUME Shows \/ Ends PROVE Fate!ShowUnsent
  <2>1. PICK left \in SUBSET waiting : UnsentWords' = UnsentWords \cup left
    <3>1. CASE Shows
      <4>1. QueueWords \cup pendingSteers \in SUBSET waiting
        BY <1>4, <3>1 DEF Shows, WordFacts, WordsHeld, SettledOnce
      <4> QED BY <3>1, <4>1 DEF Shows
    <3>2. CASE Ends
      <4>1. rescued \in SUBSET waiting
        BY DEF WordFacts, WordsHeld, SentOnce, SettledOnce
      <4> QED BY <3>2, <4>1 DEF Ends
    <3> QED BY <1>8, <3>1, <3>2
  <2>2. Committed' = Committed /\ released' = released /\ SentWords' = SentWords
    BY <1>8 DEF Shows, Ends
  <2> QED BY <1>1, <1>2, <1>3, <2>1, <2>2 DEF Fate!ShowUnsent
<1>9. ASSUME \/ Still \/ Graduates \/ Rebuilds \/ Rescues \/ \E T : Returns(T)
      PROVE  UNCHANGED Fate!fateVars
  <2>1. Committed' = Committed /\ released' = released
    BY <1>9 DEF Still, Graduates, Rebuilds, Rescues, Returns
  <2>2. SentWords' = SentWords /\ UnsentWords' = UnsentWords
    BY <1>9 DEF Still, Graduates, Rebuilds, Rescues, Returns, RowsKept
  <2> QED BY <1>1, <1>3, <2>1, <2>2 DEF Fate!fateVars
<1>10. \A t : ~Steers(t)
  BY DEF Steers
<1> QED BY <1>3, <1>5, <1>6, <1>7, <1>8, <1>9, <1>10 DEF WordMove, Fate!FateNext

\* The end shows whatever still waits.
LEMMA EndSettles ==
  ASSUME ~MaySteer, ~MayTimeOut, WordFacts, SettledOnce', DriverJoined \/ DriverAborted
  PROVE  Fate!FateNext
<1>1. app = "leaving" /\ app' = "gone"
  BY DEF DriverJoined, DriverAborted
<1>2. Ends
  BY EndMoves
<1>3. /\ TextsAs({"sent", "steered"}) = SentWords /\ TextsAs({"sent", "steered"})' = SentWords'
      /\ TextsAs({"unsent"}) = UnsentWords /\ TextsAs({"unsent"})' = UnsentWords'
      /\ 1 .. typed = Committed /\ (1 .. typed)' = Committed'
  BY FateWords DEF WordFacts, WordsHeld, UnsentWords, Committed
<1>4. Fate!Waiting = Committed \ Settled
  BY <1>3 DEF Fate!Waiting, Settled, WordFacts, WordsHeld, SettledOnce
<1>5. Committed \ Settled = rescued
  BY <1>2 DEF Ends, Settled, WordFacts, WordsHeld, Kept, SentOnce, SettledOnce
<1>6. Fate!End
  BY <1>1, <1>2, <1>3, <1>4, <1>5 DEF Ends, Fate!End
<1> QED BY <1>1, <1>6 DEF Fate!FateNext

\* A wording settles once, as sent, let go or unsent, and the session's end leaves none
\* behind.  A wording steered at a run may wait again and settle otherwise, and a
\* driver aborted at the bound takes its corrections along: hence the two assumptions.
THEOREM SessionImplementsFate ==
  ASSUME ~MaySteer, ~MayTimeOut
  PROVE  Spec => ImplementsFate
<1>1. Init => Fate!FateInit
  <2> SUFFICES ASSUME Init PROVE Fate!FateInit
    OBVIOUS
  <2>1. TextsAs({"sent", "steered"}) = {} /\ TextsAs({"unsent"}) = {}
    BY DEF Init, TextsAs, RowsOwed
  <2>2. typed = 0 /\ released = {} /\ app # "gone"
    BY DEF Init
  <2> QED BY <2>1, <2>2 DEF Fate!FateInit
<1>2. WordFacts /\ WordFacts' /\ [Next]_vars => [Fate!FateNext]_(Fate!fateVars)
  <2> SUFFICES ASSUME WordFacts, WordFacts', [Next]_vars
               PROVE  [Fate!FateNext]_(Fate!fateVars)
    OBVIOUS
  <2>1. SettledOnce' /\ Committed' \subseteq Texts
    BY BoundAssumption DEF WordFacts, WordsHeld, TypeOK, GhostType, Committed, Texts
  <2>2. CASE app = "gone"
    <3>1. UNCHANGED vars
      BY <2>2, GoneStays
    <3> QED BY <3>1 DEF vars, ghostVars, userVars, panelVars, engineVars, Fate!fateVars, TextsAs, RowsOwed
  <2>3. CASE app # "gone" /\ app' = "gone"
    BY <2>1, <2>3, GoneStays, EndSettles
  <2>4. CASE app # "gone" /\ app' # "gone"
    BY <2>1, <2>4, StepMoves, MovesSettle
  <2> QED BY <2>2, <2>3, <2>4
<1> QED BY <1>1, <1>2, WordsHold, PTL DEF Spec, ImplementsFate, Fate!FateSpec

-----------------------------------------------------------------------------
(* What the history carries, and what a cut takes out of it.               *)

\* The wordings that id was claimed with.
ClaimWords(id) == {claims[c].text : c \in {d \in DOMAIN claims : claims[d].id = id}}

\* The run of the newest claim has its words, and started from the length it recorded.
RunNamed ==
  pc = "running" /\ lastClaim.id # NoId =>
    runText \in ClaimWords(lastClaim.id) /\ lastClaim.before = Len(history)

\* Past the length the newest claim recorded there is only what its turn wrote.
TailClaimed ==
  lastClaim.id # NoId =>
    \A i \in DOMAIN history : i > lastClaim.before => history[i] \subseteq ClaimWords(lastClaim.id)

\* Up to that length there is nothing of it.
HeadOthers ==
  lastClaim.id # NoId =>
    \A i \in DOMAIN history : i <= lastClaim.before => history[i] \cap ClaimWords(lastClaim.id) = {}

\* The history carries what was sent, or what a resumed session saved.
HistorySent == \A i \in DOMAIN history : history[i] \subseteq SentWords \cup {Saved}

\* How a step treats the history and the newest claim.
HistoryKept ==
  /\ UNCHANGED <<history, lastClaim, claims>>
  /\ pc' = "running" => pc = "running" /\ runText' = runText
HistoryCleared == history' = <<>> /\ pc' # "running" /\ UNCHANGED <<lastClaim, claims>>
HistoryClaimed ==
  \E i \in DOMAIN queued :
    /\ ~shuttingDown
    /\ history' = history /\ lastClaim' = ClaimOf(queued[i].id)
    /\ claims' = Append(claims, Entry(queued[i].id, queued[i].text))
    /\ runText' = queued[i].text
HistoryCut ==
  history' \in {history, RewoundTo(lastClaim.before)} /\ lastClaim' = NoClaim /\ claims' = claims
HistoryGrown ==
  pc = "running" /\ RunCommits /\ pc' # "running" /\ UNCHANGED <<lastClaim, claims>>
HistoryApplied ==
  (CompactApplied \/ ResumeApplied) /\ pc' # "running" /\ UNCHANGED <<lastClaim, claims>>
HistoryMove ==
  \/ HistoryKept \/ HistoryCleared \/ HistoryClaimed \/ HistoryCut \/ HistoryGrown \/ HistoryApplied

LEMMA StepsMoveHistory == ASSUME TypeOK, [Next]_vars PROVE HistoryMove
<1>1. CASE PanelStep
  BY <1>1, PanelLeavesDriver DEF driverVars, HistoryKept, HistoryMove
<1>2. CASE TakeRevived \/ TakeChannel \/ Wake
  <2>1. PICK m \in Submissions : Handle(m)
    BY <1>2, OrderTypes, SeqTypes DEF TakeRevived, TakeChannel, Wake
  <2>2. CASE m.kind = "Run" /\ Claimable(m.id)
    <3>1. HandleRun(m.id) /\ Waits(queued, m.id) /\ ~shuttingDown
      BY <2>1, <2>2 DEF Handle, CommandKinds, Claimable
    <3> DEFINE i == IndexOf(queued, m.id)
    <3>2. i \in DOMAIN queued /\ queued[i].id = m.id /\ TextOf(queued, m.id) = queued[i].text
      BY <3>1 DEF Waits, IndexOf, TextOf
    <3> HIDE DEF i
    <3>3. /\ history' = history /\ lastClaim' = ClaimOf(queued[i].id)
          /\ claims' = Append(claims, Entry(queued[i].id, queued[i].text))
          /\ runText' = queued[i].text
      BY <2>2, <3>1, <3>2 DEF HandleRun, StartRun
    <3> QED BY <3>1, <3>2, <3>3 DEF HistoryClaimed, HistoryMove
  <2>3. CASE m.kind = "Run" /\ ~Claimable(m.id)
    BY <2>1, <2>3 DEF Handle, CommandKinds, HandleRun, Continue, HistoryKept, HistoryMove
  <2>4. CASE m.kind = "Correct"
    BY <2>1, <2>4 DEF Handle, CommandKinds, HandleCorrect, CutOf, HistoryCut, HistoryMove
  <2>5. CASE m.kind \in CommandKinds
    <3>1. HandleCommand(m.kind)
      BY <2>1, <2>5 DEF Handle, CommandKinds
    <3> QED BY <3>1 DEF HandleCommand, Continue, HistoryKept, HistoryCleared, HistoryMove
  <2> QED BY <2>1, <2>2, <2>3, <2>4, <2>5, MessageParts
<1>3. CASE RunFinishes \/ RunCancelled \/ RunCancelledByExit
  BY <1>3 DEF RunFinishes, RunCancelled, RunOver, RunCancelledByExit, EndWithRescue, ghostVars,
              HistoryGrown, HistoryMove
<1>4. CASE ApplyCommand
  BY <1>4 DEF ApplyCommand, RebuildApplied, CommandDeclined, ghostVars, HistoryApplied, HistoryKept,
              HistoryMove
<1>5. CASE DriverAborted \/ Park \/ Leave \/ TurnBoundary \/ SlotSeals \/ UNCHANGED vars
  BY <1>5 DEF DriverAborted, Park, Leave, EndWithRescue, TurnBoundary, DrainsSlot, TurnStarts,
         SlotSeals, vars, driverVars,
              ghostVars, HistoryKept, HistoryMove
<1> QED BY <1>1, <1>2, <1>3, <1>4, <1>5, NextSteps

\* What a run leaves: its own units past the old end, the old ones before it unless it
\* folded them, and words of both at most.
LEMMA CommitParts ==
  ASSUME TypeOK, pc = "running", RunCommits
  PROVE  /\ \A i \in DOMAIN history' : i > Len(history) => history'[i] = {runText}
         /\ ~MayFold => \A i \in DOMAIN history' : i <= Len(history) =>
                          i \in DOMAIN history /\ history'[i] = history[i]
         /\ \A i \in DOMAIN history' : \A w \in history'[i] :
              w = runText \/ \E j \in DOMAIN history : w \in history[j]
<1> DEFINE carried == UNION {history[i] : i \in DOMAIN history}
           folds == IF MayFold /\ history # <<>>
                    THEN {<<carried>>, <<carried \cup {runText}>>} ELSE {}
           units(n) == [i \in 1 .. n |-> {runText}]
<1>1. history \in Seq(Units) /\ runText \in Texts
  BY DEF TypeOK, DriverType
<1>2. carried \in Units /\ {runText} \in Units /\ carried \cup {runText} \in Units
  BY <1>1, ElementsTyped DEF Units
<1>3. PICK base \in {history} \cup folds, n \in TurnLengths : history' = base \o units(n)
  BY Zenon DEF RunCommits
<1>4. \A w \in carried : \E j \in DOMAIN history : w \in history[j]
  OBVIOUS
<1>5. \/ base = history
      \/ MayFold /\ history # <<>> /\ base = <<carried>>
      \/ MayFold /\ history # <<>> /\ base = <<carried \cup {runText}>>
  BY <1>3
<1> HIDE DEF carried, folds
<1>6. n \in Nat /\ Len(units(n)) = n /\ units(n) \in Seq(Units)
  BY <1>2, TurnAssumption
<1>7. \A i \in 1 .. n : units(n)[i] = {runText}
  OBVIOUS
<1> HIDE DEF units
<1>8. \A u \in Units : <<u>> \in Seq(Units) /\ Len(<<u>>) = 1 /\ <<u>>[1] = u
  OBVIOUS
<1>9. /\ base \in Seq(Units) /\ Len(base) \in Nat
      /\ Len(history) \in Nat /\ DOMAIN history = 1 .. Len(history)
      /\ Len(base) <= Len(history)
  <2>1. Len(history) \in Nat /\ DOMAIN history = 1 .. Len(history)
    BY <1>1, ElementsTyped
  <2>2. history # <<>> => Len(history) >= 1
    BY <1>1
  <2>3. CASE base = history
    BY <1>1, <2>1, <2>3
  <2>4. ASSUME NEW u \in Units, base = <<u>>, history # <<>>
        PROVE  base \in Seq(Units) /\ Len(base) \in Nat /\ Len(base) <= Len(history)
    BY <1>8, <2>1, <2>2, <2>4
  <2> QED BY <1>2, <1>5, <2>1, <2>3, <2>4
<1>10. /\ DOMAIN history' = 1 .. Len(base) + n
       /\ \A i \in 1 .. Len(base) : history'[i] = base[i]
       /\ \A i \in Len(base) + 1 .. Len(base) + n : history'[i] = units(n)[i - Len(base)]
  <2> DEFINE more == units(n)
  <2>1. /\ base \in Seq(Units) /\ more \in Seq(Units) /\ Len(more) = n
        /\ history' = base \o more
    BY <1>3, <1>6, <1>9
  <2> HIDE DEF more
  <2>2. /\ DOMAIN history' = 1 .. Len(base) + Len(more)
        /\ \A i \in 1 .. Len(base) : history'[i] = base[i]
        /\ \A i \in Len(base) + 1 .. Len(base) + Len(more) : history'[i] = more[i - Len(base)]
    BY <2>1, ConcatParts
  <2> QED BY <2>1, <2>2 DEF more
<1>11. \A i \in DOMAIN history' : i > Len(base) => history'[i] = {runText}
  <2> SUFFICES ASSUME NEW i \in DOMAIN history', i > Len(base) PROVE history'[i] = {runText}
    OBVIOUS
  <2>1. i \in Len(base) + 1 .. Len(base) + n /\ i - Len(base) \in 1 .. n
    BY <1>6, <1>9, <1>10
  <2> QED BY <1>7, <1>10, <2>1
<1>12. \A i \in DOMAIN history' : i > Len(history) => history'[i] = {runText}
  BY <1>6, <1>9, <1>10, <1>11
<1>13. ~MayFold => \A i \in DOMAIN history' : i <= Len(history) =>
                     i \in DOMAIN history /\ history'[i] = history[i]
  BY <1>5, <1>6, <1>9, <1>10
<1>14. \A i \in DOMAIN history' : \A w \in history'[i] :
         w = runText \/ \E j \in DOMAIN history : w \in history[j]
  <2> SUFFICES ASSUME NEW i \in DOMAIN history', NEW w \in history'[i], w # runText
               PROVE  \E j \in DOMAIN history : w \in history[j]
    OBVIOUS
  <2>1. i \in 1 .. Len(base) /\ w \in base[i]
    BY <1>6, <1>9, <1>10, <1>11
  <2>2. CASE base = history
    BY <1>9, <2>1, <2>2
  <2>3. CASE base = <<carried>> \/ base = <<carried \cup {runText}>>
    <3>1. w \in carried
      BY <1>2, <1>8, <2>1, <2>3
    <3> QED BY <1>4, <3>1
  <2> QED BY <1>5, <2>2, <2>3
<1> QED BY <1>12, <1>13, <1>14

LEMMA SentGrows == WordMove => SentWords \subseteq SentWords'
BY DEF WordMove, RowsKept, Still, Commits, LetsGo, Steers, Returns, Claims, Graduates, Rebuilds,
       Rescues, Shows, Ends

\* An id goes out once: the words it is claimed with are those of its entry.
LEMMA ClaimedWords ==
  ASSUME TypeOK, SendOrder, NEW i \in DOMAIN queued, lastClaim' = ClaimOf(queued[i].id),
         claims' = Append(claims, Entry(queued[i].id, queued[i].text))
  PROVE  ClaimWords(lastClaim.id)' = {queued[i].text}
<1> DEFINE id == queued[i].id
           t == queued[i].text
<1>1. queued[i] \in Prompts /\ id \in Ids /\ t \in Texts
  BY OrderTypes, PromptParts, PromptTypes
<1>2. Entry(id, t) \in Prompts /\ Entry(id, t).id = id /\ Entry(id, t).text = t
  BY <1>1, PromptTypes DEF Entry
<1>3. \A d \in DOMAIN claims : claims[d].id # id
  <2>1. Before(claims, queued)
    BY DEF SendOrder, Ordered
  <2>2. \A d \in DOMAIN claims : claims[d].id < id /\ claims[d].id \in Nat
    BY <2>1, OrderTypes, PromptParts DEF Before
  <2> QED BY <1>1, <2>2 DEF Ids
<1>4. lastClaim'.id = id
  BY DEF ClaimOf
<1>5. /\ DOMAIN claims' = 1 .. Len(claims) + 1 /\ DOMAIN claims = 1 .. Len(claims)
      /\ Len(claims) \in Nat
      /\ \A d \in 1 .. Len(claims) : claims'[d] = claims[d]
      /\ claims'[Len(claims) + 1] = Entry(id, t)
  BY <1>2, OrderTypes, AppendParts, PromptParts
<1> HIDE DEF id, t
<1>6. \A d \in DOMAIN claims' : claims'[d].id = id <=> d = Len(claims) + 1
  BY <1>2, <1>3, <1>5
<1>7. Len(claims) + 1 \in DOMAIN claims' /\ claims'[Len(claims) + 1].text = t
  BY <1>2, <1>5
<1> QED BY <1>4, <1>6, <1>7 DEF ClaimWords, t

LEMMA ClaimWordsStay ==
  UNCHANGED <<claims, lastClaim>> => ClaimWords(lastClaim.id)' = ClaimWords(lastClaim.id)
BY DEF ClaimWords

LEMMA StepNamed ==
  ASSUME TypeOK, SendOrder, RunNamed, HistoryMove
  PROVE  RunNamed'
<1>1. CASE HistoryKept
  BY <1>1, ClaimWordsStay DEF HistoryKept, RunNamed
<1>2. CASE HistoryClaimed
  <2>1. PICK i \in DOMAIN queued :
          /\ history' = history /\ lastClaim' = ClaimOf(queued[i].id)
          /\ claims' = Append(claims, Entry(queued[i].id, queued[i].text))
          /\ runText' = queued[i].text
    BY <1>2 DEF HistoryClaimed
  <2>2. ClaimWords(lastClaim.id)' = {queued[i].text}
    BY <2>1, ClaimedWords
  <2> QED BY <2>1, <2>2 DEF RunNamed, ClaimOf
<1>3. CASE HistoryCut
  BY <1>3 DEF HistoryCut, NoClaim, RunNamed
<1>4. CASE HistoryCleared \/ HistoryGrown \/ HistoryApplied
  BY <1>4 DEF HistoryCleared, HistoryGrown, HistoryApplied, RunNamed
<1> QED BY <1>1, <1>2, <1>3, <1>4 DEF HistoryMove

\* A compaction leaves one unit, with the words of all.
LEMMA FoldedParts ==
  ASSUME CompactApplied
  PROVE  /\ DOMAIN history' = {1} /\ history # <<>>
         /\ \A w \in history'[1] : \E j \in DOMAIN history : w \in history[j]
<1> DEFINE carried == UNION {history[i] : i \in DOMAIN history}
<1>1. history' = <<carried>> /\ history # <<>>
  BY DEF CompactApplied
<1>2. \A w \in carried : \E j \in DOMAIN history : w \in history[j]
  OBVIOUS
<1> HIDE DEF carried
<1>3. DOMAIN <<carried>> = {1} /\ <<carried>>[1] = carried
  OBVIOUS
<1> QED BY <1>1, <1>2, <1>3

LEMMA StepTail ==
  ASSUME TypeOK, SendOrder, RunNamed, TailClaimed, HistoryMove, ~ResumeApplied
  PROVE  TailClaimed'
<1>1. CASE HistoryKept
  BY <1>1, ClaimWordsStay DEF HistoryKept, TailClaimed
<1>2. CASE HistoryCleared
  BY <1>2 DEF HistoryCleared, TailClaimed
<1>3. CASE HistoryClaimed
  <2>1. PICK i \in DOMAIN queued : history' = history /\ lastClaim' = ClaimOf(queued[i].id)
    BY <1>3 DEF HistoryClaimed
  <2>2. DOMAIN history = 1 .. Len(history) /\ Len(history) \in Nat
    BY ElementsTyped DEF TypeOK, DriverType
  <2>3. lastClaim'.before = Len(history)
    BY <2>1 DEF ClaimOf
  <2> QED BY <2>1, <2>2, <2>3 DEF TailClaimed
<1>4. CASE HistoryCut
  BY <1>4 DEF HistoryCut, NoClaim, TailClaimed
<1>5. CASE HistoryGrown
  <2>1. \A i \in DOMAIN history' : i > Len(history) => history'[i] = {runText}
    BY <1>5, CommitParts DEF HistoryGrown
  <2> QED BY <1>5, <2>1, ClaimWordsStay DEF HistoryGrown, RunNamed, TailClaimed
<1>6. CASE HistoryApplied
  <2>1. CompactApplied /\ UNCHANGED <<lastClaim, claims>>
    BY <1>6 DEF HistoryApplied
  <2>2. lastClaim.before \in Nat /\ DOMAIN history = 1 .. Len(history)
    BY ElementsTyped DEF TypeOK, DriverType, Turns
  <2> SUFFICES ASSUME lastClaim.id # NoId, 1 > lastClaim.before
               PROVE  history'[1] \subseteq ClaimWords(lastClaim.id)
    BY <2>1, FoldedParts, ClaimWordsStay DEF TailClaimed
  <2>3. \A j \in DOMAIN history : j > lastClaim.before
    BY <2>2
  <2> QED BY <2>1, <2>3, FoldedParts DEF TailClaimed
<1> QED BY <1>1, <1>2, <1>3, <1>4, <1>5, <1>6 DEF HistoryMove

LEMMA StepHead ==
  ASSUME ~MayFold, TypeOK, SendOrder, RunNamed, HeadOthers, HistorySent, SentOnce, HistoryMove,
         ~CompactApplied
  PROVE  HeadOthers'
<1>1. CASE HistoryKept
  BY <1>1, ClaimWordsStay DEF HistoryKept, HeadOthers
<1>2. CASE HistoryCleared
  BY <1>2 DEF HistoryCleared, HeadOthers
<1>3. CASE HistoryClaimed
  <2>1. PICK i \in DOMAIN queued :
          /\ ~shuttingDown
          /\ history' = history /\ lastClaim' = ClaimOf(queued[i].id)
          /\ claims' = Append(claims, Entry(queued[i].id, queued[i].text))
    BY <1>3 DEF HistoryClaimed
  <2>2. ClaimWords(lastClaim.id)' = {queued[i].text}
    BY <2>1, ClaimedWords
  <2>3. queued[i].text \in QueueWords /\ queued[i].text # Saved
    BY OrderTypes, PromptParts, PromptTypes DEF QueueWords, TextsOf, Texts, Saved
  <2>4. queued[i].text \notin SentWords
    BY <2>1, <2>3 DEF SentOnce
  <2> QED BY <2>1, <2>2, <2>3, <2>4 DEF HeadOthers, HistorySent
<1>4. CASE HistoryCut
  BY <1>4 DEF HistoryCut, NoClaim, HeadOthers
<1>5. CASE HistoryGrown
  <2>1. \A i \in DOMAIN history' : i <= Len(history) => i \in DOMAIN history /\ history'[i] = history[i]
    BY <1>5, CommitParts DEF HistoryGrown
  <2> QED BY <1>5, <2>1, ClaimWordsStay DEF HistoryGrown, RunNamed, HeadOthers
<1>6. CASE HistoryApplied
  <2>1. history' = <<{Saved}, {Saved}>> /\ UNCHANGED <<lastClaim, claims>>
    BY <1>6 DEF HistoryApplied, ResumeApplied
  <2>2. \A i \in DOMAIN history' : history'[i] = {Saved}
    BY <2>1
  <2>3. Saved \notin ClaimWords(lastClaim.id)
    BY OrderTypes, PromptParts, PromptTypes DEF ClaimWords, Texts, Saved
  <2> QED BY <2>1, <2>2, <2>3, ClaimWordsStay DEF HeadOthers
<1> QED BY <1>1, <1>2, <1>3, <1>4, <1>5, <1>6 DEF HistoryMove

\* A rewind takes the units past its length, and only them.
LEMMA RewoundParts ==
  ASSUME TypeOK, NEW before \in Nat
  PROVE  /\ \A i \in DOMAIN RewoundTo(before) :
              i \in DOMAIN history /\ RewoundTo(before)[i] = history[i]
         /\ before < Len(history) => Len(RewoundTo(before)) = before
         /\ ~(before < Len(history)) => RewoundTo(before) = history
<1>1. history \in Seq(Units)
  BY DEF TypeOK, DriverType
<1>2. CASE before < Len(history)
  <2>1. RewoundTo(before) = SubSeq(history, 1, before)
    BY <1>2 DEF RewoundTo
  <2>2. /\ Len(SubSeq(history, 1, before)) = before
        /\ \A i \in DOMAIN SubSeq(history, 1, before) :
             i \in DOMAIN history /\ SubSeq(history, 1, before)[i] = history[i]
    BY <1>1, <1>2
  <2> QED BY <1>2, <2>1, <2>2
<1>3. CASE ~(before < Len(history))
  BY <1>3 DEF RewoundTo
<1> QED BY <1>2, <1>3

LEMMA StepSent ==
  ASSUME TypeOK, HistorySent, SentOnce, SentWords \subseteq SentWords', HistoryMove
  PROVE  HistorySent'
<1>1. CASE HistoryKept \/ HistoryClaimed
  BY <1>1 DEF HistoryKept, HistoryClaimed, HistorySent
<1>2. CASE HistoryCleared
  BY <1>2 DEF HistoryCleared, HistorySent
<1>3. CASE HistoryCut
  <2>1. \A i \in DOMAIN history' : i \in DOMAIN history /\ history'[i] = history[i]
    BY <1>3, RewoundParts DEF HistoryCut, TypeOK, DriverType, Turns
  <2> QED BY <2>1 DEF HistorySent
<1>4. CASE HistoryGrown
  <2>1. runText \in SentWords
    BY <1>4 DEF HistoryGrown, SentOnce, RunWords
  <2> QED BY <1>4, <2>1, CommitParts DEF HistoryGrown, HistorySent
<1>5. CASE HistoryApplied
  <2>1. CASE CompactApplied
    BY <2>1, FoldedParts DEF HistorySent
  <2>2. CASE ResumeApplied
    <3>1. \A i \in DOMAIN history' : history'[i] = {Saved}
      BY <2>2 DEF ResumeApplied
    <3> QED BY <3>1 DEF HistorySent
  <2> QED BY <1>5, <2>1, <2>2 DEF HistoryApplied
<1> QED BY <1>1, <1>2, <1>3, <1>4, <1>5 DEF HistoryMove

LEMMA InitHistory == Init => RunNamed /\ TailClaimed /\ HeadOthers /\ HistorySent
BY DEF Init, RunNamed, TailClaimed, HeadOthers, HistorySent, NoClaim

\* A run that starts with no claim is the correction the driver took.
LEMMA CorrectionTaken ==
  ASSUME TypeOK, SendOrder, [Next]_vars, CorrectionRuns
  PROVE  /\ Submitted.kind = "Correct" /\ HandleCorrect(Submitted.id, Submitted.text)
         /\ \E i \in DOMAIN Pending : Pending[i] = Submitted
<1>1. pc # "running" /\ pc' = "running" /\ claims' = claims
  BY DEF CorrectionRuns, RunStarts
<1>2. TakeRevived \/ TakeChannel \/ Wake
  <2>1. ~PanelStep
    BY <1>1, PanelLeavesDriver DEF driverVars
  <2> QED BY <1>1, <2>1, NextSteps
      DEF DriverAborted, Park, Leave, EndWithRescue, RunFinishes, RunCancelled, RunCancelledByExit,
          ApplyCommand, TurnBoundary, DrainsSlot, TurnStarts, SlotSeals, vars, driverVars
<1>3. /\ Handle(Submitted) /\ Submitted \in Submissions
      /\ \E i \in DOMAIN Pending : Pending[i] = Submitted
  <2>1. Pending # <<>> /\ Handle(Head(Pending))
    BY <1>2, TakePends
  <2>2. Pending \in Seq(Submissions)
    BY OrderTypes
  <2>3. Head(Pending) = Pending[1] /\ 1 \in DOMAIN Pending /\ Head(Pending) \in Submissions
    BY <2>1, <2>2, TailParts, PendingParts
  <2>4. Submitted = Head(Pending)
    <3>1. CASE revived # <<>>
      BY <3>1, OrderTypes, ConcatTail DEF Submitted, Pending
    <3>2. CASE revived = <<>>
      BY <3>2, OrderTypes, ConcatTail DEF Submitted, Pending
    <3> QED BY <3>1, <3>2
  <2> QED BY <2>1, <2>3, <2>4
<1>4. Submitted.kind = "Correct"
  <2>1. ASSUME Submitted.kind \in CommandKinds PROVE FALSE
    <3>1. HandleCommand(Submitted.kind)
      BY <1>3, <2>1 DEF Handle, CommandKinds
    <3> QED BY <1>1, <3>1 DEF HandleCommand, Continue
  <2>2. ASSUME Submitted.kind = "Run" PROVE FALSE
    <3>1. HandleRun(Submitted.id)
      BY <1>3, <2>2 DEF Handle, CommandKinds
    <3>2. claims' = Append(claims, Entry(Submitted.id, TextOf(queued, Submitted.id)))
      BY <1>1, <3>1 DEF HandleRun, Continue
    <3> DEFINE e == Entry(Submitted.id, TextOf(queued, Submitted.id))
    <3>3. Append(claims, e) # claims
      <4> HIDE DEF e
      <4>1. claims \in Seq(Prompts)
        BY OrderTypes
      <4>2. Len(Append(claims, e)) = Len(claims) + 1 /\ Len(claims) \in Nat
        BY <4>1
      <4> QED BY <4>2
    <3> QED BY <1>1, <3>2, <3>3
  <2> QED BY <1>3, <2>1, <2>2, MessageParts
<1>5. HandleCorrect(Submitted.id, Submitted.text)
  BY <1>3, <1>4 DEF Handle, CommandKinds
<1> QED BY <1>3, <1>4, <1>5

\* The id a correction names is one the session gave out.
LEMMA SubmittedId ==
  ASSUME TypeOK, Edited, \E i \in DOMAIN Pending : Pending[i] = Submitted,
         Submitted.kind = "Correct"
  PROVE  Submitted.id # NoId
<1>1. Submitted.id \in Gone
  BY DEF Edited
<1>2. IdsOf(claims) \subseteq Nat
  BY OrderTypes, PromptParts DEF IdsOf
<1>3. ResumedIds \subseteq Nat
  BY DEF ResumedIds, TypeOK, GhostType, Ids
<1> QED BY <1>1, <1>2, <1>3 DEF Gone, NoId

\* A cut takes out of the history only what the superseded turn wrote: only the newest
\* claim is cut, and past the length it recorded there is only its own turn, whatever
\* ran, folded, was compacted or was cleared since.  A resumed session's history
\* replaces what the length was recorded for: hence the assumption (the run doc_cut).
THEOREM CutsHitTheirTurn ==
  ASSUME "Resume" \notin Commands
  PROVE  Spec => CutTakesOnlySuperseded
<1> DEFINE Inv == TypeOK /\ SendOrder /\ Edited /\ NeverResumed /\ RunNamed /\ TailClaimed
<1>1. Init => Inv
  BY InitType, InitOrder, InitEdited, InitHistory
<1>2. Inv /\ [Next]_vars => Inv'
  <2> SUFFICES ASSUME Inv, [Next]_vars PROVE Inv'
    OBVIOUS
  <2>1. TypeOK' /\ SendOrder' /\ Edited' /\ NeverResumed'
    BY StepType, StepOrder, StepEdited, StepNeverResumed
  <2>2. ~ResumeApplied
    BY DEF ResumeApplied, NeverResumed, Unheard
  <2>3. RunNamed' /\ TailClaimed'
    BY <2>2, StepsMoveHistory, StepNamed, StepTail
  <2> QED BY <2>1, <2>3
<1>3. Inv /\ [Next]_vars =>
        [CorrectionRuns =>
           \A i \in DOMAIN history : i > Len(history') => history[i] \subseteq Superseded]_vars
  <2> SUFFICES ASSUME Inv, [Next]_vars, CorrectionRuns,
                      NEW i \in DOMAIN history, i > Len(history')
               PROVE  history[i] \subseteq Superseded
    OBVIOUS
  <2>1. /\ HandleCorrect(Submitted.id, Submitted.text) /\ Submitted.id # NoId
    BY CorrectionTaken, SubmittedId
  <2>2. /\ DOMAIN history = 1 .. Len(history) /\ Len(history) \in Nat
        /\ lastClaim.before \in Nat
    BY ElementsTyped DEF TypeOK, DriverType, Turns
  <2>3. history' = CutOf(Submitted.id)
    BY <2>1 DEF HandleCorrect
  <2>4. history' # history
    BY <2>2
  <2>5. lastClaim.id = Submitted.id /\ history' = RewoundTo(lastClaim.before)
    BY <2>3, <2>4 DEF CutOf
  <2>6. i > lastClaim.before
    BY <2>2, <2>4, <2>5, RewoundParts
  <2> QED BY <2>1, <2>5, <2>6 DEF TailClaimed, Superseded, ClaimWords
<1> HIDE DEF Inv
<1> QED BY <1>1, <1>2, <1>3, PTL DEF Spec, CutTakesOnlySuperseded

\* When the driver says nothing of a cut, or that there was nothing to cut, no unit
\* carries the superseded words: up to the recorded length nothing of that turn stands,
\* in a resumed session either.  A fold inside the run, or a /compact after it, may bring
\* the turn's words below the length and leave the history no shorter than it, which
\* reads as a cut of nothing: hence the assumptions.
THEOREM SilentCutsAreClean ==
  ASSUME ~MayFold, "Compact" \notin Commands
  PROVE  Spec => CutIsSaid
<1> DEFINE Inv == /\ WordFacts /\ Edited /\ Unheard("Compact")
                  /\ RunNamed /\ HeadOthers /\ HistorySent
<1>1. Init => Inv
  BY InitType, InitOrder, InitEdited, InitHistory, InitWords DEF WordFacts
<1>2. Inv /\ WordFacts' /\ [Next]_vars => Inv'
  <2> SUFFICES ASSUME Inv, WordFacts', [Next]_vars PROVE Inv'
    OBVIOUS
  <2> TypeOK /\ SendOrder /\ SentOnce
    BY DEF WordFacts, WordsHeld
  <2>1. Edited' /\ Unheard("Compact")'
    BY StepEdited, StepUnheard DEF CommandKinds
  <2>2. ~CompactApplied
    BY DEF CompactApplied, Unheard
  <2>3. HistoryMove /\ SentWords \subseteq SentWords'
    BY StepsMoveHistory, StepMoves, SentGrows
  <2>4. RunNamed' /\ HeadOthers' /\ HistorySent'
    BY <2>2, <2>3, StepNamed, StepHead, StepSent
  <2> QED BY <2>1, <2>4
<1>3. Inv /\ [Next]_vars =>
        [CorrectionRuns /\ verdict' \in {"silent", "unwritten"} =>
           \A i \in DOMAIN history' : history'[i] \cap Superseded = {}]_vars
  <2> SUFFICES ASSUME Inv, [Next]_vars, CorrectionRuns, verdict' \in {"silent", "unwritten"},
                      NEW i \in DOMAIN history'
               PROVE  history'[i] \cap Superseded = {}
    OBVIOUS
  <2> TypeOK /\ SendOrder
    BY DEF WordFacts
  <2>1. HandleCorrect(Submitted.id, Submitted.text) /\ Submitted.id # NoId
    BY CorrectionTaken, SubmittedId
  <2>2. /\ DOMAIN history = 1 .. Len(history) /\ Len(history) \in Nat
        /\ lastClaim.before \in Nat
    BY ElementsTyped DEF TypeOK, DriverType, Turns
  <2>3. history' = CutOf(Submitted.id) /\ verdict' = CutVerdictOf(Submitted.id)
    BY <2>1 DEF HandleCorrect
  <2>4. /\ lastClaim.id = Submitted.id /\ history' = RewoundTo(lastClaim.before)
        /\ verdict' = CutVerdict(lastClaim.before, Len(history), Len(RewoundTo(lastClaim.before)),
                                 interruptedFor = Submitted.id)
    BY <2>3 DEF CutOf, CutVerdictOf
  <2>5. i \in DOMAIN history /\ history'[i] = history[i]
    BY <2>2, <2>4, RewoundParts
  <2>6. ~(Len(history) < lastClaim.before)
    BY <2>2, <2>4 DEF CutVerdict
  <2>7. i <= lastClaim.before
    <3>1. history' \in Seq(Units)
      BY <2>2, <2>4, RewindType
    <3>2. DOMAIN history' = 1 .. Len(history') /\ Len(history') = lastClaim.before
      BY <2>2, <2>4, <2>6, <3>1, RewoundParts, ElementsTyped
    <3> QED BY <3>2, <2>2
  <2> QED BY <2>1, <2>4, <2>5, <2>7 DEF HeadOthers, Superseded, ClaimWords
<1> HIDE DEF Inv
<1> QED BY <1>1, <1>2, <1>3, WordsHold, PTL DEF Spec, CutIsSaid
=============================================================================
