----------------------------- MODULE Approvals -----------------------------
(***************************************************************************)
(* What a run asks the user: the questions of the asking tool (ask.rs, one *)
(* batch at a time) through the bridge and the supervisor of the runner's  *)
(* generation (question_bridge.rs), the permissions of the gate's calls    *)
(* (permission_bridge in tui.rs), and the screen's two sheets that answer  *)
(* them (app.rs).  Driver, bridges and screen are tasks of one thread: an  *)
(* action is what a task does from one await to the next.                  *)
(***************************************************************************)
EXTENDS Integers, FiniteSets, SequencesExt

CONSTANTS
  MaxQuestions,     \* how many questions the model's runs ask (bound)
  MaxBatch,         \* how many of them one call asks at most (bound)
  MaxRunners,       \* how many runners the session builds (bound)
  MaxPermissions    \* how many calls ask for permission (bound)

ASSUME AskBounds ==
  /\ MaxQuestions \in Nat /\ MaxBatch \in Nat
  /\ MaxRunners \in Nat \ {0} /\ MaxPermissions \in Nat

VARIABLES
  running,      \* a run is live (agent_running)
  runner,       \* the current runner's generation
  asked,        \* the questions asked so far
  batch, at,    \* the current call's questions, and the one it waits for
  heard,        \* the questions of the current call it has the answer of
  reported,     \* what the report of its call says of a question (remembered)
  response,     \* the one-shot from the bridge back to the tool
  reply,        \* the one-shot from the screen back to the bridge
  requests,     \* per generation, the batches on their way to the bridge
  awaiting,     \* per generation, the batch the bridge waits on
  prompts,      \* per generation, the prompts on their way to the supervisor
  over, ended,  \* the generations whose supervisor, whose bridge has ended
  askSink,      \* the prompts on their way to the screen
  questions,    \* pending_questions
  questionView, \* question_view, counted from 1; 1 when nothing is pending
  permission,   \* the gate's one-shot of a call: over once answered or given up
  permitSink,   \* the permission requests on their way to the screen
  permits,      \* pending_permissions
  screen        \* the run loop of the screen

askVars == <<running, runner, asked, batch, at, heard, reported, response, reply, requests,
             awaiting, prompts, over, ended, askSink, questions, questionView>>
permitVars == <<permission, permitSink, permits>>
approvalVars == <<askVars, permitVars, screen>>

Questions == 1 .. MaxQuestions
Runners == 1 .. MaxRunners
Permissions == 1 .. MaxPermissions
Settled == {"answered", "dismissed", "dropped"}

ApprovalsTypeOK ==
  /\ running \in BOOLEAN /\ runner \in Runners /\ asked \in 0 .. MaxQuestions
  /\ batch \in Seq(Questions) /\ at \in Nat \ {0} /\ heard \subseteq Questions
  /\ reported \in [Questions -> {"nothing", "answer", "no answer"}]
  /\ response \in [Questions -> {"unused", "open", "unheard"} \union Settled]
  /\ reply \in [Questions -> {"unused", "open", "withdrawn"} \union Settled]
  /\ requests \in [Runners -> Seq(Seq(Questions))]
  /\ awaiting \in [Runners -> Seq(Questions)] /\ prompts \in [Runners -> Seq(Questions)]
  /\ over \subseteq Runners /\ ended \subseteq Runners
  /\ askSink \in Seq(Questions) /\ questions \in Seq(Questions) 
  /\ questionView \in 1 .. (IF questions = <<>> THEN 1 ELSE Len(questions))
  /\ permission \in [Permissions -> {"unused", "asked", "over"}]
  /\ permitSink \in Seq(Permissions) /\ permits \in Seq(Permissions)
  /\ screen \in {"up", "left"}

ApprovalsInit ==
  /\ running = FALSE /\ runner = 1 /\ asked = 0
  /\ batch = <<>> /\ at = 1 /\ heard = {} /\ reported = [q \in Questions |-> "nothing"]
  /\ response = [q \in Questions |-> "unused"] /\ reply = [q \in Questions |-> "unused"]
  /\ requests = [g \in Runners |-> <<>>] /\ awaiting = [g \in Runners |-> <<>>]
  /\ prompts = [g \in Runners |-> <<>>] /\ over = {} /\ ended = {}
  /\ askSink = <<>> /\ questions = <<>> /\ questionView = 1
  /\ permission = [p \in Permissions |-> "unused"]
  /\ permitSink = <<>> /\ permits = <<>> /\ screen = "up"

\* A one-shot's end of `of` is given up for the ids in qs: the open ones close.
Closed(of, qs, as) ==
  [q \in DOMAIN of |-> IF q \in qs /\ of[q] = "open" THEN as ELSE of[q]]

-----------------------------------------------------------------------------
(* The run: the asking tool and the gate. *)

RunStarts ==
  /\ ~running /\ screen = "up" /\ running' = TRUE
  /\ UNCHANGED <<runner, asked, batch, at, heard, reported, response, reply, requests,
                 awaiting, prompts, over, ended, askSink, questions, questionView,
                 permitVars, screen>>

\* The questions the call still waits for.
Awaited == {batch[i] : i \in at .. Len(batch)}

\* The call is over.  Its report gives the answers heard, and says of the
\* other questions that they went unanswered.
Reports(qs, answered) ==
  reported' = [q \in Questions |-> IF q \in qs
                 THEN IF q \in answered THEN "answer" ELSE "no answer" ELSE reported[q]]
CallOver == batch' = <<>> /\ at' = 1 /\ heard' = {}

\* AskTool::call_inner up to its first wait.  The tool is not safe beside other
\* calls: nothing else of the run waits then.
Asks(n) ==
  LET new == [i \in 1 .. n |-> asked + i]
  IN /\ running /\ batch = <<>> /\ asked + n <= MaxQuestions
     /\ \A p \in Permissions : permission[p] # "asked"
     /\ asked' = asked + n
     /\ IF runner \in ended
        THEN Reports(Range(new), {}) /\ UNCHANGED <<batch, at, heard, response, requests>>
        ELSE /\ requests' = [requests EXCEPT ![runner] = Append(@, new)]
             /\ response' = [q \in Questions |-> IF q \in Range(new) THEN "open"
                                                 ELSE response[q]]
             /\ batch' = new
             /\ UNCHANGED <<at, heard, reported>>
     /\ UNCHANGED <<running, runner, reply, awaiting, prompts, over, ended, askSink,
                    questions, questionView, permitVars, screen>>

AskVarsButTool == <<running, runner, asked, reply, requests, awaiting, prompts, over, ended,
                    askSink, questions, questionView>>

\* (Mutant: the call ends at its first dismissal.)
HearsUntilDismissed ==
  /\ batch # <<>> /\ response[batch[at]] \in Settled
  /\ LET now == IF response[batch[at]] = "answered" THEN heard \union {batch[at]} ELSE heard
     IN IF at = Len(batch) \/ response[batch[at]] = "dismissed"
        THEN Reports(Range(batch), now) /\ CallOver
        ELSE at' = at + 1 /\ heard' = now /\ UNCHANGED <<batch, reported>>
  /\ UNCHANGED <<response, AskVarsButTool, permitVars, screen>>

\* A dismissal is passed over, and the wait goes on with the next question.  A
\* bridge that ends drops what it was asked with its channel, and an answer or
\* a drop wins over the closed channel: the arm for the latter is never taken.
Hears ==
  /\ batch # <<>> /\ response[batch[at]] \in Settled
  /\ LET now == IF response[batch[at]] = "answered" THEN heard \union {batch[at]} ELSE heard
     IN IF at = Len(batch) THEN Reports(Range(batch), now) /\ CallOver
        ELSE at' = at + 1 /\ heard' = now /\ UNCHANGED <<batch, reported>>
  /\ UNCHANGED <<response, AskVarsButTool, permitVars, screen>>

\* The resolver's synchronous half: a screen that is gone denies at once.
AsksPermission(p) ==
  /\ running /\ batch = <<>> /\ permission[p] = "unused"
  /\ \A o \in Permissions : o < p => permission[o] # "unused"
  /\ IF screen = "up"
     THEN /\ permission' = [permission EXCEPT ![p] = "asked"]
          /\ permitSink' = Append(permitSink, p)
     ELSE /\ permission' = [permission EXCEPT ![p] = "over"]
          /\ UNCHANGED permitSink
  /\ UNCHANGED <<askVars, permits, screen>>

RunFinishes ==
  /\ running /\ batch = <<>> /\ \A p \in Permissions : permission[p] # "asked"
  /\ running' = FALSE
  /\ UNCHANGED <<runner, asked, batch, at, heard, reported, response, reply, requests,
                 awaiting, prompts, over, ended, askSink, questions, questionView,
                 permitVars, screen>>

\* A cancelled run drops its dispatches, and with them their receivers.
RunCancelled ==
  /\ running /\ running' = FALSE
  /\ response' = Closed(response, Awaited, "unheard") /\ CallOver
  /\ permission' = [p \in Permissions |-> IF permission[p] = "asked" THEN "over"
                                          ELSE permission[p]]
  /\ UNCHANGED <<runner, asked, reported, reply, requests, awaiting, prompts, over, ended,
                 askSink, questions, questionView, permitSink, permits, screen>>

\* A rebuild attaches a path of its own to the same screen, at rest; the old
\* generation's tasks stay with what they still hold.
RunnerRebuilt ==
  /\ ~running /\ runner < MaxRunners /\ screen = "up"
  /\ runner' = runner + 1
  /\ UNCHANGED <<running, asked, batch, at, heard, reported, response, reply, requests,
                 awaiting, prompts, over, ended, askSink, questions, questionView,
                 permitVars, screen>>

-----------------------------------------------------------------------------
(* The bridge and the supervisor of a generation. *)

AskVarsButBridge == <<running, runner, asked, batch, at, heard, reported, askSink, questions,
                      questionView>>

\* spawn_question_bridge takes a batch and hands over all of its prompts.
BridgeReceives(g) ==
  /\ g \notin over /\ awaiting[g] = <<>> /\ requests[g] # <<>>
  /\ LET new == Head(requests[g])
     IN /\ reply' = [q \in Questions |-> IF q \in Range(new) THEN "open" ELSE reply[q]]
        /\ awaiting' = [awaiting EXCEPT ![g] = new]
        /\ prompts' = [prompts EXCEPT ![g] = @ \o new]
  /\ requests' = [requests EXCEPT ![g] = Tail(@)]
  /\ UNCHANGED <<AskVarsButBridge, response, over, ended, permitVars, screen>>

\* Nobody takes its prompts: the bridge ends, and every batch goes unheard.
BridgeEnds(g) ==
  /\ g \in over /\ awaiting[g] = <<>> /\ requests[g] # <<>>
  /\ ended' = ended \union {g}
  /\ response' = Closed(response, UNION {Range(b) : b \in Range(requests[g])}, "dropped")
  /\ requests' = [requests EXCEPT ![g] = <<>>]
  /\ UNCHANGED <<AskVarsButBridge, reply, awaiting, prompts, over, permitVars, screen>>

\* (Mutant: nobody tells the screen that the tool has gone.)
BridgeAwaitsAnswers(g) ==
  /\ awaiting[g] # <<>>
  /\ LET q == Head(awaiting[g])
     IN /\ reply[q] \in Settled
        /\ response' = Closed(response, {q}, IF reply[q] = "answered" THEN "answered"
                                             ELSE "dismissed")
  /\ awaiting' = [awaiting EXCEPT ![g] = Tail(@)]
  /\ UNCHANGED <<AskVarsButBridge, reply, requests, prompts, over, ended, permitVars, screen>>

\* The wait for one prompt, in the batch's order, its answer first.
BridgeAwaits(g) ==
  /\ awaiting[g] # <<>>
  /\ LET q == Head(awaiting[g])
     IN \/ /\ reply[q] \in Settled
           /\ response' = Closed(response, {q}, IF reply[q] = "answered" THEN "answered"
                                                ELSE "dismissed")
           /\ UNCHANGED reply
        \/ /\ reply[q] = "open" /\ response[q] = "unheard"
           /\ reply' = [reply EXCEPT ![q] = "withdrawn"]
           /\ UNCHANGED response
  /\ awaiting' = [awaiting EXCEPT ![g] = Tail(@)]
  /\ UNCHANGED <<AskVarsButBridge, requests, prompts, over, ended, permitVars, screen>>

\* QuestionPath::supervise forwards a prompt.
Forwards(g) ==
  /\ g \notin over /\ prompts[g] # <<>> /\ screen = "up"
  /\ askSink' = Append(askSink, Head(prompts[g]))
  /\ prompts' = [prompts EXCEPT ![g] = Tail(@)]
  /\ UNCHANGED <<running, runner, asked, batch, at, heard, reported, response, reply, requests,
                 awaiting, over, ended, questions, questionView, permitVars, screen>>

\* The screen is gone: the supervisor ends, with the prompts it holds.
SupervisorEnds(g) ==
  /\ g \notin over /\ prompts[g] # <<>> /\ screen = "left"
  /\ over' = over \union {g}
  /\ reply' = Closed(reply, Range(prompts[g]), "dropped")
  /\ prompts' = [prompts EXCEPT ![g] = <<>>]
  /\ UNCHANGED <<AskVarsButBridge, response, requests, awaiting, ended, permitVars, screen>>

-----------------------------------------------------------------------------
(* The screen: each action is one wake of its loop. *)

\* retire_withdrawn_questions on the questions qs shown at view: the others,
\* and the view stepped back by those withdrawn ahead of it, then clamped.
ViewUnclamped(qs, view) == IF qs = <<>> THEN 1 ELSE view
ClampedView(qs, view) == IF qs = <<>> THEN 1 ELSE IF view > Len(qs) THEN Len(qs) ELSE view

\* Where qs has a question that nobody waits for any more.
Withdrawn(qs) == {i \in DOMAIN qs : reply'[qs[i]] = "withdrawn"}

\* What is left of qs, in order, without the positions gone: the k-th of those
\* that stay comes k-th.
Remaining(qs, gone) ==
  LET stays == DOMAIN qs \ gone
      Nth(k) == CHOOSE i \in stays : Cardinality({j \in stays : j <= i}) = k
  IN [k \in 1 .. Cardinality(stays) |-> qs[Nth(k)]]

\* (Mutant: the view keeps its place, whatever goes ahead of it.)
RetiredInPlace(qs, view) ==
  /\ questions' = Remaining(qs, Withdrawn(qs))
  /\ questionView' = ClampedView(questions', view)

Retired(qs, view) ==
  LET ahead == Cardinality({i \in Withdrawn(qs) : i < view})
  IN /\ questions' = Remaining(qs, Withdrawn(qs))
     /\ questionView' = IF Withdrawn(qs) = {} THEN view
                        ELSE ClampedView(questions', view - ahead)

Shown == IF questionView <= Len(questions) THEN questions[questionView] ELSE 0

ScreenOnly == UNCHANGED <<running, runner, asked, batch, at, heard, reported, response,
                          requests, awaiting, prompts, over, ended, screen>>

\* (Mutant: what lands takes the place of what is pending.)
LandQuestionsAlone ==
  /\ screen = "up" /\ askSink # <<>> /\ askSink' = <<>>
  /\ UNCHANGED <<reply, permitVars>>
  /\ Retired(askSink, 1)
  /\ ScreenOnly

\* land_question_requests: one prompt wakes the loop and the rest come along.
LandQuestions ==
  /\ screen = "up" /\ askSink # <<>> /\ askSink' = <<>>
  /\ UNCHANGED <<reply, permitVars>>
  /\ Retired(questions \o askSink, questionView)
  /\ ScreenOnly

LandPermissions ==
  /\ screen = "up" /\ permitSink # <<>> /\ permitSink' = <<>>
  /\ permits' = permits \o permitSink
  /\ UNCHANGED <<reply, askSink, permission>>
  /\ Retired(questions, questionView)
  /\ ScreenOnly

\* tick_wake: no run is live, so nobody waits for either sheet.
TickWake ==
  /\ screen = "up"
  /\ IF running
     THEN UNCHANGED <<reply, permission, permits>> /\ Retired(questions, questionView)
     ELSE /\ reply' = Closed(reply, Range(questions), "dropped")
          /\ permission' = [p \in Permissions |->
                              IF p \in Range(permits) /\ permission[p] = "asked"
                              THEN "over" ELSE permission[p]]
          /\ permits' = <<>>
          /\ Retired(<<>>, 1)
  /\ UNCHANGED <<askSink, permitSink>>
  /\ ScreenOnly

\* permission_key: y, n and Esc answer the front request, if it is still open.
PermissionKey ==
  /\ screen = "up" /\ permits # <<>>
  /\ permission' = [permission EXCEPT ![Head(permits)] = "over"]
  /\ permits' = Tail(permits)
  /\ UNCHANGED <<reply, askSink, permitSink>>
  /\ Retired(questions, questionView)
  /\ ScreenOnly

QuestionSheetUp == screen = "up" /\ permits = <<>> /\ Shown # 0

\* resolve_pending_question: Enter sends labels, Esc an empty answer.
AnswerKey(as) ==
  /\ QuestionSheetUp
  /\ reply' = Closed(reply, {Shown}, as)
  /\ LET rest == RemoveAt(questions, questionView)
     IN Retired(rest, ClampedView(rest, questionView))
  /\ UNCHANGED <<askSink, permitVars>>
  /\ ScreenOnly

\* step_question_view
WalkKey(forward) ==
  /\ QuestionSheetUp /\ Len(questions) >= 2
  /\ UNCHANGED <<reply, askSink, permitVars>>
  /\ Retired(questions, IF forward THEN (questionView % Len(questions)) + 1
                        ELSE IF questionView = 1 THEN Len(questions) ELSE questionView - 1)
  /\ ScreenOnly

\* The run loop returns: its receivers go, the two queues stay with the app.
ScreenLeaves ==
  /\ screen = "up" /\ screen' = "left"
  /\ reply' = Closed(reply, Range(askSink), "dropped") /\ askSink' = <<>>
  /\ permission' = [p \in Permissions |->
                      IF p \in Range(permitSink) /\ permission[p] = "asked"
                      THEN "over" ELSE permission[p]]
  /\ permitSink' = <<>>
  /\ UNCHANGED <<running, runner, asked, batch, at, heard, reported, response, requests,
                 awaiting, prompts, over, ended, questions, questionView, permits>>

ApprovalsOver == screen = "left" /\ ~running /\ UNCHANGED approvalVars

BridgeStep(g) == \/ BridgeReceives(g) \/ BridgeEnds(g) \/ BridgeAwaits(g)
                 \/ Forwards(g) \/ SupervisorEnds(g)

ApprovalsNext ==
  \/ RunStarts \/ (\E n \in 1 .. MaxBatch : Asks(n)) \/ Hears
  \/ (\E p \in Permissions : AsksPermission(p))
  \/ RunFinishes \/ RunCancelled \/ RunnerRebuilt
  \/ \E g \in Runners : BridgeStep(g)
  \/ LandQuestions \/ LandPermissions \/ TickWake
  \/ PermissionKey
  \/ (\E as \in {"answered", "dismissed"} : AnswerKey(as))
  \/ (\E forward \in BOOLEAN : WalkKey(forward))
  \/ ScreenLeaves \/ ApprovalsOver

\* Tasks that can go on do: the runtime polls every woken task, the tick comes
\* by the clock.  Nothing is assumed of the user, of the model or of a run.
ApprovalsFairness ==
  /\ WF_approvalVars(Hears)
  /\ \A g \in Runners : WF_approvalVars(BridgeStep(g))
  /\ WF_approvalVars(LandQuestions) /\ WF_approvalVars(TickWake)

ApprovalsSpec == ApprovalsInit /\ [][ApprovalsNext]_approvalVars /\ ApprovalsFairness

-----------------------------------------------------------------------------
(* Properties. *)

\* What the model is told of a question is what the user did with that very
\* question: an answer given in any order, in a batch walked back and forth,
\* is heard, and nothing else is (the bridge forwards in the batch's order).
ReportsAreTrue ==
  \A q \in Questions : reported[q] # "nothing" =>
                         (reported[q] = "answer" <=> reply[q] = "answered")

\* Whoever waits can still be answered: an awaited question is on its way to
\* the bridge, or the bridge waits for it with its prompt on its way to the
\* user, on the sheet or answered; a call's permission request likewise.
WaitsCanEnd ==
  /\ \A q \in Awaited : response[q] = "open" =>
       \/ \E b \in Range(requests[runner]) : q \in Range(b)
       \/ /\ q \in Range(awaiting[runner])
          /\ reply[q] = "open" =>
               q \in Range(prompts[runner]) \union Range(askSink) \union Range(questions)
  /\ \A p \in Permissions : permission[p] = "asked" =>
       p \in Range(permitSink) \union Range(permits)

\* The sheet keeps the question it shows until the user walks: questions that
\* land, are withdrawn ahead of it or are answered elsewhere never put another
\* one under the next key press.
TheShownQuestionStays ==
  [][(Shown \in Range(questions') /\ ~\E forward \in BOOLEAN : WalkKey(forward))
       => Shown' = Shown]_approvalVars

\* Who asks is served: a question of the call reaches the sheet, is settled or
\* the call ends, whatever the bridge still holds of an earlier call.
AsksReachTheSheet ==
  batch # <<>> ~> \/ batch = <<>> \/ screen = "left"
                  \/ \E q \in Awaited : q \in Range(questions) \/ reply[q] \in Settled
=============================================================================
