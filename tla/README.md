# dch: a verification project in TLA+

dch is a terminal coding agent: the user types prompts into a screen, a driver
task feeds them one at a time to an agent run (the external `loopctl` engine),
and a writer thread keeps the conversation on disk. The hard part of the program
is not any one of these but what passes between them: words the user typed that
a run may claim, that may be edited, corrected, steered or dropped while they
are on their way, and a conversation that is saved in two halves by a thread of
its own while the session is cleared, resumed, left or killed.

Around a run stand the parts it works with: shell commands and background jobs,
the questions and permissions it asks of the user, the plan it keeps and is
reminded of, the language servers it queries, and the headless mode in which a
supervisor waits for its verdict.

This directory models the two protocols and six components around them,
model-checks all of it with TLC and proves the central safety properties with
TLAPS. Paths below are relative to the repository; `tui.rs`, `session.rs`,
`resume.rs`, `headless.rs`, `signals.rs`, `done.rs` and `main.rs` are under
`crates/dch/src`, `app.rs`, `observer.rs`, `queue.rs` and `todo_view.rs` under
`crates/dch-tui/src`, `jobs.rs`, `bash.rs`, `ask.rs`, `todo.rs`, `lsp_tool.rs` and
`lsp/` under `crates/dch-tools/src`, `question_bridge.rs`, `runner.rs` and
`todo_nudge.rs` under `crates/dch-loop/src`.

## 1. Inventory

| Component | State it keeps | Operations | Hard behaviour | What makes it correct |
|---|---|---|---|---|
| waiting queue (`queue.rs`) | prompts with ids, next id | push, remove, replace, index_of | the panel and the driver hold ids across each other's changes | ids ascend and are never given twice; an id that is gone resolves to nothing |
| interactive driver (`tui.rs`, `run_driver_loop`) | the revived buffer, the last claim, the cancelled correction | claim, correct and cut, pull on a cancel, session commands, exit drain | submissions arrive while a run is awaited; a cancel may be the user's, a correction's or the exit's | prompts go out in order, once; a cut takes only the superseded turn; the exit forgets no words |
| waiting section of the screen (`app.rs`) | mode of the sheet, view, editor, ask, hidden row | submit, walk, drop, steer, edit, correct, cancel, quit | the queue moves under an open editor or ask | what the user confirms happens to what he confirmed it for |
| observer state (`observer.rs`) | live claim, correction cancel, pins, graduations | set by driver, engine observer and panel | shared by all three | a cancel stops only the turn it names; a pin stands for words no model has read |
| steering slot (`guidance.rs`, engine) | offered words, open or sealed, what was drained for a turn | offer, drain, turn start, seal, take back | a run that ends between the drain and the turn; a steer offered there; the slot of a replaced runner | a steer no turn reads waits again, once |
| transcript writer (`tui.rs`, `TranscriptWorker`) | one slot per half, the flag, the saver cell | publish, save, rotate, retarget, join | a thread beside the runtime, a condvar, a shutdown | no lost wakeup; the exit loses nothing |
| session store and resume (`session.rs`, `resume.rs`) | `session.json`, `machine.json` per session | save by rename, pair rule, derive, adopt | crash or failed write between halves | a resume covers the saved transcript's ended turns |
| headless mode, done file (`headless.rs`, `done.rs`, `main.rs`) | the stage, the exit code, the marker, the two saves | clear a stale marker, construct, run, record, save, return | interrupts in every stage, at the hand-off and after the outcome; writes that fail | the marker a supervisor reads agrees with the exit code |
| signals (`signals.rs`) | two bridges, the repeat window | first press cancels, a repeat exits, the host stops a bridge | a press at the window's edge or at the stop; two bridges at once | a recorded outcome stands; a stop is heard |
| background jobs (`jobs.rs`, `bash.rs`) | job table, id counter, process groups and their guards | spawn, finish, poll, clean up, evict, time out, drop | finish against clean-up and eviction, helpers that outlive their command, the two ends of the process | a poll tells what became of that job; a result goes only for newer ones; a guard kills what is cut, and nothing else |
| permission and question bridges (`ask.rs`, `question_bridge.rs`, `app.rs`) | one-shots both ways, the batch, the queues of a generation, the two sheets | ask, forward, answer, dismiss, withdraw, land, retire, rebuild | answers out of order, a cancelled run, a replaced runner, a screen that leaves | the report is what the user did; whoever waits can be answered; the sheet keeps the question it shows |
| todo store and its section (`todo.rs`, `runner.rs`, `todo_view.rs`, `app.rs`) | the store, the list in the history, the section, two buffers between | write, claim, commit, cut, switch, frame | a retirement and a refiling drained together; a runner rebuilt from the history | the section tells the plan; it moves by its law; a switch keeps the work |
| reminders (`todo_nudge.rs`) | gate, dampers, the run's shape | consult, tool hook, follow-up | a turn that is prepared again, writes between, the exit | neither repeated within a window nor silent for one |
| language servers (`lsp_tool.rs`, `lsp/`) | the pool, a client's pipes, ids and documents, the server | find or start, publish, ask, read, time out, evict, drop | two mutexes held over awaits, calls dropped midway, silent or dying servers, files edited meanwhile | a call's answer is its own; every call ends |
| write gate, redaction guard (`write_target_gate.rs`, `redaction_guard.rs`) | none | refuse a write on what its target is or holds | looked up before, used after | the window behind the check is the operating system's |
| submit and linter; file, search and web tools | caches at most | — | — | content and layout only |
| rendering, configuration, start-up | what is shown, what was parsed | — | — | layout and parsing |

How they interact. The panel and the driver are two tasks of one
`current_thread` runtime. The panel sends `Submission`s over an unbounded channel
and the driver answers with `SessionUpdate`s; prompts themselves stay in the
shared queue and a submission names one by id, so the words are read at the
claim. The engine calls the observer during a run. The panel's frame drains what
the observer left (graduations, errors, histories) into the transcript and fires
the turn-end hook, which publishes both halves to the writer; the driver
publishes the engine's half when a run resolves. The exit raises one flag, stops
the run, echoes what waits, gives the driver 500 ms, echoes what the driver
rescued, and joins the writer. A run's tools reach the other components through
the runner's context: the asking tool sends a batch to the bridge of the runner's
generation, which hands its prompts to a supervisor and so to the screen; the
plan's store is written by the tool, retired at a claim and seen by the screen
through the observer; a shell command and a query of a language server are futures
of the run that a cancel drops where they await.

## 2. Modules

| Module | Models |
|---|---|
| `PromptQueue` | the waiting queue as operators on sequences of [id, text] |
| `SessionState` | the state shared by panel and driver, the driver's locals, the panel's fields, the type invariant's parts |
| `DriverLoop` | `run_driver_loop`, and (external) the engine run it awaits |
| `QueuePanel` | the panel's keys, frames, updates and exit |
| `PromptSession` | the composition, fairness and the properties |
| `PromptFate` | the abstract specification: each committed wording is sent, let go or shown unsent, one of the three, for good |
| `PromptDocs` | three statements of the docs the code does not keep |
| `PromptOrderProofs`, `PromptWordProofs` | the theorems about the prompt session |
| `TranscriptWriter` | the writer thread, its mailbox and the session files |
| `SessionPersistence` | what the session publishes, over launches, runs, commands, exits and crashes, with the writer |
| `PersistenceDocs` | three more statements of the docs |
| `PersistenceProofs` | the theorems about the saved session |
| `BackgroundJobs` | shell commands, their groups and guards, the table of jobs |
| `Approvals` | the asking tool, bridges and supervisors, permissions, the two sheets |
| `HeadlessRun` | one headless run with its two signal bridges, marker and saves |
| `PlanLaw` | what a write and a claim make of the plan, as pure operators |
| `StandingPlan` | the plan's store, its copy in the history and the screen's section |
| `PlanNudge` | the reminders of a run |
| `LanguageServer` | the pool, the clients' pipes and the servers of one root |
| `PlanProofs`, `JobsProofs`, `LspProofs`, `ApprovalsProofs` | the theorems about these; `PlanProofs` is about the plan and its reminders |
| `ToolsProofs` | the theorems about the headless run, and about the six side by side |
| `MCPromptSession`, `MCSessionPersistence`, `MCTools` | the modules TLC starts from |

`PROJECT.json` maps every definition to the lines it stands for.

### 2.1 The prompt session

A *wording* is one text the user committed: a prompt submitted, an edit saved, a
steer sent. Wordings are numbered in the order they were committed, so a property
can say of each what became of it. The text itself is never looked at.

Atomicity. Both tasks run on one thread, so a task keeps the thread from one
await to the next. `holder` names the task inside such a stretch: the driver
keeps it through every iteration that reaches no await (`TakeRevived`,
`TakeChannel`, `Park`, `Leave`) and gives it up when it parks, awaits a run or
awaits a command. The panel's keys of one wake-up are drained before its next
frame (`PanelTurn`, `drain_ready`), while the driver may run between two wake-ups.
The engine's own steps (`DrainsSlot`, `TurnStarts`, `SlotSeals`, `RunResolves`)
happen while the driver awaits. A turn boundary is two of them (`TurnBoundary`): the
engine drains its slot for the turn it prepares, and may give that turn up and prepare
it again (`todo_nudge.rs:1304`); then the turn starts, its words go to the model, and
`on_turn_start` graduates every pin, those of steers offered since the drain among
them. That order is the one the tests rely on (`runner.rs:7524`, `tui.rs:7149`). A run
that ends before the prepared turn starts gives the drained words back with the rest
of the slot (`SealedSlot`; `Unread` is what `take_returned` finds): the law of `runner.rs:7638`, a
steer reaches the model or comes back, never both and never neither.

State. `queued` and `nextId` are the queue; `channel` the submissions on their
way, with the words of a correction inside; `revived` what an earlier peek pulled
ahead of a cancelled run's correction; `lastClaim` the newest claim and the
committed length its turn starts from; `history` the committed history, one
element per unit, holding the wordings whose turn wrote it, so that a cut or a
fold can be judged by what it takes; `landed` the user rows of the transcript.
The last seven variables of `SessionState` are remembered for the properties
only, and no action's guard depends on them except through the named bounds.

Left out, because nothing in the protocol depends on it: the arms for a closed
channel (the panel outlives the driver), the refusal of a blank prompt, the
display fold posture, the engine's snapping of a rewind to a message boundary
(the lengths are what the driver compares), slash-commands sent with Ctrl+S,
overlays that cover the sheet, an external SIGINT, and the id counter's
saturation at `u64::MAX`.

### 2.2 The saved session

A *turn* is one answer of the model. A snapshot is the set of turns its half
carries, which of them had ended when it was taken, the session it is pinned to,
and its `saved_at`. A stretch of panel or driver that publishes (the hook
publishes display, then machine) leaves its snapshots in `owed`; they reach the
mailbox one by one with the writer free to act between them, and nothing else of
the session moves before the debt is paid. The writer holds the mailbox's mutex
from its look to its sleep (`wpc = "waiting"`), so a publish and the shutdown
flag wait for it (`LockFree`). Each write is a rename and therefore atomic; it
may fail, and then leaves the old file. `Crash` may come at any step. A live
resume reads the two files in two steps, with the writer free between them, and
adopts them after an await.

`clock` only orders the stamps. The View of `MCSessionPersistence` replaces each
stamp by its rank among those that still stand in the mailbox, the writer's hand,
the files and a pending resume; no guard and no property compares a stamp with
anything else, so two states with equal views have the same futures.

Left out: listing and choosing sessions, corrupt files and unknown formats (both
degrade to an absent half), the guard of `resolve_resume_in` (`resume.rs`) against
a long transcript beside a far shorter machine half, the filter of nudge and
redacted rows, user rows, token accounting, the terminal guard's failure path, a
clock that steps back, poisoned locks, spurious wakeups (the loop looks again),
and headless saves.

### 2.3 The components around a run

*`BackgroundJobs`.* A call is a future of `execute_command`: `spawned` until its
first poll makes the child and arms the guard, `running` until it is ready, timed
out or dropped. Its group is a leader and at most one helper, which holds the
pipes (`piped`, so the command is not done) or not (`apart`). `Dropped` is the
guard's drop: what is armed is killed with its group; a finish disarms first. A
finishing background task writes its result where its entry still stands and
prunes the oldest results beyond the cap. The process ends by returning from
`main`, which drops the runtime and every future in it, or by
`std::process::exit`, which drops nothing. `CappedSizes` is `cap_job_payload` on
sizes, with the two halves cut back to character boundaries. The test run of the
submit tool has the same group, budget and guard as a foreground command.

*`Approvals`.* Questions are numbered in the order asked. `response` is the
one-shot from the bridge to the tool, `reply` the one from the screen to the
bridge; each is open once it is made and closes once: answered, dismissed or
dropped by its sender, unheard or withdrawn by its receiver. A generation's bridge
takes one batch at a time and waits for its prompts in the batch's order, while
the screen answers in any. Every action of the screen is one wake of its loop and
ends with `retire_withdrawn_questions` (`Retired`). A rebuilt runner has a bridge
and a supervisor of its own; the old ones keep what they hold. The tool's arm for
a closed channel is never taken and is not an action: a bridge that ends drops the
batch's one-shots with its channel, and the answer or the drop wins.

*`HeadlessRun`.* `stage` is where `run_headless_inner` awaits. Between the run's
resolution and the stop of its bridge there is no await, so the outcome, the two
saves and the stop are one action. A bridge task has the signals its streams hold
and the stop it was sent; equal signals coalesce. The construction bridge selects
at random, the run's bridge with the stop first. `trouble` remembers which file
operations failed.

*`PlanLaw`, `StandingPlan`.* A plan is a function from ids to status and filed
wording. A wording is `plain` or `whole`: the latter spans lines and reads back
from a rendered page as its first line. `events` are the graduations the screen
has not drained, `retired` the entries a claim took away, each stamped by the edit
that took it; `Frame` folds both into the section. A run that is cancelled or fails
may have the partial turn's list committed by the engine's salvage or not
(`observer.rs:1516`). A steered prompt's *sent* event
finds a run live and changes nothing of the section, so it is left out.

*`PlanNudge`.* `Consult` is `pending_reminder`, asked at the top of a turn and
asked again when the engine prepares the turn again; what the properties count is
what it decided to give, not what the slot then delivered. `given` is emptied of the two
recurring reminders by a write, since a write is what the reminder asks for.

*`LanguageServer`.* One project root. A call stands where it awaits: at the pool's
mutex, in the handshake with that mutex held, reading the file, at the client's
mutex, writing, waiting, or evicting. A write or a read given up midway leaves its
pipe `torn`; an answer to an earlier request may still stand in `stdout`. A client
whose last handle goes takes its server along. The server reads, answers in any
order, refuses, stays silent or dies.

`MCTools` explores the six side by side. They share no state in the code but the
calls of the run, which each module lets happen at any time, so a behaviour of all
of them projects to one of each; `scene` names the one that moves, and the others
stand still.

## 3. Runs

| Run | Bounds | Checks |
|---|---|---|
| `queue` | 4 wordings, 1 command of /clear and model switch, runs of 0 to 2 units | type, order, stranding, corrections name claims, the cancel names its turn, the session implements `PromptFate`, no wording runs twice, no run past the flag, the cut takes only the superseded turn, what is said of the cut |
| `commands` | 3 wordings, 2 commands of /clear, compact, switch; folds inside runs | the cut takes only the superseded turn, with a history that shrinks under the recorded length |
| `steer` | 3 wordings, steering, 2 commands of picker, switch, live resume | the inductive invariant `SendOrder`, nothing is lost, a steer is in one place, a pin stands for words no model has read, through the drain and the turn start, no wording runs twice |
| `settles` | 3 wordings, steering, `FairSpec` | every wording settles; a quitting session ends |
| `files` | 2 turns, 2 sessions, 2 launches, 1 failed write, 2 of {run, tool row, command}, all commands | type, a resume keeps the ended turns, no lost wakeup, an exit keeps the conversation |
| `tools` | six scenes, below | types and the sixteen properties of the components around a run |
| `doc_drop`, `doc_rescue`, `doc_cut`, `doc_pair`, `doc_resume`, `doc_clear` | small | one refuted statement each, section 5 |

Why the bounds are enough. `queue`: four wordings are the smallest number at
which a claim, a correction of it, a prompt submitted between and one after can
all be in flight together, and run lengths 0, 1 and 2 separate "wrote nothing",
"one unit" and "cut between units". `commands`: two commands allow a compaction
before and after a claim. `steer`: three wordings give a steered one, a queued one
and a corrected one. `files`: two turns give a history that misses one, two
launches give a resume after every kind of end, one fault gives a pair of two
ages; the run was also passed once with three units of work and no fault. The
counters `typed`, `commandsSent`, `turns`, `minted`, `launches`, `work`, `faults`
are capped by guards with the named constants. `MaxIds` stops the user from
steering the queue on and on: a steer that waits again gets a new id, and with
three ids one that was sent straight from the composer, which is bound by the
number of wordings only, can come back, be steered from the queue and come back
once more. Within these bounds a wording is pinned before the drain, between drain
and turn start, and after the start; the drain comes more than once for a turn;
and the run ends, is cancelled or is taken down by the exit in each of these.

`tools` (about 600,000 states): three shell commands and a table that keeps one
finished job, so that a finish evicts another's result and a late one finds its
own gone; output sizes on both sides of every cut of the cap. Three questions in
batches of one or two, two runners, a permission beside them: a batch behind a
batch, an old bridge beside a new one, and a question landing while another is on
the sheet. Three interrupts, so that a repeat meets the window, its edge and the
stop, with every file operation able to fail. A plan of two entries with both
wordings, two writes of one entry each and two claims, the second of which retires.
One task, two runs of six turns with windows of two, so that a window opens,
closes and opens again. Two queries, two servers, one file edited once: a second
call behind the first, on its client or on a new one.

Deadlock is checked in every run: a session that is over stutters by
`SessionOver` (`Over` in `SessionPersistence`, `JobsOver`, `ApprovalsOver`,
`HeadlessOver`, `NudgesOver` and `QueriesOver` in the components), so any other
stop is an error. `StandingPlan` needs none: a runner may be switched for ever.

### Fairness (`settles`)

Strong fairness of the driver's step, of the run's and the command's end, of the
frame and of the update; weak fairness of the exit's steps. The runtime polls
every ready task again and again; frames are drawn on a tick; a run ends (it
answers, fails or is cancelled) and so does a command. Strong, because a panel
that keeps drawing takes the thread between any two of the driver's steps, so
they are enabled again and again but not continuously. No fairness is assumed of
a key or of the terminal. The exit's bound (`DriverAborted`) is weakly fair, as a
timer is.

In `tools`: weak fairness of a woken task. Of `Approvals` those are the tool's
wait, each generation's bridge and supervisor, and the screen's landing and tick;
nothing is assumed of the user, of the model, or that a run ends, and
`AsksReachTheSheet` asks only that a question gets to the user. Of `HeadlessRun` the
signal driver, the two bridge tasks and the host's return from an await; nothing
makes a run resolve or a user press. Of `LanguageServer` every step of a call
except its writes, since the server owes no room in its pipe: a write may hang,
and then the budget ends it. The tasks are independent futures of one runtime that
polls what is woken, and the budgets are timers.

The session-saving properties are safety only: the writer's liveness is covered
by `NoLostWakeup`, which says it never sleeps on work.

## 4. Properties

*Prompts.* `InOrder`: claims go out in submission order, each id once.
`NoneStranded`: until the exit's flag every waiting prompt has its submission on
its way, although a pull reorders buffers, an edit moves none and a returned
steer is given a new id. `CorrectionsNameClaims`, `CancelNamesItsTurn`: a
correction is of a prompt that went out, and its cancel, raised on the signal all
turns share, never stops another: the prompt in the editor may have been claimed, its
turn have ended and the next one be in flight by the time the edit is saved.
`CutTakesOnlySuperseded`: the length recorded at a claim is used later, after runs,
folds and commands, and never takes another turn's answer. `CutIsSaid`: where no fold
comes between, silence about the cut means the superseded words are gone (section 5
says what a fold does to the notice). `NoWordingRunsTwice`, `NoRunPastTheFlag`. `ImplementsFate`: the
refinement mapping sends a row of the transcript (or one on its way) to *sent* or
*unsent*, and a drop, a /clear, a resume's sweep or an edit to *let go*; every
step of the session is a step of `PromptFate` or a stutter, in particular the
exit leaves no wording behind. With steering a steer that was pinned may be shown
as steered and still wait again, so `steer` checks `NothingLost`,
`SteerInOnePlace` and `PinsStandForWords` in its place. The last says that a pin
stands for words no model has read: they are in the slot, or drained for a turn that
has not started. It must survive a steer offered between drain and start, a second
drain, a run that ends between the two, a take-back and a replaced runner.
The converse does not hold, and is not claimed: words may wait in the slot with their
pin gone (section 5).

*Saved sessions.* `ResumeKeepsEndedTurns`: however the program ends, what a
resume gives the engine covers every turn of the saved transcript that had ended
when that transcript was saved. `ExitKeepsTheConversation`: after an exit that
was waited for, the transcript's file carries what the screen showed, and a
resume what the engine held of it. Both except a session that a live resume
moved onto (`revisited`), because there the code does not keep them:
`ResumeIsComplete` is refuted, and a live resume also reads the disk while the
writer still holds a newer save of the same session. `NoLostWakeup`: the writer
never sleeps while a snapshot or the stop waits.

*Around a run.* `PollsTellTheJob`: a poll is right, whole and stays true, whatever
finishes, is cleaned up or evicted between two polls. `EvictedOnlyForNewer`,
`GuardsKillWhatIsCut`: a result leaves the table for a full cap of newer ones; a
process that returns leaves nothing alive of an unfinished command, and a helper
set apart survives its background command's finish. `ReportsAreTrue`: the model is
told of each question what the user did with that one. `WaitsCanEnd`: an awaited
question is on its way to someone who can settle it, across a rebuild.
`TheShownQuestionStays`: nothing but a walk puts another question under the next
key. `AsksReachTheSheet`: an old batch the bridge still holds does not starve a new
one. `MarkerTellsTheExit`, `OutcomeStands`, `StopsAreHeard`. `SectionTellsThePlan`:
the section and the store agree once the screen has drained, although retirements
and lists reach it by two ways; a switch may part them until the next call.
`PlanMovesByRungs`, `SwitchKeepsTheWork`. `RemindersKeepTheirPace`: no reminder twice
in a window, no drifting run without one for a window. `AnswersAreOnesOwn`: a call's
answer is to its own request on the text it read. `QueriesEnd`: no server, however
silent, holds the calls for ever.

## 5. Where the code and its docs part

The six below are runs. Each is a run that TLC refutes; the counterexample is short and can be followed
in the source.

- `doc_drop`. The user raises the drop ask on the prompt under the view; before
  `y` the driver claims it and the next prompt moves under the view;
  `drop_queue_entry` (`app.rs`) drops that one. `queue.rs` says prompts are
  addressed by id so that claim and drop "can both arrive late and still be right
  about which prompt they mean".
- `doc_rescue`. The exit waits 500 ms for the driver; a run that has not resolved
  is aborted, and a correction still in the channel goes with it.
  `rescue_stranded_corrections` says every correction still buffered at the exit
  drain is collected "rather than dropped with the channel".
- `doc_cut`. A live resume replaces the history but leaves `last_claim`; a
  correction of the prompt claimed before it cuts the adopted history at the old
  length, which takes turns of the resumed conversation.
- `doc_pair`. After one failed run the history is known (empty). In the next
  run's turn a tool row fires the hook: the transcript shows the answer, the
  re-stamped history does not have it, and the pair looks fresh. A crash there
  resumes without the answer. `load_machine_in` says that a stale half would
  "silently drop" turns and is therefore not taken.
- `doc_resume`. A crash between the two halves' first writes leaves a transcript
  without a history. A launch derives the history from the transcript; a live
  resume (`outcome.machine.clone().unwrap_or_default()`) gives the engine nothing,
  and publishes the nothing as the session's newest history.
- `doc_clear`. /clear moves the saver to a fresh id; `machine_history` still holds
  the cleared conversation, and the next hook fire before a turn ends (the exit's
  flush with a prompt waiting, a model switch) writes it under the fresh id. A
  resume of that session brings the cleared conversation back to the engine.

Smaller ones, seen in the model and not given a run of their own:

- A correction that a cancel caught is not always the very next turn: submissions
  that stood ahead of it in the channel go first (README.md:291, `tui.rs:1403`).
- `adopt_resumed_session` empties the queue of "those prompts [that] belonged to
  the conversation that just ended" (`app.rs:2486`); prompts submitted while the
  resume was being applied are among them.
- A steer pinned between `DrainsSlot` and `TurnStarts` is graduated by that start and
  shown as steered, although its words still stand in the slot
  (`observer.rs:1045`, `observer.rs:1462`). If the run ends there they come back and
  go out again as a prompt, below a row that says they were read.
- The row hidden for its claim's hop is not always the queue's last
  (`app.rs:6795`).
- Under a fold inside the run the notice of a cut may say nothing or that the
  turn "never wrote" (`tui.rs:1351`, `tui.rs:1360`, `tui.rs:1378`).
- An exit right after /clear names a session whose file may not exist
  (`tui.rs:526`).
- The mailbox has one slot per half: a save under the fresh id takes the place of
  the ended session's last one if the writer has not looked in between. The /clear
  key itself empties the transcript, so a frame drawn before the driver's rotate
  rewrites the ended session's file with what is left.
- A model switch's update that is applied after a resume has moved the cell saves
  the old transcript under the resumed id, until the resume's own update lands.
- A batch's wait does not end on its first dismissal (`app.rs:4801`): `ask.rs`
  passes over it and waits for the questions behind it.
- A finished or cancelled run does not itself empty the pending permissions
  (`app.rs:1938`): the next tick at rest does.
- A burst of keys drained in one wake (`drain_ready`) may answer a question or a
  permission that was never drawn, once the one before it is answered.
- Every model switch leaves the old generation's supervisor and bridge behind, for
  as long as the screen is up.
- A repeat that lands as the window closes is downgraded (`signals.rs:305`) when it
  is taken after the close: the interrupt is classified by the clock at that time.
- "A repeat interrupt still exits 130" once the outcome is recorded
  (`headless.rs:271`, `headless.rs:449`) does not come about: the bridge is stopped
  in the same stretch, and its select looks at the stop first.
- The construction bridge's select is not biased: an interrupt it already holds when
  it is told to stop may be forgotten, and the run's bridge began to listen too
  late for it ("an interrupt fails closed", `signals.rs:454`).
- A result may be evicted before it was ever polled; `EvictedOnlyForNewer` says
  when.
- The comparison of a row with the store's wording (`todo_view.rs:337`) fails for an
  entry whose call sent another wording than the standing one, or whose wording
  spans lines and came back from the page: its row outlives the entry.
- The section may part from the plan (`app.rs:4347`) after an interrupted run that
  had finished its plan, and after a model switch, which brings retired pending
  entries back into the store and not into the section. Neither /resume nor /clear
  empties the section.
- A call dropped in its exchange leaves the pooled client out of step, although the
  entry "is the live server for the root" (`lsp/pool.rs:75`): the next call on it
  fails, pays and evicts it, and calls queued behind with the old handle fail, too.
  While they do, a second server of the root is up (`lsp/pool.rs:3`).

## 6. Proofs

TLAPS proves the following for every number of wordings, commands and ids, every
set of commands and of run lengths, and steering, folds and timeouts on or off.
The assumptions are those `SessionState` names: the bounds are naturals,
`Commands \subseteq CommandKinds`, `TurnLengths \subseteq Nat`, the switches are
Boolean. TLC evaluates them in every run.

- `TypeCorrect` (`PromptOrderProofs`): `Spec => []TypeOK`, one lemma per action. The
  interesting ones are the sequence operators: a pulled prefix and what is left of
  the channel are sequences of submissions, a removal and a replacement keep
  prompts prompts.
- `SendOrderHolds` (`PromptOrderProofs`): `Spec => []SendOrder`, the inductive
  invariant. `InOrder` is not inductive: that the next claim is the least waiting
  id depends on the submissions on their way. `SendOrder` adds that the Run
  messages of `revived \o channel` ascend, lie above every claim and below the next
  id, that every waiting prompt is among them, and that a parked driver has an
  empty buffer (so a wake that takes from the channel takes the oldest). The proof
  rests on three facts about pending submissions: adding at the end, taking at the
  head, and moving the prefix of the channel to the end of the buffer, which
  leaves `revived \o channel` as it was; and on the lemmas on
  the queue's operators that `PromptOrderProofs` begins with.
- `PromptsGoOutInOrder`, `NoPromptIsStranded`: `InOrder` and `NoneStranded` from it.
- `NoRunStartsPastTheFlag`: the action property, from the guards of every step that
  starts a run.

The words of the session are proved in `PromptWordProofs`, on top of `TypeOK` and
`SendOrder`:

- `CancelsNameTheirTurn`: `CancelNamesItsTurn` is not inductive: a correction cancels
  whatever `live_claim` names. `TurnNamed` adds that a claim is in flight only while its
  run is, and is then the newest claim; the start of a run takes the flag down.
- `PinsHoldWords`: `PinsStandForWords` is inductive with the types. What the panel pins
  it put into the slot in the same key. From there a drain moves the words of a pin
  but keeps them unread (`DrainKeeps`), a turn start reads what was drained
  (`TurnReads`) and empties the pins, those of steers it does not read too, and a
  take-back takes a wording and its pin together.
- `EditedHolds`, `CorrectionsHitClaims`. What a correction names was once the entry of
  the open editor. `Edited` follows that entry: it waits, was claimed, or went with a
  session that was resumed over it. The second theorem excludes the last case by its
  hypothesis `"Resume" \notin Commands`; with `/resume` the property is false, since a
  resumed session takes the queue from under the editor.
- `WordsHold`: the inductive invariant of the words. `WordFacts` says that each place
  (queue, editor, slots, corrections on their way, the live run, rows, words let go)
  holds a wording once; that no two places hold the same one (`Apart`); that what could
  still go out has not (`SentOnce`); that a wording not settled is somewhere (`Kept`);
  and that it settles once (`SettledOnce`). Every step of the session is one `WordMove`:
  a wording is committed, moved between two places, claimed, steered, settled or
  returned; that each kind of move keeps the four facts is proved once (`MovesHold`), and
  each action is shown to be a move (`StepMoves`). `ExitPlaces` says which places the
  exit has emptied.
- `SteersInOnePlace`, `NothingIsLost` and `WordingsRunOnce` follow. `NothingIsLost`
  assumes `~MayTimeOut`: a driver aborted at the bound takes its corrections along.
- `SessionImplementsFate`: the refinement `Spec => ImplementsFate`, step by step. The
  mapping takes settled wordings to the abstract ones; a word move that settles nothing
  is a stutter, a commit or a settlement is the abstract step of that name. It assumes
  `~MaySteer` (a steered wording has its row and may come back to the queue, so it may
  settle twice) and `~MayTimeOut`. TLC checks it with the same switches (`queue`).
- `CutsHitTheirTurn`: a cut removes only what the superseded turn wrote. The history is
  not enough to see this: `RunNamed` says which claim the live run answers, `TailClaimed`
  that past the length recorded for the newest claim only that claim's words stand. The
  hypothesis is `"Resume" \notin Commands`; `doc_cut` shows what a resumed history does.
- `SilentCutsAreClean`: `CutIsSaid`. `HeadOthers` says that up to the recorded length
  nothing of the newest claim's turn stands, `HistorySent` that the history holds only
  words that went out. It assumes `~MayFold` and `"Compact" \notin Commands`: a fold may
  bring the turn's words below the length and leave the history no shorter.

The saved session is proved for any number of launches, sessions, turns, commands and
failures (`PersistenceProofs`); `SessionPersistence` assumes of its bounds that they
are naturals, and of `Commands` that it holds commands.

- `SavedTypesHold`, `WriterIsAlwaysWoken`, `ResumeNeverLosesEndedTurns` follow from
  `SavedStaysPaired`, whose inductive invariant `Paired` has four parts. `Grounded`
  says which states of the program go together: what the thread holds where it stands,
  that it sleeps only on an empty mailbox, that nothing is owed after the stop. `Dated`:
  no stamp is past the clock. `HistoriesCover`: a history at hand or owed holds all that
  the engine has. `PairsAgree`: of any two halves of one session, wherever each is (mailbox,
  the thread's hand, file), a machine half at least as new misses no turn the display half
  saw end. The property itself speaks of two files and is not inductive: a file is
  replaced by what the thread holds, which came from the mailbox.
- `NothingStaysUnsaved`, `ExitsKeepTheConversation`: `NothingUnsaved` says that while no
  write failed what the screen shows of the session is in the newest display half, paid
  or owed, and that but in a run the newest machine half has what the engine has;
  `Answered`, that nothing holds a turn that was never answered. An exit that
  waited has left every place but the file empty.

For the components around a run the constants are as free: any number of commands
and jobs, any cap and output sizes (of which only `JobBounds` is asked: the header
and the marker fit into a payload), any number of questions, generations,
permissions, presses, entries, writes, claims, queries, servers and edits.

- `TheMarkerTellsTheExit`, `TheOutcomeStands` (`ToolsProofs`). `MarkerTellsTheExit`
  speaks of the process that has ended; the inductive `ExitSettled` says what marker and
  code are in each stage before, in particular that an outcome, once recorded, is
  the marker's or the marker is in trouble, and that the bridge of a resolved run
  has been told to stop. `HeadlessTypes` is the type invariant.
- `RemindersPace` (`PlanProofs`): `NudgeSpec => []RemindersKeepTheirPace`. `PaceInv` says
  that the damper of a reminder this run was given holds the turn of the last one, for
  the plan that stands (`DampersKnow`), and that once the run has consulted, a damper set
  for that plan is such a reminder (`DampersTold`). A consult damps or adds one. `NudgeBounds` asks for windows above
  zero, as the code's constants are (3, 3 and 8): with a window of zero a turn prepared
  again would be reminded again.
- `ThePlanMovesByRungs`, `TheSwitchKeepsTheWork` (`PlanProofs`). The first follows from
  the law of `PlanLaw` and from where a claim may come; the second needs
  `ListOnItsWay`: the list in the history or in the turn in flight tells of every
  entry the standing of the last call, and the store has lost nothing since but
  what a claim retired.
- `TheSectionTells` (`PlanProofs`): `PlanSpec => []SectionTellsThePlan`. The property
  speaks of a screen that has drained what it was sent; `SectionInv` says it of what the
  screen has heard *or will hear* (`Now`, the last value of `Heard`): every entry of the
  store is there with its status and is not struck by a retirement under way, and what
  is there beyond the store is done, re-worded or struck (`HeardTells`). `EditsCounted`
  is why a claim's retirement is newer than every list, so that it strikes and no list
  sent before brings the row back; `WholeAsFiled` is why an entry read back from a page
  has another wording than it was filed under. What `Heard` computes for a list of
  graduations is shown by induction: were two folds to differ somewhere, they would
  differ at a least place. The property excludes a rebuilt runner, and so does the
  theorem.
- `PlanTypes`, `ReminderTypes` (`PlanProofs`) and `ApprovalTypes` (`ApprovalsProofs`) are
  the type invariants; that no count passes its bound needs that a write, a claim or a
  turn is only taken below it.
- `JobTypes`, `ThePollsTellTheJob`, `EvictionsMakeRoom`, `TheGuardsKill` (`JobsProofs`).
  `JobsInvariant` ties the table to the calls: an id belongs to one call, ids ascend
  with the spawns, an entry is Running just as long as its call lives, and what was
  told as gone is below the counter. Eviction rests on lemmas about the k smallest
  members of a finite set. That the cap leaves room for the header is arithmetic.
- `LspTypesHold`, `EachHearsItsOwn` (`LspProofs`). `LspInvariant` follows a request
  through the client's pipes: the ids in the pipes and in the server's hands are
  below the client's counter, no id stands twice, the texts on their way to the
  server end in the one the holder of the client published, and so the reply with
  the holder's id carries the holder's text. A torn pipe yields nothing that is
  taken for an answer.
- `TheReportsAreTrue` (`ApprovalsProofs`). `AskInvariant` says that a question is in one
  batch on its way to a bridge, once, and that nobody knows of it until it gets
  there; that what the tool hears of it is what the screen did with it; that the
  tool has heard of every question before its place in the batch; and that what is
  reported can change no more. `SentOnce` is what makes it inductive: a bridge that
  ends drops every batch it was sent, and no one else shows those.
- `EveryWaitCanEnd`, `TheShownOneStays` (`ApprovalsProofs`) need to know where a question
  is. `QueueInv` says that a batch holds a question once, that a prompt is in one
  place, once, and in none before its bridge opened it, and that an open question of the
  call is with the runner's bridge or on its way there, its open prompt on the sheet or
  on its way there; `PermitInv` says the last of permissions. That the sheet keeps its question is a fact about positions: of the
  entries that stay, the one at position p moves to the number of staying positions up
  to p. `RankGrows`, `RankOnto` and `RankIsShift` say this of any set of positions, by
  cardinalities; they are why `Remaining` names the k-th staying entry by counting
  and not as a filter.
- `EachByItself` (`ToolsProofs`): `ToolsSpec` implies the specification of each of the six
  components, fairness included, since a step of one is a stutter of the others.
  `ToolsTypes` (`ToolsSpec => []ToolsTypeOK`) and `TheToolsKeepTheirPromises`, which lists
  the safety properties of `tools`, follow from the theorems above.

Only model-checked:

- Liveness: `Spec` with fairness is out of the prover's reach.
- What a hypothesis above leaves out: the fate of steered wordings, sessions that resume
  another and histories that fold, as far as the runs check them.

## 7. Not modelled

- The write gate and the redaction guard. Each is one check in front of a call and
  keeps nothing between calls. The gate's look-up may be out of date when the write
  comes; `write_target_gate.rs` says that this window is not its own, and nothing in
  the code closes it. The guard lexes shell commands and matches patterns over
  texts.
- Submit and linter, file, search and web tools: one call in, text out. Of submit
  only its test command lasts, and that is a foreground command of `BackgroundJobs`.
- Rendering, key bindings, configuration, arguments, start-up, provider profiles and
  the context probe: layout and parsing. The bulk of `app.rs` is of this kind, as are
  most lines of `runner.rs`, which composes the external engine, and about half of
  the source is tests inside the modules. The modules therefore cover the lines that
  carry state from one step to a later one, and a small share of all lines.
- The engine is external and appears only as what the code relies on: the slot of a
  steer, the fold of a history, the drop of a cancelled dispatch.
- Inside the modelled components: what sections 2.1 and 2.2 leave out; which
  commands `bash.rs` takes for read-only; the rules that decide whether a call asks for
  permission; refusals of malformed plan calls and dependencies between entries; the
  section a live resume restores; the operations' envelopes and positions of a
  language server's answers, and the loading of other files' texts after an answer,
  which holds the client and touches no pipe; the interactive session's signal
  bridge, whose cancel is the driver's.

## 8. Plan

Done: the prompt session with its proofs, the saved session, the components around
a run with their proofs.

Next, in order:

1. The section that a live resume restores, and a composition of `StandingPlan` with
   the driver's claims in place of its own.
2. A refinement for sessions that steer: an abstract fate in which a steered wording
   may come back once.

The runs are kept few, one per question; as components are added, the refuted
statements move into fewer modules and the smaller runs are merged.
