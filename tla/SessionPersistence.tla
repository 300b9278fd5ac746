------------------------- MODULE SessionPersistence -------------------------
(***************************************************************************)
(* What the session keeps on disk, over launches, runs, session commands,  *)
(* exits and crashes: the panel and the driver publish snapshots           *)
(* (install_turn_end_hook, run_driver_loop) and the writer thread saves    *)
(* them (TranscriptWriter).                                                *)
(*                                                                         *)
(* Panel and driver share one thread.  A stretch of either, from one await *)
(* to the next, is one action here; the snapshots it publishes are its     *)
(* debt, `owed`, paid one by one so that the writer may act between them,  *)
(* and nothing else of the session moves before the debt is paid.          *)
(***************************************************************************)
EXTENDS TranscriptWriter

CONSTANTS
  Commands,     \* the session commands the user may send
  MaxWork,      \* bound: runs started, tool rows landed and commands sent
  MaxLaunches   \* bound: launches of the program

CommandKinds == {"Clear", "Compact", "Rebuild", "Resume"}

ASSUME CommandsAssumption == Commands \subseteq CommandKinds
ASSUME LaunchAssumption == MaxWork \in Nat /\ MaxLaunches \in Nat

VARIABLES
  phase,      \* where the process stands
  driver,     \* where the driver stands in a run or a command
  owed,       \* snapshots the stretch has still to publish
  shown,      \* the turns whose rows the transcript on the screen holds
  committed,  \* the turns in the engine's history
  known,      \* machine_history: the newest history the panel can re-stamp
  rows,       \* answers on their way to the transcript (graduations)
  history,    \* the newest turn-end history not yet taken (turn_histories)
  fire,       \* whether an error or a tool's row is on its way to the transcript
  commands,   \* commands on their way to the driver
  updates,    \* SessionUpdates on their way to the panel
  loaded,     \* the session a live resume has read, and its pair
  turns,      \* turns answered so far
  minted,     \* session ids minted so far
  launches,
  work,       \* runs started, tool rows landed and commands sent so far
  home,       \* which session a turn was answered in
  revisited   \* sessions a live resume moved onto

screenVars == <<shown, rows, history, fire>>
loopVars == <<committed, turns, home>>
sessionVars == <<phase, driver, owed, shown, committed, known, rows, history, fire,
                 commands, updates, loaded, turns, minted, launches, work, home, revisited>>
vars == <<writerVars, sessionVars>>

\* Option::None of machine_history and of the newest turn history.
NoHistory == {0}
Histories == (SUBSET Turns) \cup {NoHistory}
NoLoad == [session |-> 0, pair |-> NoPair]
ModelName == [kind |-> "ModelName", turns |-> {}]
Resumed(trs) == [kind |-> "Resumed", turns |-> trs]

Debt == [half : Halves, turns : SUBSET Turns, ended : SUBSET Turns]
Display(trs, history_) == [half |-> "display", turns |-> trs, ended |-> trs \cap history_]
Machine(trs) == [half |-> "machine", turns |-> trs, ended |-> trs]

TypeOK ==
  /\ WriterTypeOK
  /\ phase \in {"off", "live", "leaving", "stopping", "joining"}
  /\ driver \in {"idle", "asking", "answered", "reading", "loading", "ended", "aborted"}
  /\ owed \in Seq(Debt) /\ Len(owed) <= 4
  /\ shown \subseteq Turns /\ committed \subseteq Turns /\ known \in Histories
  /\ rows \subseteq Turns /\ history \in Histories /\ fire \in BOOLEAN
  /\ commands \in Seq(Commands) /\ Len(commands) <= MaxWork
  /\ updates \in Seq([kind : {"ModelName", "Resumed"}, turns : SUBSET Turns])
  /\ loaded \in [session : {0} \cup Sessions, pair : Pair]
  /\ turns \in 0 .. MaxTurns /\ minted \in 0 .. MaxSessions
  /\ launches \in 0 .. MaxLaunches /\ work \in 0 .. MaxWork
  /\ home \in [Turns -> 0 .. MaxSessions]
  /\ revisited \subseteq Sessions

Init ==
  /\ WriterInit
  /\ phase = "off" /\ driver = "ended" /\ owed = <<>>
  /\ shown = {} /\ committed = {} /\ known = NoHistory
  /\ rows = {} /\ history = NoHistory /\ fire = FALSE
  /\ commands = <<>> /\ updates = <<>> /\ loaded = NoLoad
  /\ turns = 0 /\ minted = 0 /\ launches = 0 /\ work = 0
  /\ home = [t \in Turns |-> 0] /\ revisited = {}

-----------------------------------------------------------------------------
(* Publishing.                                                             *)

AtAwait == owed = <<>> /\ driver # "reading"

\* The snapshots of one stretch reach the mailbox in order, display first.
PaysOne ==
  /\ owed # <<>>
  /\ Publish(Head(owed).half, Head(owed).turns, Head(owed).ended)
  /\ owed' = Tail(owed)
  /\ UNCHANGED <<phase, driver, screenVars, loopVars, known, commands, updates, loaded,
                 minted, launches, work, revisited>>

\* The turn-end hook over the transcript trs: the display half, and beside it the
\* given history or else the newest one known.
Hook(trs, given) ==
  LET newest == IF given # NoHistory THEN given ELSE known IN
  <<Display(trs, committed)>> \o IF newest = NoHistory THEN <<>> ELSE <<Machine(newest)>>

\* drain_shared_state over the transcript `base`, after the snapshots `before`:
\* what the observer finished joins the transcript, and the hook fires.
Redraws(base, before) ==
  LET drained == base \cup rows IN
  /\ shown' = drained
  /\ owed' = before \o IF rows # {} \/ fire \/ history # NoHistory
                       THEN Hook(drained, history) ELSE <<>>
  /\ rows' = {} /\ history' = NoHistory /\ fire' = FALSE

-----------------------------------------------------------------------------
(* Launching.                                                              *)

Starts(session, trs, engine, adopts) ==
  /\ phase = "off" /\ launches < MaxLaunches
  /\ phase' = "live" /\ driver' = "idle" /\ launches' = launches + 1
  /\ cell' = session
  /\ shown' = trs /\ committed' = engine
  /\ known' = IF adopts THEN engine ELSE NoHistory
  /\ owed' = <<Display(trs, engine)>> \o IF adopts THEN <<Machine(engine)>> ELSE <<>>
  /\ slot' = NoPair /\ hand' = NoPair /\ wpc' = "looking" /\ stop' = FALSE
  /\ rows' = {} /\ history' = NoHistory /\ fire' = FALSE
  /\ commands' = <<>> /\ updates' = <<>> /\ loaded' = NoLoad
  /\ UNCHANGED <<clock, files, faults, turns, work, home, revisited>>

\* A launch on a fresh session, and one that resumes session s: the engine gets
\* the saved history, the screen the transcript, and the halves are saved again,
\* the machine half only when it was adopted (seed_resumed_machine).
LaunchFresh ==
  /\ minted < MaxSessions
  /\ minted' = minted + 1
  /\ Starts(minted + 1, {}, {}, FALSE)

LaunchResumes(s) ==
  /\ Saved(s)
  /\ Starts(s, files[s]["display"].turns, ResumedHistory(files[s]), MachineCounts(files[s]))
  /\ UNCHANGED minted

Launch == LaunchFresh \/ \E s \in Sessions : LaunchResumes(s)

-----------------------------------------------------------------------------
(* A run, on the driver's side.                                            *)

Works == work < MaxWork /\ work' = work + 1

\* The driver claims a prompt.  None waits behind a /clear or a /resume, which
\* empty the queue; behind another command one may have been sent first.
RunStarts ==
  /\ AtAwait /\ phase = "live" /\ driver = "idle" /\ Works /\ turns < MaxTurns
  /\ \A i \in DOMAIN commands : commands[i] \notin {"Clear", "Resume"}
  /\ driver' = "asking"
  /\ UNCHANGED <<writerVars, phase, owed, screenVars, loopVars, known, commands, updates,
                 loaded, minted, launches, revisited>>

\* An answer took the network: the panel drew what was there before it.
CaughtUp == rows = {} /\ ~fire /\ history = NoHistory /\ updates = <<>>

\* The model answers (on_response): the row goes out before the turn ends.
ResponseLands ==
  /\ AtAwait /\ phase \in {"live", "leaving"} /\ driver = "asking" /\ turns < MaxTurns
  /\ phase = "live" => CaughtUp
  /\ driver' = "answered"
  /\ turns' = turns + 1
  /\ home' = [home EXCEPT ![turns + 1] = cell]
  /\ rows' = rows \cup {turns + 1}
  /\ UNCHANGED <<writerVars, phase, owed, shown, history, fire, committed, known, commands,
                 updates, loaded, minted, launches, work, revisited>>

\* A tool of the answer is done: its row makes the hook fire inside the turn.
ToolLands ==
  /\ AtAwait /\ phase = "live" /\ driver = "answered" /\ ~fire /\ Works
  /\ fire' = TRUE
  /\ UNCHANGED <<writerVars, phase, driver, owed, shown, rows, history, loopVars, known,
                 commands, updates, loaded, minted, launches, revisited>>

\* The turn ends well (on_turn_end): the engine has committed it, the history
\* goes to the panel and to machine_history.  The run may ask again.
TurnEnds ==
  /\ AtAwait /\ phase \in {"live", "leaving"} /\ driver = "answered"
  /\ driver' = "asking"
  /\ committed' = committed \cup {turns}
  /\ history' = committed \cup {turns}
  /\ known' = committed \cup {turns}
  /\ UNCHANGED <<writerVars, phase, owed, shown, rows, fire, turns, home, commands, updates,
                 loaded, minted, launches, work, revisited>>

\* The run resolves: the engine may keep what it salvages of a turn that did not
\* end, the driver publishes the committed history and posts the error of a run
\* that failed.  Past the exit's flag the driver ends with the run.
RunResolves ==
  /\ AtAwait /\ phase \in {"live", "leaving"} /\ driver \in {"asking", "answered"}
  /\ \E kept \in SUBSET (IF driver = "answered" THEN {turns} ELSE {}), failed \in BOOLEAN :
       /\ driver = "answered" => failed
       /\ committed' = committed \cup kept
       /\ fire' = (fire \/ failed)
  /\ known' = committed'
  /\ owed' = <<Machine(committed')>>
  /\ driver' = IF phase = "live" THEN "idle" ELSE "ended"
  /\ UNCHANGED <<writerVars, phase, shown, rows, history, turns, home, commands, updates,
                 loaded, minted, launches, work, revisited>>

-----------------------------------------------------------------------------
(* Session commands.                                                       *)

\* A command typed at rest, and the frame that follows the key.  /clear empties
\* the transcript here; the driver empties the engine when the command reaches it.
CommandKey(c) ==
  /\ AtAwait /\ phase = "live" /\ driver \in {"idle", "loading"}
  /\ Works
  /\ commands' = Append(commands, c)
  /\ Redraws(IF c = "Clear" THEN {} ELSE shown, <<>>)
  /\ UNCHANGED <<writerVars, phase, driver, loopVars, known, updates, loaded, minted,
                 launches, revisited>>

TakesCommand(c) ==
  /\ AtAwait /\ phase = "live" /\ driver = "idle"
  /\ commands # <<>> /\ Head(commands) = c
  /\ commands' = Tail(commands)

\* land_session_clear: an emptied history earns a fresh session, and the cell
\* names it from here on.  machine_history keeps what it holds.
ClearApplied ==
  /\ TakesCommand("Clear") /\ minted < MaxSessions
  /\ committed' = {}
  /\ minted' = minted + 1
  /\ cell' = minted + 1
  /\ UNCHANGED <<slot, hand, wpc, stop, clock, files, faults, phase, driver, owed, screenVars,
                 turns, home, known, updates, loaded, launches, work, revisited>>

\* The Compact command: the folded history stands for the turns it folded.
CompactApplied ==
  /\ TakesCommand("Compact")
  /\ known' = committed
  /\ owed' = <<Machine(committed)>>
  /\ UNCHANGED <<writerVars, phase, driver, screenVars, loopVars, updates, loaded, minted,
                 launches, work, revisited>>

\* A model or provider switch: a new runner over the same history, and an update
\* that has the panel save the transcript at once.
RebuildApplied ==
  /\ TakesCommand("Rebuild")
  /\ updates' = Append(updates, ModelName)
  /\ UNCHANGED <<writerVars, phase, driver, owed, screenVars, loopVars, known, loaded, minted,
                 launches, work, revisited>>

\* A live resume reads the display half from the disk, then the machine half (the
\* writer may have saved either meanwhile), and then builds the runner.
ResumeLoads(s) ==
  /\ TakesCommand("Resume") /\ Saved(s)
  /\ driver' = "reading"
  /\ loaded' = [session |-> s, pair |-> [NoPair EXCEPT !["display"] = files[s]["display"]]]
  /\ UNCHANGED <<writerVars, phase, owed, screenVars, loopVars, known, updates, minted,
                 launches, work, revisited>>

ResumeReadsMachine ==
  /\ driver = "reading"
  /\ driver' = "loading"
  /\ loaded' = [loaded EXCEPT !.pair["machine"] = files[loaded.session]["machine"]]
  /\ UNCHANGED <<writerVars, phase, owed, screenVars, loopVars, known, commands, updates, minted,
                 launches, work, revisited>>

\* The command is declined, or changes nothing.
CommandDeclined ==
  /\ \E c \in Commands : TakesCommand(c)
  /\ UNCHANGED <<writerVars, phase, driver, owed, screenVars, loopVars, known, updates, loaded,
                 minted, launches, work, revisited>>

AfterLoad == IF phase = "live" THEN "idle" ELSE "ended"

\* Mutant of Adopted: no history is taken for a history.
AdoptedUnchecked(pair) == IF MachineCounts(pair) THEN pair["machine"].turns ELSE NoHistory

\* What a live resume gives the engine: the machine half, or else nothing.
Adopted(pair) == IF MachineCounts(pair) THEN pair["machine"].turns ELSE {}

\* resume_into_session once the runner is built: the cell moves onto the session's
\* file, and then the engine's history is published under it; or the build failed
\* and nothing moves.
ResumeAdopts ==
  /\ AtAwait /\ phase \in {"live", "leaving"} /\ driver = "loading"
  /\ driver' = AfterLoad
  /\ loaded' = NoLoad
  /\ committed' = Adopted(loaded.pair)
  /\ known' = committed'
  /\ cell' = loaded.session
  /\ owed' = <<Machine(committed')>>
  /\ updates' = Append(updates, Resumed(loaded.pair["display"].turns))
  /\ revisited' = revisited \cup {loaded.session}
  /\ UNCHANGED <<slot, hand, wpc, stop, clock, files, faults, phase, screenVars, turns, home,
                 commands, minted, launches, work>>

ResumeFails ==
  /\ AtAwait /\ phase \in {"live", "leaving"} /\ driver = "loading"
  /\ driver' = AfterLoad
  /\ loaded' = NoLoad
  /\ UNCHANGED <<writerVars, phase, owed, screenVars, loopVars, known, commands, updates,
                 minted, launches, work, revisited>>

ApplyCommand ==
  \/ ClearApplied \/ CompactApplied \/ RebuildApplied \/ CommandDeclined
  \/ \E s \in Sessions : ResumeLoads(s)
  \/ ResumeReadsMachine \/ ResumeAdopts \/ ResumeFails

-----------------------------------------------------------------------------
(* The panel.                                                              *)

Frame ==
  /\ AtAwait /\ phase = "live"
  /\ rows # {} \/ fire \/ history # NoHistory
  /\ Redraws(shown, <<>>)
  /\ UNCHANGED <<writerVars, phase, driver, loopVars, known, commands, updates, loaded, minted,
                 launches, work, revisited>>

\* apply_session_update, and the frame after it: a rebuild's update saves the
\* transcript as it stands, a resume's replaces it.
ApplyUpdate ==
  /\ AtAwait /\ phase = "live" /\ updates # <<>>
  /\ updates' = Tail(updates)
  /\ IF Head(updates).kind = "ModelName"
     THEN Redraws(shown, Hook(shown, NoHistory))
     ELSE Redraws(Head(updates).turns, <<>>)
  /\ UNCHANGED <<writerVars, phase, driver, loopVars, known, commands, loaded, minted, launches,
                 work, revisited>>

-----------------------------------------------------------------------------
(* The exit.                                                               *)

Running == driver \in {"asking", "answered"}

\* The exit's flag goes up, on a quit key (the key's frame is drawn first, or
\* the settle of a run draws it) or when the terminal's input closes.  A run in
\* flight and prompts still waiting each have the transcript saved once more.
Leave ==
  /\ AtAwait /\ phase = "live"
  /\ phase' = "leaving"
  /\ \E drawn, waiting \in BOOLEAN :
       LET last == IF drawn \/ Running THEN shown \cup rows ELSE shown
           flush == IF Running \/ waiting THEN Hook(last, NoHistory) ELSE <<>> IN
       IF drawn \/ Running
       THEN /\ shown' = last
            /\ rows' = {} /\ history' = NoHistory /\ fire' = FALSE
            /\ owed' = (IF rows # {} \/ fire \/ history # NoHistory
                        THEN Hook(last, history) ELSE <<>>) \o flush
       ELSE /\ owed' = flush
            /\ UNCHANGED screenVars
  /\ UNCHANGED <<writerVars, driver, loopVars, known, commands, updates, loaded, minted,
                 launches, work, revisited>>

\* The driver at rest sees the flag and ends.
DriverEnds ==
  /\ AtAwait /\ phase = "leaving" /\ driver = "idle"
  /\ driver' = "ended"
  /\ UNCHANGED <<writerVars, phase, owed, screenVars, loopVars, known, commands, updates, loaded,
                 minted, launches, work, revisited>>

\* tear_down_driver_bounded: the driver has ended, or the bound on a run or a
\* command that goes on expires.  Corrections it rescued have the transcript saved;
\* what was still on its way is read by nobody.
TearsDown ==
  /\ AtAwait /\ phase = "leaving" /\ driver # "idle"
  /\ phase' = "stopping"
  /\ driver' = IF driver = "ended" THEN "ended" ELSE "aborted"
  /\ \E rescued \in BOOLEAN : owed' = IF rescued THEN Hook(shown, NoHistory) ELSE <<>>
  /\ rows' = {} /\ history' = NoHistory /\ fire' = FALSE
  /\ commands' = <<>> /\ loaded' = NoLoad
  /\ UNCHANGED <<writerVars, shown, loopVars, known, updates, minted, launches, work, revisited>>

\* TranscriptWorker::join, in its two halves.
Stops ==
  /\ AtAwait /\ phase = "stopping"
  /\ phase' = "joining"
  /\ SignalStop
  /\ UNCHANGED <<driver, owed, screenVars, loopVars, known, commands, updates, loaded, minted,
                 launches, work, revisited>>

\* The process is gone, and its memory with it; the files are left.
ProcessGone ==
  /\ phase' = "off"
  /\ slot' = NoPair /\ hand' = NoPair /\ wpc' = "ended" /\ stop' = FALSE /\ cell' = 0
  /\ driver' = "ended" /\ owed' = <<>>
  /\ shown' = {} /\ committed' = {} /\ known' = NoHistory
  /\ rows' = {} /\ history' = NoHistory /\ fire' = FALSE
  /\ commands' = <<>> /\ updates' = <<>> /\ loaded' = NoLoad
  /\ UNCHANGED <<clock, files, faults, turns, minted, launches, work, home, revisited>>

Joins == phase = "joining" /\ wpc = "ended" /\ ProcessGone
Crash == phase # "off" /\ ProcessGone

-----------------------------------------------------------------------------
RunStep == RunStarts \/ ResponseLands \/ ToolLands \/ TurnEnds \/ RunResolves
ExitStep == DriverEnds \/ TearsDown \/ Stops \/ Joins
Writes == WriterStep /\ UNCHANGED sessionVars

\* The program need not be started again.
Over == phase = "off" /\ UNCHANGED vars

Next ==
  \/ Launch \/ RunStep \/ ApplyCommand \/ (\E c \in Commands : CommandKey(c))
  \/ Frame \/ ApplyUpdate \/ PaysOne \/ Leave \/ ExitStep \/ Crash
  \/ Writes \/ Over

Spec == Init /\ [][Next]_vars

-----------------------------------------------------------------------------
(* What the files promise.                                                 *)

\* However the program ends, what a resume would give the engine covers every
\* turn of the saved transcript that had ended when the transcript was saved: the
\* pair rule never takes a machine half that missed one (load_machine_in, the
\* hook's re-stamp).  A session that a live resume moved onto is the exception:
\* ResumeIsComplete is refuted by a run of its own.
ResumeKeepsEndedTurns ==
  \A s \in Sessions \ revisited : files[s]["display"].ended \subseteq ResumedHistory(files[s])

\* After an exit that was waited for, the session's transcript file carries what
\* the screen showed of the session, and, unless the run was aborted, a resume
\* gives the engine every turn that it held and the screen showed
\* (TranscriptWorker::join, the exit's flushes).  The same exception.
ExitKeepsTheConversation ==
  [][Joins /\ faults = 0 /\ cell \notin revisited =>
       /\ {t \in shown : home[t] = cell} \subseteq files[cell]["display"].turns
       /\ driver = "ended" => shown \cap committed \subseteq ResumedHistory(files[cell])]_vars

\* The writer never sleeps on work: while it is on the condvar nothing waits in
\* the mailbox and no stop was asked for, so a join never waits on a sleeping writer
\* (signal_shutdown stores the flag under the mutex).
NoLostWakeup == wpc = "asleep" => slot = NoPair /\ ~stop
=============================================================================
