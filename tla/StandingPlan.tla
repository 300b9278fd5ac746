---------------------------- MODULE StandingPlan ----------------------------
(***************************************************************************)
(* The session's plan and its three copies: the store the runner's tools   *)
(* write (todo.rs, runner.rs), the render the conversation's history       *)
(* carries and a rebuilt runner is seeded from, and the plan section of    *)
(* the screen, which learns of calls and of claims through two buffers of  *)
(* the observer (observer.rs, app.rs, todo_view.rs).  Driver and screen    *)
(* are tasks of one thread.                                                *)
(***************************************************************************)
EXTENDS PlanLaw, Integers, FiniteSets, SequencesExt

CONSTANTS
  Ids,          \* the ids the model's entries use
  Wordings,     \* "plain" reads back from a page as it is, "whole" as "first"
  MaxPatch,     \* how many entries a call carries at most (bound)
  MaxWrites,    \* how many calls of TodoWrite succeed (bound)
  MaxClaims     \* how many prompts are claimed (bound)

ASSUME PlanBounds ==
  /\ Wordings \subseteq {"plain", "whole"}
  /\ MaxPatch \in Nat /\ MaxWrites \in Nat /\ MaxClaims \in Nat

VARIABLES
  store,        \* the runner's todo store
  claimedOnce,  \* claimed_once of the current runner
  inRun,        \* a run is live
  rendered,     \* the last task list in the committed history
  uncommitted,  \* the last task list of the turn in flight
  atClaim,      \* what `rendered` was when the last prompt was claimed
  events,       \* the graduations not yet drained, those the plan hears of
  retired,      \* retired_plan_entries
  edits,        \* plan_generation
  stamp,        \* todo_graduation_generation
  section,      \* latest_todos
  sectionStamp, \* todo_generation
  interrupted,  \* plan_interrupted
  writes, claims,
  filed,        \* the wording each id was last filed under (remembered)
  listed,       \* the history's last list is the last call's (remembered)
  switched      \* a switch came after the last call (remembered)
planVars == <<store, claimedOnce, inRun, rendered, uncommitted, atClaim, events, retired,
              edits, stamp, section, sectionStamp, interrupted, writes, claims, filed, listed, switched>>

Rows == {"plain", "whole", "first"}
Plans == UNION {[ids -> [status : Statuses, words : Rows]] : ids \in SUBSET Ids}
Answer(kind, rows) == [kind |-> kind, rows |-> rows]
NoList == Answer("no list", EmptyPlan)
NoAnswer == Answer("nothing", EmptyPlan)
Answers == [kind : {"list", "no list", "nothing"}, rows : Plans]

PlanTypeOK ==
  /\ store \in Plans /\ section \in Plans
  /\ claimedOnce \in BOOLEAN /\ inRun \in BOOLEAN /\ interrupted \in BOOLEAN
  /\ rendered \in Answers /\ atClaim \in Answers /\ uncommitted \in Answers
  /\ \A e \in Range(events) : e.kind \in {"sent", "ended", "list"} /\ e.rows \in Plans
  /\ \A r \in retired : r.id \in Ids /\ r.words \in Rows /\ r.edit \in 1 .. MaxClaims
  /\ edits \in 0 .. MaxClaims /\ stamp \in 0 .. MaxClaims /\ sectionStamp \in 0 .. MaxClaims
  /\ writes \in 0 .. MaxWrites /\ claims \in 0 .. MaxClaims
  /\ filed \in [Ids -> Rows]
  /\ listed \in BOOLEAN /\ switched \in BOOLEAN

PlanInit ==
  /\ store = EmptyPlan /\ section = EmptyPlan
  /\ claimedOnce = FALSE /\ inRun = FALSE /\ interrupted = FALSE
  /\ rendered = NoList /\ atClaim = NoList /\ uncommitted = NoAnswer
  /\ events = <<>> /\ retired = {} /\ edits = 0 /\ stamp = 0 /\ sectionStamp = 0
  /\ writes = 0 /\ claims = 0
  /\ filed = [id \in Ids |-> "plain"] /\ listed = TRUE /\ switched = FALSE

-----------------------------------------------------------------------------
(* The page: a list as the tool renders it, read back line by line. *)

Page(words) == IF words = "whole" THEN "first" ELSE words

\* render_task_list, then parse_task_list_render or parse_rendered.
ReadBack(plan) == [id \in DOMAIN plan |-> Entry(plan[id].status, Page(plan[id].words))]

\* rows_with_submitted_subjects
ShownRows(plan, sub) ==
  [id \in DOMAIN plan |->
     IF id \in DOMAIN sub /\ sub[id].words # "omitted"
     THEN Entry(plan[id].status, sub[id].words) ELSE ReadBack(plan)[id]]

\* seed_standing_plan (mutant: only a plan with work underway is adopted.)
SeededUnderway(answer) == IF Underway(answer.rows) # {} THEN answer.rows ELSE EmptyPlan
Seeded(answer) == IF Undone(answer.rows) # {} THEN answer.rows ELSE EmptyPlan

\* What a call may submit: a new entry has a wording.
Patch == [status : Statuses \union {"omitted"}, words : Wordings \union {"omitted"}]
Submissions ==
  {sub \in UNION {[ids -> Patch] :
                    ids \in {i \in SUBSET Ids : Cardinality(i) \in 1 .. MaxPatch}} :
     \A id \in DOMAIN sub \ DOMAIN store : sub[id].words # "omitted"}

Event(kind, good, rows) == [kind |-> kind, good |-> good, rows |-> rows]

-----------------------------------------------------------------------------
(* The driver and the runner. *)

ScreenUntouched == UNCHANGED <<section, sectionStamp, interrupted>>

\* A claim: the prompt's row, then run_with's edge and its retirement sink.
\* A correction first cuts the superseded turn out of the history.
ClaimRun(cut) ==
  LET gone == DOMAIN store \ DOMAIN Claimed(store, claimedOnce)
  IN /\ ~inRun /\ claims < MaxClaims /\ (cut => claims > 0)
     /\ inRun' = TRUE /\ claims' = claims + 1 /\ claimedOnce' = TRUE
     /\ rendered' = IF cut THEN atClaim ELSE rendered
     /\ atClaim' = rendered'
     /\ listed' = (listed /\ rendered' = rendered)
     /\ store' = Claimed(store, claimedOnce)
     /\ events' = Append(events, Event("sent", TRUE, EmptyPlan))
     /\ IF gone # {} /\ Undone(store) # {}
        THEN /\ edits' = edits + 1
             /\ retired' = retired \union
                  {[id |-> id, words |-> store[id].words, edit |-> edits + 1] : id \in gone}
        ELSE UNCHANGED <<edits, retired>>
     /\ UNCHANGED <<uncommitted, stamp, writes, filed, switched>> /\ ScreenUntouched

\* finish_tool of a successful call that gave `answer`.
Graduates(answer, rows) ==
  /\ stamp' = edits
  /\ events' = Append(events, Event("list", TRUE, rows))
  /\ uncommitted' = answer
  /\ listed' = FALSE /\ switched' = FALSE

\* todo_write_inner with entries to write.
TodoWrite(sub) ==
  /\ inRun /\ writes < MaxWrites /\ writes' = writes + 1
  /\ store' = Enforced(store, sub)
  /\ filed' = [id \in Ids |-> IF id \in DOMAIN store' THEN store'[id].words ELSE filed[id]]
  /\ Graduates(Answer("list", ReadBack(store')), ShownRows(store', sub))
  /\ UNCHANGED <<claimedOnce, inRun, rendered, atClaim, retired, edits, claims>>
  /\ ScreenUntouched

\* ... and with none: the standing list again, or a word without a list.
TodoWriteNothing ==
  /\ inRun /\ writes < MaxWrites /\ writes' = writes + 1
  /\ Graduates(IF DOMAIN store = {} THEN NoList ELSE Answer("list", ReadBack(store)),
               ReadBack(store))
  /\ UNCHANGED <<store, claimedOnce, inRun, rendered, atClaim, retired, edits, claims, filed>>
  /\ ScreenUntouched

Commits(keep) ==
  /\ rendered' = IF keep /\ uncommitted # NoAnswer THEN uncommitted ELSE rendered
  /\ uncommitted' = NoAnswer
  /\ listed' = (listed \/ (keep /\ uncommitted # NoAnswer))

TurnCommits ==
  /\ inRun /\ uncommitted # NoAnswer /\ Commits(TRUE)
  /\ UNCHANGED <<store, claimedOnce, inRun, atClaim, events, retired, edits, stamp, writes,
                 claims, filed, switched>>
  /\ ScreenUntouched

\* A cancelled or failed run may have a partial turn that the engine salvages and
\* commits, or one that goes uncommitted.
PlanRunEnds(success) ==
  /\ inRun /\ inRun' = FALSE
  /\ Commits(TRUE) \/ (~success /\ Commits(FALSE))
  /\ events' = Append(events, Event("ended", success, EmptyPlan))
  /\ UNCHANGED <<store, claimedOnce, atClaim, retired, edits, stamp, writes, claims, filed,
                 switched>>
  /\ ScreenUntouched

\* The history loses its lists between runs: a compaction folds them, /clear
\* rewinds to nothing; neither touches the store or the section.
HistoryShrinks ==
  /\ ~inRun /\ rendered # NoList /\ rendered' = NoList /\ atClaim' = NoList
  /\ listed' = FALSE
  /\ UNCHANGED <<store, claimedOnce, inRun, uncommitted, events, retired, edits, stamp,
                 writes, claims, filed, switched>>
  /\ ScreenUntouched

\* A model or provider switch builds a runner on the committed history.
RunnerSwitched ==
  /\ ~inRun /\ store' = Seeded(rendered) /\ claimedOnce' = FALSE
  /\ switched' = TRUE
  /\ UNCHANGED <<inRun, rendered, uncommitted, atClaim, events, retired, edits, stamp, writes,
                 claims, filed, listed>>
  /\ ScreenUntouched

-----------------------------------------------------------------------------
(* The screen. *)

Screen(rows, asOf, broken) == [rows |-> rows, asOf |-> asOf, broken |-> broken]

\* (Mutant: a list counts as of the frame that hears of it.)
HearAtTheFrame(e, s) ==
  CASE e.kind = "sent" -> Screen(IF ~s.broken /\ Undone(s.rows) = {} THEN EmptyPlan ELSE s.rows,
                                 s.asOf, FALSE)
    [] e.kind = "ended" -> Screen(s.rows, s.asOf, ~e.good)
    [] e.kind = "list" -> Screen(e.rows, edits, s.broken)

\* One graduation of drain_shared_state, retire_finished_plan included.
Hear(e, s) ==
  CASE e.kind = "sent" -> Screen(IF ~s.broken /\ Undone(s.rows) = {} THEN EmptyPlan ELSE s.rows,
                                 s.asOf, FALSE)
    [] e.kind = "ended" -> Screen(s.rows, s.asOf, ~e.good)
    [] e.kind = "list" -> Screen(e.rows, stamp, s.broken)

\* The screen's plan once the first n of the graduations are applied.
Heard[n \in 0 .. Len(events)] ==
  IF n = 0 THEN Screen(section, sectionStamp, interrupted) ELSE Hear(events[n], Heard[n - 1])

Frame ==
  LET heard == Heard[Len(events)]
      Goes(id) == /\ heard.rows[id].status = "pending"
                  /\ \E r \in retired : /\ r.id = id /\ r.words = heard.rows[id].words
                                        /\ r.edit > heard.asOf
  IN /\ events # <<>> \/ retired # {}
     /\ events' = <<>> /\ retired' = {}
     /\ section' = [id \in {i \in DOMAIN heard.rows : ~Goes(i)} |-> heard.rows[id]]
     /\ sectionStamp' = heard.asOf /\ interrupted' = heard.broken
     /\ UNCHANGED <<store, claimedOnce, inRun, rendered, uncommitted, atClaim, edits, stamp,
                    writes, claims, filed, listed, switched>>

PlanNext ==
  \/ (\E cut \in BOOLEAN : ClaimRun(cut)) \/ (\E sub \in Submissions : TodoWrite(sub))
  \/ TodoWriteNothing \/ TurnCommits \/ (\E success \in BOOLEAN : PlanRunEnds(success))
  \/ HistoryShrinks \/ RunnerSwitched \/ Frame

PlanSpec == PlanInit /\ [][PlanNext]_planVars

-----------------------------------------------------------------------------
(* Properties. *)

\* The section tells the plan the tools work against: once the screen has
\* drained what it was sent, every standing entry is on it with its status,
\* and a row that stands for nothing any more is completed or carries another
\* wording than the entry was filed under.  A switch may part the two until
\* the next call.
SectionTellsThePlan ==
  (events = <<>> /\ retired = {} /\ ~switched) =>
    /\ \A id \in DOMAIN store : /\ id \in DOMAIN section
                                /\ section[id].status = store[id].status
    /\ \A id \in DOMAIN section \ DOMAIN store :
         section[id].status = "completed" \/ section[id].words # filed[id]

\* Within a runner an entry climbs or descends one rung at a time, and leaves
\* the plan only at a claim: never started, or with everything completed.
PlanMovesByRungs ==
  [][\A id \in DOMAIN store :
       \/ /\ id \in DOMAIN store'
          /\ {store[id].status, store'[id].status} # {"pending", "completed"}
          /\ store'[id].words = store[id].words
       \/ /\ id \notin DOMAIN store' /\ inRun' /\ ~inRun
          /\ store[id].status = "pending" \/ Undone(store) = {}
       \/ RunnerSwitched]_planVars

\* A switch keeps the work: with the last list in the history, every entry
\* that is not completed stands in the new runner's plan with its status.
SwitchKeepsTheWork ==
  [][(RunnerSwitched /\ listed /\ ~switched) =>
       \A id \in Undone(store) : /\ id \in DOMAIN store'
                                 /\ store'[id].status = store[id].status]_planVars
=============================================================================
