----------------------------- MODULE PlanNudge -----------------------------
(***************************************************************************)
(* The reminders a run is given about its plan (todo_nudge.rs): the note   *)
(* to a run without a plan, the start and the staleness reminders the      *)
(* contributor decides on at the top of every turn, the gate the tool hook *)
(* sets, and the one follow-up a run with unfinished work earns.           *)
(***************************************************************************)
EXTENDS PlanLaw, Integers, SequencesExt

CONSTANTS
  Tasks,           \* the ids the model's entries use
  PlanlessTurns,   \* PLANLESS_TURNS
  GraceTurns,      \* STALE_GRACE_TURNS
  RearmTurns,      \* STALE_REARM_TURNS
  MaxTurns,        \* how many turns a run has (bound)
  MaxRuns          \* how many runs there are (bound)

ASSUME NudgeBounds ==
  /\ PlanlessTurns \in Nat \ {0} /\ GraceTurns \in Nat \ {0} /\ RearmTurns \in Nat
  /\ MaxTurns \in Nat /\ MaxRuns \in Nat

VARIABLES
  todos,        \* the runner's todo store
  claimedRuns,  \* the runs claimed so far
  turn,         \* the turn of the run
  point,        \* where the run stands
  unmarked,     \* PlanGate.work_unmarked
  seen, birth,  \* Dampers.state: the plan last shown, the turn it first stood
  start, stale, \* Dampers.start, Dampers.stale: the turn answered, or NoTurn
  sawPlan, noted, \* RunShape
  leaving,      \* the host takes no further turn (may_extend answers false)
  followed,     \* the run has had its follow-up
  given,        \* the turns a reminder was given at since the last write (remembered)
  wroteAt       \* the turn of the run's last write (remembered)
nudgeVars == <<todos, claimedRuns, turn, point, unmarked, seen, birth, start, stale, sawPlan,
               noted, leaving, followed, given, wroteAt>>

NoTurn == 0 - 1
Turns == 0 .. MaxTurns
Reminders == {"creation", "start", "stale"}
TaskPlans == UNION {[ids -> [status : Statuses, words : {"filed"}]] : ids \in SUBSET Tasks}

NudgeTypeOK ==
  /\ todos \in TaskPlans /\ seen \in TaskPlans
  /\ claimedRuns \in 0 .. MaxRuns
  /\ turn \in Turns /\ point \in {"rest", "top", "request"}
  /\ unmarked \in BOOLEAN /\ sawPlan \in BOOLEAN /\ noted \in BOOLEAN
  /\ leaving \in BOOLEAN /\ followed \in BOOLEAN
  /\ birth \in Turns \union {NoTurn} /\ start \in Turns \union {NoTurn}
  /\ stale \in Turns \union {NoTurn}
  /\ given \in [Reminders -> Seq(Turns)] /\ wroteAt \in Turns \union {NoTurn}

NudgeInit ==
  /\ todos = EmptyPlan /\ claimedRuns = 0 /\ turn = 0 /\ point = "rest"
  /\ unmarked = FALSE /\ seen = EmptyPlan /\ birth = NoTurn
  /\ start = NoTurn /\ stale = NoTurn /\ sawPlan = FALSE /\ noted = FALSE
  /\ leaving = FALSE /\ followed = FALSE
  /\ given = [r \in Reminders |-> <<>>] /\ wroteAt = NoTurn

-----------------------------------------------------------------------------
(* The contributor. *)

\* (Mutant: the window is a turn short.)
DampedShort(answered) == answered # NoTurn /\ turn - answered < RearmTurns
Damped(answered) == answered # NoTurn /\ turn - answered <= RearmTurns

\* A reminder pushed into the steering slot.
Says(r) == given' = [given EXCEPT ![r] = Append(@, turn)]
SaysNothing == UNCHANGED given

\* What a consult at turn 0 starts from: everything is reset, leaving or not.
Fresh(value, reset) == IF turn = 0 THEN reset ELSE value

\* pending_reminder with the run's first turn's reset.
Consult ==
  LET gate == Fresh(unmarked, FALSE)
      started == Fresh(start, NoTurn)
      staled == Fresh(stale, NoTurn)
      born == Fresh(birth, NoTurn)
      shown == Fresh(sawPlan, FALSE)
      told == Fresh(noted, FALSE)
      planless == todos = EmptyPlan /\ ~shown /\ ~told /\ turn >= PlanlessTurns
      standing == born # NoTurn /\ seen = todos
      since == IF standing THEN born ELSE turn
      answered == IF standing THEN staled ELSE NoTurn
      owed == Underway(todos) = {} /\ gate /\ ~Damped(started)
      frozen == turn - since >= GraceTurns /\ ~Damped(answered)
  IN /\ point = "top"
     /\ unmarked' = gate
     /\ IF leaving
        THEN /\ start' = started /\ stale' = staled /\ birth' = born
             /\ sawPlan' = shown /\ noted' = told /\ UNCHANGED seen
             /\ SaysNothing
        ELSE /\ sawPlan' = (shown \/ todos # EmptyPlan)
             /\ noted' = (told \/ planless)
             /\ IF Undone(todos) = {}
                THEN /\ start' = IF planless THEN started ELSE NoTurn
                     /\ birth' = born /\ stale' = staled /\ UNCHANGED seen
                     /\ IF planless THEN Says("creation") ELSE SaysNothing
                ELSE /\ seen' = todos /\ birth' = since
                     /\ start' = IF owed THEN turn
                                 ELSE IF Underway(todos) # {} THEN NoTurn ELSE started
                     /\ stale' = IF ~owed /\ frozen THEN turn ELSE answered
                     /\ IF owed THEN Says("start")
                        ELSE IF frozen THEN Says("stale") ELSE SaysNothing
     /\ point' \in {"top", "request"}   \* the engine may prepare a turn again
     /\ UNCHANGED <<todos, claimedRuns, turn, leaving, followed, wroteAt>>

-----------------------------------------------------------------------------
(* The run. *)

DecisionsStand == UNCHANGED <<seen, birth, start, stale, sawPlan, noted>>

ClaimsPlan ==
  /\ point = "rest" /\ claimedRuns < MaxRuns /\ claimedRuns' = claimedRuns + 1
  /\ todos' = Claimed(todos, claimedRuns > 0)
  /\ turn' = 0 /\ point' = "top" /\ followed' = FALSE
  /\ given' = [r \in Reminders |-> <<>>] /\ wroteAt' = NoTurn
  /\ DecisionsStand /\ UNCHANGED <<unmarked, leaving>>

\* on_post_tool_use after a successful call of another tool.
WorksOn ==
  /\ point = "request"
  /\ unmarked' = (unmarked \/ (Undone(todos) # {} /\ Underway(todos) = {}))
  /\ DecisionsStand
  /\ UNCHANGED <<todos, claimedRuns, turn, point, leaving, followed, given, wroteAt>>

\* ... after a successful TodoWrite.
WritesPlan(id, status) ==
  /\ point = "request"
  /\ todos' = Enforced(todos, [i \in {id} |-> Entry(status, "filed")])
  /\ unmarked' = FALSE 
  /\ given' = [given EXCEPT !["start"] = <<>>, !["stale"] = <<>>] /\ wroteAt' = turn
  /\ DecisionsStand
  /\ UNCHANGED <<claimedRuns, turn, point, leaving, followed>>

NextTurn ==
  /\ point = "request" /\ turn < MaxTurns /\ turn' = turn + 1 /\ point' = "top"
  /\ DecisionsStand
  /\ UNCHANGED <<todos, claimedRuns, unmarked, leaving, followed, given, wroteAt>>

\* on_run_followup at a clean end: the engine offers it once a run.
FollowsUp ==
  /\ point = "request" /\ turn < MaxTurns /\ ~followed /\ ~leaving /\ Undone(todos) # {}
  /\ followed' = TRUE /\ turn' = turn + 1 /\ point' = "top"
  /\ DecisionsStand
  /\ UNCHANGED <<todos, claimedRuns, unmarked, leaving, given, wroteAt>>

NudgedRunEnds ==
  /\ point # "rest" /\ point' = "rest"
  /\ DecisionsStand
  /\ UNCHANGED <<todos, claimedRuns, turn, unmarked, leaving, followed, given, wroteAt>>

HostLeaving ==
  /\ ~leaving /\ leaving' = TRUE
  /\ DecisionsStand
  /\ UNCHANGED <<todos, claimedRuns, turn, point, unmarked, followed, given, wroteAt>>

NudgesOver == point = "rest" /\ claimedRuns = MaxRuns /\ UNCHANGED nudgeVars

NudgeNext ==
  \/ Consult \/ ClaimsPlan \/ WorksOn
  \/ (\E id \in Tasks, status \in Statuses : WritesPlan(id, status))
  \/ NextTurn \/ FollowsUp \/ NudgedRunEnds \/ HostLeaving \/ NudgesOver

NudgeSpec == NudgeInit /\ [][NudgeNext]_nudgeVars

-----------------------------------------------------------------------------
(* Properties. *)

\* Unless the plan is written in between, a reminder is not repeated within
\* its window, however often a turn is prepared; the note is given once a run.
NoDrumbeat ==
  /\ Len(given["creation"]) <= 1
  /\ \A r \in Reminders : \A i \in 2 .. Len(given[r]) : given[r][i] - given[r][i - 1] > RearmTurns

\* A run that drifts is told: work left standing unwritten past the grace
\* window is never a whole window without a reminder.
DriftIsMet ==
  (point = "request" /\ ~leaving /\ Undone(todos) # {}
     /\ wroteAt < birth /\ turn - birth >= GraceTurns)
    => \E r \in {"start", "stale"} : given[r] # <<>> /\ turn - Last(given[r]) <= RearmTurns

\* Reminders come neither too often nor too seldom.
RemindersKeepTheirPace == NoDrumbeat /\ DriftIsMet
=============================================================================
