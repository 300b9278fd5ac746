------------------------------ MODULE PlanLaw ------------------------------
(***************************************************************************)
(* What a call of TodoWrite (todo.rs) and the claim of a run (runner.rs)   *)
(* make of the session's plan: a function from the ids of its entries to   *)
(* their status and their filed wording.                                   *)
(***************************************************************************)

Statuses == {"pending", "in_progress", "completed"}

\* TodoEntry
Entry(status, words) == [status |-> status, words |-> words]

EmptyPlan == [id \in {} |-> Entry("pending", "")]

\* The entries that stand not completed (todo_undone, count_undone).
Undone(plan) == {id \in DOMAIN plan : plan[id].status # "completed"}

Underway(plan) == {id \in DOMAIN plan : plan[id].status = "in_progress"}

\* (Mutant: any rung is reached from any other.)
LandedAnywhere(old, requested) == IF requested = "omitted" THEN old ELSE requested

\* The rung law for a standing entry: neither end of the ladder is reached
\* from the other in one call.
Landed(old, requested) ==
  IF requested = "omitted" THEN old
  ELSE IF {old, requested} = {"pending", "completed"} THEN "in_progress" ELSE requested

\* A newborn entry: filed as submitted onto an empty store only.
Born(plan, requested) ==
  IF requested = "omitted" THEN "pending"
  ELSE IF requested = "completed" /\ DOMAIN plan # {} THEN "in_progress" ELSE requested

\* normalize_and_store after stored_entries: what the call carries is merged
\* into the standing list, whose wording is read-only.
Enforced(plan, sub) ==
  [id \in DOMAIN plan \union DOMAIN sub |->
     IF id \notin DOMAIN sub THEN plan[id]
     ELSE IF id \in DOMAIN plan
          THEN Entry(Landed(plan[id].status, sub[id].status), plan[id].words)
          ELSE Entry(Born(plan, sub[id].status), sub[id].words)]

\* The claim edge of run_with: a finished plan goes, and past the runner's
\* first claim the entries never started go.
Claimed(plan, claimedBefore) ==
  IF Undone(plan) = {} THEN EmptyPlan
  ELSE [id \in {i \in DOMAIN plan : claimedBefore => plan[i].status # "pending"} |-> plan[id]]
=============================================================================
