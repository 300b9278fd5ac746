--------------------------- MODULE BackgroundJobs ---------------------------
(***************************************************************************)
(* Shell commands and the table of background jobs (jobs.rs, bash.rs): a   *)
(* command runs in a process group of its own under a deadline, its guard  *)
(* kills the group when the future is dropped, and a background command's  *)
(* task writes its result into the table, which keeps only so many.        *)
(***************************************************************************)
EXTENDS Integers, FiniteSets, SequencesExt

CONSTANTS
  MaxCalls,      \* how many commands the model runs (bound)
  MaxTerminal,   \* MAX_TERMINAL_JOBS
  MaxOutput,     \* MAX_OUTPUT_BYTES
  HeaderRoom,    \* what cap_job_payload reserves for job_status's header
  MarkerSize,    \* the truncation marker's length
  OutputSizes    \* the sizes a command's joined output may have

ASSUME JobBounds ==
  /\ MaxCalls \in Nat /\ MaxTerminal \in Nat
  /\ MaxOutput \in Nat /\ HeaderRoom \in Nat /\ MarkerSize \in Nat
  /\ HeaderRoom + MarkerSize + 2 <= MaxOutput
  /\ OutputSizes \subseteq Nat

VARIABLES
  jobs,      \* JOB_TABLE: the listed ids, each with its status
  nextJob,   \* JOB_ID_COUNTER
  jobOf,     \* the job a call was given, 0 for a foreground command
  phase,     \* where a call's future is
  leader,    \* the call's bash process
  helper,    \* a process the command left in its group
  armed,     \* the calls whose ChildGuard would kill on drop
  host,      \* the dch process
  told       \* the last poll that found a job finished or gone (remembered)
jobsVars == <<jobs, nextJob, jobOf, phase, leader, helper, armed, host, told>>

Calls == 1 .. MaxCalls
JobIds == 1 .. MaxCalls
Finished == {"Completed", "Failed"}

JobsTypeOK ==
  /\ DOMAIN jobs \subseteq JobIds
  /\ \A id \in DOMAIN jobs : jobs[id] \in Finished \union {"Running"}
  /\ nextJob \in 1 .. MaxCalls + 1
  /\ jobOf \in [Calls -> {0} \union JobIds]
  /\ phase \in [Calls -> {"unused", "spawned", "running", "returned"}]
  /\ leader \in [Calls -> {"none", "alive", "ok", "failed", "reaped"}]
  /\ helper \in [Calls -> {"none", "piped", "apart"}]
  /\ armed \subseteq Calls
  /\ host \in {"up", "left", "forced"}
  /\ told \in [id : JobIds \union {0}, answer : Finished \union {"not found"}]

JobsInit ==
  /\ jobs = [id \in {} |-> "Running"] /\ nextJob = 1
  /\ jobOf = [c \in Calls |-> 0] /\ phase = [c \in Calls |-> "unused"]
  /\ leader = [c \in Calls |-> "none"] /\ helper = [c \in Calls |-> "none"]
  /\ armed = {} /\ host = "up"
  /\ told = [id |-> 0, answer |-> "not found"]

-----------------------------------------------------------------------------
(* The table. *)

Without(table, ids) == [id \in DOMAIN table \ ids |-> table[id]]
Terminal(table) == {id \in DOMAIN table : table[id] # "Running"}

\* (Mutant: the newest go.)
Newest(ids, k) == {id \in ids : Cardinality({i \in ids : i > id}) < k}

\* The first k members of a set of ids, in ascending order.
Oldest(ids, k) == {id \in ids : Cardinality({i \in ids : i < id}) < k}

\* prune_terminal_jobs
Pruned(table) ==
  LET excess == Cardinality(Terminal(table)) - MaxTerminal
  IN Without(table, Oldest(Terminal(table), excess))

\* cleanup_jobs (mutant: the running jobs go, too.)
CleanedAll(table) == Without(table, DOMAIN table)
Cleaned(table) == Without(table, Terminal(table))

\* A finishing task updates its entry where it still stands, then prunes.
Recorded(table, id, status) ==
  Pruned([i \in DOMAIN table |-> IF i = id THEN status ELSE table[i]])

\* cap_job_payload: the sizes the stored text may have, the two halves cut
\* back to character boundaries.
CappedSizes(size) ==
  LET reserved == HeaderRoom + MarkerSize + 2
      keep == IF MaxOutput > reserved THEN (MaxOutput - reserved) \div 2 ELSE 0
  IN IF size + reserved <= MaxOutput THEN {size}
     ELSE {h + t + MarkerSize + 2 : h, t \in {k \in {keep - 1, keep} : k >= 0}}

-----------------------------------------------------------------------------
(* Starting commands. *)

Live(c) == host = "up" /\ phase[c] \in {"spawned", "running"}

NextCall(c) == /\ host = "up" /\ phase[c] = "unused"
               /\ \A d \in Calls : d < c => phase[d] # "unused"

\* spawn_background_job
SpawnJob(c) ==
  /\ NextCall(c)
  /\ nextJob' = nextJob + 1
  /\ jobs' = [id \in DOMAIN jobs \union {nextJob} |->
               IF id = nextJob THEN "Running" ELSE jobs[id]]
  /\ jobOf' = [jobOf EXCEPT ![c] = nextJob]
  /\ phase' = [phase EXCEPT ![c] = "spawned"]
  /\ UNCHANGED <<leader, helper, armed, host, told>>

\* BashTool::call_inner, foreground; the tools run one such command at a time.
RunForeground(c) ==
  /\ NextCall(c)
  /\ \A d \in Calls : jobOf[d] = 0 => ~Live(d)
  /\ phase' = [phase EXCEPT ![c] = "spawned"]
  /\ UNCHANGED <<jobs, nextJob, jobOf, leader, helper, armed, host, told>>

\* execute_command up to its first await: the child and its guard.
ChildStarts(c) ==
  /\ Live(c) /\ phase[c] = "spawned"
  /\ phase' = [phase EXCEPT ![c] = "running"]
  /\ leader' = [leader EXCEPT ![c] = "alive"]
  /\ armed' = armed \union {c}
  /\ UNCHANGED <<jobs, nextJob, jobOf, helper, host, told>>

(* The operating system's side, as long as the host looks on. *)

LeavesHelper(c) ==
  /\ host = "up" /\ leader[c] = "alive" /\ helper[c] = "none"
  /\ \E kind \in {"piped", "apart"} : helper' = [helper EXCEPT ![c] = kind]
  /\ UNCHANGED <<jobs, nextJob, jobOf, phase, leader, armed, host, told>>

HelperExits(c) ==
  /\ host = "up" /\ helper[c] # "none"
  /\ helper' = [helper EXCEPT ![c] = "none"]
  /\ UNCHANGED <<jobs, nextJob, jobOf, phase, leader, armed, host, told>>

LeaderExits(c) ==
  /\ host = "up" /\ leader[c] = "alive"
  /\ \E how \in {"ok", "failed"} : leader' = [leader EXCEPT ![c] = how]
  /\ UNCHANGED <<jobs, nextJob, jobOf, phase, helper, armed, host, told>>

-----------------------------------------------------------------------------
(* How a call ends. *)

\* Both pipes are at their end and the child has exited.
Finishable(c) ==
  /\ Live(c) /\ phase[c] = "running"
  /\ leader[c] \in {"ok", "failed"} /\ helper[c] # "piped"

\* (Mutant: the guard kills the leader only.)
LeaderDropped(cs, guards) ==
  /\ leader' = [c \in Calls |-> IF c \in cs /\ leader[c] # "none" THEN "reaped" ELSE leader[c]]
  /\ helper' = helper
  /\ armed' = armed \ cs

\* The future is dropped for good: an armed guard kills the whole group.
Dropped(cs, guards) ==
  LET killed == cs \intersect guards
  IN /\ leader' = [c \in Calls |-> IF c \in cs /\ leader[c] # "none" THEN "reaped"
                                   ELSE leader[c]]
     /\ helper' = [c \in Calls |-> IF c \in killed THEN "none" ELSE helper[c]]
     /\ armed' = armed \ cs

Return(c, status) ==
  /\ phase' = [phase EXCEPT ![c] = "returned"]
  /\ jobs' = IF jobOf[c] = 0 THEN jobs ELSE Recorded(jobs, jobOf[c], status)
  /\ UNCHANGED <<nextJob, jobOf, host, told>>

\* The child is reaped, the guard disarmed, the output joined.
CallFinishes(c) ==
  /\ Finishable(c)
  /\ Dropped({c}, armed \ {c})
  /\ Return(c, IF leader[c] = "ok" THEN "Completed" ELSE "Failed")

SpawnFails(c) ==
  /\ Live(c) /\ phase[c] = "spawned"
  /\ Return(c, "Failed")
  /\ UNCHANGED <<leader, helper, armed>>

\* tokio::time::timeout polls the command first, so the deadline only wins
\* over a command that is not ready.
TimesOut(c) ==
  /\ Live(c) /\ phase[c] = "running" /\ ~Finishable(c)
  /\ Dropped({c}, armed)
  /\ Return(c, "Failed")

\* A cancelled run drops the dispatch it awaits.
RunDropsCommand(c) ==
  /\ Live(c) /\ jobOf[c] = 0
  /\ Dropped({c}, armed)
  /\ phase' = [phase EXCEPT ![c] = "returned"]
  /\ UNCHANGED <<jobs, nextJob, jobOf, host, told>>

-----------------------------------------------------------------------------
(* The Jobs tool. *)

\* job_status
PollJob(id) ==
  /\ host = "up" /\ id < nextJob
  /\ LET answer == IF id \in DOMAIN jobs THEN jobs[id] ELSE "not found"
     IN told' = IF answer = "Running" THEN told ELSE [id |-> id, answer |-> answer]
  /\ UNCHANGED <<jobs, nextJob, jobOf, phase, leader, helper, armed, host>>

CleanupJobs ==
  /\ host = "up" /\ Terminal(jobs) # {}
  /\ jobs' = Cleaned(jobs)
  /\ UNCHANGED <<nextJob, jobOf, phase, leader, helper, armed, host, told>>

(* The end of the process. *)

\* main returns: the runtime is dropped, and every unfinished task with it.
HostLeaves ==
  /\ host = "up" /\ host' = "left"
  /\ Dropped({c \in Calls : Live(c)}, armed)
  /\ UNCHANGED <<jobs, nextJob, jobOf, phase, told>>

\* std::process::exit after a repeated interrupt drops nothing.
HostForced ==
  /\ host = "up" /\ host' = "forced"
  /\ UNCHANGED <<jobs, nextJob, jobOf, phase, leader, helper, armed, told>>

JobsOver == host # "up" /\ UNCHANGED jobsVars

JobsNext ==
  \/ \E c \in Calls : \/ SpawnJob(c) \/ RunForeground(c) \/ ChildStarts(c)
                      \/ LeavesHelper(c) \/ HelperExits(c) \/ LeaderExits(c)
                      \/ CallFinishes(c) \/ SpawnFails(c) \/ TimesOut(c)
                      \/ RunDropsCommand(c)
  \/ \E id \in JobIds : PollJob(id)
  \/ CleanupJobs \/ HostLeaves \/ HostForced \/ JobsOver

JobsSpec == JobsInit /\ [][JobsNext]_jobsVars

-----------------------------------------------------------------------------
(* Properties. *)

\* A background command that has not returned is listed as Running, and no
\* other entry is: no eviction or clean-up takes a job its task still owes a
\* result, and no entry is left Running with no task behind it.
RunningMeansRunning ==
  host = "up" =>
    {id \in DOMAIN jobs : jobs[id] = "Running"}
      = {jobOf[c] : c \in {d \in Calls : Live(d) /\ jobOf[d] # 0}}

\* A finished job keeps its verdict until it leaves the table, and an id once
\* gone never names another job.
PollsStayTrue ==
  /\ told.answer = "not found" => told.id \notin DOMAIN jobs
  /\ told.answer \in Finished /\ told.id \in DOMAIN jobs =>
       jobs[told.id] = told.answer

\* The payload cap leaves room for the header, so that job_status never cuts
\* a second time, whatever the output's size and its character boundaries.
PollsAreNotCut ==
  \A size \in OutputSizes : \A bytes \in CappedSizes(size) : bytes + HeaderRoom <= MaxOutput

\* What job_status tells of an id is right, whole and stays true, however the
\* finishes of jobs, evictions, clean-ups and new jobs fall between two polls.
PollsTellTheJob == RunningMeansRunning /\ PollsStayTrue /\ PollsAreNotCut

\* The table is bounded, and a result that leaves it without a clean-up makes
\* way for MaxTerminal results of jobs spawned after it.
EvictedOnlyForNewer ==
  [][\A id \in DOMAIN jobs \ DOMAIN jobs' :
       \/ Terminal(jobs') = {} /\ Terminal(jobs) # {} /\ phase' = phase
       \/ Cardinality({i \in Terminal(jobs') : i > id}) = MaxTerminal]_jobsVars

\* A guard kills the group of a command that is cut short, and of no other: a
\* process that ends by returning from main leaves nothing behind of a command
\* that had not returned, and a helper set apart survives the finish of the
\* background command that left it.
GuardsKillWhatIsCut ==
  [][/\ host # host' /\ host' = "left" =>
          \A c \in Calls : phase[c] \in {"spawned", "running"} =>
                            leader'[c] # "alive" /\ helper'[c] = "none"
     /\ \A c \in Calls : jobOf[c] # 0 /\ Finishable(c) /\ phase'[c] = "returned"
                         => helper'[c] = helper[c]]_jobsVars
=============================================================================
