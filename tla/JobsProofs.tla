----------------------------- MODULE JobsProofs -----------------------------
(***************************************************************************)
(* For any number of commands and any cap of the table: polls tell the     *)
(* truth, results leave only for newer ones, and guards kill what is cut   *)
(* short.                                                                  *)
(***************************************************************************)
EXTENDS BackgroundJobs, FiniteSetTheorems, TLAPS

LEMMA Counts == MaxCalls \in Nat /\ 1 \in 1 .. MaxCalls + 1 /\ 1 .. MaxCalls + 1 \subseteq Nat \ {0}
<1>1. MaxCalls \in Nat
  BY JobBounds
<1> QED BY <1>1

\* Among finitely many numbers there is a least: the one with the fewest below.
LEMMA Least ==
  ASSUME NEW ids \in SUBSET Nat, IsFiniteSet(ids), ids # {}
  PROVE  \E first \in ids : \A id \in ids : first <= id
<1> DEFINE Below(x) == {i \in ids : i < x}
           Belows == {Below(x) : x \in ids}
<1>1. \A B \in Belows : IsFiniteSet(B) /\ B \in SUBSET ids
  BY FS_Subset
<1>2. Belows \subseteq FiniteSubsetsOf(ids) /\ Belows # {}
  <2>1. Belows # {}
    OBVIOUS
  <2> HIDE DEF Belows
  <2> QED BY <1>1, <2>1 DEF FiniteSubsetsOf
<1>3. PICK few \in Belows : \A B \in Belows : ~(<<B, few>> \in StrictSubsetOrdering(ids))
  <2> HIDE DEF Belows
  <2> QED BY <1>2, FS_StrictSubsetOrderingWellFounded, WFMin
<1>4. PICK first \in ids : few = Below(first)
  OBVIOUS
<1>5. ASSUME NEW id \in ids, id < first PROVE FALSE
  <2>1. \A i \in ids : i < id => i < first
    BY <1>5
  <2>2. Below(id) \subseteq Below(first)
    BY <2>1
  <2>3. id \in Below(first)
    BY <1>5
  <2>4. id \notin Below(id)
    <3>1. ~(id < id)
      OBVIOUS
    <3> QED BY <3>1
  <2>5. <<Below(id), Below(first)>> \in StrictSubsetOrdering(ids)
    BY <2>2, <2>3, <2>4, <1>1 DEF StrictSubsetOrdering
  <2> QED BY <2>5, <1>3, <1>4
<1> QED BY <1>5

-----------------------------------------------------------------------------
(* The table's operations. *)

\* Pruning takes finished jobs only and leaves the others as they are.
LEMMA PrunedFacts ==
  ASSUME NEW table
  PROVE  /\ DOMAIN Pruned(table) \subseteq DOMAIN table
         /\ \A id \in DOMAIN Pruned(table) : Pruned(table)[id] = table[id]
         /\ \A id \in DOMAIN table \ DOMAIN Pruned(table) : id \in Terminal(table)
BY DEF Pruned, Without, Oldest

LEMMA RecordedFacts ==
  ASSUME NEW table, NEW job, NEW status \in Finished
  PROVE  /\ DOMAIN Recorded(table, job, status) \subseteq DOMAIN table
         /\ \A id \in DOMAIN Recorded(table, job, status) :
              Recorded(table, job, status)[id] = IF id = job THEN status ELSE table[id]
         /\ \A id \in DOMAIN table \ DOMAIN Recorded(table, job, status) :
              id = job \/ table[id] # "Running"
<1> DEFINE updated == [i \in DOMAIN table |-> IF i = job THEN status ELSE table[i]]
<1>1. Recorded(table, job, status) = Pruned(updated)
  BY DEF Recorded
<1>2. \A id \in Terminal(updated) : id \in DOMAIN table /\ (id = job \/ table[id] # "Running")
  BY DEF Terminal
<1>3. DOMAIN updated = DOMAIN table
      /\ \A id \in DOMAIN table : updated[id] = IF id = job THEN status ELSE table[id]
  OBVIOUS
<1> HIDE DEF updated
<1> QED BY <1>1, <1>2, <1>3, PrunedFacts

LEMMA CleanedFacts ==
  ASSUME NEW table
  PROVE  /\ DOMAIN Cleaned(table) = {id \in DOMAIN table : table[id] = "Running"}
         /\ \A id \in DOMAIN Cleaned(table) : Cleaned(table)[id] = table[id]
         /\ Terminal(Cleaned(table)) = {}
BY DEF Cleaned, Without, Terminal

\* With at most one result too many the oldest one goes, and as many as the
\* table may keep stand for newer jobs.
LEMMA PrunedForNewer ==
  ASSUME NEW table, DOMAIN table \in SUBSET Nat, IsFiniteSet(DOMAIN table),
         Cardinality(Terminal(table)) <= MaxTerminal + 1
  PROVE  /\ Cardinality(Terminal(Pruned(table))) <= MaxTerminal
         /\ \A id \in DOMAIN table \ DOMAIN Pruned(table) :
              Cardinality({i \in Terminal(Pruned(table)) : i > id}) = MaxTerminal
<1> USE JobBounds
<1> DEFINE done == Terminal(table)
           excess == Cardinality(done) - MaxTerminal
<1>1. done \in SUBSET Nat /\ done \subseteq DOMAIN table /\ IsFiniteSet(done)
      /\ Cardinality(done) \in Nat
  BY FS_Subset, FS_CardinalityType DEF Terminal
<1>2. /\ DOMAIN Pruned(table) = DOMAIN table \ Oldest(done, excess)
      /\ \A id \in DOMAIN Pruned(table) : Pruned(table)[id] = table[id]
  BY DEF Pruned, Without
<1>3. Terminal(Pruned(table)) = done \ Oldest(done, excess)
  BY <1>2 DEF Terminal
<1>4. \A id \in done : /\ IsFiniteSet({i \in done : i < id})
                       /\ Cardinality({i \in done : i < id}) \in Nat
  BY <1>1, FS_Subset, FS_CardinalityType
<1>5. CASE Cardinality(done) <= MaxTerminal
  <2>1. Oldest(done, excess) = {}
    BY <1>1, <1>4, <1>5 DEF Oldest
  <2> QED BY <1>2, <1>3, <1>5, <2>1
<1>6. CASE Cardinality(done) = MaxTerminal + 1
  <2>1. done # {}
    BY <1>6, FS_EmptySet
  <2>2. PICK first \in done : \A id \in done : first <= id
    BY <1>1, <2>1, Least
  <2>3. excess = 1
    BY <1>6
  <2>4. \A id \in done : Cardinality({i \in done : i < id}) < 1 <=> id = first
    <3> TAKE id \in done
    <3>1. Cardinality({i \in done : i < id}) < 1 <=> {i \in done : i < id} = {}
      <4> DEFINE below == {i \in done : i < id}
      <4>1. IsFiniteSet(below) /\ Cardinality(below) \in Nat
        BY <1>4
      <4> HIDE DEF below
      <4>2. Cardinality(below) = 0 <=> below = {}
        BY <4>1, FS_EmptySet
      <4> QED BY <4>1, <4>2 DEF below
    <3>2. {i \in done : i < id} = {} <=> id = first
      <4>0. first \in Nat /\ id \in Nat /\ done \subseteq Nat
        BY <1>1
      <4>1. CASE id = first
        BY <4>0, <4>1, <2>2
      <4>2. CASE id # first
        BY <4>0, <4>2, <2>2
      <4> QED BY <4>1, <4>2
    <3> QED BY <3>1, <3>2
  <2>5. Oldest(done, excess) = {first}
    BY <2>3, <2>4 DEF Oldest
  <2>6. Terminal(Pruned(table)) = done \ {first}
    BY <1>3, <2>5
  <2>7. Cardinality(done \ {first}) = MaxTerminal
    <3> HIDE DEF done
    <3>1. Cardinality(done \ {first}) = Cardinality(done) - 1
      BY <1>1, <2>2, FS_RemoveElement
    <3> QED BY <3>1, <1>6
  <2>8. {i \in done \ {first} : i > first} = done \ {first}
    BY <1>1, <2>2
  <2>9. \A id \in DOMAIN table \ DOMAIN Pruned(table) : id = first
    BY <1>2, <2>5
  <2> QED BY <2>6, <2>7, <2>8, <2>9
<1> QED BY <1>1, <1>5, <1>6

-----------------------------------------------------------------------------
(* The inductive invariant.                                                *)

\* Calls are made in order, every job has a number of its own, and the ones
\* to come are unused.
Numbered ==
  /\ \A c \in Calls : phase[c] = "unused" => jobOf[c] = 0 /\ nextJob <= c
  /\ \A c \in Calls : jobOf[c] < nextJob
  /\ \A c, d \in Calls : jobOf[c] = jobOf[d] /\ jobOf[c] # 0 => c = d
  /\ \A id \in DOMAIN jobs : id < nextJob
  /\ told.id < nextJob

\* RunningMeansRunning, entry by entry and call by call.
Matched ==
  host = "up" =>
    /\ \A c \in Calls : Live(c) /\ jobOf[c] # 0 =>
                           jobOf[c] \in DOMAIN jobs /\ jobs[jobOf[c]] = "Running"
    /\ \A id \in DOMAIN jobs : jobs[id] = "Running" =>
                                 \E c \in Calls : Live(c) /\ jobOf[c] = id

\* A running command is guarded, and before it there is nothing to kill.
Guarded ==
  host = "up" =>
    \A c \in Calls : /\ phase[c] = "running" => c \in armed
                     /\ phase[c] \in {"unused", "spawned"} =>
                           leader[c] = "none" /\ helper[c] = "none"

Bounded == Cardinality(Terminal(jobs)) <= MaxTerminal

JobsInvariant ==
  JobsTypeOK /\ Numbered /\ Matched /\ PollsStayTrue /\ Guarded /\ Bounded

LEMMA JobsInitInvariant == JobsInit => JobsInvariant
<1> USE JobBounds
<1> SUFFICES ASSUME JobsInit PROVE JobsInvariant
  OBVIOUS
<1>0. Calls \subseteq Nat \ {0}
  BY DEF Calls
<1>1. JobsTypeOK
  <2>1. nextJob \in 1 .. MaxCalls + 1
    <3>1. nextJob = 1
      BY DEF JobsInit
    <3> QED BY <3>1, Counts
  <2>0. DOMAIN jobs = {}
    BY DEF JobsInit
  <2>2. told \in [id : JobIds \union {0}, answer : Finished \union {"not found"}]
    BY DEF JobsInit
  <2>3. /\ jobOf \in [Calls -> {0} \union JobIds]
        /\ phase \in [Calls -> {"unused", "spawned", "running", "returned"}]
        /\ leader \in [Calls -> {"none", "alive", "ok", "failed", "reaped"}]
        /\ helper \in [Calls -> {"none", "piped", "apart"}]
    BY DEF JobsInit
  <2> QED BY <2>0, <2>1, <2>2, <2>3 DEF JobsInit, JobsTypeOK
<1>2. Numbered /\ Matched /\ PollsStayTrue /\ Guarded
  <2>1. Numbered
    <3>1. nextJob = 1 /\ told.id = 0 /\ DOMAIN jobs = {} /\ \A c \in Calls : jobOf[c] = 0
      BY DEF JobsInit
    <3> QED BY <1>0, <3>1 DEF Numbered
  <2>2. Matched
    BY DEF JobsInit, Matched, Live
  <2>3. PollsStayTrue
    BY DEF JobsInit, PollsStayTrue, Finished
  <2>4. Guarded
    BY DEF JobsInit, Guarded
  <2> QED BY <2>1, <2>2, <2>3, <2>4
<1>3. Bounded
  <2>1. Terminal(jobs) = {}
    BY DEF JobsInit, Terminal
  <2> QED BY <2>1, FS_EmptySet DEF Bounded
<1> QED BY <1>1, <1>2, <1>3 DEF JobsInvariant

LEMMA JobNumbers ==
  ASSUME JobsTypeOK
  PROVE  /\ Calls \subseteq Nat /\ JobIds \subseteq Nat \ {0} /\ DOMAIN jobs \subseteq JobIds
         /\ nextJob \in Nat \ {0} /\ told.id \in Nat
         /\ \A c \in Calls : jobOf[c] \in Nat
<1> USE JobBounds
<1>1. Calls \subseteq Nat /\ JobIds \subseteq Nat \ {0}
  BY DEF Calls, JobIds
<1>2. told.id \in JobIds \union {0} /\ \A c \in Calls : jobOf[c] \in {0} \union JobIds
  BY DEF JobsTypeOK
<1>3. nextJob \in Nat \ {0} /\ DOMAIN jobs \subseteq JobIds
  <2>1. nextJob \in 1 .. MaxCalls + 1
    BY DEF JobsTypeOK
  <2>2. DOMAIN jobs \subseteq JobIds
    BY DEF JobsTypeOK
  <2> QED BY <2>1, <2>2, Counts
<1>4. told.id \in Nat /\ \A c \in Calls : jobOf[c] \in Nat
  <2> HIDE JobBounds
  <2>1. \A id \in JobIds \union {0} : id \in Nat
    BY <1>1
  <2>2. told.id \in Nat
    BY <1>2, <2>1
  <2>3. \A c \in Calls : jobOf[c] \in JobIds \union {0}
    BY <1>2
  <2> QED BY <2>1, <2>2, <2>3
<1> QED BY <1>1, <1>3, <1>4

\* The table is a finite set of small numbers.
LEMMA TableFinite ==
  ASSUME JobsTypeOK
  PROVE  /\ DOMAIN jobs \in SUBSET Nat /\ IsFiniteSet(DOMAIN jobs)
         /\ IsFiniteSet(Terminal(jobs)) /\ Cardinality(Terminal(jobs)) \in Nat
<1>1. IsFiniteSet(JobIds) /\ JobIds \subseteq Nat
  BY FS_Interval, JobBounds DEF JobIds
<1>2. DOMAIN jobs \in SUBSET JobIds /\ Terminal(jobs) \in SUBSET JobIds
  BY DEF JobsTypeOK, Terminal
<1> QED BY <1>1, <1>2, FS_Subset, FS_CardinalityType

\* Steps that leave the table, the numbering and the phases alone.
LEMMA TableUntouched ==
  ASSUME JobsInvariant, UNCHANGED <<jobs, nextJob, jobOf, phase, host, told>>
  PROVE  Numbered' /\ Matched' /\ PollsStayTrue' /\ Bounded'
BY DEF JobsInvariant, Numbered, Matched, PollsStayTrue, Bounded, Live, Terminal

LEMMA SpawnJobStep ==
  ASSUME JobsInvariant, NEW c \in Calls, SpawnJob(c)
  PROVE  JobsInvariant'
<1> USE JobBounds
<1>0. /\ Calls \subseteq Nat /\ JobIds \subseteq Nat \ {0} /\ DOMAIN jobs \subseteq JobIds
      /\ nextJob \in Nat \ {0} /\ told.id \in Nat
      /\ \A d \in Calls : jobOf[d] \in Nat
  BY JobNumbers DEF JobsInvariant
<1>1. /\ nextJob \in JobIds /\ nextJob <= c /\ nextJob' = nextJob + 1
      /\ phase[c] = "unused" /\ jobOf[c] = 0 /\ host = "up" /\ host' = host
      /\ \A d \in Calls : d < c => phase[d] # "unused"
      /\ jobOf' = [jobOf EXCEPT ![c] = nextJob] /\ phase' = [phase EXCEPT ![c] = "spawned"]
      /\ UNCHANGED <<leader, helper, armed, host, told>>
  <2>1. phase[c] = "unused" /\ nextJob <= c /\ jobOf[c] = 0
    BY DEF SpawnJob, NextCall, JobsInvariant, Numbered
  <2>2. nextJob \in JobIds
    BY <1>0, <2>1 DEF Calls, JobIds
  <2> QED BY <2>1, <2>2 DEF SpawnJob, NextCall
<1>2. /\ DOMAIN jobs' = DOMAIN jobs \union {nextJob}
      /\ \A id \in DOMAIN jobs' : jobs'[id] = IF id = nextJob THEN "Running" ELSE jobs[id]
  BY DEF SpawnJob
<1>3. nextJob \notin DOMAIN jobs
  BY <1>0 DEF JobsInvariant, Numbered
<1>4. JobsTypeOK'
  <2>1. /\ DOMAIN jobs' \subseteq JobIds
        /\ \A id \in DOMAIN jobs' : jobs'[id] \in Finished \union {"Running"}
    BY <1>1, <1>2 DEF JobsInvariant, JobsTypeOK
  <2>2. nextJob' \in 1 .. MaxCalls + 1
    BY <1>1 DEF JobIds
  <2>3. jobOf' \in [Calls -> {0} \union JobIds]
    BY <1>1 DEF JobsInvariant, JobsTypeOK
  <2> QED BY <1>1, <2>1, <2>2, <2>3 DEF JobsInvariant, JobsTypeOK
<1>5. Numbered'
  <2>1. \A d \in Calls : phase'[d] = "unused" => d # c /\ phase[d] = "unused" /\ d > c
    <3> TAKE d \in Calls
    <3>1. phase'[d] = IF d = c THEN "spawned" ELSE phase[d]
      BY <1>1 DEF JobsInvariant, JobsTypeOK
    <3> QED BY <1>0, <1>1, <3>1
  <2>2. \A d \in Calls : jobOf'[d] = IF d = c THEN nextJob ELSE jobOf[d]
    BY <1>1 DEF JobsInvariant, JobsTypeOK
  <2>3. \A d \in Calls : jobOf[d] \in Nat /\ d \in Nat
    BY <1>0
  <2>4. \A id \in DOMAIN jobs : id \in Nat
    BY <1>0
  <2>5. nextJob \in Nat /\ told.id \in Nat /\ told' = told
    BY <1>0, <1>1
  <2>6. \A d \in Calls : phase'[d] = "unused" => jobOf'[d] = 0 /\ nextJob' <= d
    BY <1>1, <2>1, <2>2, <2>3, <2>5 DEF JobsInvariant, Numbered
  <2>7. \A d \in Calls : jobOf'[d] < nextJob'
    BY <1>1, <2>2, <2>3, <2>5 DEF JobsInvariant, Numbered
  <2>8. \A d, e \in Calls : jobOf'[d] = jobOf'[e] /\ jobOf'[d] # 0 => d = e
    BY <2>2, <2>3, <2>5 DEF JobsInvariant, Numbered
  <2>9. \A id \in DOMAIN jobs' : id < nextJob'
    BY <1>1, <1>2, <2>4, <2>5 DEF JobsInvariant, Numbered
  <2>10. told'.id < nextJob'
    BY <1>1, <2>5 DEF JobsInvariant, Numbered
  <2> QED BY <2>6, <2>7, <2>8, <2>9, <2>10 DEF Numbered
<1>6. Matched'
  <2>1. \A d \in Calls : /\ jobOf'[d] = IF d = c THEN nextJob ELSE jobOf[d]
                         /\ Live(d)' <=> d = c \/ Live(d)
    BY <1>1 DEF Live, JobsInvariant, JobsTypeOK
  <2>2. \A d \in Calls : Live(d)' /\ jobOf'[d] # 0 =>
                         jobOf'[d] \in DOMAIN jobs' /\ jobs'[jobOf'[d]] = "Running"
    BY <1>1, <1>2, <2>1 DEF Matched, JobsInvariant
  <2>3. ASSUME NEW id \in DOMAIN jobs', jobs'[id] = "Running"
        PROVE  \E d \in Calls : Live(d)' /\ jobOf'[d] = id
    <3>1. CASE id = nextJob
      BY <2>1, <3>1
    <3>2. CASE id # nextJob
      <4>1. PICK d \in Calls : Live(d) /\ jobOf[d] = id
        BY <1>1, <1>2, <2>3, <3>2 DEF Matched, JobsInvariant
      <4>2. d # c
        BY <1>1, <4>1 DEF Live
      <4> QED BY <2>1, <4>1, <4>2
    <3> QED BY <3>1, <3>2
  <2> QED BY <2>2, <2>3 DEF Matched
<1>7. PollsStayTrue'
  <2>1. told.id # nextJob /\ told' = told
    BY <1>0, <1>1 DEF JobsInvariant, Numbered
  <2> QED BY <1>2, <2>1 DEF JobsInvariant, PollsStayTrue
<1>8. Guarded'
  BY <1>1 DEF JobsInvariant, JobsTypeOK, Guarded
<1>9. Bounded'
  <2>1. Terminal(jobs)' = Terminal(jobs)
    BY <1>2, <1>3 DEF Terminal
  <2> QED BY <2>1 DEF JobsInvariant, Bounded
<1> QED BY <1>4, <1>5, <1>6, <1>7, <1>8, <1>9 DEF JobsInvariant

\* What a dropped future does to the processes, seen from the other calls.
OthersUntouched(cs) ==
  /\ leader' \in [Calls -> {"none", "alive", "ok", "failed", "reaped"}]
  /\ helper' \in [Calls -> {"none", "piped", "apart"}]
  /\ armed' \subseteq Calls
  /\ \A d \in Calls \ cs : /\ leader'[d] = leader[d] /\ helper'[d] = helper[d]
                           /\ d \in armed => d \in armed'

LEMMA DroppedFacts ==
  ASSUME JobsTypeOK, NEW cs \in SUBSET Calls, NEW guards, Dropped(cs, guards)
  PROVE  OthersUntouched(cs)
<1>1. leader' \in [Calls -> {"none", "alive", "ok", "failed", "reaped"}]
  BY DEF Dropped, JobsTypeOK
<1>2. helper' \in [Calls -> {"none", "piped", "apart"}]
  BY DEF Dropped, JobsTypeOK
<1>3. \A d \in Calls \ cs : leader'[d] = leader[d] /\ helper'[d] = helper[d]
  BY DEF Dropped
<1>4. armed' = armed \ cs
  BY DEF Dropped
<1> QED BY <1>1, <1>2, <1>3, <1>4 DEF OthersUntouched, JobsTypeOK

\* The one finish may exceed the cap, and pruning brings the table back.
LEMMA RecordedBounded ==
  ASSUME JobsInvariant, NEW job \in DOMAIN jobs, NEW status \in Finished
  PROVE  /\ Cardinality(Terminal(Recorded(jobs, job, status))) <= MaxTerminal
         /\ \A id \in DOMAIN jobs \ DOMAIN Recorded(jobs, job, status) :
              Cardinality({i \in Terminal(Recorded(jobs, job, status)) : i > id}) = MaxTerminal
<1> DEFINE updated == [i \in DOMAIN jobs |-> IF i = job THEN status ELSE jobs[i]]
<1>1. Recorded(jobs, job, status) = Pruned(updated) /\ DOMAIN updated = DOMAIN jobs
  BY DEF Recorded
<1>2. Terminal(updated) = Terminal(jobs) \union {job}
  BY DEF Terminal, Finished
<1>3. Cardinality(Terminal(updated)) <= MaxTerminal + 1
  <2>1. /\ IsFiniteSet(Terminal(jobs)) /\ Cardinality(Terminal(jobs)) \in Nat
        /\ Cardinality(Terminal(jobs)) <= MaxTerminal /\ MaxTerminal \in Nat
    BY TableFinite, JobBounds DEF JobsInvariant, Bounded
  <2>2. \/ Cardinality(Terminal(jobs) \union {job}) = Cardinality(Terminal(jobs))
        \/ Cardinality(Terminal(jobs) \union {job}) = Cardinality(Terminal(jobs)) + 1
    BY <2>1, FS_AddElement
  <2>3. Cardinality(Terminal(jobs) \union {job}) <= MaxTerminal + 1
    <3> DEFINE before == Cardinality(Terminal(jobs))
               after == Cardinality(Terminal(jobs) \union {job})
    <3>1. before \in Nat /\ before <= MaxTerminal /\ MaxTerminal \in Nat
          /\ after \in {before, before + 1}
      BY <2>1, <2>2
    <3> HIDE DEF before, after
    <3>2. after <= MaxTerminal + 1
      BY <3>1
    <3> QED BY <3>2 DEF after
  <2> QED BY <1>2, <2>3
<1>4. DOMAIN updated \in SUBSET Nat /\ IsFiniteSet(DOMAIN updated)
  BY <1>1, TableFinite DEF JobsInvariant
<1> HIDE DEF updated
<1> QED BY <1>1, <1>3, <1>4, PrunedForNewer

LEMMA ReturnStep ==
  ASSUME JobsInvariant, NEW c \in Calls, Live(c), NEW status \in Finished,
         Return(c, status), OthersUntouched({c})
  PROVE  JobsInvariant'
<1>1. /\ phase' = [phase EXCEPT ![c] = "returned"] /\ host = "up" /\ phase[c] # "unused"
      /\ UNCHANGED <<nextJob, jobOf, host, told>>
      /\ jobs' = IF jobOf[c] = 0 THEN jobs ELSE Recorded(jobs, jobOf[c], status)
  BY DEF Return, Live
<1>2. /\ DOMAIN jobs' \subseteq DOMAIN jobs
      /\ \A id \in DOMAIN jobs' :
           jobs'[id] = IF jobOf[c] # 0 /\ id = jobOf[c] THEN status ELSE jobs[id]
      /\ \A id \in DOMAIN jobs \ DOMAIN jobs' : id = jobOf[c] \/ jobs[id] # "Running"
  <2>1. CASE jobOf[c] = 0
    BY <1>1, <2>1
  <2>2. CASE jobOf[c] # 0
    BY <1>1, <2>2, RecordedFacts
  <2> QED BY <2>1, <2>2
<1>3. \A d \in Calls : /\ phase'[d] = IF d = c THEN "returned" ELSE phase[d]
                       /\ Live(d)' <=> d # c /\ Live(d)
  BY <1>1 DEF Live, JobsInvariant, JobsTypeOK
<1>4. jobOf[c] # 0 => jobOf[c] \in DOMAIN jobs /\ jobs[jobOf[c]] = "Running"
  BY <1>1 DEF JobsInvariant, Matched
<1>5. JobsTypeOK'
  <2>1. \A id \in DOMAIN jobs' : jobs'[id] \in Finished \union {"Running"}
    BY <1>2 DEF JobsInvariant, JobsTypeOK
  <2>2. phase' \in [Calls -> {"unused", "spawned", "running", "returned"}]
    BY <1>1 DEF JobsInvariant, JobsTypeOK
  <2> QED BY <1>1, <1>2, <2>1, <2>2 DEF JobsInvariant, JobsTypeOK, OthersUntouched
<1>6. Numbered'
  BY <1>1, <1>2, <1>3 DEF JobsInvariant, Numbered
<1>7. Matched'
  <2>1. ASSUME NEW d \in Calls, Live(d)', jobOf'[d] # 0
        PROVE  jobOf'[d] \in DOMAIN jobs' /\ jobs'[jobOf'[d]] = "Running"
    <3>1. d # c /\ jobOf[d] \in DOMAIN jobs /\ jobs[jobOf[d]] = "Running"
      BY <1>1, <1>3, <2>1 DEF JobsInvariant, Matched
    <3>2. jobOf[d] # jobOf[c]
      BY <1>1, <2>1, <3>1 DEF JobsInvariant, Numbered
    <3> QED BY <1>1, <1>2, <3>1, <3>2
  <2>2. ASSUME NEW id \in DOMAIN jobs', jobs'[id] = "Running"
        PROVE  \E d \in Calls : Live(d)' /\ jobOf'[d] = id
    <3>1. jobs[id] = "Running" /\ (jobOf[c] # 0 => id # jobOf[c])
      BY <1>2, <2>2 DEF Finished
    <3>2. PICK d \in Calls : Live(d) /\ jobOf[d] = id
      BY <1>1, <1>2, <3>1 DEF JobsInvariant, Matched
    <3>3. id # 0
      BY <1>2, JobNumbers DEF JobsInvariant
    <3> QED BY <1>1, <1>3, <3>1, <3>2, <3>3
  <2> QED BY <2>1, <2>2 DEF Matched
<1>8. PollsStayTrue'
  BY <1>1, <1>2, <1>4 DEF JobsInvariant, PollsStayTrue, Finished
<1>9. Guarded'
  BY <1>1, <1>3 DEF JobsInvariant, Guarded, OthersUntouched
<1>10. Bounded'
  <2>1. CASE jobOf[c] = 0
    BY <1>1, <2>1 DEF JobsInvariant, Bounded, Terminal
  <2>2. CASE jobOf[c] # 0
    BY <1>1, <1>4, <2>2, RecordedBounded DEF Bounded
  <2> QED BY <2>1, <2>2
<1> QED BY <1>5, <1>6, <1>7, <1>8, <1>9, <1>10 DEF JobsInvariant

-----------------------------------------------------------------------------
(* Every step.                                                             *)

LEMMA JobsStep ==
  ASSUME JobsInvariant, [JobsNext]_jobsVars
  PROVE  JobsInvariant'
<1>1. ASSUME NEW c \in Calls, SpawnJob(c) PROVE JobsInvariant'
  BY <1>1, SpawnJobStep
<1>2. ASSUME NEW c \in Calls, RunForeground(c) PROVE JobsInvariant'
  <2>1. /\ phase' = [phase EXCEPT ![c] = "spawned"] /\ phase[c] = "unused" /\ host = "up"
        /\ UNCHANGED <<jobs, nextJob, jobOf, leader, helper, armed, host, told>>
    BY <1>2 DEF RunForeground, NextCall
  <2>2. jobOf[c] = 0
    BY <2>1 DEF JobsInvariant, Numbered
  <2>3. \A d \in Calls : phase'[d] = IF d = c THEN "spawned" ELSE phase[d]
    BY <2>1 DEF JobsInvariant, JobsTypeOK
  <2>4. JobsTypeOK'
    BY <2>1 DEF JobsInvariant, JobsTypeOK
  <2>5. Numbered' /\ PollsStayTrue' /\ Bounded'
    BY <2>1, <2>3 DEF JobsInvariant, Numbered, PollsStayTrue, Bounded, Terminal
  <2>6. Matched'
    <3>1. \A d \in Calls : Live(d)' <=> d = c \/ Live(d)
      BY <2>1, <2>3 DEF Live
    <3>2. \A d \in Calls : Live(d)' /\ jobOf[d] # 0 => Live(d)
      BY <2>2, <3>1
    <3> QED BY <2>1, <3>1, <3>2 DEF JobsInvariant, Matched
  <2>7. Guarded'
    BY <2>1, <2>3 DEF JobsInvariant, Guarded
  <2> QED BY <2>4, <2>5, <2>6, <2>7 DEF JobsInvariant
<1>3. ASSUME NEW c \in Calls, ChildStarts(c) PROVE JobsInvariant'
  <2>1. /\ phase' = [phase EXCEPT ![c] = "running"] /\ phase[c] = "spawned" /\ host = "up"
        /\ leader' = [leader EXCEPT ![c] = "alive"] /\ armed' = armed \union {c}
        /\ UNCHANGED <<jobs, nextJob, jobOf, helper, host, told>>
    BY <1>3 DEF ChildStarts, Live
  <2>2. \A d \in Calls : /\ phase'[d] = IF d = c THEN "running" ELSE phase[d]
                         /\ leader'[d] = IF d = c THEN "alive" ELSE leader[d]
    BY <2>1 DEF JobsInvariant, JobsTypeOK
  <2>3. JobsTypeOK'
    BY <2>1 DEF JobsInvariant, JobsTypeOK
  <2>4. Numbered' /\ PollsStayTrue' /\ Bounded'
    <3>1. \A d \in Calls : phase'[d] = "unused" => phase[d] = "unused"
      BY <2>2
    <3>2. Numbered'
      BY <2>1, <3>1 DEF JobsInvariant, Numbered
    <3>3. PollsStayTrue' /\ Bounded'
      BY <2>1 DEF JobsInvariant, PollsStayTrue, Bounded, Terminal
    <3> QED BY <3>2, <3>3
  <2>5. Matched'
    <3>1. \A d \in Calls : Live(d)' <=> Live(d)
      BY <2>1, <2>2 DEF Live
    <3> QED BY <2>1, <3>1 DEF JobsInvariant, Matched
  <2>6. Guarded'
    BY <2>1, <2>2 DEF JobsInvariant, Guarded
  <2> QED BY <2>3, <2>4, <2>5, <2>6 DEF JobsInvariant
<1>4. ASSUME NEW c \in Calls, LeavesHelper(c) PROVE JobsInvariant'
  <2>1. PICK kind \in {"piped", "apart"} : helper' = [helper EXCEPT ![c] = kind]
    BY <1>4 DEF LeavesHelper
  <2>2. /\ leader[c] = "alive"
        /\ UNCHANGED <<jobs, nextJob, jobOf, phase, leader, armed, host, told>>
    BY <1>4 DEF LeavesHelper
  <2>3. JobsTypeOK'
    BY <2>1, <2>2 DEF JobsInvariant, JobsTypeOK
  <2>4. Guarded'
    BY <2>1, <2>2 DEF JobsInvariant, JobsTypeOK, Guarded
  <2> QED BY <2>2, <2>3, <2>4, TableUntouched DEF JobsInvariant
<1>5. ASSUME NEW c \in Calls, HelperExits(c) PROVE JobsInvariant'
  <2>1. /\ helper' = [helper EXCEPT ![c] = "none"]
        /\ UNCHANGED <<jobs, nextJob, jobOf, phase, leader, armed, host, told>>
    BY <1>5 DEF HelperExits
  <2>2. JobsTypeOK' /\ Guarded'
    BY <2>1 DEF JobsInvariant, JobsTypeOK, Guarded
  <2> QED BY <2>1, <2>2, TableUntouched DEF JobsInvariant
<1>6. ASSUME NEW c \in Calls, LeaderExits(c) PROVE JobsInvariant'
  <2>1. PICK how \in {"ok", "failed"} : leader' = [leader EXCEPT ![c] = how]
    BY <1>6 DEF LeaderExits
  <2>2. /\ leader[c] = "alive"
        /\ UNCHANGED <<jobs, nextJob, jobOf, phase, helper, armed, host, told>>
    BY <1>6 DEF LeaderExits
  <2>3. JobsTypeOK'
    BY <2>1, <2>2 DEF JobsInvariant, JobsTypeOK
  <2>4. Guarded'
    BY <2>1, <2>2 DEF JobsInvariant, JobsTypeOK, Guarded
  <2> QED BY <2>2, <2>3, <2>4, TableUntouched DEF JobsInvariant
<1>7. ASSUME NEW c \in Calls, CallFinishes(c) PROVE JobsInvariant'
  <2>1. OthersUntouched({c})
    BY <1>7, DroppedFacts DEF CallFinishes, JobsInvariant
  <2>2. PICK status \in Finished : Return(c, status)
    BY <1>7 DEF CallFinishes, Finished
  <2> QED BY <1>7, <2>1, <2>2, ReturnStep DEF CallFinishes, Finishable
<1>8. ASSUME NEW c \in Calls, SpawnFails(c) PROVE JobsInvariant'
  <2>1. OthersUntouched({c})
    BY <1>8 DEF SpawnFails, OthersUntouched, JobsInvariant, JobsTypeOK
  <2> QED BY <1>8, <2>1, ReturnStep DEF SpawnFails, Finished
<1>9. ASSUME NEW c \in Calls, TimesOut(c) PROVE JobsInvariant'
  <2>1. OthersUntouched({c})
    BY <1>9, DroppedFacts DEF TimesOut, JobsInvariant
  <2> QED BY <1>9, <2>1, ReturnStep DEF TimesOut, Finished
<1>10. ASSUME NEW c \in Calls, RunDropsCommand(c) PROVE JobsInvariant'
  <2>1. OthersUntouched({c})
    BY <1>10, DroppedFacts DEF RunDropsCommand, JobsInvariant
  <2>2. Return(c, "Failed")
    BY <1>10 DEF RunDropsCommand, Return
  <2> QED BY <1>10, <2>1, <2>2, ReturnStep DEF RunDropsCommand, Finished
<1>11. ASSUME NEW id \in JobIds, PollJob(id) PROVE JobsInvariant'
  <2>1. UNCHANGED <<jobs, nextJob, jobOf, phase, leader, helper, armed, host>> /\ id < nextJob
    BY <1>11 DEF PollJob
  <2>2. \/ told' = told
        \/ \E answer \in Finished \union {"not found"} :
             /\ told' = [id |-> id, answer |-> answer]
             /\ answer = "not found" => id \notin DOMAIN jobs
             /\ id \in DOMAIN jobs => jobs[id] = answer
    <3>1. CASE id \notin DOMAIN jobs
      BY <1>11, <3>1 DEF PollJob
    <3>2. CASE id \in DOMAIN jobs /\ jobs[id] = "Running"
      BY <1>11, <3>2 DEF PollJob
    <3>3. CASE id \in DOMAIN jobs /\ jobs[id] # "Running"
      <4>1. jobs[id] \in Finished /\ jobs[id] # "not found"
        BY <3>3 DEF JobsInvariant, JobsTypeOK, Finished
      <4>2. told' = [id |-> id, answer |-> jobs[id]]
        BY <1>11, <3>3 DEF PollJob
      <4> QED BY <3>3, <4>1, <4>2
    <3> QED BY <3>1, <3>2, <3>3
  <2>3. /\ told' \in [id : JobIds \union {0}, answer : Finished \union {"not found"}]
        /\ told'.id < nextJob /\ PollsStayTrue'
    <3>1. CASE told' = told
      BY <2>1, <3>1 DEF JobsInvariant, JobsTypeOK, Numbered, PollsStayTrue
    <3>2. CASE \E answer \in Finished \union {"not found"} :
                 /\ told' = [id |-> id, answer |-> answer]
                 /\ answer = "not found" => id \notin DOMAIN jobs
                 /\ id \in DOMAIN jobs => jobs[id] = answer
      <4>1. PICK answer \in Finished \union {"not found"} :
              /\ told' = [id |-> id, answer |-> answer]
              /\ answer = "not found" => id \notin DOMAIN jobs
              /\ id \in DOMAIN jobs => jobs[id] = answer
        BY <3>2
      <4>2. told'.id = id /\ told'.answer = answer
        BY <4>1
      <4>3. PollsStayTrue'
        BY <2>1, <4>1, <4>2 DEF PollsStayTrue
      <4> QED BY <2>1, <4>1, <4>2, <4>3
    <3> QED BY <2>2, <3>1, <3>2
  <2>4. JobsTypeOK' /\ Numbered'
    BY <2>1, <2>3 DEF JobsInvariant, JobsTypeOK, Numbered
  <2>5. Matched' /\ Guarded' /\ Bounded'
    BY <2>1 DEF JobsInvariant, Matched, Guarded, Bounded, Live, Terminal
  <2> QED BY <2>3, <2>4, <2>5 DEF JobsInvariant
<1>12. CASE CleanupJobs
  <2>1. /\ UNCHANGED <<nextJob, jobOf, phase, leader, helper, armed, host, told>>
        /\ DOMAIN jobs' = {id \in DOMAIN jobs : jobs[id] = "Running"}
        /\ \A id \in DOMAIN jobs' : jobs'[id] = jobs[id]
        /\ Terminal(jobs') = {}
    BY <1>12, CleanedFacts DEF CleanupJobs
  <2>2. JobsTypeOK' /\ Numbered' /\ PollsStayTrue' /\ Guarded'
    BY <2>1 DEF JobsInvariant, JobsTypeOK, Numbered, PollsStayTrue, Guarded
  <2>3. Matched'
    BY <2>1 DEF JobsInvariant, Matched, Live
  <2>4. Bounded'
    BY <2>1, FS_EmptySet, JobBounds DEF Bounded
  <2> QED BY <2>2, <2>3, <2>4 DEF JobsInvariant
<1>13. CASE HostLeaves
  <2>1. host' = "left" /\ UNCHANGED <<jobs, nextJob, jobOf, phase, told>>
    BY <1>13 DEF HostLeaves
  <2>2. OthersUntouched({c \in Calls : Live(c)})
    BY <1>13, DroppedFacts DEF HostLeaves, JobsInvariant
  <2>3. JobsTypeOK'
    BY <2>1, <2>2 DEF JobsInvariant, JobsTypeOK, OthersUntouched
  <2> QED BY <2>1, <2>3 DEF JobsInvariant, Numbered, Matched, PollsStayTrue, Guarded, Bounded, Terminal
<1>14. CASE HostForced
  <2>1. host' = "forced" /\ UNCHANGED <<jobs, nextJob, jobOf, phase, leader, helper, armed, told>>
    BY <1>14 DEF HostForced
  <2>2. JobsTypeOK'
    BY <2>1 DEF JobsInvariant, JobsTypeOK
  <2> QED BY <2>1, <2>2 DEF JobsInvariant, Numbered, Matched, PollsStayTrue, Guarded, Bounded, Terminal
<1>15. CASE UNCHANGED jobsVars
  <2>1. UNCHANGED <<jobs, nextJob, jobOf, phase, leader, helper, armed, host, told>>
    BY <1>15 DEF jobsVars
  <2>2. JobsTypeOK' /\ Guarded'
    BY <2>1 DEF JobsInvariant, JobsTypeOK, Guarded
  <2> QED BY <2>1, <2>2, TableUntouched DEF JobsInvariant
<1> QED BY <1>1, <1>2, <1>3, <1>4, <1>5, <1>6, <1>7, <1>8, <1>9, <1>10, <1>11, <1>12, <1>13,
           <1>14, <1>15 DEF JobsNext, JobsOver

-----------------------------------------------------------------------------
(* The theorems.                                                           *)

LEMMA JobsInvariantHolds == JobsSpec => []JobsInvariant
BY JobsInitInvariant, JobsStep, PTL DEF JobsSpec

\* The types hold in every state of the table and its commands (jobs.rs).
THEOREM JobTypes == JobsSpec => []JobsTypeOK
<1>1. JobsInvariant => JobsTypeOK
  BY DEF JobsInvariant
<1> QED BY <1>1, JobsInvariantHolds, PTL

\* The reserve is for the header and the marker: what cap_job_payload keeps of
\* any output leaves room for the header.
LEMMA CapLeavesRoom == PollsAreNotCut
<1>1. /\ MaxOutput \in Nat /\ HeaderRoom \in Nat /\ MarkerSize \in Nat
      /\ HeaderRoom + MarkerSize + 2 <= MaxOutput /\ OutputSizes \subseteq Nat
  BY JobBounds
<1> SUFFICES ASSUME NEW size \in OutputSizes, NEW bytes \in CappedSizes(size)
             PROVE  bytes + HeaderRoom <= MaxOutput
  BY DEF PollsAreNotCut
<1> DEFINE reserved == HeaderRoom + MarkerSize + 2
           keep == IF MaxOutput > reserved THEN (MaxOutput - reserved) \div 2 ELSE 0
<1>2. reserved \in Nat /\ reserved <= MaxOutput /\ size \in Nat
  BY <1>1
<1>3. keep \in Nat /\ 2 * keep <= MaxOutput - reserved
  <2> HIDE DEF reserved
  <2>1. \A room \in Nat : room \div 2 \in Nat /\ 2 * (room \div 2) <= room
    OBVIOUS
  <2> QED BY <1>1, <1>2, <2>1
<1>4. CASE size + reserved <= MaxOutput
  <2>1. bytes = size
    BY <1>4 DEF CappedSizes
  <2> QED BY <1>1, <1>2, <1>4, <2>1
<1>5. CASE ~(size + reserved <= MaxOutput)
  <2>1. PICK h \in {k \in {keep - 1, keep} : k >= 0}, t \in {k \in {keep - 1, keep} : k >= 0} :
          bytes = h + t + MarkerSize + 2
    BY <1>5 DEF CappedSizes
  <2> HIDE DEF keep
  <2>2. h \in Int /\ t \in Int /\ h <= keep /\ t <= keep
    BY <1>3
  <2> QED BY <1>1, <1>3, <2>1, <2>2
<1> QED BY <1>4, <1>5

\* Whatever the interleaving of finishes, evictions, clean-ups and polls, and
\* however many jobs the table may keep, job_status tells of a job what is so.
THEOREM ThePollsTellTheJob == JobsSpec => []PollsTellTheJob
<1>1. JobsInvariant => PollsTellTheJob
  <2> SUFFICES ASSUME JobsInvariant PROVE RunningMeansRunning
    BY CapLeavesRoom DEF PollsTellTheJob, JobsInvariant
  <2> SUFFICES ASSUME host = "up"
               PROVE  {id \in DOMAIN jobs : jobs[id] = "Running"}
                        = {jobOf[c] : c \in {d \in Calls : Live(d) /\ jobOf[d] # 0}}
    BY DEF RunningMeansRunning
  <2>1. 0 \notin DOMAIN jobs
    BY JobNumbers DEF JobsInvariant
  <2> QED BY <2>1 DEF JobsInvariant, Matched
<1> QED BY <1>1, JobsInvariantHolds, PTL

\* A result that is not cleaned up makes way for as many newer ones as the
\* table may keep, in whichever order the jobs finish.
THEOREM EvictionsMakeRoom == JobsSpec => EvictedOnlyForNewer
<1> DEFINE ForNewer ==
      \A id \in DOMAIN jobs \ DOMAIN jobs' :
         \/ Terminal(jobs') = {} /\ Terminal(jobs) # {} /\ phase' = phase
         \/ Cardinality({i \in Terminal(jobs') : i > id}) = MaxTerminal
<1>1. JobsInvariant /\ JobsNext => ForNewer
  <2> SUFFICES ASSUME JobsInvariant, JobsNext, NEW id \in DOMAIN jobs \ DOMAIN jobs'
               PROVE  \/ Terminal(jobs') = {} /\ Terminal(jobs) # {} /\ phase' = phase
                      \/ Cardinality({i \in Terminal(jobs') : i > id}) = MaxTerminal
    OBVIOUS
  <2>1. ASSUME NEW c \in Calls, Live(c), NEW status \in Finished, Return(c, status)
        PROVE  Cardinality({i \in Terminal(jobs') : i > id}) = MaxTerminal
    <3>1. jobOf[c] # 0 /\ jobs' = Recorded(jobs, jobOf[c], status)
      BY <2>1 DEF Return
    <3>2. jobOf[c] \in DOMAIN jobs
      BY <2>1, <3>1 DEF JobsInvariant, Matched, Live
    <3> QED BY <2>1, <3>1, <3>2, RecordedBounded
  <2>2. ASSUME NEW c \in Calls, CallFinishes(c)
        PROVE  Cardinality({i \in Terminal(jobs') : i > id}) = MaxTerminal
    BY <2>1, <2>2 DEF CallFinishes, Finishable, Finished
  <2>3. ASSUME NEW c \in Calls, SpawnFails(c) \/ TimesOut(c)
        PROVE  Cardinality({i \in Terminal(jobs') : i > id}) = MaxTerminal
    BY <2>1, <2>3 DEF SpawnFails, TimesOut, Finished
  <2>4. ASSUME CleanupJobs
        PROVE  Terminal(jobs') = {} /\ Terminal(jobs) # {} /\ phase' = phase
    BY <2>4, CleanedFacts DEF CleanupJobs
  <2>5. ASSUME NEW c \in Calls,
               \/ SpawnJob(c) \/ RunForeground(c) \/ ChildStarts(c) \/ LeavesHelper(c)
               \/ HelperExits(c) \/ LeaderExits(c) \/ RunDropsCommand(c)
        PROVE  FALSE
    BY <2>5 DEF SpawnJob, RunForeground, ChildStarts, LeavesHelper, HelperExits, LeaderExits,
                RunDropsCommand
  <2>6. ASSUME (\E i \in JobIds : PollJob(i)) \/ HostLeaves \/ HostForced \/ JobsOver
        PROVE  FALSE
    BY <2>6 DEF PollJob, HostLeaves, HostForced, JobsOver, jobsVars
  <2> QED BY <2>2, <2>3, <2>4, <2>5, <2>6 DEF JobsNext
<1>2. JobsInvariant /\ [JobsNext]_jobsVars => [ForNewer]_jobsVars
  BY <1>1
<1> QED BY <1>2, JobsInvariantHolds, PTL DEF JobsSpec, EvictedOnlyForNewer

\* The guard of a command that is cut short kills its group; that of a command
\* that finished kills nothing (bash.rs, ChildGuard).
THEOREM TheGuardsKill == JobsSpec => GuardsKillWhatIsCut
<1> DEFINE Kills ==
      /\ host # host' /\ host' = "left" =>
           \A c \in Calls : phase[c] \in {"spawned", "running"} =>
                             leader'[c] # "alive" /\ helper'[c] = "none"
      /\ \A c \in Calls : jobOf[c] # 0 /\ Finishable(c) /\ phase'[c] = "returned"
                          => helper'[c] = helper[c]
<1>1. JobsInvariant /\ JobsNext => Kills
  <2> SUFFICES ASSUME JobsInvariant, JobsNext PROVE Kills
    OBVIOUS
  <2>1. ASSUME host # host', host' = "left", NEW c \in Calls, phase[c] \in {"spawned", "running"}
        PROVE  leader'[c] # "alive" /\ helper'[c] = "none"
    <3>1. HostLeaves
      <4>1. host' = host \/ HostLeaves \/ HostForced
        BY DEF JobsNext, SpawnJob, RunForeground, ChildStarts, LeavesHelper, HelperExits,
               LeaderExits, CallFinishes, SpawnFails, TimesOut, RunDropsCommand, PollJob,
               CleanupJobs, JobsOver, jobsVars, Return
      <4> QED BY <2>1, <4>1 DEF HostForced
    <3>2. Live(c) /\ Dropped({d \in Calls : Live(d)}, armed)
      BY <2>1, <3>1 DEF HostLeaves, Live
    <3>3. leader'[c] # "alive"
      BY <3>2 DEF Dropped
    <3>4. helper'[c] = IF c \in armed THEN "none" ELSE helper[c]
      BY <3>2 DEF Dropped
    <3>5. c \in armed \/ helper[c] = "none"
      <4>1. host = "up" /\ Guarded
        BY <3>1 DEF HostLeaves, JobsInvariant
      <4>2. /\ phase[c] = "running" => c \in armed
            /\ phase[c] = "spawned" => helper[c] = "none"
        BY <4>1 DEF Guarded
      <4> QED BY <2>1, <4>2
    <3> QED BY <3>3, <3>4, <3>5
  <2>2. ASSUME NEW c \in Calls, jobOf[c] # 0, Finishable(c), phase'[c] = "returned"
        PROVE  helper'[c] = helper[c]
    <3>1. phase[c] = "running" /\ phase \in [Calls -> {"unused", "spawned", "running", "returned"}]
      BY <2>2 DEF Finishable, JobsInvariant, JobsTypeOK
    <3>2. ASSUME NEW d \in Calls, CallFinishes(d) PROVE helper'[c] = helper[c]
      BY <3>2 DEF CallFinishes, Dropped
    <3>3. ASSUME NEW d \in Calls, TimesOut(d) PROVE FALSE
      <4>1. d # c
        BY <2>2, <3>3 DEF TimesOut
      <4> QED BY <2>2, <3>1, <3>3, <4>1 DEF TimesOut, Return
    <3>4. ASSUME NEW d \in Calls, RunDropsCommand(d) PROVE FALSE
      <4>1. d # c
        BY <2>2, <3>4 DEF RunDropsCommand
      <4> QED BY <2>2, <3>1, <3>4, <4>1 DEF RunDropsCommand
    <3>5. ASSUME NEW d \in Calls, SpawnFails(d) PROVE helper'[c] = helper[c]
      BY <3>5 DEF SpawnFails
    <3>6. ASSUME NEW d \in Calls, SpawnJob(d) \/ RunForeground(d) \/ ChildStarts(d)
          PROVE  helper'[c] = helper[c]
      BY <3>6 DEF SpawnJob, RunForeground, ChildStarts
    <3>7. ASSUME \/ \E d \in Calls : LeavesHelper(d) \/ HelperExits(d) \/ LeaderExits(d)
                 \/ \E id \in JobIds : PollJob(id)
                 \/ CleanupJobs \/ HostLeaves \/ HostForced \/ JobsOver
          PROVE  FALSE
      <4>1. phase' = phase
        BY <3>7 DEF LeavesHelper, HelperExits, LeaderExits, PollJob, CleanupJobs, HostLeaves,
                    HostForced, JobsOver, jobsVars
      <4> QED BY <2>2, <3>1, <4>1
    <3> QED BY <3>2, <3>3, <3>4, <3>5, <3>6, <3>7 DEF JobsNext
  <2> QED BY <2>1, <2>2
<1>2. JobsInvariant /\ [JobsNext]_jobsVars => [Kills]_jobsVars
  BY <1>1
<1> QED BY <1>2, JobsInvariantHolds, PTL DEF JobsSpec, GuardsKillWhatIsCut
=============================================================================
