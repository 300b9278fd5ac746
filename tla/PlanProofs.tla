----------------------------- MODULE PlanProofs -----------------------------
(***************************************************************************)
(* For any ids, calls and claims: the plan moves by rungs, a switch of the *)
(* runner keeps the work the history tells of, and the screen's section    *)
(* tells the plan; for any windows, turns and runs: the reminders of the   *)
(* plan keep their pace.                                                   *)
(***************************************************************************)
EXTENDS StandingPlan, PlanNudge, WellFoundedInduction, TLAPS

\* Neither end of the ladder is reached from the other in one call.
LEMMA LandedByRung ==
  ASSUME NEW old, NEW requested
  PROVE  {old, Landed(old, requested)} # {"pending", "completed"}
BY DEF Landed

LEMMA EnforcedKeeps ==
  ASSUME NEW plan, NEW sub, NEW id \in DOMAIN plan
  PROVE  /\ id \in DOMAIN Enforced(plan, sub)
         /\ {plan[id].status, Enforced(plan, sub)[id].status} # {"pending", "completed"}
         /\ Enforced(plan, sub)[id].words = plan[id].words
<1>1. /\ id \in DOMAIN Enforced(plan, sub)
      /\ Enforced(plan, sub)[id] =
           IF id \notin DOMAIN sub THEN plan[id]
           ELSE Entry(Landed(plan[id].status, sub[id].status), plan[id].words)
  BY DEF Enforced
<1>2. CASE id \notin DOMAIN sub
  BY <1>1, <1>2
<1>3. CASE id \in DOMAIN sub
  BY <1>1, <1>3, LandedByRung DEF Entry
<1> QED BY <1>2, <1>3

LEMMA ClaimedKeeps ==
  ASSUME NEW plan, NEW before, NEW id \in DOMAIN plan
  PROVE  \/ id \in DOMAIN Claimed(plan, before) /\ Claimed(plan, before)[id] = plan[id]
         \/ /\ id \notin DOMAIN Claimed(plan, before)
            /\ plan[id].status = "pending" \/ Undone(plan) = {}
<1>1. CASE Undone(plan) = {}
  BY <1>1 DEF Claimed, EmptyPlan
<1>2. CASE Undone(plan) # {}
  BY <1>2 DEF Claimed
<1> QED BY <1>1, <1>2

\* What a claim leaves is what stood.
LEMMA ClaimedIsPart ==
  ASSUME NEW plan, NEW before, NEW id \in DOMAIN Claimed(plan, before)
  PROVE  id \in DOMAIN plan /\ Claimed(plan, before)[id] = plan[id]
BY DEF Claimed, EmptyPlan

LEMMA PageKeepsStatus ==
  ASSUME NEW plan
  PROVE  /\ DOMAIN ReadBack(plan) = DOMAIN plan
         /\ \A id \in DOMAIN plan : ReadBack(plan)[id].status = plan[id].status
BY DEF ReadBack, Entry

-----------------------------------------------------------------------------

\* The rung law is the runner's, whatever is submitted and claimed.
THEOREM ThePlanMovesByRungs == PlanSpec => PlanMovesByRungs
<1> DEFINE Moves ==
      \A id \in DOMAIN store :
        \/ /\ id \in DOMAIN store'
           /\ {store[id].status, store'[id].status} # {"pending", "completed"}
           /\ store'[id].words = store[id].words
        \/ /\ id \notin DOMAIN store' /\ inRun' /\ ~inRun
           /\ store[id].status = "pending" \/ Undone(store) = {}
        \/ RunnerSwitched
<1>1. PlanNext => Moves
  <2> SUFFICES ASSUME PlanNext, NEW id \in DOMAIN store
               PROVE  \/ /\ id \in DOMAIN store'
                         /\ {store[id].status, store'[id].status} # {"pending", "completed"}
                         /\ store'[id].words = store[id].words
                      \/ /\ id \notin DOMAIN store' /\ inRun' /\ ~inRun
                         /\ store[id].status = "pending" \/ Undone(store) = {}
                      \/ RunnerSwitched
    OBVIOUS
  <2>1. ASSUME NEW cut \in BOOLEAN, ClaimRun(cut)
        PROVE  \/ id \in DOMAIN store' /\ store'[id] = store[id]
               \/ /\ id \notin DOMAIN store' /\ inRun' /\ ~inRun
                  /\ store[id].status = "pending" \/ Undone(store) = {}
    <3>1. store' = Claimed(store, claimedOnce) /\ inRun' /\ ~inRun
      BY <2>1 DEF ClaimRun
    <3> QED BY <3>1, ClaimedKeeps
  <2>2. ASSUME NEW sub \in Submissions, TodoWrite(sub)
        PROVE  /\ id \in DOMAIN store'
               /\ {store[id].status, store'[id].status} # {"pending", "completed"}
               /\ store'[id].words = store[id].words
    <3>1. store' = Enforced(store, sub)
      BY <2>2 DEF TodoWrite
    <3> QED BY <3>1, EnforcedKeeps
  <2>3. ASSUME \/ TodoWriteNothing \/ TurnCommits \/ (\E success \in BOOLEAN : PlanRunEnds(success))
               \/ HistoryShrinks \/ Frame
        PROVE  store' = store
    BY <2>3 DEF TodoWriteNothing, TurnCommits, PlanRunEnds, HistoryShrinks, Frame
  <2> QED BY <2>1, <2>2, <2>3 DEF PlanNext
<1>2. [PlanNext]_planVars => [Moves]_planVars
  BY <1>1
<1> QED BY <1>2, PTL DEF PlanSpec, PlanMovesByRungs

-----------------------------------------------------------------------------
(* Why a switch keeps the work: the last call's list is on its way.        *)

\* The answer lists every entry of the store that is not completed.
TellsWork(answer) ==
  \A id \in Undone(store) : /\ id \in DOMAIN answer.rows
                            /\ answer.rows[id].status = store[id].status

\* Until it is committed the last call's list is the turn's; once the history
\* has it, nothing but a new call makes work the list does not show.
ListOnItsWay ==
  /\ listed \in BOOLEAN /\ switched \in BOOLEAN
  /\ uncommitted # NoAnswer => inRun /\ ~listed
  /\ uncommitted # NoAnswer /\ ~switched => TellsWork(uncommitted)
  /\ listed /\ ~switched => TellsWork(rendered)

LEMMA ListOnItsWayStep ==
  ASSUME ListOnItsWay, [PlanNext]_planVars
  PROVE  ListOnItsWay'
<1> USE DEF ListOnItsWay
<1>1. ASSUME NEW cut \in BOOLEAN, ClaimRun(cut) PROVE ListOnItsWay'
  <2>1. /\ uncommitted' = NoAnswer /\ uncommitted = NoAnswer /\ switched' = switched
        /\ listed' \in BOOLEAN /\ (listed' => listed /\ rendered' = rendered)
    BY <1>1 DEF ClaimRun
  <2>2. \A id \in Undone(store)' : id \in Undone(store) /\ store'[id] = store[id]
    <3>1. store' = Claimed(store, claimedOnce)
      BY <1>1 DEF ClaimRun
    <3> QED BY <3>1, ClaimedIsPart DEF Undone
  <2> QED BY <2>1, <2>2 DEF TellsWork
<1>2. ASSUME NEW sub \in Submissions, TodoWrite(sub) PROVE ListOnItsWay'
  <2>1. /\ uncommitted' = Answer("list", ReadBack(store')) /\ inRun' = inRun /\ inRun
        /\ listed' = FALSE /\ switched' = FALSE
    BY <1>2 DEF TodoWrite, Graduates
  <2>2. TellsWork(uncommitted)'
    BY <2>1, PageKeepsStatus DEF TellsWork, Answer, Undone
  <2> QED BY <2>1, <2>2
<1>3. CASE TodoWriteNothing
  <2>1. /\ store' = store /\ inRun' = inRun /\ inRun /\ listed' = FALSE /\ switched' = FALSE
        /\ uncommitted' = IF DOMAIN store = {} THEN NoList ELSE Answer("list", ReadBack(store))
    BY <1>3 DEF TodoWriteNothing, Graduates
  <2>2. TellsWork(uncommitted)'
    <3>1. CASE DOMAIN store = {}
      BY <2>1, <3>1 DEF TellsWork, Undone
    <3>2. CASE DOMAIN store # {}
      BY <2>1, <3>2, PageKeepsStatus DEF TellsWork, Answer, Undone
    <3> QED BY <3>1, <3>2
  <2> QED BY <2>1, <2>2
<1>4. ASSUME NEW keep \in BOOLEAN, Commits(keep), store' = store, switched' = switched
      PROVE  ListOnItsWay'
  <2>1. /\ uncommitted' = NoAnswer /\ listed' \in BOOLEAN
        /\ rendered' = IF keep /\ uncommitted # NoAnswer THEN uncommitted ELSE rendered
        /\ listed' => listed \/ (keep /\ uncommitted # NoAnswer)
    BY <1>4 DEF Commits
  <2>2. CASE keep /\ uncommitted # NoAnswer
    BY <1>4, <2>1, <2>2 DEF TellsWork, Undone
  <2>3. CASE ~(keep /\ uncommitted # NoAnswer)
    BY <1>4, <2>1, <2>3 DEF TellsWork, Undone
  <2> QED BY <2>2, <2>3
<1>5. CASE TurnCommits
  BY <1>4, <1>5 DEF TurnCommits
<1>6. ASSUME NEW success \in BOOLEAN, PlanRunEnds(success) PROVE ListOnItsWay'
  BY <1>4, <1>6 DEF PlanRunEnds
<1>7. CASE HistoryShrinks
  BY <1>7 DEF HistoryShrinks
<1>8. CASE RunnerSwitched
  BY <1>8 DEF RunnerSwitched
<1>9. CASE Frame
  <2>1. UNCHANGED <<store, inRun, rendered, uncommitted, listed, switched>>
    BY <1>9 DEF Frame
  <2> QED BY <2>1 DEF TellsWork, Undone
<1>10. CASE UNCHANGED planVars
  <2>1. UNCHANGED <<store, inRun, rendered, uncommitted, listed, switched>>
    BY <1>10 DEF planVars
  <2> QED BY <2>1 DEF TellsWork, Undone
<1> QED BY <1>1, <1>2, <1>3, <1>5, <1>6, <1>7, <1>8, <1>9, <1>10 DEF PlanNext

\* A switch seeds the new runner with the list, which then tells of work.
LEMMA SwitchSeeds ==
  ASSUME ListOnItsWay, RunnerSwitched, listed, ~switched, NEW id \in Undone(store)
  PROVE  id \in DOMAIN store' /\ store'[id].status = store[id].status
<1>1. /\ id \in DOMAIN rendered.rows /\ rendered.rows[id].status = store[id].status
      /\ store[id].status # "completed"
  BY DEF ListOnItsWay, TellsWork, Undone
<1>2. Undone(rendered.rows) # {}
  BY <1>1 DEF Undone
<1>3. store' = rendered.rows
  BY <1>2 DEF RunnerSwitched, Seeded
<1> QED BY <1>1, <1>3

\* With the last list in the history, a switch keeps every entry that is not
\* completed (app.rs rebuilds the runner, runner.rs seeds its plan).
THEOREM TheSwitchKeepsTheWork == PlanSpec => SwitchKeepsTheWork
<1> DEFINE Keeps ==
      (RunnerSwitched /\ listed /\ ~switched) =>
         \A id \in Undone(store) : /\ id \in DOMAIN store'
                                   /\ store'[id].status = store[id].status
<1>1. PlanInit => ListOnItsWay
  BY DEF PlanInit, ListOnItsWay, TellsWork, Undone, EmptyPlan, NoAnswer
<1>2. ListOnItsWay => Keeps
  BY SwitchSeeds
<1>3. ListOnItsWay /\ [PlanNext]_planVars => [Keeps]_planVars
  BY <1>2
<1> QED BY <1>1, <1>3, ListOnItsWayStep, PTL DEF PlanSpec, SwitchKeepsTheWork

-----------------------------------------------------------------------------
(* What a frame hears: a fold, by induction over the graduations.          *)

\* A set of naturals has a least one, and so an induction is a set's least
\* counterexample.
LEMMA LeastOne ==
  ASSUME NEW T, T \subseteq Nat, T # {}
  PROVE  \E x \in T : \A y \in T : x <= y
<1> DEFINE R == {ss \in Nat \X Nat : ss[1] < ss[2]}
<1>1. IsWellFoundedOn(R, Nat)
  BY NatLessThanWellFounded DEF OpToRel
<1> HIDE DEF R
<1>2. PICK x \in T : \A y \in T : ~(<<y, x>> \in R)
  BY <1>1, WFMin
<1>3. ASSUME NEW y \in T PROVE x <= y
  <2>1. x \in Nat /\ y \in Nat
    OBVIOUS
  <2>2. <<y, x>> \notin R
    BY <1>2
  <2> QED BY <2>1, <2>2 DEF R
<1> QED BY <1>3

\* One graduation heard under a stamp, and what the frame has heard after each.
HearUnder(st, e, s) ==
  CASE e.kind = "sent" -> Screen(IF ~s.broken /\ Undone(s.rows) = {} THEN EmptyPlan ELSE s.rows,
                                 s.asOf, FALSE)
    [] e.kind = "ended" -> Screen(s.rows, s.asOf, ~e.good)
    [] e.kind = "list" -> Screen(e.rows, st, s.broken)
FoldedAs(f, es, base, st) ==
  f = [n \in 0 .. Len(es) |-> IF n = 0 THEN base ELSE HearUnder(st, es[n], f[n - 1])]

LEMMA FoldExists ==
  ASSUME NEW es, NEW base, NEW st, Len(es) \in Nat
  PROVE  \E f : FoldedAs(f, es, base, st)
<1> DEFINE Upto(k, f) ==
             f = [n \in 0 .. k |-> IF n = 0 THEN base ELSE HearUnder(st, es[n], f[n - 1])]
           T == {k \in Nat : ~\E f : Upto(k, f)}
<1>1. SUFFICES ASSUME T # {} PROVE FALSE
  BY DEF FoldedAs
<1>2. PICK k \in T : \A j \in T : k <= j
  BY <1>1, LeastOne
<1>3. k # 0
  <2> DEFINE f == [n \in 0 .. 0 |-> base]
  <2>1. \A n \in 0 .. 0 : n = 0 /\ f[n] = base
    OBVIOUS
  <2>2. Upto(0, f)
    BY <2>1
  <2>3. 0 \notin T
    BY <2>2
  <2> QED BY <2>3
<1>4. k - 1 \in Nat /\ k - 1 \notin T
  <2>1. k \in Nat
    OBVIOUS
  <2>2. k - 1 \in Nat /\ ~(k <= k - 1)
    BY <1>3, <2>1
  <2> HIDE DEF T
  <2> QED BY <1>2, <2>2
<1>5. PICK f : Upto(k - 1, f)
  BY <1>4
<1> DEFINE g == [n \in 0 .. k |-> IF n = k THEN HearUnder(st, es[k], f[k - 1]) ELSE f[n]]
<1>6. ASSUME NEW n \in 0 .. k
      PROVE  g[n] = IF n = 0 THEN base ELSE HearUnder(st, es[n], g[n - 1])
  <2>1. CASE n = k
    <3>1. g[n - 1] = f[k - 1] /\ n # 0
      BY <1>3, <2>1
    <3> QED BY <2>1, <3>1
  <2>2. CASE n # k
    <3>1. n \in 0 .. k - 1 /\ (n # 0 => n - 1 \in 0 .. k /\ n - 1 # k)
      BY <2>2
    <3>2. g[n] = f[n] /\ (n # 0 => g[n - 1] = f[n - 1])
      BY <2>2, <3>1
    <3>3. f[n] = IF n = 0 THEN base ELSE HearUnder(st, es[n], f[n - 1])
      BY <1>5, <3>1
    <3> QED BY <3>2, <3>3
  <2> QED BY <2>1, <2>2
<1>7. Upto(k, g)
  BY <1>6
<1> QED BY <1>2, <1>7

\* Two folds that begin alike stay alike as long as they are told the same.
LEMMA FoldsAgree ==
  ASSUME NEW f, NEW g, NEW ds, NEW es, NEW base, NEW st, Len(ds) \in Nat, Len(es) \in Nat,
         Len(ds) <= Len(es),
         FoldedAs(f, ds, base, st), FoldedAs(g, es, base, st),
         \A i \in 1 .. Len(ds) : ds[i] = es[i]
  PROVE  f[Len(ds)] = g[Len(ds)]
<1> DEFINE T == {k \in 0 .. Len(ds) : f[k] # g[k]}
<1>1. SUFFICES ASSUME T # {} PROVE FALSE
  OBVIOUS
<1>2. PICK k \in T : \A j \in T : k <= j
  <2>1. T \subseteq Nat
    OBVIOUS
  <2> QED BY <1>1, <2>1, LeastOne
<1>3. k \in 0 .. Len(ds) /\ k \in 0 .. Len(es)
  OBVIOUS
<1>4. f[k] = IF k = 0 THEN base ELSE HearUnder(st, ds[k], f[k - 1])
  BY <1>3 DEF FoldedAs
<1>5. g[k] = IF k = 0 THEN base ELSE HearUnder(st, es[k], g[k - 1])
  BY <1>3 DEF FoldedAs
<1>6. k # 0
  BY <1>4, <1>5
<1>7. k - 1 \in 0 .. Len(ds) /\ k - 1 \notin T
  BY <1>2, <1>6
<1>8. f[k - 1] = g[k - 1] /\ ds[k] = es[k]
  BY <1>3, <1>6, <1>7
<1> QED BY <1>4, <1>5, <1>6, <1>8

LEMMA HeardIsFold ==
  ASSUME Len(events) \in Nat
  PROVE  FoldedAs(Heard, events, Screen(section, sectionStamp, interrupted), stamp)
<1>1. Heard = CHOOSE f : FoldedAs(f, events, Screen(section, sectionStamp, interrupted), stamp)
  BY DEF Heard, Hear, FoldedAs, HearUnder
<1>2. \E f : FoldedAs(f, events, Screen(section, sectionStamp, interrupted), stamp)
  BY FoldExists
<1> HIDE DEF FoldedAs
<1> QED BY <1>1, <1>2

LEMMA HeardThen ==
  ASSUME Len(events') \in Nat
  PROVE  FoldedAs(Heard', events', Screen(section', sectionStamp', interrupted'), stamp')
<1>1. Heard' = CHOOSE f : FoldedAs(f, events', Screen(section', sectionStamp', interrupted'), stamp')
  BY DEF Heard, Hear, FoldedAs, HearUnder, Screen
<1>2. \E f : FoldedAs(f, events', Screen(section', sectionStamp', interrupted'), stamp')
  BY FoldExists
<1> HIDE DEF FoldedAs
<1> QED BY <1>1, <1>2

\* The screen's plan once all it was sent is heard, and the rows of it that go then.
Now == Heard[Len(events)]
Struck(id) == /\ Now.rows[id].status = "pending"
              /\ \E r \in retired : /\ r.id = id /\ r.words = Now.rows[id].words
                                    /\ r.edit > Now.asOf

Graduations == [kind : {"sent", "ended", "list"}, good : BOOLEAN, rows : Plans]
SectionTypes ==
  /\ store \in Plans /\ events \in Seq(Graduations) /\ filed \in [Ids -> Rows]
  /\ \A answer \in {rendered, atClaim, uncommitted} : answer.rows \in Plans
  /\ Now.rows \in Plans

\* No list is stamped, and no entry was retired, past the edits of the store.
EditsCounted ==
  /\ edits \in Nat /\ Now.asOf \in Nat /\ Now.asOf <= edits
  /\ \A r \in retired : r.edit \in Nat /\ r.edit <= edits

\* A wording that a page changes is never one that was read from a page.
WholeAsFiled ==
  /\ \A answer \in {rendered, atClaim, uncommitted} : \A id \in DOMAIN answer.rows :
       answer.rows[id].words # "whole"
  /\ \A id \in DOMAIN store : store[id].words = "whole" => filed[id] = "whole"

\* What the screen has heard, or will, is what stands: each entry with its status, under
\* the store's wording or one it was not filed under; the rest is done, or goes.
HeardTells ==
  ~switched =>
    /\ \A id \in DOMAIN store :
         /\ id \in DOMAIN Now.rows /\ Now.rows[id].status = store[id].status
         /\ ~Struck(id)
         /\ Now.rows[id].words = store[id].words \/ Now.rows[id].words # filed[id]
    /\ \A id \in DOMAIN Now.rows \ DOMAIN store :
         Now.rows[id].status = "completed" \/ Now.rows[id].words # filed[id] \/ Struck(id)

SectionInv == SectionTypes /\ EditsCounted /\ WholeAsFiled /\ HeardTells

\* What is heard stays heard while nothing new is sent.
LEMMA NowStays ==
  ASSUME Len(events) \in Nat, UNCHANGED <<events, section, sectionStamp, interrupted, stamp>>
  PROVE  Now' = Now
<1>1. FoldedAs(Heard, events, Screen(section, sectionStamp, interrupted), stamp)
  BY HeardIsFold
<1>2. FoldedAs(Heard', events, Screen(section, sectionStamp, interrupted), stamp)
  BY HeardThen
<1>3. Heard'[Len(events)] = Heard[Len(events)]
  BY <1>1, <1>2, FoldsAgree
<1> QED BY <1>3 DEF Now

LEMMA FoldGrows ==
  ASSUME NEW S, NEW es \in Seq(S), NEW e \in S, NEW f, NEW g, NEW base, NEW st,
         FoldedAs(f, es, base, st), FoldedAs(g, Append(es, e), base, st)
  PROVE  f[Len(es)] = g[Len(es)]
<1> DEFINE more == Append(es, e)
<1>1. /\ Len(es) \in Nat /\ Len(more) \in Nat /\ Len(es) <= Len(more)
      /\ \A i \in 1 .. Len(es) : es[i] = more[i]
  OBVIOUS
<1>2. FoldedAs(g, more, base, st)
  OBVIOUS
<1> HIDE DEF more
<1> QED BY <1>1, <1>2, FoldsAgree

\* What is sent next is heard next: a later stamp changes no row.
LEMMA NowHears ==
  ASSUME events \in Seq(Graduations), NEW e \in Graduations, events' = Append(events, e),
         UNCHANGED <<section, sectionStamp, interrupted>>
  PROVE  \E s : Now' = HearUnder(stamp', e, s) /\ (stamp' = stamp => s = Now)
<1> DEFINE base == Screen(section, sectionStamp, interrupted)
           len == Len(events)
<1>1. /\ len \in Nat /\ Len(events') = len + 1 /\ events'[len + 1] = e
      /\ \A i \in 1 .. len : events[i] = events'[i]
  OBVIOUS
<1>2. FoldedAs(Heard, events, base, stamp)
  BY <1>1, HeardIsFold
<1>3. FoldedAs(Heard', events', base, stamp')
  BY <1>1, HeardThen
<1>4. Heard'[len + 1] = HearUnder(stamp', events'[len + 1], Heard'[len])
  <2>1. len + 1 \in 0 .. Len(events') /\ len + 1 # 0 /\ (len + 1) - 1 = len
    BY <1>1
  <2> HIDE DEF len
  <2> QED BY <1>3, <2>1 DEF FoldedAs
<1>5. ASSUME stamp' = stamp PROVE Heard'[len] = Now
  <2>1. FoldedAs(Heard', Append(events, e), base, stamp)
    BY <1>3, <1>5
  <2> HIDE DEF base
  <2>2. Heard[Len(events)] = Heard'[Len(events)]
    BY <1>2, <2>1, FoldGrows
  <2> QED BY <2>2 DEF Now
<1> QED BY <1>1, <1>4, <1>5 DEF Now

\* A drained screen has heard what it shows.
LEMMA NowDrained ==
  ASSUME events' = <<>>
  PROVE  Now' = Screen(section', sectionStamp', interrupted')
<1>1. Len(events') = 0
  OBVIOUS
<1>2. FoldedAs(Heard', events', Screen(section', sectionStamp', interrupted'), stamp')
  BY <1>1, HeardThen
<1>3. Heard'[0] = Screen(section', sectionStamp', interrupted')
  BY <1>1, <1>2 DEF FoldedAs
<1> QED BY <1>1, <1>3 DEF Now

-----------------------------------------------------------------------------
(* The section tells the plan.                                             *)

LEMMA APlan ==
  ASSUME NEW plan, plan = [id \in DOMAIN plan |-> plan[id]], DOMAIN plan \subseteq Ids,
         \A id \in DOMAIN plan : plan[id] \in [status : Statuses, words : Rows]
  PROVE  plan \in Plans
<1>1. plan \in [DOMAIN plan -> [status : Statuses, words : Rows]]
  OBVIOUS
<1> QED BY <1>1 DEF Plans

LEMMA PlanParts ==
  ASSUME NEW plan \in Plans
  PROVE  /\ plan = [id \in DOMAIN plan |-> plan[id]] /\ DOMAIN plan \subseteq Ids
         /\ \A id \in DOMAIN plan :
              /\ plan[id] \in [status : Statuses, words : Rows]
              /\ plan[id].status \in Statuses /\ plan[id].words \in Rows
<1>1. PICK ids \in SUBSET Ids : plan \in [ids -> [status : Statuses, words : Rows]]
  BY DEF Plans
<1> QED BY <1>1

LEMMA EmptyIsPlan == EmptyPlan \in Plans /\ DOMAIN EmptyPlan = {}
<1>1. DOMAIN EmptyPlan = {} /\ EmptyPlan = [id \in DOMAIN EmptyPlan |-> EmptyPlan[id]]
  BY DEF EmptyPlan
<1> QED BY <1>1, APlan

LEMMA ClaimedIsPlan ==
  ASSUME NEW plan \in Plans, NEW before
  PROVE  Claimed(plan, before) \in Plans
<1> DEFINE kept == {i \in DOMAIN plan : before => plan[i].status # "pending"}
           rest == [id \in kept |-> plan[id]]
<1>1. DOMAIN rest = kept /\ \A id \in kept : id \in DOMAIN plan /\ rest[id] = plan[id]
  OBVIOUS
<1>2. rest \in Plans
  BY <1>1, PlanParts, APlan
<1> QED BY <1>2, EmptyIsPlan DEF Claimed

LEMMA ReadBackIsPlan ==
  ASSUME NEW plan \in Plans
  PROVE  /\ ReadBack(plan) \in Plans
         /\ \A id \in DOMAIN plan : /\ ReadBack(plan)[id].status = plan[id].status
                                    /\ ReadBack(plan)[id].words = Page(plan[id].words)
                                    /\ ReadBack(plan)[id].words # "whole"
<1>1. DOMAIN ReadBack(plan) = DOMAIN plan
      /\ ReadBack(plan) = [id \in DOMAIN ReadBack(plan) |-> ReadBack(plan)[id]]
      /\ \A id \in DOMAIN plan : ReadBack(plan)[id] = Entry(plan[id].status, Page(plan[id].words))
  BY DEF ReadBack
<1>2. ASSUME NEW id \in DOMAIN plan
      PROVE  /\ ReadBack(plan)[id] \in [status : Statuses, words : Rows]
             /\ ReadBack(plan)[id].status = plan[id].status
             /\ ReadBack(plan)[id].words = Page(plan[id].words)
             /\ ReadBack(plan)[id].words # "whole"
  <2>1. plan[id].status \in Statuses /\ plan[id].words \in Rows
    BY PlanParts
  <2>2. Page(plan[id].words) \in Rows /\ Page(plan[id].words) # "whole"
    BY <2>1 DEF Page, Rows
  <2> QED BY <1>1, <2>1, <2>2 DEF Entry
<1>3. DOMAIN plan \subseteq Ids
  BY PlanParts
<1> HIDE DEF ReadBack
<1> QED BY <1>1, <1>2, <1>3, APlan

\* What a call may carry.
LEMMA SubmissionParts ==
  ASSUME NEW sub \in Submissions
  PROVE  /\ DOMAIN sub \subseteq Ids
         /\ \A id \in DOMAIN sub : /\ sub[id].status \in Statuses \union {"omitted"}
                                   /\ sub[id].words # "omitted" => sub[id].words \in Rows
         /\ \A id \in DOMAIN sub \ DOMAIN store : sub[id].words # "omitted"
<1>1. PICK ids \in SUBSET Ids : sub \in [ids -> Patch]
  BY DEF Submissions
<1>2. \A id \in DOMAIN sub \ DOMAIN store : sub[id].words # "omitted"
  BY DEF Submissions
<1>3. ASSUME NEW id \in DOMAIN sub
      PROVE  sub[id].status \in Statuses \union {"omitted"}
             /\ (sub[id].words # "omitted" => sub[id].words \in Rows)
  BY <1>1, PlanBounds DEF Patch, Rows
<1> QED BY <1>1, <1>2, <1>3

LEMMA EnforcedIsPlan ==
  ASSUME store \in Plans, NEW sub \in Submissions
  PROVE  /\ Enforced(store, sub) \in Plans
         /\ DOMAIN Enforced(store, sub) = DOMAIN store \union DOMAIN sub
<1> DEFINE new == Enforced(store, sub)
<1>1. /\ DOMAIN new = DOMAIN store \union DOMAIN sub /\ new = [id \in DOMAIN new |-> new[id]]
      /\ \A id \in DOMAIN store \union DOMAIN sub : new[id] =
           IF id \notin DOMAIN sub THEN store[id]
           ELSE IF id \in DOMAIN store
                THEN Entry(Landed(store[id].status, sub[id].status), store[id].words)
                ELSE Entry(Born(store, sub[id].status), sub[id].words)
  BY DEF Enforced
<1>2. ASSUME NEW id \in DOMAIN new PROVE new[id] \in [status : Statuses, words : Rows]
  <2> HIDE DEF new
  <2>1. CASE id \notin DOMAIN sub
    <3>1. id \in DOMAIN store /\ new[id] = store[id]
      BY <1>1, <2>1
    <3> QED BY <3>1, PlanParts
  <2>2. CASE id \in DOMAIN sub /\ id \in DOMAIN store
    <3>1. Landed(store[id].status, sub[id].status) \in Statuses
      BY <2>2, PlanParts, SubmissionParts DEF Landed, Statuses
    <3>2. new[id] = Entry(Landed(store[id].status, sub[id].status), store[id].words)
      BY <1>1, <2>2
    <3>3. store[id].words \in Rows
      BY <2>2, PlanParts
    <3> QED BY <3>1, <3>2, <3>3 DEF Entry
  <2>3. CASE id \in DOMAIN sub /\ id \notin DOMAIN store
    <3>1. Born(store, sub[id].status) \in Statuses /\ sub[id].words \in Rows
      BY <2>3, SubmissionParts DEF Born, Statuses
    <3>2. new[id] = Entry(Born(store, sub[id].status), sub[id].words)
      BY <1>1, <2>3
    <3> QED BY <3>1, <3>2 DEF Entry
  <2> QED BY <1>1, <2>1, <2>2, <2>3
<1>3. DOMAIN new \subseteq Ids
  BY <1>1, PlanParts, SubmissionParts
<1> HIDE DEF new
<1>4. new \in Plans
  BY <1>1, <1>2, <1>3, APlan
<1> QED BY <1>1, <1>4 DEF new

LEMMA ShownIsPlan ==
  ASSUME NEW plan \in Plans, NEW sub \in Submissions
  PROVE  /\ ShownRows(plan, sub) \in Plans /\ DOMAIN ShownRows(plan, sub) = DOMAIN plan
         /\ \A id \in DOMAIN plan : ShownRows(plan, sub)[id].status = plan[id].status
<1> DEFINE shown == ShownRows(plan, sub)
<1>1. /\ DOMAIN shown = DOMAIN plan /\ shown = [id \in DOMAIN shown |-> shown[id]]
      /\ \A id \in DOMAIN plan : shown[id] = IF id \in DOMAIN sub /\ sub[id].words # "omitted"
                                             THEN Entry(plan[id].status, sub[id].words)
                                             ELSE ReadBack(plan)[id]
  BY DEF ShownRows
<1>2. ASSUME NEW id \in DOMAIN plan
      PROVE  /\ shown[id] \in [status : Statuses, words : Rows]
             /\ shown[id].status = plan[id].status
  <2>1. CASE id \in DOMAIN sub /\ sub[id].words # "omitted"
    BY <1>1, <2>1, PlanParts, SubmissionParts DEF Entry
  <2>2. CASE ~(id \in DOMAIN sub /\ sub[id].words # "omitted")
    <3>1. ReadBack(plan) \in Plans /\ DOMAIN ReadBack(plan) = DOMAIN plan
      BY ReadBackIsPlan, PageKeepsStatus
    <3> QED BY <1>1, <2>2, <3>1, ReadBackIsPlan, PlanParts
  <2> QED BY <2>1, <2>2
<1>3. DOMAIN plan \subseteq Ids
  BY PlanParts
<1> HIDE DEF shown
<1>4. shown \in Plans
  BY <1>1, <1>2, <1>3, APlan
<1> QED BY <1>1, <1>2, <1>4 DEF shown

LEMMA HeardOf ==
  ASSUME NEW st, NEW e, NEW s
  PROVE  /\ e.kind = "list" =>
              /\ HearUnder(st, e, s).rows = e.rows /\ HearUnder(st, e, s).asOf = st
         /\ e.kind = "ended" =>
              /\ HearUnder(st, e, s).rows = s.rows /\ HearUnder(st, e, s).asOf = s.asOf
         /\ e.kind = "sent" =>
              /\ HearUnder(st, e, s).asOf = s.asOf
              /\ \/ HearUnder(st, e, s).rows = s.rows
                 \/ HearUnder(st, e, s).rows = EmptyPlan /\ Undone(s.rows) = {}
<1>1. CASE e.kind = "list"
  BY <1>1 DEF HearUnder, Screen
<1>2. CASE e.kind = "ended"
  BY <1>2 DEF HearUnder, Screen
<1>3. CASE e.kind = "sent"
  <2>1. HearUnder(st, e, s) = Screen(IF ~s.broken /\ Undone(s.rows) = {} THEN EmptyPlan ELSE s.rows,
                                     s.asOf, FALSE)
    BY <1>3 DEF HearUnder
  <2> QED BY <1>3, <2>1 DEF Screen
<1> QED BY <1>1, <1>2, <1>3

\* A call's list, once heard, is the section.
LEMMA ListHeard ==
  ASSUME SectionInv, NEW answer, NEW rows \in Plans, Graduates(answer, rows),
         ScreenUntouched, edits' = edits
  PROVE  /\ events' \in Seq(Graduations)
         /\ Now'.rows = rows /\ Now'.asOf = edits'
<1> DEFINE e == Event("list", TRUE, rows)
<1>1. e \in Graduations /\ e.kind = "list" /\ e.rows = rows
  BY DEF Event, Graduations
<1>2. /\ events' = Append(events, e) /\ stamp' = edits /\ events \in Seq(Graduations)
      /\ UNCHANGED <<section, sectionStamp, interrupted>>
  BY DEF Graduates, ScreenUntouched, SectionInv, SectionTypes
<1> HIDE DEF e
<1>3. events' \in Seq(Graduations)
  BY <1>1, <1>2
<1>4. PICK s : Now' = HearUnder(stamp', e, s)
  BY <1>1, <1>2, NowHears
<1> QED BY <1>1, <1>2, <1>3, <1>4, HeardOf

\* What a call shows is what stands, and no retirement is newer than its list.
LEMMA CallTells ==
  ASSUME SectionInv, retired' = retired, edits' = edits, Now'.rows \in Plans, Now'.asOf = edits',
         DOMAIN Now'.rows = DOMAIN store',
         \A id \in DOMAIN store' :
           /\ Now'.rows[id].status = store'[id].status
           /\ Now'.rows[id].words = store'[id].words \/ Now'.rows[id].words # filed'[id]
  PROVE  EditsCounted' /\ HeardTells'
<1>1. /\ edits \in Nat /\ \A r \in retired : r.edit \in Nat /\ r.edit <= edits
  BY DEF SectionInv, EditsCounted
<1>2. EditsCounted'
  BY <1>1 DEF EditsCounted
<1>3. \A r \in retired' : ~(r.edit > Now'.asOf)
  BY <1>1
<1>4. \A id : ~Struck(id)'
  BY <1>3 DEF Struck
<1> QED BY <1>2, <1>4 DEF HeardTells

LEMMA WriteTells ==
  ASSUME SectionInv, NEW sub \in Submissions, TodoWrite(sub)
  PROVE  SectionInv'
<1>1. /\ store' = Enforced(store, sub) /\ edits' = edits /\ retired' = retired
      /\ Graduates(Answer("list", ReadBack(store')), ShownRows(store', sub)) /\ ScreenUntouched
      /\ filed' = [id \in Ids |-> IF id \in DOMAIN store' THEN store'[id].words ELSE filed[id]]
      /\ rendered' = rendered /\ atClaim' = atClaim
      /\ uncommitted' = Answer("list", ReadBack(store'))
  BY DEF TodoWrite, Graduates
<1>2. /\ store \in Plans /\ filed \in [Ids -> Rows] /\ rendered.rows \in Plans /\ atClaim.rows \in Plans
  BY DEF SectionInv, SectionTypes
<1>3. store' \in Plans
  BY <1>1, <1>2, EnforcedIsPlan
<1>4. /\ ShownRows(store', sub) \in Plans /\ DOMAIN ShownRows(store', sub) = DOMAIN store'
      /\ \A id \in DOMAIN store' : ShownRows(store', sub)[id].status = store'[id].status
  BY <1>3, ShownIsPlan
<1>5. /\ events' \in Seq(Graduations)
      /\ Now'.rows = ShownRows(store', sub) /\ Now'.asOf = edits'
  BY <1>1, <1>4, ListHeard
<1>6. /\ DOMAIN store' \subseteq Ids
      /\ \A id \in DOMAIN store' : store'[id].words \in Rows
  BY <1>3, PlanParts
<1>7. /\ filed' \in [Ids -> Rows]
      /\ \A id \in DOMAIN store' : filed'[id] = store'[id].words
  BY <1>1, <1>2, <1>6
<1>8. EditsCounted' /\ HeardTells'
  <2>1. \A id \in DOMAIN store' :
          /\ Now'.rows[id].status = store'[id].status
          /\ Now'.rows[id].words = store'[id].words \/ Now'.rows[id].words # filed'[id]
    BY <1>4, <1>5, <1>7
  <2> QED BY <1>1, <1>4, <1>5, <2>1, CallTells
<1>9. uncommitted'.rows = ReadBack(store') /\ ReadBack(store') \in Plans
      /\ DOMAIN ReadBack(store') = DOMAIN store'
      /\ \A id \in DOMAIN store' : ReadBack(store')[id].words # "whole"
  BY <1>1, <1>3, ReadBackIsPlan, PageKeepsStatus DEF Answer
<1>10. SectionTypes'
  BY <1>1, <1>2, <1>3, <1>4, <1>5, <1>7, <1>9 DEF SectionTypes
<1>11. WholeAsFiled'
  BY <1>1, <1>7, <1>9 DEF SectionInv, WholeAsFiled
<1> QED BY <1>8, <1>10, <1>11 DEF SectionInv

LEMMA ListingTells ==
  ASSUME SectionInv, TodoWriteNothing
  PROVE  SectionInv'
<1> DEFINE answer == IF DOMAIN store = {} THEN NoList ELSE Answer("list", ReadBack(store))
<1>1. /\ store' = store /\ edits' = edits /\ retired' = retired /\ filed' = filed
      /\ Graduates(answer, ReadBack(store)) /\ ScreenUntouched
      /\ rendered' = rendered /\ atClaim' = atClaim /\ uncommitted' = answer
  BY DEF TodoWriteNothing, Graduates
<1>2. /\ store \in Plans /\ filed \in [Ids -> Rows] /\ rendered.rows \in Plans /\ atClaim.rows \in Plans
      /\ WholeAsFiled
  BY DEF SectionInv, SectionTypes
<1>3. /\ ReadBack(store) \in Plans /\ DOMAIN ReadBack(store) = DOMAIN store
      /\ \A id \in DOMAIN store : /\ ReadBack(store)[id].status = store[id].status
                                  /\ ReadBack(store)[id].words = Page(store[id].words)
                                  /\ ReadBack(store)[id].words # "whole"
  BY <1>2, ReadBackIsPlan, PageKeepsStatus
<1>4. answer.rows \in Plans /\ \A id \in DOMAIN answer.rows : answer.rows[id].words # "whole"
  <2>1. CASE DOMAIN store = {}
    BY <2>1, EmptyIsPlan DEF NoList, Answer
  <2>2. CASE DOMAIN store # {}
    BY <1>3, <2>2 DEF Answer
  <2> QED BY <2>1, <2>2
<1> HIDE DEF answer
<1>5. /\ events' \in Seq(Graduations)
      /\ Now'.rows = ReadBack(store) /\ Now'.asOf = edits'
  BY <1>1, <1>3, ListHeard
<1>6. \A id \in DOMAIN store :
        Page(store[id].words) = store[id].words \/ Page(store[id].words) # filed[id]
  BY <1>2 DEF Page, WholeAsFiled
<1>7. EditsCounted' /\ HeardTells'
  <2>1. \A id \in DOMAIN store' :
          /\ Now'.rows[id].status = store'[id].status
          /\ Now'.rows[id].words = store'[id].words \/ Now'.rows[id].words # filed'[id]
    BY <1>1, <1>3, <1>5, <1>6
  <2> QED BY <1>1, <1>3, <1>5, <2>1, CallTells
<1>8. SectionTypes'
  BY <1>1, <1>2, <1>3, <1>4, <1>5 DEF SectionTypes
<1>9. WholeAsFiled'
  BY <1>1, <1>2, <1>4 DEF WholeAsFiled
<1> QED BY <1>7, <1>8, <1>9 DEF SectionInv

\* The lists the history keeps are lists it had.
Lists == {rendered, atClaim, uncommitted}
LEMMA ListsStay ==
  ASSUME SectionInv, Lists' \subseteq Lists \union {NoList, NoAnswer}
  PROVE  \A answer \in Lists' :
           answer.rows \in Plans /\ \A id \in DOMAIN answer.rows : answer.rows[id].words # "whole"
<1>1. \A answer \in Lists :
        answer.rows \in Plans /\ \A id \in DOMAIN answer.rows : answer.rows[id].words # "whole"
  BY DEF SectionInv, SectionTypes, WholeAsFiled, Lists
<1>2. NoList.rows = EmptyPlan /\ NoAnswer.rows = EmptyPlan
  BY DEF NoList, NoAnswer, Answer
<1> HIDE DEF Lists
<1> QED BY <1>1, <1>2, EmptyIsPlan

\* Nothing of the plan moves but what the history keeps.
LEMMA SectionStays ==
  ASSUME SectionInv, UNCHANGED <<store, filed, edits, retired, switched>>,
         Now'.rows = Now.rows, Now'.asOf = Now.asOf, events' \in Seq(Graduations),
         Lists' \subseteq Lists \union {NoList, NoAnswer}
  PROVE  SectionInv'
<1>1. \A answer \in Lists' :
        answer.rows \in Plans /\ \A id \in DOMAIN answer.rows : answer.rows[id].words # "whole"
  BY ListsStay
<1>2. SectionTypes'
  BY <1>1 DEF SectionInv, SectionTypes, Lists
<1>3. EditsCounted'
  BY DEF SectionInv, EditsCounted
<1>4. WholeAsFiled'
  BY <1>1 DEF SectionInv, WholeAsFiled, Lists
<1>5. \A id : Struck(id)' <=> Struck(id)
  BY DEF Struck
<1>6. HeardTells'
  BY <1>5 DEF SectionInv, HeardTells
<1> QED BY <1>2, <1>3, <1>4, <1>6 DEF SectionInv

LEMMA QuietTells ==
  ASSUME SectionInv, TurnCommits \/ HistoryShrinks \/ UNCHANGED planVars
  PROVE  SectionInv'
<1>1. /\ UNCHANGED <<store, filed, edits, retired, switched>>
      /\ UNCHANGED <<events, section, sectionStamp, interrupted, stamp>>
  BY DEF TurnCommits, HistoryShrinks, planVars, ScreenUntouched
<1>2. Lists' \subseteq Lists \union {NoList, NoAnswer}
  BY DEF TurnCommits, HistoryShrinks, planVars, Commits, Lists
<1>3. events \in Seq(Graduations) /\ Len(events) \in Nat
  BY DEF SectionInv, SectionTypes
<1>4. Now' = Now
  BY <1>1, <1>3, NowStays
<1> QED BY <1>1, <1>2, <1>3, <1>4, SectionStays

LEMMA EndTells ==
  ASSUME SectionInv, NEW success \in BOOLEAN, PlanRunEnds(success)
  PROVE  SectionInv'
<1> DEFINE e == Event("ended", success, EmptyPlan)
<1>1. /\ UNCHANGED <<store, filed, edits, retired, switched>>
      /\ UNCHANGED <<section, sectionStamp, interrupted>> /\ stamp' = stamp
      /\ events' = Append(events, e)
  BY DEF PlanRunEnds, ScreenUntouched
<1>2. Lists' \subseteq Lists \union {NoList, NoAnswer}
  BY DEF PlanRunEnds, Commits, Lists
<1>3. e \in Graduations /\ e.kind = "ended" /\ events \in Seq(Graduations)
  BY EmptyIsPlan DEF Event, Graduations, SectionInv, SectionTypes
<1> HIDE DEF e
<1>4. events' \in Seq(Graduations)
  BY <1>1, <1>3
<1>5. PICK s : Now' = HearUnder(stamp', e, s) /\ (stamp' = stamp => s = Now)
  BY <1>1, <1>3, NowHears
<1>6. Now'.rows = Now.rows /\ Now'.asOf = Now.asOf
  BY <1>1, <1>3, <1>5, HeardOf
<1> QED BY <1>1, <1>2, <1>4, <1>6, SectionStays

LEMMA SwitchTells ==
  ASSUME SectionInv, RunnerSwitched
  PROVE  SectionInv'
<1>1. /\ UNCHANGED <<events, section, sectionStamp, interrupted, stamp>>
      /\ UNCHANGED <<filed, edits, retired, rendered, atClaim, uncommitted>>
      /\ switched' = TRUE /\ store' = Seeded(rendered)
  BY DEF RunnerSwitched, ScreenUntouched
<1>2. events \in Seq(Graduations) /\ Len(events) \in Nat
  BY DEF SectionInv, SectionTypes
<1>3. Now' = Now
  BY <1>1, <1>2, NowStays
<1>4. store' \in Plans /\ \A id \in DOMAIN store' : store'[id].words # "whole"
  <2>1. /\ rendered.rows \in Plans
        /\ \A id \in DOMAIN rendered.rows : rendered.rows[id].words # "whole"
    BY DEF SectionInv, SectionTypes, WholeAsFiled
  <2> QED BY <1>1, <2>1, EmptyIsPlan DEF Seeded
<1>5. SectionTypes'
  BY <1>1, <1>3, <1>4 DEF SectionInv, SectionTypes
<1>6. EditsCounted'
  BY <1>1, <1>3 DEF SectionInv, EditsCounted
<1>7. WholeAsFiled'
  BY <1>1, <1>4 DEF SectionInv, WholeAsFiled
<1>8. HeardTells'
  BY <1>1 DEF HeardTells
<1> QED BY <1>5, <1>6, <1>7, <1>8 DEF SectionInv

\* A frame shows what it heard, less what goes; nothing of that stood.
LEMMA FrameTells ==
  ASSUME SectionInv, Frame
  PROVE  SectionInv'
<1> DEFINE kept == {i \in DOMAIN Now.rows : ~Struck(i)}
<1>1. /\ events' = <<>> /\ retired' = {}
      /\ section' = [id \in kept |-> Now.rows[id]] /\ sectionStamp' = Now.asOf
      /\ UNCHANGED <<store, filed, edits, switched, rendered, atClaim, uncommitted>>
  BY DEF Frame, Now, Struck
<1>2. Now'.rows = section' /\ Now'.asOf = sectionStamp'
  BY <1>1, NowDrained DEF Screen
<1>3. /\ DOMAIN section' = kept /\ \A id \in kept : section'[id] = Now.rows[id]
      /\ \A id : id \in kept <=> id \in DOMAIN Now.rows /\ ~Struck(id)
  BY <1>1
<1> HIDE DEF kept
<1>4. section' \in Plans
  <2>1. Now.rows \in Plans
    BY DEF SectionInv, SectionTypes
  <2>2. section' = [id \in DOMAIN section' |-> section'[id]]
    BY <1>1, <1>3
  <2> QED BY <1>3, <2>1, <2>2, PlanParts, APlan
<1>5. SectionTypes'
  BY <1>1, <1>2, <1>4 DEF SectionInv, SectionTypes
<1>6. EditsCounted'
  BY <1>1, <1>2 DEF SectionInv, EditsCounted
<1>7. WholeAsFiled'
  BY <1>1 DEF SectionInv, WholeAsFiled
<1>8. \A id : ~Struck(id)'
  BY <1>1 DEF Struck
<1>9. HeardTells'
  <2>1. CASE switched
    BY <1>1, <2>1 DEF HeardTells
  <2>2. CASE ~switched
    <3>1. \A id \in DOMAIN store :
            /\ id \in DOMAIN Now.rows /\ Now.rows[id].status = store[id].status /\ ~Struck(id)
            /\ Now.rows[id].words = store[id].words \/ Now.rows[id].words # filed[id]
      BY <2>2 DEF SectionInv, HeardTells
    <3>2. \A id \in DOMAIN Now.rows \ DOMAIN store :
            Now.rows[id].status = "completed" \/ Now.rows[id].words # filed[id] \/ Struck(id)
      BY <2>2 DEF SectionInv, HeardTells
    <3>3. \A id \in DOMAIN store :
            /\ id \in DOMAIN section' /\ section'[id].status = store[id].status
            /\ section'[id].words = store[id].words \/ section'[id].words # filed[id]
      BY <1>3, <3>1
    <3>4. \A id \in DOMAIN section' \ DOMAIN store :
            section'[id].status = "completed" \/ section'[id].words # filed[id]
      BY <1>3, <3>2
    <3> QED BY <1>1, <1>2, <1>8, <3>3, <3>4 DEF HeardTells
  <2> QED BY <2>1, <2>2
<1> QED BY <1>5, <1>6, <1>7, <1>9 DEF SectionInv

\* A claim retires, under a newer edit than any list, the rows it takes off the store.
LEMMA ClaimTells ==
  ASSUME SectionInv, NEW cut \in BOOLEAN, ClaimRun(cut)
  PROVE  SectionInv'
<1> DEFINE gone == DOMAIN store \ DOMAIN Claimed(store, claimedOnce)
           e == Event("sent", TRUE, EmptyPlan)
           Retirement(id) == [id |-> id, words |-> store[id].words, edit |-> edits + 1]
<1>1. /\ store' = Claimed(store, claimedOnce) /\ events' = Append(events, e)
      /\ UNCHANGED <<section, sectionStamp, interrupted>> /\ stamp' = stamp
      /\ UNCHANGED <<filed, switched>>
  BY DEF ClaimRun, ScreenUntouched
<1>2. Lists' \subseteq Lists \union {NoList, NoAnswer}
  BY DEF ClaimRun, Lists
<1>3. IF gone # {} /\ Undone(store) # {}
      THEN edits' = edits + 1 /\ retired' = retired \union {Retirement(id) : id \in gone}
      ELSE edits' = edits /\ retired' = retired
  BY DEF ClaimRun
<1>4. \A id : Retirement(id).id = id /\ Retirement(id).words = store[id].words
              /\ Retirement(id).edit = edits + 1
  OBVIOUS
<1>5. e \in Graduations /\ e.kind = "sent" /\ events \in Seq(Graduations)
  BY EmptyIsPlan DEF Event, Graduations, SectionInv, SectionTypes
<1> HIDE DEF e, Retirement
<1>6. events' \in Seq(Graduations)
  BY <1>1, <1>5
<1>7. PICK s : Now' = HearUnder(stamp', e, s) /\ (stamp' = stamp => s = Now)
  BY <1>1, <1>5, NowHears
<1>8. /\ Now'.asOf = Now.asOf
      /\ Now'.rows = Now.rows \/ (Now'.rows = EmptyPlan /\ Undone(Now.rows) = {})
  BY <1>1, <1>5, <1>7, HeardOf
<1>9. \A id \in DOMAIN store' : id \in DOMAIN store /\ store'[id] = store[id]
  BY <1>1, ClaimedIsPart
<1>10. SectionTypes'
  <2>1. \A answer \in Lists' : answer.rows \in Plans
    BY <1>2, ListsStay
  <2>2. store' \in Plans
    BY <1>1, ClaimedIsPlan DEF SectionInv, SectionTypes
  <2>3. Now'.rows \in Plans
    BY <1>8, EmptyIsPlan DEF SectionInv, SectionTypes
  <2> QED BY <1>1, <1>6, <2>1, <2>2, <2>3 DEF SectionInv, SectionTypes, Lists
<1>11. EditsCounted'
  <2>1. /\ edits \in Nat /\ Now.asOf \in Nat /\ Now.asOf <= edits
        /\ \A r \in retired : r.edit \in Nat /\ r.edit <= edits
    BY DEF SectionInv, EditsCounted
  <2>2. edits' \in Nat /\ edits <= edits'
    BY <1>3, <2>1
  <2>3. \A r \in retired' : r.edit \in Nat /\ r.edit <= edits'
    BY <1>3, <1>4, <2>1
  <2> QED BY <1>8, <2>1, <2>2, <2>3 DEF EditsCounted
<1>12. WholeAsFiled'
  <2>1. \A answer \in Lists' : \A id \in DOMAIN answer.rows : answer.rows[id].words # "whole"
    BY <1>2, ListsStay
  <2> QED BY <1>1, <1>9, <2>1 DEF SectionInv, WholeAsFiled, Lists
<1>13. HeardTells'
  <2>1. SUFFICES ASSUME ~switched PROVE HeardTells'
    BY <1>1 DEF HeardTells
  <2>2. \A id \in DOMAIN store :
          /\ id \in DOMAIN Now.rows /\ Now.rows[id].status = store[id].status /\ ~Struck(id)
          /\ Now.rows[id].words = store[id].words \/ Now.rows[id].words # filed[id]
    BY <2>1 DEF SectionInv, HeardTells
  <2>3. \A id \in DOMAIN Now.rows \ DOMAIN store :
          Now.rows[id].status = "completed" \/ Now.rows[id].words # filed[id] \/ Struck(id)
    BY <2>1 DEF SectionInv, HeardTells
  <2>4. CASE Now'.rows = EmptyPlan /\ Undone(Now.rows) = {}
    <3>1. Undone(store) = {}
      BY <2>2, <2>4 DEF Undone
    <3>2. store' = EmptyPlan
      BY <1>1, <3>1 DEF Claimed
    <3>3. DOMAIN store' = {} /\ DOMAIN Now'.rows = {}
      BY <2>4, <3>2, EmptyIsPlan
    <3> QED BY <3>3 DEF HeardTells
  <2>5. CASE Now'.rows = Now.rows
    <3>1. ASSUME NEW id \in DOMAIN store'
          PROVE  /\ id \in DOMAIN Now'.rows /\ Now'.rows[id].status = store'[id].status
                 /\ ~Struck(id)'
                 /\ Now'.rows[id].words = store'[id].words \/ Now'.rows[id].words # filed'[id]
      <4>1. \A r \in retired' : r.id = id => r \in retired
        BY <1>1, <1>3, <1>4, <3>1
      <4>2. id \in DOMAIN store /\ store'[id] = store[id]
        BY <1>9, <3>1
      <4>3. ~Struck(id)'
        BY <1>8, <2>2, <2>5, <4>1, <4>2 DEF Struck
      <4> QED BY <1>1, <2>2, <2>5, <4>2, <4>3
    <3>2. ASSUME NEW id \in DOMAIN Now'.rows, id \notin DOMAIN store'
          PROVE  \/ Now'.rows[id].status = "completed" \/ Now'.rows[id].words # filed'[id]
                 \/ Struck(id)'
      <4>1. CASE id \notin DOMAIN store
        <5>1. Struck(id) => Struck(id)'
          BY <1>3, <1>8, <2>5 DEF Struck
        <5> QED BY <1>1, <2>3, <2>5, <3>2, <4>1, <5>1
      <4>2. CASE id \in DOMAIN store /\ Undone(store) = {}
        <5>1. store[id].status = "completed"
          BY <4>2 DEF Undone
        <5> QED BY <2>2, <2>5, <4>2, <5>1
      <4>3. CASE id \in DOMAIN store /\ Undone(store) # {}
        <5>1. id \in gone /\ store[id].status = "pending"
          BY <1>1, <3>2, <4>3, ClaimedKeeps
        <5>2. Retirement(id) \in retired' /\ Retirement(id).edit > Now.asOf
          <6>1. Retirement(id) \in retired'
            BY <1>3, <4>3, <5>1
          <6>2. edits \in Nat /\ Now.asOf \in Nat /\ Now.asOf <= edits
            BY DEF SectionInv, EditsCounted
          <6>3. Retirement(id).edit = edits + 1
            BY <1>4
          <6> QED BY <6>1, <6>2, <6>3
        <5>3. CASE Now.rows[id].words = store[id].words
          <6>1. /\ Now'.rows[id].status = "pending" /\ Retirement(id).id = id
                /\ Retirement(id).words = Now'.rows[id].words
                /\ Retirement(id).edit > Now'.asOf
            BY <1>4, <1>8, <2>2, <2>5, <4>3, <5>1, <5>2, <5>3
          <6> QED BY <5>2, <6>1 DEF Struck
        <5>4. CASE Now.rows[id].words # filed[id]
          BY <1>1, <2>5, <5>4
        <5> QED BY <2>2, <4>3, <5>3, <5>4
      <4> QED BY <4>1, <4>2, <4>3
    <3> QED BY <3>1, <3>2 DEF HeardTells
  <2> QED BY <1>8, <2>4, <2>5
<1> QED BY <1>10, <1>11, <1>12, <1>13 DEF SectionInv

LEMMA SectionStep == SectionInv /\ [PlanNext]_planVars => SectionInv'
BY WriteTells, ListingTells, QuietTells, EndTells, SwitchTells, FrameTells, ClaimTells DEF PlanNext

LEMMA SectionStart == PlanInit => SectionInv
<1> SUFFICES ASSUME PlanInit PROVE SectionInv
  OBVIOUS
<1>1. FoldedAs(Heard, events, Screen(section, sectionStamp, interrupted), stamp) /\ Len(events) = 0
  BY HeardIsFold DEF PlanInit
<1>2. Now = Screen(section, sectionStamp, interrupted)
  BY <1>1 DEF FoldedAs, Now
<1>3. Now.rows = EmptyPlan /\ Now.asOf = 0
  BY <1>2 DEF PlanInit, Screen
<1>4. \A answer \in {rendered, atClaim, uncommitted} : answer.rows = EmptyPlan
  <2>1. NoList.rows = EmptyPlan /\ NoAnswer.rows = EmptyPlan
    BY DEF NoList, NoAnswer, Answer
  <2>2. rendered = NoList /\ atClaim = NoList /\ uncommitted = NoAnswer
    BY DEF PlanInit
  <2> QED BY <2>1, <2>2
<1>5. SectionTypes
  <2>1. filed \in [Ids -> Rows] /\ events \in Seq(Graduations) /\ store = EmptyPlan
    BY DEF PlanInit, Rows
  <2> QED BY <1>3, <1>4, <2>1, EmptyIsPlan DEF SectionTypes
<1>6. EditsCounted
  BY <1>3 DEF PlanInit, EditsCounted
<1>7. WholeAsFiled
  BY <1>4, EmptyIsPlan DEF PlanInit, WholeAsFiled
<1>8. HeardTells
  BY <1>3, EmptyIsPlan DEF PlanInit, HeardTells
<1> QED BY <1>5, <1>6, <1>7, <1>8 DEF SectionInv

\* Whatever is written, claimed, cut, compacted or switched, and however many
\* graduations and retirements one frame drains: the section the user reads is the plan
\* the tools work against (app.rs, todo_view.rs).
THEOREM TheSectionTells == PlanSpec => []SectionTellsThePlan
<1>1. SectionInv => SectionTellsThePlan
  <2> SUFFICES ASSUME SectionInv, events = <<>>, retired = {}, ~switched
               PROVE  /\ \A id \in DOMAIN store : /\ id \in DOMAIN section
                                                  /\ section[id].status = store[id].status
                      /\ \A id \in DOMAIN section \ DOMAIN store :
                           section[id].status = "completed" \/ section[id].words # filed[id]
    BY DEF SectionTellsThePlan
  <2>1. FoldedAs(Heard, events, Screen(section, sectionStamp, interrupted), stamp) /\ Len(events) = 0
    BY HeardIsFold
  <2>2. Now = Screen(section, sectionStamp, interrupted)
    BY <2>1 DEF FoldedAs, Now
  <2>3. Now.rows = section
    BY <2>2 DEF Screen
  <2>4. \A id : ~Struck(id)
    BY DEF Struck
  <2> QED BY <2>3, <2>4 DEF SectionInv, HeardTells
<1> QED BY <1>1, SectionStart, SectionStep, PTL DEF PlanSpec

\* Whatever is heard, it is known whether the last run was interrupted.
LEMMA HeardBroken ==
  ASSUME SectionTypes, interrupted \in BOOLEAN
  PROVE  Now.broken \in BOOLEAN
<1> DEFINE base == Screen(section, sectionStamp, interrupted)
           T == {n \in 0 .. Len(events) : Heard[n].broken \notin BOOLEAN}
<1>1. events \in Seq(Graduations) /\ Len(events) \in Nat
  BY DEF SectionTypes
<1>2. FoldedAs(Heard, events, base, stamp)
  BY <1>1, HeardIsFold
<1>3. base.broken \in BOOLEAN
  BY DEF Screen
<1> HIDE DEF base
<1>4. SUFFICES ASSUME T # {} PROVE FALSE
  BY <1>1 DEF Now
<1>5. PICK n \in T : \A m \in T : n <= m
  <2>1. T \subseteq Nat
    BY <1>1
  <2> QED BY <1>4, <2>1, LeastOne
<1>6. n \in 0 .. Len(events) /\ Heard[n].broken \notin BOOLEAN
  OBVIOUS
<1>7. Heard[n] = IF n = 0 THEN base ELSE HearUnder(stamp, events[n], Heard[n - 1])
  BY <1>2, <1>6 DEF FoldedAs
<1>8. n # 0
  BY <1>3, <1>6, <1>7
<1>9. n - 1 \in 0 .. Len(events) /\ n - 1 \notin T
  BY <1>1, <1>5, <1>6, <1>8
<1>10. Heard[n - 1].broken \in BOOLEAN
  BY <1>9
<1>11. events[n] \in Graduations
  BY <1>1, <1>6, <1>8
<1>12. ASSUME NEW e \in Graduations, NEW s, s.broken \in BOOLEAN
       PROVE  HearUnder(stamp, e, s).broken \in BOOLEAN
  <2>1. e.kind \in {"sent", "ended", "list"} /\ e.good \in BOOLEAN
    BY <1>12 DEF Graduations
  <2>2. CASE e.kind = "sent"
    BY <2>2 DEF HearUnder, Screen
  <2>3. CASE e.kind = "ended"
    BY <2>1, <2>3 DEF HearUnder, Screen
  <2>4. CASE e.kind = "list"
    BY <1>12, <2>4 DEF HearUnder, Screen
  <2> QED BY <2>1, <2>2, <2>3, <2>4
<1> QED BY <1>6, <1>7, <1>8, <1>10, <1>11, <1>12

\* What the section's invariant leaves of the types.
PlanParcel ==
  /\ section \in Plans /\ claimedOnce \in BOOLEAN /\ inRun \in BOOLEAN
  /\ interrupted \in BOOLEAN /\ listed \in BOOLEAN /\ switched \in BOOLEAN
  /\ \A answer \in Lists : answer.kind \in {"list", "no list", "nothing"} /\ answer \in Answers
  /\ writes \in 0 .. MaxWrites /\ claims \in 0 .. MaxClaims
  /\ edits <= claims /\ stamp \in 0 .. edits /\ sectionStamp \in 0 .. edits
  /\ \A r \in retired : r.id \in Ids /\ r.words \in Rows /\ r.edit \in 1 .. edits

LEMMA AnswersOf ==
  ASSUME NEW kind \in {"list", "no list", "nothing"}, NEW rows \in Plans
  PROVE  Answer(kind, rows) \in Answers /\ Answer(kind, rows).kind = kind
BY DEF Answer, Answers

\* The tools' steps, which leave the screen and the retirements alone.
LEMMA ParcelOfCalls ==
  ASSUME SectionInv, PlanParcel,
         TodoWriteNothing \/ (\E sub \in Submissions : TodoWrite(sub))
  PROVE  PlanParcel'
<1>1. /\ UNCHANGED <<section, sectionStamp, interrupted, retired, edits, claims>>
      /\ UNCHANGED <<claimedOnce, inRun, rendered, atClaim>>
      /\ listed' = FALSE /\ switched' = FALSE /\ stamp' = edits
      /\ writes < MaxWrites /\ writes' = writes + 1
  BY DEF TodoWriteNothing, TodoWrite, Graduates, ScreenUntouched
<1>2. uncommitted' \in Answers /\ uncommitted'.kind \in {"list", "no list", "nothing"}
  <2>1. store \in Plans
    BY DEF SectionInv, SectionTypes
  <2>2. CASE TodoWriteNothing
    <3>1. uncommitted' = NoList \/ uncommitted' = Answer("list", ReadBack(store))
      BY <2>2 DEF TodoWriteNothing, Graduates
    <3>2. ReadBack(store) \in Plans /\ EmptyPlan \in Plans
      BY <2>1, ReadBackIsPlan, EmptyIsPlan
    <3>3. /\ Answer("list", ReadBack(store)) \in Answers
          /\ Answer("list", ReadBack(store)).kind = "list"
      BY <3>2, AnswersOf
    <3>4. NoList \in Answers /\ NoList.kind = "no list"
      BY <3>2, AnswersOf DEF NoList
    <3> QED BY <3>1, <3>3, <3>4
  <2>3. ASSUME NEW sub \in Submissions, TodoWrite(sub)
        PROVE  uncommitted' \in Answers /\ uncommitted'.kind \in {"list", "no list", "nothing"}
    <3>1. uncommitted' = Answer("list", ReadBack(store')) /\ store' = Enforced(store, sub)
      BY <2>3 DEF TodoWrite, Graduates
    <3>2. ReadBack(store') \in Plans
      BY <2>1, <3>1, EnforcedIsPlan, ReadBackIsPlan
    <3> QED BY <3>1, <3>2, AnswersOf
  <2> QED BY <2>2, <2>3
<1>3. writes' \in 0 .. MaxWrites
  <2>1. writes \in 0 .. MaxWrites /\ MaxWrites \in Nat
    BY PlanBounds DEF PlanParcel
  <2> QED BY <1>1, <2>1
<1>4. stamp' \in 0 .. edits
  BY <1>1 DEF SectionInv, EditsCounted
<1>5. \A answer \in Lists' : answer.kind \in {"list", "no list", "nothing"} /\ answer \in Answers
  BY <1>1, <1>2 DEF PlanParcel, Lists
<1> QED BY <1>1, <1>3, <1>4, <1>5 DEF PlanParcel

LEMMA ParcelOfClaims ==
  ASSUME SectionInv, PlanParcel, NEW cut \in BOOLEAN, ClaimRun(cut)
  PROVE  PlanParcel'
<1> DEFINE gone == DOMAIN store \ DOMAIN Claimed(store, claimedOnce)
           Retirement(id) == [id |-> id, words |-> store[id].words, edit |-> edits + 1]
<1>1. /\ UNCHANGED <<section, sectionStamp, interrupted, stamp, uncommitted, writes, switched>>
      /\ inRun' = TRUE /\ claimedOnce' = TRUE /\ claims < MaxClaims /\ claims' = claims + 1
      /\ listed' = (listed /\ rendered' = rendered)
  BY DEF ClaimRun, ScreenUntouched
<1>2. \/ edits' = edits + 1 /\ retired' = retired \union {Retirement(id) : id \in gone}
      \/ edits' = edits /\ retired' = retired
  BY DEF ClaimRun
<1>3. \A id \in gone : /\ Retirement(id).id \in Ids /\ Retirement(id).words \in Rows
                       /\ Retirement(id).edit = edits + 1
  BY PlanParts DEF SectionInv, SectionTypes
<1> HIDE DEF gone, Retirement
<1>4. edits \in Nat /\ claims \in Nat /\ edits <= claims /\ MaxClaims \in Nat
  <2>1. edits \in Nat /\ claims \in 0 .. MaxClaims /\ edits <= claims /\ MaxClaims \in Nat
    BY PlanBounds DEF SectionInv, EditsCounted, PlanParcel
  <2> QED BY <2>1
<1>5. edits' \in Nat /\ edits <= edits' /\ edits' <= claims' /\ claims' \in 0 .. MaxClaims
  BY <1>1, <1>2, <1>4
<1>6. \A r \in retired' : r.id \in Ids /\ r.words \in Rows /\ r.edit \in 1 .. edits'
  <2>1. \A r \in retired : r.id \in Ids /\ r.words \in Rows /\ r.edit \in 1 .. edits
    BY DEF PlanParcel
  <2>2. \A n \in 1 .. edits : n \in 1 .. edits'
    BY <1>4, <1>5
  <2>3. \A r \in retired : r.id \in Ids /\ r.words \in Rows /\ r.edit \in 1 .. edits'
    BY <2>1, <2>2
  <2>4. CASE edits' = edits /\ retired' = retired
    BY <2>1, <2>4
  <2>5. CASE edits' = edits + 1 /\ retired' = retired \union {Retirement(id) : id \in gone}
    <3>1. edits + 1 \in 1 .. edits'
      BY <1>4, <2>5
    <3>2. \A id \in gone : /\ Retirement(id).id \in Ids /\ Retirement(id).words \in Rows
                           /\ Retirement(id).edit \in 1 .. edits'
      BY <1>3, <3>1
    <3> QED BY <2>3, <2>5, <3>2
  <2> QED BY <1>2, <2>4, <2>5
<1>7. Lists' \subseteq Lists
  BY DEF ClaimRun, Lists
<1>8. \A answer \in Lists' : answer.kind \in {"list", "no list", "nothing"} /\ answer \in Answers
  BY <1>7 DEF PlanParcel
<1>9. stamp' \in 0 .. edits' /\ sectionStamp' \in 0 .. edits'
  <2>1. stamp \in 0 .. edits /\ sectionStamp \in 0 .. edits
    BY DEF PlanParcel
  <2> QED BY <1>1, <1>4, <1>5, <2>1
<1> QED BY <1>1, <1>5, <1>6, <1>8, <1>9 DEF PlanParcel

LEMMA ParcelOfRuns ==
  ASSUME SectionInv, PlanParcel,
         \/ TurnCommits \/ (\E success \in BOOLEAN : PlanRunEnds(success))
         \/ HistoryShrinks \/ RunnerSwitched \/ UNCHANGED planVars
  PROVE  PlanParcel'
<1>1. UNCHANGED <<section, sectionStamp, interrupted, retired, edits, stamp, writes, claims>>
  BY DEF TurnCommits, PlanRunEnds, HistoryShrinks, RunnerSwitched, planVars, ScreenUntouched
<1>2. inRun' \in BOOLEAN /\ claimedOnce' \in BOOLEAN /\ listed' \in BOOLEAN /\ switched' \in BOOLEAN
  BY DEF PlanParcel, TurnCommits, PlanRunEnds, HistoryShrinks, RunnerSwitched, planVars, Commits
<1>3. Lists' \subseteq Lists \union {NoList, NoAnswer}
  BY DEF TurnCommits, PlanRunEnds, HistoryShrinks, RunnerSwitched, planVars, Commits, Lists
<1>4. \A answer \in {NoList, NoAnswer} :
        answer.kind \in {"list", "no list", "nothing"} /\ answer \in Answers
  BY AnswersOf, EmptyIsPlan DEF NoList, NoAnswer
<1>5. \A answer \in Lists' : answer.kind \in {"list", "no list", "nothing"} /\ answer \in Answers
  BY <1>3, <1>4 DEF PlanParcel
<1> QED BY <1>1, <1>2, <1>5 DEF PlanParcel

LEMMA ParcelOfFrames ==
  ASSUME SectionInv, PlanParcel, SectionInv', Frame
  PROVE  PlanParcel'
<1>1. /\ UNCHANGED <<claimedOnce, inRun, listed, switched, rendered, atClaim, uncommitted>>
      /\ UNCHANGED <<writes, claims, edits, stamp>>
      /\ events' = <<>> /\ retired' = {}
      /\ sectionStamp' = Now.asOf /\ interrupted' = Now.broken
  BY DEF Frame, Now
<1>2. interrupted' \in BOOLEAN
  BY <1>1, HeardBroken DEF PlanParcel, SectionInv
<1>3. sectionStamp' \in 0 .. edits
  BY <1>1 DEF SectionInv, EditsCounted
<1>4. section' \in Plans
  <2>1. Now'.rows = section'
    BY <1>1, NowDrained DEF Screen
  <2> QED BY <2>1 DEF SectionInv, SectionTypes
<1> QED BY <1>1, <1>2, <1>3, <1>4 DEF PlanParcel, Lists

\* The store, its render in the history and the section keep their types, and no count
\* passes its bound: the store's edits are no more than the claims.
THEOREM PlanTypes == PlanSpec => []PlanTypeOK
<1>1. PlanInit => PlanParcel
  <2> SUFFICES ASSUME PlanInit PROVE PlanParcel
    OBVIOUS
  <2>1. \A answer \in Lists : answer = NoList \/ answer = NoAnswer
    BY DEF PlanInit, Lists
  <2>2. \A answer \in Lists : answer.kind \in {"list", "no list", "nothing"} /\ answer \in Answers
    <3>1. NoList \in Answers /\ NoList.kind = "no list"
      BY AnswersOf, EmptyIsPlan DEF NoList
    <3>2. NoAnswer \in Answers /\ NoAnswer.kind = "nothing"
      BY AnswersOf, EmptyIsPlan DEF NoAnswer
    <3> QED BY <2>1, <3>1, <3>2
  <2>3. 0 \in 0 .. MaxWrites /\ 0 \in 0 .. MaxClaims
    BY PlanBounds
  <2>4. /\ section = EmptyPlan /\ ~claimedOnce /\ ~inRun /\ ~interrupted /\ listed /\ ~switched
        /\ claimedOnce \in BOOLEAN /\ inRun \in BOOLEAN /\ interrupted \in BOOLEAN
        /\ listed \in BOOLEAN /\ switched \in BOOLEAN
        /\ writes = 0 /\ claims = 0 /\ edits = 0 /\ stamp = 0 /\ sectionStamp = 0 /\ retired = {}
    BY DEF PlanInit
  <2>5. /\ writes \in 0 .. MaxWrites /\ claims \in 0 .. MaxClaims
        /\ edits <= claims /\ stamp \in 0 .. edits /\ sectionStamp \in 0 .. edits
    BY <2>3, <2>4
  <2>6. section \in Plans
    BY <2>4, EmptyIsPlan
  <2> QED BY <2>2, <2>4, <2>5, <2>6 DEF PlanParcel
<1>2. SectionInv /\ PlanParcel /\ [PlanNext]_planVars => PlanParcel'
  BY SectionStep, ParcelOfCalls, ParcelOfClaims, ParcelOfRuns, ParcelOfFrames DEF PlanNext
<1>3. ASSUME SectionInv, PlanParcel PROVE PlanTypeOK
  <2>1. \A e \in Range(events) : e.kind \in {"sent", "ended", "list"} /\ e.rows \in Plans
    <3>1. events \in Seq(Graduations)
      BY <1>3 DEF SectionInv, SectionTypes
    <3>2. \A e \in Range(events) : e \in Graduations
      BY <3>1 DEF Range
    <3> QED BY <3>2 DEF Graduations
  <2>2. /\ edits \in Nat /\ edits <= claims /\ claims \in 0 .. MaxClaims /\ MaxClaims \in Nat
        /\ stamp \in 0 .. edits /\ sectionStamp \in 0 .. edits
        /\ \A r \in retired : r.edit \in 1 .. edits
    BY <1>3, PlanBounds DEF SectionInv, EditsCounted, PlanParcel
  <2>3. /\ edits \in 0 .. MaxClaims /\ stamp \in 0 .. MaxClaims /\ sectionStamp \in 0 .. MaxClaims
        /\ \A r \in retired : r.edit \in 1 .. MaxClaims
    BY <2>2
  <2> QED BY <1>3, <2>1, <2>3 DEF SectionInv, SectionTypes, PlanParcel, Lists, PlanTypeOK
<1> QED BY <1>1, <1>2, <1>3, SectionStart, SectionStep, PTL DEF PlanSpec

-----------------------------------------------------------------------------
(* The reminders.                                                          *)

TurnsOrNone == Nat \union {NoTurn}

PaceTypes ==
  /\ turn \in Nat /\ birth \in TurnsOrNone /\ start \in TurnsOrNone /\ stale \in TurnsOrNone
  /\ wroteAt \in TurnsOrNone /\ noted \in BOOLEAN /\ leaving \in BOOLEAN
  /\ given \in [Reminders -> Seq(Nat)]

\* The reminders the dampers remember are those given since the last write: the plan
\* they were about still stands.
DampersKnow ==
  /\ given["creation"] # <<>> => turn > 0 /\ noted
  /\ given["start"] # <<>> =>
       /\ turn > 0 /\ start = Last(given["start"])
       /\ Undone(todos) # {} /\ Underway(todos) = {}
  /\ given["stale"] # <<>> =>
       /\ turn > 0 /\ stale = Last(given["stale"])
       /\ Undone(todos) # {} /\ seen = todos /\ birth # NoTurn

\* Once the run's first consult is over, a damper set for the plan that stands since
\* before the last write is a reminder given.
Consulted == point = "request" \/ (point = "top" /\ turn > 0)
DampersTold ==
  Consulted =>
    /\ birth <= turn
    /\ (birth # NoTurn /\ seen = todos /\ wroteAt < birth /\ stale # NoTurn) =>
         given["stale"] # <<>> /\ Last(given["stale"]) = stale

PaceInv == PaceTypes /\ DampersKnow /\ DampersTold /\ RemindersKeepTheirPace

LEMMA ReminderAppended ==
  ASSUME NEW S, NEW s \in Seq(S), NEW e \in S
  PROVE  /\ Append(s, e) \in Seq(S) /\ Len(Append(s, e)) = Len(s) + 1 /\ Len(s) \in Nat
         /\ Append(s, e) # <<>> /\ DOMAIN Append(s, e) = 1 .. Len(s) + 1
         /\ \A i \in 1 .. Len(s) : Append(s, e)[i] = s[i]
         /\ Append(s, e)[Len(s) + 1] = e
OBVIOUS

\* What a reminder adds to those given.
LEMMA ReminderAdds ==
  ASSUME PaceTypes, NEW r \in Reminders, Says(r)
  PROVE  /\ given' \in [Reminders -> Seq(Nat)]
         /\ given'[r] # <<>> /\ Last(given'[r]) = turn
         /\ \A o \in Reminders : o # r => given'[o] = given[o]
         /\ DOMAIN given'[r] = 1 .. Len(given[r]) + 1 /\ Len(given'[r]) = Len(given[r]) + 1
         /\ Len(given[r]) \in Nat
         /\ \A i \in 1 .. Len(given[r]) : given'[r][i] = given[r][i]
         /\ given'[r][Len(given[r]) + 1] = turn
<1> DEFINE old == given[r]
           new == Append(old, turn)
<1>1. given \in [Reminders -> Seq(Nat)] /\ turn \in Nat /\ old \in Seq(Nat)
  BY DEF PaceTypes
<1>2. /\ new \in Seq(Nat) /\ Len(new) = Len(old) + 1 /\ Len(old) \in Nat /\ new # <<>>
      /\ DOMAIN new = 1 .. Len(old) + 1
      /\ \A i \in 1 .. Len(old) : new[i] = old[i]
      /\ new[Len(old) + 1] = turn
  <2>1. \A o \in Seq(Nat), e \in Nat :
          /\ Append(o, e) \in Seq(Nat) /\ Len(Append(o, e)) = Len(o) + 1 /\ Len(o) \in Nat
          /\ Append(o, e) # <<>> /\ DOMAIN Append(o, e) = 1 .. Len(o) + 1
          /\ \A i \in 1 .. Len(o) : Append(o, e)[i] = o[i]
          /\ Append(o, e)[Len(o) + 1] = e
    BY ReminderAppended
  <2> QED BY <1>1, <2>1
<1>3. Last(new) = turn
  BY <1>2 DEF Last
<1>4. given' = [given EXCEPT ![r] = new]
  BY DEF Says
<1> HIDE DEF new
<1>5. given' \in [Reminders -> Seq(Nat)] /\ given'[r] = new /\ \A o \in Reminders : o # r => given'[o] = given[o]
  BY <1>1, <1>2, <1>4
<1> QED BY <1>2, <1>3, <1>5

LEMMA PaceIsKept ==
  ASSUME PaceTypes, NoDrumbeat, NEW r \in Reminders, Says(r),
         r = "creation" => given[r] = <<>>,
         given[r] = <<>> \/ turn - Last(given[r]) > RearmTurns
  PROVE  NoDrumbeat'
<1>1. /\ given[r] \in Seq(Nat) /\ turn \in Nat /\ RearmTurns \in Nat
      /\ given[r] = <<>> \/ Last(given[r]) = given[r][Len(given[r])]
  BY NudgeBounds DEF PaceTypes, Last
<1>2. Len(given'["creation"]) <= 1
  <2>1. CASE r = "creation"
    BY <2>1, ReminderAdds
  <2>2. CASE r # "creation"
    BY <2>2, ReminderAdds DEF NoDrumbeat, Reminders
  <2> QED BY <2>1, <2>2
<1>3. ASSUME NEW o \in Reminders, NEW i \in 2 .. Len(given'[o])
      PROVE  given'[o][i] - given'[o][i - 1] > RearmTurns
  <2>1. CASE o # r
    BY <1>3, <2>1, ReminderAdds DEF NoDrumbeat
  <2>2. CASE o = r /\ i <= Len(given[r])
    <3>1. i \in 2 .. Len(given[r]) /\ i - 1 \in 1 .. Len(given[r]) /\ i \in 1 .. Len(given[r])
      BY <1>3, <2>2, ReminderAdds
    <3>2. given'[o][i] = given[r][i] /\ given'[o][i - 1] = given[r][i - 1]
      BY <2>2, <3>1, ReminderAdds
    <3> QED BY <3>1, <3>2 DEF NoDrumbeat
  <2>3. CASE o = r /\ ~(i <= Len(given[r]))
    <3>1. i = Len(given[r]) + 1 /\ Len(given[r]) \in 1 .. Len(given[r]) /\ Len(given[r]) \in Nat
      BY <1>3, <2>3, ReminderAdds
    <3>2. given'[o][i] = turn /\ given'[o][i - 1] = given[r][Len(given[r])]
      BY <2>3, <3>1, ReminderAdds
    <3>3. given[r] # <<>>
      BY <1>1, <3>1
    <3> QED BY <1>1, <3>2, <3>3
  <2> QED BY <2>1, <2>2, <2>3
<1> QED BY <1>2, <1>3 DEF NoDrumbeat

\* A consult of a session that leaves, or with nothing undone, gives at most the note.
LEMMA ConsultQuiet ==
  ASSUME PaceInv, Consult, leaving \/ Undone(todos) = {}
  PROVE  PaceInv'
<1> DEFINE planless == todos = EmptyPlan /\ ~Fresh(sawPlan, FALSE) /\ ~Fresh(noted, FALSE)
                         /\ turn >= PlanlessTurns
<1>1. /\ point = "top" /\ point' \in {"top", "request"}
      /\ UNCHANGED <<todos, turn, leaving, wroteAt, seen>>
      /\ birth' = Fresh(birth, NoTurn) /\ stale' = Fresh(stale, NoTurn)
      /\ start' \in {Fresh(start, NoTurn), NoTurn}
      /\ leaving => start' = Fresh(start, NoTurn)
      /\ (turn # 0 /\ noted) => noted'
      /\ given' = given \/ (planless /\ Says("creation") /\ noted')
      /\ noted' \in BOOLEAN
  <2>1. CASE leaving
    BY <2>1 DEF Consult, SaysNothing, Fresh, PaceInv, PaceTypes
  <2>2. CASE ~leaving /\ Undone(todos) = {}
    <3>1. /\ noted' = (Fresh(noted, FALSE) \/ planless)
          /\ start' = IF planless THEN Fresh(start, NoTurn) ELSE NoTurn
          /\ birth' = Fresh(birth, NoTurn) /\ stale' = Fresh(stale, NoTurn) /\ UNCHANGED seen
          /\ IF planless THEN Says("creation") ELSE SaysNothing
      BY <2>2 DEF Consult
    <3>2. /\ point = "top" /\ point' \in {"top", "request"}
          /\ UNCHANGED <<todos, turn, leaving, wroteAt>>
      BY DEF Consult
    <3>3. (turn # 0 /\ noted) => noted'
      BY <3>1 DEF Fresh
    <3>4. noted' \in BOOLEAN
      BY <3>1
    <3>5. given' = given \/ (planless /\ Says("creation") /\ noted')
      BY <3>1 DEF SaysNothing
    <3> QED BY <2>2, <3>1, <3>2, <3>3, <3>4, <3>5
  <2> QED BY <2>1, <2>2
<1> HIDE DEF planless
<1>2. PaceTypes /\ turn \in Nat /\ "creation" \in Reminders
  BY DEF PaceInv, PaceTypes, Reminders
<1>3. planless => turn > 0 /\ ~noted
  BY <1>2, NudgeBounds DEF planless, Fresh
<1>4. given["creation"] # <<>> => turn > 0 /\ noted
  BY DEF PaceInv, DampersKnow
<1>5. /\ given["start"] # <<>> => turn > 0 /\ Undone(todos) # {}
      /\ given["stale"] # <<>> => turn > 0 /\ Undone(todos) # {}
  BY DEF PaceInv, DampersKnow
<1>6. /\ given' \in [Reminders -> Seq(Nat)]
      /\ given'["start"] = given["start"] /\ given'["stale"] = given["stale"]
      /\ NoDrumbeat'
  <2>1. CASE given' = given
    BY <1>2, <2>1 DEF PaceTypes, PaceInv, RemindersKeepTheirPace, NoDrumbeat
  <2>2. CASE planless /\ Says("creation")
    <3>1. given["creation"] = <<>>
      BY <1>3, <1>4, <2>2
    <3>2. NoDrumbeat
      BY DEF PaceInv, RemindersKeepTheirPace
    <3> QED BY <1>2, <2>2, <3>1, <3>2, ReminderAdds, PaceIsKept DEF Reminders
  <2> QED BY <1>1, <2>1, <2>2
<1>7. PaceTypes'
  BY <1>1, <1>2, <1>6 DEF PaceTypes, TurnsOrNone, Fresh
<1>8. DampersKnow'
  <2>1. given'["creation"] # <<>> => turn' > 0 /\ noted'
    <3>1. CASE given' = given
      BY <1>1, <1>4, <3>1
    <3>2. CASE planless /\ noted'
      BY <1>1, <1>2, <1>3, <3>2
    <3> QED BY <1>1, <3>1, <3>2
  <2>2. given'["start"] # <<>> =>
          /\ turn' > 0 /\ start' = Last(given'["start"])
          /\ Undone(todos') # {} /\ Underway(todos') = {}
    BY <1>1, <1>5, <1>6 DEF PaceInv, DampersKnow, Fresh
  <2>3. given'["stale"] # <<>> =>
          /\ turn' > 0 /\ stale' = Last(given'["stale"])
          /\ Undone(todos') # {} /\ seen' = todos' /\ birth' # NoTurn
    BY <1>1, <1>5, <1>6 DEF PaceInv, DampersKnow, Fresh
  <2> QED BY <2>1, <2>2, <2>3 DEF DampersKnow
<1>9. DampersTold'
  <2>1. CASE turn = 0
    BY <1>1, <2>1 DEF DampersTold, Fresh, NoTurn
  <2>2. CASE turn # 0
    BY <1>1, <1>2, <1>6, <2>2 DEF PaceInv, DampersTold, Consulted, Fresh
  <2> QED BY <2>1, <2>2
<1>10. DriftIsMet'
  BY <1>1 DEF DriftIsMet
<1> QED BY <1>6, <1>7, <1>8, <1>9, <1>10 DEF PaceInv, RemindersKeepTheirPace

\* A consult with work undone: its reminders are those the gate or the grace window
\* ask for, and none at the run's first turn.
LEMMA ConsultWork ==
  ASSUME PaceInv, Consult, ~leaving, Undone(todos) # {}
  PROVE  PaceInv'
<1> DEFINE gate == Fresh(unmarked, FALSE)
           started == Fresh(start, NoTurn)
           staled == Fresh(stale, NoTurn)
           born == Fresh(birth, NoTurn)
           standing == born # NoTurn /\ seen = todos
           since == IF standing THEN born ELSE turn
           answered == IF standing THEN staled ELSE NoTurn
           owed == Underway(todos) = {} /\ gate /\ ~Damped(started)
           frozen == turn - since >= GraceTurns /\ ~Damped(answered)
<1>1. /\ point = "top" /\ point' \in {"top", "request"}
      /\ UNCHANGED <<todos, turn, leaving, wroteAt>>
      /\ seen' = todos /\ birth' = since
      /\ start' = IF owed THEN turn
                  ELSE IF Underway(todos) # {} THEN NoTurn ELSE started
      /\ stale' = IF ~owed /\ frozen THEN turn ELSE answered
      /\ IF owed THEN Says("start") ELSE IF frozen THEN Says("stale") ELSE given' = given
  BY DEF Consult, SaysNothing
<1>2. /\ (turn # 0 /\ noted) => noted'
      /\ noted' \in BOOLEAN
  <2>1. noted' = (Fresh(noted, FALSE) \/ (/\ todos = EmptyPlan /\ ~Fresh(sawPlan, FALSE)
                                          /\ ~Fresh(noted, FALSE) /\ turn >= PlanlessTurns))
    BY DEF Consult
  <2>2. noted' \in BOOLEAN
    BY <2>1
  <2>3. (turn # 0 /\ noted) => noted'
    BY <2>1 DEF Fresh
  <2> QED BY <2>2, <2>3
<1>3. /\ turn \in Nat /\ RearmTurns \in Nat /\ GraceTurns \in Nat /\ GraceTurns > 0
      /\ start \in TurnsOrNone /\ stale \in TurnsOrNone /\ birth \in TurnsOrNone
      /\ wroteAt \in TurnsOrNone /\ leaving \in BOOLEAN
      /\ given \in [Reminders -> Seq(Nat)]
      /\ "start" \in Reminders /\ "stale" \in Reminders /\ "creation" \in Reminders
  BY NudgeBounds DEF PaceInv, PaceTypes, Reminders
<1>4. /\ since \in TurnsOrNone /\ answered \in TurnsOrNone /\ started \in TurnsOrNone
      /\ since # NoTurn
  BY <1>3 DEF Fresh, TurnsOrNone, NoTurn
<1>5. PaceTypes /\ DampersKnow /\ DampersTold /\ NoDrumbeat
  BY DEF PaceInv, RemindersKeepTheirPace
<1>6. given["start"] # <<>> =>
        /\ turn > 0 /\ started = start /\ start = Last(given["start"])
        /\ Underway(todos) = {}
  BY <1>3, <1>5 DEF DampersKnow, Fresh
<1>7. given["stale"] # <<>> =>
        /\ turn > 0 /\ stale = Last(given["stale"]) /\ standing
        /\ since = birth /\ answered = stale
  BY <1>3, <1>5 DEF DampersKnow, Fresh
<1>8. \A r \in Reminders : given[r] # <<>> => Last(given[r]) \in Nat
  <2> SUFFICES ASSUME NEW r \in Reminders, given[r] # <<>>
               PROVE  Last(given[r]) \in Nat
    OBVIOUS
  <2>1. given[r] \in Seq(Nat)
    BY <1>3
  <2> QED BY <2>1 DEF Last
<1>9. answered # NoTurn => turn > 0 /\ standing /\ since = birth /\ answered = stale
  BY <1>3 DEF Fresh
<1>10. since <= turn
  BY <1>1, <1>3, <1>5 DEF DampersTold, Consulted, Fresh, TurnsOrNone, NoTurn
<1>11. (answered # NoTurn /\ wroteAt < since) =>
         given["stale"] # <<>> /\ Last(given["stale"]) = answered
  BY <1>1, <1>3, <1>5, <1>9 DEF DampersTold, Consulted, Fresh
<1>12. owed \/ frozen => turn > 0
  BY <1>3, <1>10 DEF Fresh, NoTurn
<1>13. /\ owed => given["start"] = <<>> \/ turn - Last(given["start"]) > RearmTurns
       /\ frozen => given["stale"] = <<>> \/ turn - Last(given["stale"]) > RearmTurns
  <2>1. \A t \in Nat : ~Damped(t) => turn - t > RearmTurns
    BY <1>3 DEF Damped, NoTurn
  <2> QED BY <1>3, <1>6, <1>7, <1>8, <2>1
<1>14. (turn - since >= GraceTurns /\ ~frozen) =>
          answered # NoTurn /\ turn - answered <= RearmTurns
  BY DEF Damped
<1>15. given["creation"] # <<>> => turn > 0 /\ noted
  BY <1>5 DEF DampersKnow
<1> HIDE DEF gate, started, staled, born, standing, since, answered, owed, frozen
<1>16. /\ birth' \in TurnsOrNone /\ start' \in TurnsOrNone /\ stale' \in TurnsOrNone
       /\ turn' = turn /\ wroteAt' = wroteAt /\ leaving' = leaving
       /\ todos' = todos /\ seen' = todos /\ birth' = since
  BY <1>1, <1>3, <1>4 DEF TurnsOrNone
<1>17. CASE owed
  <2>1. Says("start") /\ start' = turn /\ stale' = answered
    BY <1>1, <1>17
  <2>2. /\ given' \in [Reminders -> Seq(Nat)]
        /\ given'["start"] # <<>> /\ Last(given'["start"]) = turn
        /\ given'["stale"] = given["stale"] /\ given'["creation"] = given["creation"]
    BY <1>3, <1>5, <2>1, ReminderAdds
  <2>3. NoDrumbeat'
    BY <1>3, <1>5, <1>13, <1>17, <2>1, PaceIsKept
  <2>4. PaceTypes'
    BY <1>2, <1>3, <1>16, <2>2 DEF PaceTypes
  <2>5. Underway(todos) = {}
    BY <1>17 DEF owed
  <2>6. DampersKnow'
    BY <1>2, <1>4, <1>7, <1>12, <1>15, <1>16, <1>17, <2>1, <2>2, <2>5 DEF DampersKnow
  <2>7. DampersTold'
    BY <1>10, <1>11, <1>16, <2>1, <2>2 DEF DampersTold
  <2>8. DriftIsMet'
    BY <1>3, <1>16, <2>2 DEF DriftIsMet
  <2> QED BY <2>3, <2>4, <2>6, <2>7, <2>8 DEF PaceInv, RemindersKeepTheirPace
<1>18. CASE ~owed /\ frozen
  <2>1. Says("stale") /\ stale' = turn
        /\ start' = IF Underway(todos) # {} THEN NoTurn ELSE started
    BY <1>1, <1>18
  <2>2. /\ given' \in [Reminders -> Seq(Nat)]
        /\ given'["stale"] # <<>> /\ Last(given'["stale"]) = turn
        /\ given'["start"] = given["start"] /\ given'["creation"] = given["creation"]
    BY <1>3, <1>5, <2>1, ReminderAdds
  <2>3. NoDrumbeat'
    BY <1>3, <1>5, <1>13, <1>18, <2>1, PaceIsKept
  <2>4. PaceTypes'
    BY <1>2, <1>3, <1>16, <2>2 DEF PaceTypes
  <2>5. DampersKnow'
    BY <1>2, <1>4, <1>6, <1>12, <1>15, <1>16, <1>18, <2>1, <2>2 DEF DampersKnow
  <2>6. DampersTold'
    BY <1>10, <1>16, <2>1, <2>2 DEF DampersTold
  <2>7. DriftIsMet'
    BY <1>3, <1>16, <2>2 DEF DriftIsMet
  <2> QED BY <2>3, <2>4, <2>5, <2>6, <2>7 DEF PaceInv, RemindersKeepTheirPace
<1>19. CASE ~owed /\ ~frozen
  <2>1. /\ given' = given /\ stale' = answered
        /\ start' = IF Underway(todos) # {} THEN NoTurn ELSE started
    BY <1>1, <1>19
  <2>2. NoDrumbeat'
    BY <1>5, <2>1 DEF NoDrumbeat
  <2>3. PaceTypes'
    BY <1>2, <1>3, <1>16, <2>1 DEF PaceTypes
  <2>4. DampersKnow'
    BY <1>2, <1>4, <1>6, <1>7, <1>15, <1>16, <2>1 DEF DampersKnow
  <2>5. DampersTold'
    BY <1>10, <1>11, <1>16, <2>1 DEF DampersTold
  <2>6. DriftIsMet'
    BY <1>11, <1>14, <1>16, <1>19, <2>1 DEF DriftIsMet
  <2> QED BY <2>2, <2>3, <2>4, <2>5, <2>6 DEF PaceInv, RemindersKeepTheirPace
<1> QED BY <1>17, <1>18, <1>19

\* A write of the plan takes back the reminders about it and the dampers' word of it.
LEMMA WriteKeepsPace ==
  ASSUME PaceInv, NEW id \in Tasks, NEW status \in Statuses, WritesPlan(id, status)
  PROVE  PaceInv'
<1>1. /\ given' = [given EXCEPT !["start"] = <<>>, !["stale"] = <<>>] /\ wroteAt' = turn
      /\ UNCHANGED <<seen, birth, start, stale, noted, turn, point, leaving>>
      /\ point = "request"
  BY DEF WritesPlan, DecisionsStand
<1>2. PaceTypes /\ DampersKnow /\ DampersTold /\ NoDrumbeat
  BY DEF PaceInv, RemindersKeepTheirPace
<1>3. /\ given \in [Reminders -> Seq(Nat)] /\ given' \in [Reminders -> Seq(Nat)]
      /\ given'["creation"] = given["creation"]
      /\ given'["start"] = <<>> /\ given'["stale"] = <<>>
  <2>1. given \in [Reminders -> Seq(Nat)] /\ <<>> \in Seq(Nat)
    BY <1>2 DEF PaceTypes
  <2> QED BY <1>1, <2>1 DEF Reminders
<1>4. turn \in Nat /\ birth \in TurnsOrNone /\ birth <= turn
  BY <1>1, <1>2 DEF PaceTypes, DampersTold, Consulted
<1>5. NoDrumbeat'
  <2>1. Len(given'["creation"]) <= 1
    BY <1>2, <1>3 DEF NoDrumbeat
  <2>2. ASSUME NEW r \in Reminders, NEW i \in 2 .. Len(given'[r])
        PROVE  given'[r][i] - given'[r][i - 1] > RearmTurns
    <3>1. CASE r = "creation"
      BY <1>2, <1>3, <2>2, <3>1 DEF NoDrumbeat
    <3>2. CASE r # "creation"
      BY <1>3, <2>2, <3>2 DEF Reminders
    <3> QED BY <3>1, <3>2
  <2> QED BY <2>1, <2>2 DEF NoDrumbeat
<1>6. PaceTypes'
  BY <1>1, <1>2, <1>3 DEF PaceTypes, TurnsOrNone
<1>7. DampersKnow'
  BY <1>1, <1>2, <1>3 DEF DampersKnow
<1>8. ~(wroteAt' < birth')
  BY <1>1, <1>4 DEF TurnsOrNone, NoTurn
<1>9. DampersTold' /\ DriftIsMet'
  BY <1>1, <1>4, <1>8 DEF DampersTold, DriftIsMet
<1> QED BY <1>5, <1>6, <1>7, <1>9 DEF PaceInv, RemindersKeepTheirPace

\* The first turn's consult starts the dampers afresh: what they hold when a run is
\* claimed says nothing of the run.
LEMMA ClaimKeepsPace == PaceInv /\ ClaimsPlan => PaceInv'
<1> SUFFICES ASSUME PaceInv, ClaimsPlan
             PROVE  PaceInv'
  OBVIOUS
<1>1. /\ given' = [r \in Reminders |-> <<>>] /\ wroteAt' = NoTurn
      /\ turn' = 0 /\ point' = "top"
      /\ UNCHANGED <<seen, birth, start, stale, noted, leaving>>
  BY DEF ClaimsPlan, DecisionsStand
<1>2. /\ given' \in [Reminders -> Seq(Nat)]
      /\ \A r \in Reminders : given'[r] = <<>>
  BY <1>1
<1>3. PaceTypes'
  BY <1>1, <1>2 DEF PaceInv, PaceTypes, TurnsOrNone
<1>4. NoDrumbeat'
  BY <1>2 DEF NoDrumbeat, Reminders
<1>5. DampersKnow' /\ DampersTold' /\ DriftIsMet'
  BY <1>1, <1>2 DEF DampersKnow, DampersTold, DriftIsMet, Consulted, Reminders
<1> QED BY <1>3, <1>4, <1>5 DEF PaceInv, RemindersKeepTheirPace

\* Between consults and writes the dampers stand; only the turn moves on.
LEMMA TurnsKeepPace ==
  ASSUME PaceInv, UNCHANGED <<todos, seen, birth, start, stale, noted, given, wroteAt>>,
         \/ UNCHANGED <<turn, leaving>> /\ (point' = point \/ point' = "rest")
         \/ /\ turn' = turn + 1 /\ point = "request" /\ point' = "top"
            /\ UNCHANGED leaving
         \/ UNCHANGED <<turn, point>> /\ leaving' = TRUE
  PROVE  PaceInv'
<1>1. PaceTypes /\ DampersKnow /\ DampersTold /\ NoDrumbeat /\ DriftIsMet
  BY DEF PaceInv, RemindersKeepTheirPace
<1>2. turn \in Nat /\ birth \in TurnsOrNone /\ turn' \in Nat /\ turn <= turn'
  BY <1>1 DEF PaceTypes
<1>3. PaceTypes'
  BY <1>1, <1>2 DEF PaceTypes, TurnsOrNone
<1>4. NoDrumbeat'
  BY <1>1 DEF NoDrumbeat
<1>5. DampersKnow'
  BY <1>1, <1>2 DEF DampersKnow
<1>6. Consulted' => Consulted
  BY DEF Consulted
<1>7. DampersTold'
  BY <1>1, <1>2, <1>6 DEF DampersTold, TurnsOrNone, NoTurn
<1>8. DriftIsMet'
  BY <1>1 DEF DriftIsMet
<1> QED BY <1>3, <1>4, <1>5, <1>7, <1>8 DEF PaceInv, RemindersKeepTheirPace

LEMMA PaceInvStep == PaceInv /\ [NudgeNext]_nudgeVars => PaceInv'
<1> SUFFICES ASSUME PaceInv, [NudgeNext]_nudgeVars
             PROVE  PaceInv'
  OBVIOUS
<1>1. CASE Consult
  BY <1>1, ConsultQuiet, ConsultWork
<1>2. CASE ClaimsPlan
  BY <1>2, ClaimKeepsPace
<1>3. CASE WorksOn
  BY <1>3, TurnsKeepPace DEF WorksOn, DecisionsStand
<1>4. ASSUME NEW id \in Tasks, NEW status \in Statuses, WritesPlan(id, status)
      PROVE  PaceInv'
  BY <1>4, WriteKeepsPace
<1>5. CASE NextTurn \/ FollowsUp
  BY <1>5, TurnsKeepPace DEF NextTurn, FollowsUp, DecisionsStand
<1>6. CASE NudgedRunEnds
  BY <1>6, TurnsKeepPace DEF NudgedRunEnds, DecisionsStand
<1>7. CASE HostLeaving
  BY <1>7, TurnsKeepPace DEF HostLeaving, DecisionsStand
<1>8. CASE UNCHANGED nudgeVars
  BY <1>8, TurnsKeepPace DEF nudgeVars
<1> QED BY <1>1, <1>2, <1>3, <1>4, <1>5, <1>6, <1>7, <1>8 DEF NudgeNext, NudgesOver

\* No plan is nagged about and no drift goes unmentioned, whatever the windows and
\* however runs claim, work, write, leave and prepare a turn again: the dampers a
\* consult reads (todo_nudge.rs) are always those of the reminders this run was given.
THEOREM RemindersPace == NudgeSpec => []RemindersKeepTheirPace
<1>1. NudgeInit => PaceInv
  <2> SUFFICES ASSUME NudgeInit
               PROVE  PaceInv
    OBVIOUS
  <2>1. /\ given \in [Reminders -> Seq(Nat)]
        /\ \A r \in Reminders : given[r] = <<>>
    BY DEF NudgeInit
  <2>2. PaceTypes
    BY <2>1 DEF NudgeInit, PaceTypes, TurnsOrNone
  <2>3. DampersKnow /\ DampersTold /\ NoDrumbeat /\ DriftIsMet
    BY <2>1 DEF NudgeInit, DampersKnow, DampersTold, NoDrumbeat, DriftIsMet, Consulted,
                Reminders
  <2> QED BY <2>2, <2>3 DEF PaceInv, RemindersKeepTheirPace
<1>2. PaceInv => RemindersKeepTheirPace
  BY DEF PaceInv
<1> QED BY <1>1, <1>2, PaceInvStep, PTL DEF NudgeSpec

-----------------------------------------------------------------------------
(* The types of the reminders.                                             *)

LEMMA TaskPlanOf ==
  ASSUME NEW plan, plan = [id \in DOMAIN plan |-> plan[id]], DOMAIN plan \subseteq Tasks,
         \A id \in DOMAIN plan : plan[id] \in [status : Statuses, words : {"filed"}]
  PROVE  plan \in TaskPlans
<1>1. plan \in [DOMAIN plan -> [status : Statuses, words : {"filed"}]]
  OBVIOUS
<1> QED BY <1>1 DEF TaskPlans

LEMMA TaskPlanParts ==
  ASSUME NEW plan \in TaskPlans
  PROVE  /\ plan = [id \in DOMAIN plan |-> plan[id]] /\ DOMAIN plan \subseteq Tasks
         /\ \A id \in DOMAIN plan : plan[id] \in [status : Statuses, words : {"filed"}]
<1>1. PICK ids \in SUBSET Tasks : plan \in [ids -> [status : Statuses, words : {"filed"}]]
  BY DEF TaskPlans
<1> QED BY <1>1

LEMMA NoTasks == EmptyPlan \in TaskPlans
<1>1. DOMAIN EmptyPlan = {} /\ EmptyPlan = [id \in DOMAIN EmptyPlan |-> EmptyPlan[id]]
  BY DEF EmptyPlan
<1> QED BY <1>1, TaskPlanOf

LEMMA ClaimedTasks ==
  ASSUME NEW plan \in TaskPlans, NEW before
  PROVE  Claimed(plan, before) \in TaskPlans
<1> DEFINE kept == {i \in DOMAIN plan : before => plan[i].status # "pending"}
           rest == [id \in kept |-> plan[id]]
<1>1. DOMAIN rest = kept /\ \A id \in kept : id \in DOMAIN plan /\ rest[id] = plan[id]
  OBVIOUS
<1>2. rest \in TaskPlans
  BY <1>1, TaskPlanParts, TaskPlanOf
<1> QED BY <1>2, NoTasks DEF Claimed

LEMMA WrittenTasks ==
  ASSUME NEW plan \in TaskPlans, NEW id \in Tasks, NEW status \in Statuses
  PROVE  Enforced(plan, [i \in {id} |-> Entry(status, "filed")]) \in TaskPlans
<1> DEFINE sub == [i \in {id} |-> Entry(status, "filed")]
           new == Enforced(plan, sub)
<1>1. DOMAIN sub = {id} /\ sub[id].status = status /\ sub[id].words = "filed"
  BY DEF Entry
<1> HIDE DEF sub
<1>2. /\ DOMAIN new = DOMAIN plan \union {id} /\ new = [i \in DOMAIN new |-> new[i]]
      /\ \A i \in DOMAIN plan \union {id} : new[i] =
           IF i \notin DOMAIN sub THEN plan[i]
           ELSE IF i \in DOMAIN plan
                THEN Entry(Landed(plan[i].status, sub[i].status), plan[i].words)
                ELSE Entry(Born(plan, sub[i].status), sub[i].words)
  BY <1>1 DEF Enforced
<1> HIDE DEF new
<1>3. ASSUME NEW i \in DOMAIN new PROVE new[i] \in [status : Statuses, words : {"filed"}]
  <2>1. CASE i # id
    <3>1. i \in DOMAIN plan /\ new[i] = plan[i]
      BY <1>1, <1>2, <2>1
    <3> QED BY <3>1, TaskPlanParts
  <2>2. CASE i = id /\ id \in DOMAIN plan
    <3>1. new[i] = Entry(Landed(plan[i].status, status), plan[i].words)
      BY <1>1, <1>2, <2>2
    <3>2. plan[i].status \in Statuses /\ plan[i].words = "filed"
      BY <2>2, TaskPlanParts
    <3>3. Landed(plan[i].status, status) \in Statuses
      BY <3>2 DEF Landed, Statuses
    <3> QED BY <3>1, <3>2, <3>3 DEF Entry
  <2>3. CASE i = id /\ id \notin DOMAIN plan
    <3>1. new[i] = Entry(Born(plan, status), "filed")
      BY <1>1, <1>2, <2>3
    <3>2. Born(plan, status) \in Statuses
      BY DEF Born, Statuses
    <3> QED BY <3>1, <3>2 DEF Entry
  <2> QED BY <2>1, <2>2, <2>3
<1>4. DOMAIN new \subseteq Tasks
  BY <1>2, TaskPlanParts
<1>5. new \in TaskPlans
  BY <1>2, <1>3, <1>4, TaskPlanOf
<1> QED BY <1>5 DEF new, sub

LEMMA GivenTyped ==
  ASSUME given \in [Reminders -> Seq(Turns)], turn \in Turns,
         SaysNothing \/ \E r \in Reminders : Says(r)
  PROVE  given' \in [Reminders -> Seq(Turns)]
<1>1. CASE SaysNothing
  BY <1>1 DEF SaysNothing
<1>2. ASSUME NEW r \in Reminders, Says(r)
      PROVE  given' \in [Reminders -> Seq(Turns)]
  <2>1. given[r] \in Seq(Turns)
    OBVIOUS
  <2>2. Append(given[r], turn) \in Seq(Turns)
    BY <2>1
  <2>3. given' = [given EXCEPT ![r] = Append(given[r], turn)]
    BY <1>2 DEF Says
  <2> QED BY <2>2, <2>3
<1> QED BY <1>1, <1>2

LEMMA ConsultTyped == NudgeTypeOK /\ Consult => NudgeTypeOK'
<1> SUFFICES ASSUME NudgeTypeOK, Consult PROVE NudgeTypeOK'
  OBVIOUS
<1> USE DEF NudgeTypeOK
<1> DEFINE Marks == Turns \union {NoTurn}
<1>1. turn \in Marks /\ NoTurn \in Marks
  OBVIOUS
<1>2. \A value \in Marks : Fresh(value, NoTurn) \in Marks
  BY DEF Fresh
<1>3. \A value \in BOOLEAN : Fresh(value, FALSE) \in BOOLEAN
  BY DEF Fresh
<1>4. /\ birth \in Marks /\ start \in Marks /\ stale \in Marks
      /\ unmarked \in BOOLEAN /\ sawPlan \in BOOLEAN /\ noted \in BOOLEAN
  OBVIOUS
<1>5. /\ Fresh(birth, NoTurn) \in Marks /\ Fresh(start, NoTurn) \in Marks
      /\ Fresh(stale, NoTurn) \in Marks
  BY <1>2, <1>4
<1>6. /\ Fresh(unmarked, FALSE) \in BOOLEAN /\ Fresh(sawPlan, FALSE) \in BOOLEAN
      /\ Fresh(noted, FALSE) \in BOOLEAN
  BY <1>3, <1>4
<1> HIDE DEF Marks
<1>7. birth' \in Marks /\ start' \in Marks /\ stale' \in Marks
  BY <1>1, <1>5 DEF Consult
<1>8. unmarked' \in BOOLEAN /\ sawPlan' \in BOOLEAN /\ noted' \in BOOLEAN
  BY <1>6 DEF Consult
<1>9. seen' = seen \/ seen' = todos
  BY DEF Consult
<1>10. SaysNothing \/ \E r \in Reminders : Says(r)
  BY DEF Consult, Reminders
<1>11. point' \in {"top", "request"}
       /\ UNCHANGED <<todos, claimedRuns, turn, leaving, followed, wroteAt>>
  BY DEF Consult
<1>12. given' \in [Reminders -> Seq(Turns)]
  BY <1>10, GivenTyped
<1> QED BY <1>7, <1>8, <1>9, <1>11, <1>12 DEF Marks

\* The plan, the dampers and the reminders (todo_nudge.rs) keep their types, and no run
\* or turn passes its bound.
THEOREM ReminderTypes == NudgeSpec => []NudgeTypeOK
<1>1. NudgeInit => NudgeTypeOK
  <2> SUFFICES ASSUME NudgeInit PROVE NudgeTypeOK
    OBVIOUS
  <2>1. 0 \in Turns /\ 0 \in 0 .. MaxRuns
    BY NudgeBounds DEF Turns
  <2>2. [r \in Reminders |-> <<>>] \in [Reminders -> Seq(Turns)]
    OBVIOUS
  <2> QED BY <2>1, <2>2, NoTasks DEF NudgeInit, NudgeTypeOK
<1>2. NudgeTypeOK /\ [NudgeNext]_nudgeVars => NudgeTypeOK'
  <2> SUFFICES ASSUME NudgeTypeOK, [NudgeNext]_nudgeVars PROVE NudgeTypeOK'
    OBVIOUS
  <2> USE DEF NudgeTypeOK
  <2>1. CASE Consult
    BY <2>1, ConsultTyped
  <2>2. CASE ClaimsPlan
    <3>1. claimedRuns' \in 0 .. MaxRuns /\ turn' \in Turns /\ turn' = 0
      BY <2>2, NudgeBounds DEF ClaimsPlan, Turns
    <3>2. todos' \in TaskPlans
      BY <2>2, ClaimedTasks DEF ClaimsPlan
    <3>3. given' \in [Reminders -> Seq(Turns)]
      BY <2>2 DEF ClaimsPlan
    <3> QED BY <2>2, <3>1, <3>2, <3>3 DEF ClaimsPlan, DecisionsStand
  <2>3. CASE WorksOn
    BY <2>3 DEF WorksOn, DecisionsStand
  <2>4. ASSUME NEW id \in Tasks, NEW status \in Statuses, WritesPlan(id, status)
        PROVE  NudgeTypeOK'
    <3>1. todos' \in TaskPlans
      BY <2>4, WrittenTasks DEF WritesPlan
    <3>2. given' \in [Reminders -> Seq(Turns)]
      <4>1. given \in [Reminders -> Seq(Turns)] /\ <<>> \in Seq(Turns)
        OBVIOUS
      <4>2. given' = [given EXCEPT !["start"] = <<>>, !["stale"] = <<>>]
        BY <2>4 DEF WritesPlan
      <4> HIDE DEF NudgeTypeOK
      <4> QED BY <4>1, <4>2
    <3> QED BY <2>4, <3>1, <3>2 DEF WritesPlan, DecisionsStand
  <2>5. CASE NextTurn \/ FollowsUp
    <3>1. turn' \in Turns
      BY <2>5, NudgeBounds DEF NextTurn, FollowsUp, Turns
    <3> QED BY <2>5, <3>1 DEF NextTurn, FollowsUp, DecisionsStand
  <2>6. CASE NudgedRunEnds \/ HostLeaving
    BY <2>6 DEF NudgedRunEnds, HostLeaving, DecisionsStand
  <2>7. CASE UNCHANGED nudgeVars
    BY <2>7 DEF nudgeVars
  <2> QED BY <2>1, <2>2, <2>3, <2>4, <2>5, <2>6, <2>7 DEF NudgeNext, NudgesOver
<1> QED BY <1>1, <1>2, PTL DEF NudgeSpec
=============================================================================
