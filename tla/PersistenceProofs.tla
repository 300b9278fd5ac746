-------------------------- MODULE PersistenceProofs --------------------------
(***************************************************************************)
(* Proofs about the saved session: types, the writer's wakeups, the pair   *)
(* rule over launches, crashes and rotations, and the exit that is waited  *)
(* for.                                                                    *)
(***************************************************************************)
EXTENDS SessionPersistence, TLAPS

-----------------------------------------------------------------------------
(* The invariants.                                                         *)

\* Where the process stands says what it has in memory.
Placed ==
  /\ phase = "off" => cell = 0 /\ owed = <<>> /\ driver = "ended" /\ ~stop
  /\ phase # "off" => cell \in 1 .. minted
  /\ driver = "reading" => phase = "live"
  /\ driver \in {"reading", "loading"} => loaded.session \in 1 .. minted
  /\ driver = "answered" => turns \in Turns /\ home[turns] = cell
  /\ Len(commands) <= work

\* Where the writer stands says what it holds: only work in hand is written, and
\* it sleeps and leaves with the mailbox empty.  After the stop nothing is owed.
WriterPlaced ==
  /\ wpc \in {"looking", "waiting", "asleep", "ended"} => hand = NoPair
  /\ wpc \in {"waiting", "asleep", "ended"} => slot = NoPair
  /\ wpc \in {"waiting", "asleep"} => ~stop
  /\ wpc \in Halves => hand[wpc] # None
  /\ wpc = "machine" => hand["display"] = None
  /\ wpc = "ended" => phase = "off" \/ stop
  /\ stop => phase = "joining"
  /\ phase = "joining" => owed = <<>>

\* A snapshot in a mailbox, in the writer's hand or in a file.
Stores == {slot, hand} \cup {files[s] : s \in Sessions}

\* Nothing is younger than the clock or of a session that was not minted.
Dated ==
  /\ \A p \in Stores, h \in Halves : p[h].at <= clock /\ p[h].session <= minted
  /\ \A s \in Sessions, h \in Halves : files[s][h] # None => files[s][h].session = s

\* The histories at hand hold what the engine has.
HistoriesCover ==
  /\ known # NoHistory => committed \subseteq known
  /\ phase = "live" /\ cell \notin revisited /\ history # NoHistory => committed \subseteq history
  /\ phase = "live" /\ driver = "answered" => history = NoHistory
  /\ cell \notin revisited =>
       \A i \in DOMAIN owed :
         IF owed[i].half = "machine" THEN committed \subseteq owed[i].turns
         ELSE owed[i].ended \subseteq committed
  /\ \A i \in DOMAIN owed : owed[i].ended \subseteq owed[i].turns

\* A machine half at least as new as a display half of its session misses nothing
\* that the display half saw end; and the engine has what any display half of the
\* session it is in saw end.
PairsAgree ==
  /\ \A p \in Stores : p["display"].ended \subseteq p["display"].turns
  /\ \A p \in Stores, q \in Stores :
       LET d == p["display"]
           m == q["machine"]
       IN m.session = d.session /\ m.session \notin revisited /\ m.at >= d.at
            => d.ended \subseteq m.turns
  /\ \A p \in Stores :
       p["display"].session = cell /\ cell \notin revisited => p["display"].ended \subseteq committed

\* Nothing holds a turn that was not answered, and no turn is at home in a session
\* that was not minted.
Answered ==
  /\ \A p \in Stores, h \in Halves : p[h].turns \subseteq 1 .. turns
  /\ shown \cup rows \cup committed \subseteq 1 .. turns
  /\ known # NoHistory => known \subseteq 1 .. turns
  /\ history # NoHistory => history \subseteq 1 .. turns
  /\ \A i \in DOMAIN owed : owed[i].turns \subseteq 1 .. turns
  /\ \A i \in DOMAIN updates : updates[i].turns \subseteq 1 .. turns
  /\ \A h \in Halves : loaded.pair[h].turns \subseteq 1 .. turns
  /\ \A t \in Turns : home[t] <= minted

\* The positions of what is owed of a half, and what stands for the half of the
\* cell's session once nothing is owed.
Due(half) == {i \in DOMAIN owed : owed[i].half = half}
Newest(half) ==
  IF slot[half].session = cell THEN slot[half]
  ELSE IF hand[half].session = cell THEN hand[half] ELSE files[cell][half]

\* The newest display half, paid or owed, carries the turns T.
Carried(T) ==
  IF Due("display") = {} THEN T \subseteq Newest("display").turns
  ELSE \A i \in Due("display") : (\A j \in Due("display") : j <= i) => T \subseteq owed[i].turns

\* The newest machine half, paid or owed, has all that the engine has, or a display
\* half is newer.
MachineUpToDate ==
  \/ Due("machine") # {} \/ Due("display") # {}
  \/ committed \subseteq Newest("machine").turns
  \/ Newest("machine").at < Newest("display").at

AtHome == {t \in Turns : home[t] = cell}

\* While no write failed: what the screen shows of the session is carried, an
\* update of a live resume brings nothing of a session made after it, and but in a
\* run the machine half is up to date.
NothingUnsaved ==
  phase # "off" /\ faults = 0 /\ cell \notin revisited =>
    /\ Carried(shown \cap AtHome) /\ Carried(shown \cap committed)
    /\ \A i \in DOMAIN updates :
         updates[i].kind = "Resumed" => updates[i].turns \cap (AtHome \cup committed) = {}
    /\ driver \notin {"asking", "answered", "aborted"} => MachineUpToDate

Grounded == TypeOK /\ Placed /\ WriterPlaced

-----------------------------------------------------------------------------
(* Sequences and snapshots.                                                *)

LEMMA SeqFacts ==
  ASSUME NEW S, NEW s \in Seq(S)
  PROVE  /\ Len(s) \in Nat /\ DOMAIN s = 1 .. Len(s)
         /\ \A i \in DOMAIN s : s[i] \in S
         /\ s # <<>> => /\ Len(s) >= 1 /\ Head(s) \in S /\ Head(s) = s[1]
                        /\ Tail(s) \in Seq(S) /\ Len(Tail(s)) = Len(s) - 1
                        /\ \A i \in 1 .. Len(s) - 1 : Tail(s)[i] = s[i + 1]
OBVIOUS

LEMMA AppendFacts ==
  ASSUME NEW S, NEW s \in Seq(S), NEW e \in S
  PROVE  /\ Append(s, e) \in Seq(S) /\ Len(Append(s, e)) = Len(s) + 1
         /\ \A i \in 1 .. Len(s) : Append(s, e)[i] = s[i]
         /\ Append(s, e)[Len(s) + 1] = e
OBVIOUS

LEMMA ConcatFacts ==
  ASSUME NEW S, NEW s \in Seq(S), NEW t \in Seq(S)
  PROVE  /\ s \o t \in Seq(S) /\ Len(s \o t) = Len(s) + Len(t)
         /\ \A i \in 1 .. Len(s) : (s \o t)[i] = s[i]
         /\ \A i \in 1 .. Len(t) : (s \o t)[Len(s) + i] = t[i]
OBVIOUS

LEMMA OneFacts ==
  ASSUME NEW S, NEW e \in S
  PROVE  <<e>> \in Seq(S) /\ Len(<<e>>) = 1 /\ <<e>>[1] = e /\ <<>> \in Seq(S) /\ Len(<<>>) = 0
OBVIOUS

LEMMA DebtTypes ==
  ASSUME NEW trs \in SUBSET Turns, NEW past \in SUBSET Turns
  PROVE  Display(trs, past) \in Debt /\ Machine(trs) \in Debt
BY DEF Display, Machine, Debt, Halves

\* What the hook publishes: a display half, and after it a history there is.
LEMMA HookTypes ==
  ASSUME TypeOK, NEW trs \in SUBSET Turns, NEW given \in Histories
  PROVE  /\ Hook(trs, given) \in Seq(Debt) /\ Len(Hook(trs, given)) \in Nat
         /\ Len(Hook(trs, given)) <= 2
<1> DEFINE newest == IF given # NoHistory THEN given ELSE known
<1>1. newest \in Histories /\ committed \in SUBSET Turns
  BY DEF TypeOK
<1>2. Display(trs, committed) \in Debt
  BY <1>1, DebtTypes
<1>3. newest # NoHistory => Machine(newest) \in Debt
  <2>1. newest # NoHistory => newest \in SUBSET Turns
    BY <1>1 DEF Histories
  <2> HIDE DEF newest
  <2> QED BY <2>1, DebtTypes
<1> DEFINE head == <<Display(trs, committed)>>
           tail == IF newest = NoHistory THEN <<>> ELSE <<Machine(newest)>>
<1>4. tail \in Seq(Debt) /\ (Len(tail) = 0 \/ Len(tail) = 1)
  <2>1. CASE newest = NoHistory
    BY <2>1
  <2>2. CASE newest # NoHistory
    BY <1>3, <2>2, OneFacts
  <2> QED BY <2>1, <2>2
<1>5. head \in Seq(Debt) /\ Len(head) = 1
  BY <1>2, OneFacts
<1>6. Hook(trs, given) = head \o tail
  BY DEF Hook
<1> HIDE DEF head, tail
<1>7. Len(Hook(trs, given)) = Len(head) + Len(tail) /\ Hook(trs, given) \in Seq(Debt)
  BY <1>4, <1>5, <1>6, ConcatFacts
<1>8. Len(Hook(trs, given)) = 1 \/ Len(Hook(trs, given)) = 2
  <2>1. CASE Len(tail) = 0
    BY <1>5, <1>7, <2>1
  <2>2. CASE Len(tail) = 1
    BY <1>5, <1>7, <2>2
  <2> QED BY <1>4, <2>1, <2>2
<1> HIDE DEF newest
<1> QED BY <1>7, <1>8

LEMMA NothingTyped == NoPair \in Pair /\ None \in Snapshot \cup {None} /\ NoLoad \in [session : {0} \cup Sessions, pair : Pair]
BY DEF NoPair, Pair, NoLoad

LEMMA PairFacts ==
  ASSUME NEW p \in Pair, NEW h \in Halves
  PROVE  /\ p[h] \in Snapshot \cup {None}
         /\ p[h].turns \subseteq Turns /\ p[h].ended \subseteq Turns
         /\ p[h].session \in 0 .. MaxSessions /\ p[h].at \in Nat
         /\ p[h] # None => p[h].session \in Sessions /\ p[h].at > 0
BY BoundAssumption DEF Pair, Snapshot, None, Sessions

LEMMA PublishTyped ==
  ASSUME WriterTypeOK, cell \in Sessions, NEW d \in Debt, Publish(d.half, d.turns, d.ended)
  PROVE  WriterTypeOK'
<1>1. /\ d.half \in Halves /\ d.turns \in SUBSET Turns /\ d.ended \in SUBSET Turns
  BY DEF Debt
<1>2. [turns |-> d.turns, ended |-> d.ended, session |-> cell, at |-> clock + 1] \in Snapshot
  BY <1>1 DEF Snapshot, WriterTypeOK
<1>3. slot' \in Pair
  BY <1>1, <1>2 DEF Publish, WriterTypeOK, Pair
<1>4. wpc' \in {"looking", "waiting", "asleep", "display", "machine", "ended"}
  BY DEF Publish, Woken, WriterTypeOK
<1> QED BY <1>3, <1>4 DEF Publish, WriterTypeOK

-----------------------------------------------------------------------------
(* The writer's steps.                                                     *)

LEMMA NextHalfFacts ==
  ASSUME NEW p \in Pair
  PROVE  /\ NextHalf(p) \in Halves \cup {"looking"}
         /\ NextHalf(p) = "looking" => p = NoPair
         /\ NextHalf(p) \in Halves => p[NextHalf(p)] # None
         /\ NextHalf(p) = "machine" => p["display"] = None
BY DEF NextHalf, Halves, Pair, NoPair

LEMMA LooksGrounded == Grounded /\ WriterLooks /\ UNCHANGED sessionVars => Grounded'
<1> SUFFICES ASSUME Grounded, WriterLooks, UNCHANGED sessionVars PROVE Grounded'
  OBVIOUS
<1> USE DEF Grounded
<1>1. WriterTypeOK
  BY DEF TypeOK
<1>2. CASE slot = NoPair
  BY <1>1, <1>2 DEF WriterLooks, TypeOK, WriterTypeOK, Placed, WriterPlaced, sessionVars, Halves
<1>3. CASE slot # NoPair
  <2>1. /\ wpc = "looking" /\ wpc' = NextHalf(slot) /\ hand' = slot /\ slot' = NoPair
        /\ slot \in Pair
        /\ UNCHANGED <<stop, cell, clock, files, faults>>
    BY <1>1, <1>3 DEF WriterLooks, WriterTypeOK
  <2>2. /\ wpc' \in Halves /\ hand'[wpc'] # None /\ (wpc' = "machine" => hand'["display"] = None)
    BY <1>3, <2>1, NextHalfFacts
  <2>3. WriterTypeOK'
    BY <1>1, <2>1, <2>2, NothingTyped DEF WriterTypeOK, Halves
  <2> QED BY <2>1, <2>2, <2>3 DEF TypeOK, Placed, WriterPlaced, sessionVars, Halves
<1> QED BY <1>2, <1>3

LEMMA SleepsGrounded == Grounded /\ WriterSleeps /\ UNCHANGED sessionVars => Grounded'
BY DEF Grounded, WriterSleeps, TypeOK, WriterTypeOK, Placed, WriterPlaced, sessionVars, Halves

\* The other half in hand waits, or the hand is empty.
LEMMA SavesGrounded ==
  ASSUME Grounded, NEW half \in Halves, Saves(half), UNCHANGED sessionVars
  PROVE  Grounded'
<1> USE DEF Grounded
<1>1. /\ WriterTypeOK /\ slot \in Pair /\ hand \in Pair /\ wpc = half /\ files \in [Sessions -> Pair]
      /\ hand' = [hand EXCEPT ![half] = None] /\ wpc' = NextHalf(hand')
      /\ UNCHANGED <<slot, stop, cell, clock>>
  BY DEF TypeOK, WriterTypeOK, Saves
<1>2. hand' \in Pair /\ hand'[half] = None
  BY <1>1, NothingTyped DEF Pair
<1>3. hand[half] # None /\ hand[half] \in Snapshot /\ hand[half].session \in Sessions
  BY <1>1, PairFacts DEF WriterPlaced
<1>4. files' \in [Sessions -> Pair] /\ faults' \in 0 .. MaxFaults
  <2>1. CASE files' = [files EXCEPT ![hand[half].session][half] = hand[half]] /\ faults' = faults
    <3>1. [files[hand[half].session] EXCEPT ![half] = hand[half]] \in Pair
      BY <1>1, <1>3 DEF Pair
    <3> QED BY <1>1, <2>1, <3>1 DEF WriterTypeOK
  <2>2. CASE files' = files /\ faults < MaxFaults /\ faults' = faults + 1
    BY <1>1, <2>2, BoundAssumption DEF WriterTypeOK
  <2> QED BY <2>1, <2>2 DEF Saves
<1>5. /\ wpc' \in {"display", "machine", "looking"}
      /\ wpc' = "looking" => hand' = NoPair
      /\ wpc' \in Halves => hand'[wpc'] # None
      /\ wpc' = "machine" => hand'["display"] = None
  BY <1>1, <1>2, NextHalfFacts DEF Halves
<1>6. WriterTypeOK'
  BY <1>1, <1>2, <1>4, <1>5 DEF WriterTypeOK
<1>7. WriterPlaced'
  BY <1>1, <1>5 DEF WriterPlaced, sessionVars, Halves
<1> QED BY <1>1, <1>6, <1>7 DEF TypeOK, Placed, sessionVars

-----------------------------------------------------------------------------
(* Types and places over the session's steps.                              *)

LEMMA WriterStill ==
  ASSUME Grounded, UNCHANGED writerVars
  PROVE  WriterTypeOK'
BY DEF Grounded, TypeOK, WriterTypeOK, writerVars

LEMMA PaysGrounded == Grounded /\ PaysOne => Grounded'
<1> SUFFICES ASSUME Grounded, PaysOne PROVE Grounded'
  OBVIOUS
<1> USE DEF Grounded
<1>1. owed \in Seq(Debt) /\ owed # <<>> /\ Len(owed) <= 4
  BY DEF PaysOne, TypeOK
<1>2. Head(owed) \in Debt /\ Tail(owed) \in Seq(Debt) /\ Len(Tail(owed)) <= 4
  BY <1>1, SeqFacts
<1>3. phase # "off" /\ cell \in Sessions
  BY <1>1, BoundAssumption DEF Placed, TypeOK, Sessions
<1>4. Publish(Head(owed).half, Head(owed).turns, Head(owed).ended)
  BY DEF PaysOne
<1>5. WriterTypeOK'
  BY <1>2, <1>3, <1>4, PublishTyped DEF TypeOK
<1>6. /\ wpc \notin {"waiting"} /\ wpc' = Woken /\ UNCHANGED <<hand, stop, cell, files, faults>>
  BY <1>4 DEF Publish, LockFree
<1>7. ~stop /\ wpc # "ended" /\ wpc' \notin {"waiting", "asleep", "ended"}
  BY <1>1, <1>3, <1>6 DEF WriterPlaced, Woken
<1>8. WriterPlaced'
  BY <1>1, <1>3, <1>6, <1>7 DEF WriterPlaced, Woken, PaysOne, Halves
<1>9. TypeOK' /\ Placed'
  BY <1>2, <1>3, <1>5, <1>6 DEF TypeOK, Placed, PaysOne, screenVars, loopVars
<1> QED BY <1>8, <1>9

\* A launch owes the display half, and the machine half when it was adopted.
LEMMA StartsGrounded ==
  ASSUME Grounded, NEW session \in Sessions, NEW trs \in SUBSET Turns, NEW engine \in SUBSET Turns,
         NEW adopts \in BOOLEAN, Starts(session, trs, engine, adopts),
         minted' \in session .. MaxSessions, minted <= minted'
  PROVE  Grounded'
<1> USE DEF Grounded
<1>1. owed' \in Seq(Debt) /\ Len(owed') <= 4
  <2>1. Display(trs, engine) \in Debt /\ Machine(engine) \in Debt
    BY DebtTypes
  <2>2. owed' = IF adopts THEN <<Display(trs, engine), Machine(engine)>> ELSE <<Display(trs, engine)>>
    BY DEF Starts
  <2> QED BY <2>1, <2>2
<1>2. WriterTypeOK'
  <2>1. session \in 0 .. MaxSessions
    BY BoundAssumption DEF Sessions
  <2> QED BY <2>1, NothingTyped DEF Starts, TypeOK, WriterTypeOK
<1>3. minted' \in 0 .. MaxSessions /\ launches' \in 0 .. MaxLaunches
  BY LaunchAssumption, BoundAssumption DEF Starts, TypeOK, Sessions
<1>4. known' \in Histories
  BY DEF Starts, Histories
<1>5. commands' \in Seq(Commands) /\ Len(commands') = 0
      /\ updates' \in Seq([kind : {"ModelName", "Resumed"}, turns : SUBSET Turns])
  BY DEF Starts
<1>6. loaded' \in [session : {0} \cup Sessions, pair : Pair] /\ history' \in Histories
  BY NothingTyped DEF Starts, Histories
<1>7. TypeOK'
  <2>1. /\ phase' = "live" /\ driver' = "idle" /\ shown' = trs /\ committed' = engine
        /\ rows' = {} /\ fire' = FALSE /\ UNCHANGED <<turns, work, home, revisited>>
    BY DEF Starts
  <2>2. Len(commands') <= MaxWork
    BY <1>5, LaunchAssumption
  <2> QED BY <1>1, <1>2, <1>3, <1>4, <1>5, <1>6, <2>1, <2>2 DEF TypeOK
<1>8. Placed'
  BY <1>1, <1>3, <1>5 DEF Starts, Placed, TypeOK, Sessions
<1>9. WriterPlaced'
  BY DEF Starts, WriterPlaced, Halves
<1> QED BY <1>7, <1>8, <1>9

LEMMA ResumedTyped ==
  ASSUME NEW p \in Pair
  PROVE  /\ ResumedHistory(p) \in SUBSET Turns /\ Adopted(p) \in SUBSET Turns
         /\ p["display"].turns \in SUBSET Turns /\ MachineCounts(p) \in BOOLEAN
BY PairFacts DEF ResumedHistory, Adopted, MachineCounts, Halves

LEMMA LaunchGrounded == Grounded /\ Dated /\ Launch => Grounded'
<1> SUFFICES ASSUME Grounded, Dated, Launch PROVE Grounded'
  OBVIOUS
<1>1. CASE LaunchFresh
  <2>1. /\ Starts(minted + 1, {}, {}, FALSE) /\ minted' = minted + 1 /\ minted < MaxSessions
        /\ minted \in 0 .. MaxSessions
    BY <1>1 DEF LaunchFresh, Grounded, TypeOK
  <2>2. minted + 1 \in Sessions
    BY <2>1, BoundAssumption DEF Sessions
  <2>3. minted' \in minted + 1 .. MaxSessions /\ minted <= minted'
    BY <2>1, BoundAssumption
  <2> QED BY <2>1, <2>2, <2>3, StartsGrounded
<1>2. ASSUME NEW s \in Sessions, LaunchResumes(s) PROVE Grounded'
  <2>1. files[s] \in Pair /\ minted \in 0 .. MaxSessions
    BY DEF Grounded, TypeOK, WriterTypeOK
  <2>2. s <= minted
    BY <1>2 DEF Dated, LaunchResumes, Saved, Stores, Halves
  <2>3. /\ Starts(s, files[s]["display"].turns, ResumedHistory(files[s]), MachineCounts(files[s]))
        /\ minted' = minted
    BY <1>2 DEF LaunchResumes
  <2> HIDE DEF Sessions
  <2>4. minted' \in s .. MaxSessions
    BY <2>1, <2>2, <2>3, BoundAssumption DEF Sessions
  <2>5. /\ files[s]["display"].turns \in SUBSET Turns /\ ResumedHistory(files[s]) \in SUBSET Turns
        /\ MachineCounts(files[s]) \in BOOLEAN
    BY <2>1, ResumedTyped
  <2> QED BY <2>2, <2>3, <2>4, <2>5, StartsGrounded
<1> QED BY <1>1, <1>2 DEF Launch

LEMMA RunStepGrounded == Grounded /\ RunStep => Grounded'
<1> SUFFICES ASSUME Grounded, RunStep PROVE Grounded'
  OBVIOUS
<1> USE DEF Grounded
<1>0. turns \in 0 .. MaxTurns /\ MaxTurns \in Nat /\ work \in 0 .. MaxWork /\ MaxWork \in Nat
  BY BoundAssumption, LaunchAssumption DEF TypeOK
<1>1. CASE RunStarts
  BY <1>0, <1>1, WriterStill
     DEF RunStarts, Works, AtAwait, writerVars, screenVars, loopVars, TypeOK, Placed, WriterPlaced
<1>2. CASE ResponseLands
  <2>1. /\ turns + 1 \in Turns /\ turns' = turns + 1 /\ rows' = rows \cup {turns + 1}
        /\ cell \in 0 .. MaxSessions /\ home' = [home EXCEPT ![turns + 1] = cell]
        /\ home \in [Turns -> 0 .. MaxSessions]
    BY <1>0, <1>2 DEF ResponseLands, Turns, TypeOK, WriterTypeOK
  <2>2. home' \in [Turns -> 0 .. MaxSessions] /\ home'[turns'] = cell /\ turns' \in 0 .. MaxTurns
    BY <2>1 DEF Turns
  <2> QED BY <1>2, <2>1, <2>2, WriterStill
          DEF ResponseLands, AtAwait, writerVars, TypeOK, Placed, WriterPlaced
<1>3. CASE ToolLands
  BY <1>0, <1>3, WriterStill
     DEF ToolLands, Works, AtAwait, writerVars, screenVars, loopVars, TypeOK, Placed, WriterPlaced
<1>4. CASE TurnEnds
  <2>1. turns \in Turns
    BY <1>4 DEF TurnEnds, Placed
  <2> QED BY <1>4, <2>1, WriterStill
          DEF TurnEnds, AtAwait, writerVars, TypeOK, Placed, WriterPlaced, Histories
<1>5. CASE RunResolves
  <2>1. committed' \in SUBSET Turns /\ fire' \in BOOLEAN
    BY <1>5 DEF RunResolves, TypeOK, Placed
  <2>2. <<Machine(committed')>> \in Seq(Debt) /\ Len(<<Machine(committed')>>) = 1
    BY <2>1, DebtTypes, OneFacts
  <2> QED BY <1>5, <2>1, <2>2, WriterStill
          DEF RunResolves, AtAwait, writerVars, TypeOK, Placed, WriterPlaced, Histories
<1> QED BY <1>1, <1>2, <1>3, <1>4, <1>5 DEF RunStep

LEMMA RedrawTypes ==
  ASSUME TypeOK, NEW base \in SUBSET Turns, NEW before \in Seq(Debt), Len(before) <= 2,
         Redraws(base, before)
  PROVE  /\ shown' \subseteq Turns /\ rows' \subseteq Turns /\ history' \in Histories
         /\ fire' \in BOOLEAN /\ owed' \in Seq(Debt) /\ Len(owed') <= 4
<1>1. base \cup rows \in SUBSET Turns /\ history \in Histories
  BY DEF TypeOK
<1>2. /\ Hook(base \cup rows, history) \in Seq(Debt) /\ Len(Hook(base \cup rows, history)) \in Nat
      /\ Len(Hook(base \cup rows, history)) <= 2
  BY <1>1, HookTypes
<1>3. PICK more \in Seq(Debt) : Len(more) \in Nat /\ Len(more) <= 2 /\ owed' = before \o more
  <2>1. <<>> \in Seq(Debt) /\ Len(<<>>) = 0
    OBVIOUS
  <2>2. PICK more \in {<<>>, Hook(base \cup rows, history)} : owed' = before \o more
    BY DEF Redraws
  <2>3. more \in Seq(Debt) /\ Len(more) \in Nat /\ Len(more) <= 2
    <3>1. CASE more = <<>>
      BY <2>1, <3>1
    <3>2. CASE more = Hook(base \cup rows, history)
      BY <1>2, <3>2
    <3> QED BY <2>2, <3>1, <3>2
  <2> QED BY <2>2, <2>3
<1>4. owed' \in Seq(Debt) /\ Len(owed') <= 4
  <2>1. before \o more \in Seq(Debt) /\ Len(before \o more) = Len(before) + Len(more)
    BY ConcatFacts
  <2>2. Len(before) \in Nat
    BY SeqFacts
  <2> QED BY <1>3, <2>1, <2>2
<1> QED BY <1>1, <1>4 DEF Redraws, Histories

LEMMA CommandGrounded == Grounded /\ Dated /\ ApplyCommand => Grounded'
<1> SUFFICES ASSUME Grounded, Dated, ApplyCommand PROVE Grounded'
  OBVIOUS
<1> USE DEF Grounded
<1>0. /\ minted \in 0 .. MaxSessions /\ MaxSessions \in Nat /\ work \in 0 .. MaxWork /\ MaxWork \in Nat
      /\ commands \in Seq(Commands) /\ Len(commands) <= work
      /\ updates \in Seq([kind : {"ModelName", "Resumed"}, turns : SUBSET Turns])
      /\ loaded.pair \in Pair /\ loaded \in [session : {0} \cup Sessions, pair : Pair]
      /\ files \in [Sessions -> Pair]
  BY BoundAssumption, LaunchAssumption DEF TypeOK, WriterTypeOK, Placed
<1>1. ASSUME NEW c, TakesCommand(c)
      PROVE  /\ commands' \in Seq(Commands) /\ Len(commands') <= Len(commands)
             /\ owed = <<>> /\ phase = "live" /\ driver = "idle"
  BY <1>0, <1>1, SeqFacts DEF TakesCommand, AtAwait
<1>2. Len(commands) \in Nat
  BY <1>0, SeqFacts
<1>3. CASE ClearApplied
  <2>1. /\ TakesCommand("Clear") /\ minted' \in 1 .. MaxSessions /\ cell' = minted' /\ minted' = minted + 1
        /\ committed' = {}
    BY <1>0, <1>3 DEF ClearApplied
  <2>2. WriterTypeOK'
    BY <1>0, <1>3, <2>1 DEF ClearApplied, TypeOK, WriterTypeOK
  <2>3. commands' \in Seq(Commands) /\ Len(commands') <= work /\ Len(commands') <= MaxWork
    BY <1>0, <1>1, <1>2, <2>1, SeqFacts
  <2>4. driver = "idle" /\ phase = "live"
    BY <1>1, <2>1
  <2> QED BY <1>0, <1>3, <2>1, <2>2, <2>3, <2>4
          DEF ClearApplied, TypeOK, Placed, WriterPlaced, screenVars
<1>4. CASE CompactApplied
  <2>1. TakesCommand("Compact") /\ known' \in Histories /\ owed' = <<Machine(committed)>>
    BY <1>4 DEF CompactApplied, TypeOK, Histories
  <2>2. owed' \in Seq(Debt) /\ Len(owed') = 1
    BY <2>1, DebtTypes, OneFacts DEF TypeOK
  <2>3. commands' \in Seq(Commands) /\ Len(commands') <= work /\ Len(commands') <= MaxWork
    BY <1>0, <1>1, <1>2, <2>1, SeqFacts
  <2>4. driver = "idle" /\ phase = "live"
    BY <1>1, <2>1
  <2> QED BY <1>0, <1>4, <2>1, <2>2, <2>3, <2>4, WriterStill
          DEF CompactApplied, TypeOK, Placed, WriterPlaced, screenVars, loopVars, writerVars
<1>5. CASE RebuildApplied
  <2>1. TakesCommand("Rebuild") /\ updates' = Append(updates, ModelName)
    BY <1>5 DEF RebuildApplied
  <2>2. updates' \in Seq([kind : {"ModelName", "Resumed"}, turns : SUBSET Turns])
    BY <1>0, <2>1, AppendFacts DEF ModelName
  <2>3. commands' \in Seq(Commands) /\ Len(commands') <= work /\ Len(commands') <= MaxWork
    BY <1>0, <1>1, <1>2, <2>1, SeqFacts
  <2>4. driver = "idle" /\ phase = "live"
    BY <1>1, <2>1
  <2> QED BY <1>0, <1>5, <2>1, <2>2, <2>3, <2>4, WriterStill
          DEF RebuildApplied, TypeOK, Placed, WriterPlaced, screenVars, loopVars, writerVars
<1>6. CASE CommandDeclined
  <2>1. PICK c \in Commands : TakesCommand(c)
    BY <1>6 DEF CommandDeclined
  <2>3. commands' \in Seq(Commands) /\ Len(commands') <= work /\ Len(commands') <= MaxWork
    BY <1>0, <1>1, <1>2, <2>1, SeqFacts
  <2>4. driver = "idle" /\ phase = "live"
    BY <1>1, <2>1
  <2> QED BY <1>0, <1>6, <2>3, <2>4, WriterStill
          DEF CommandDeclined, TypeOK, Placed, WriterPlaced, screenVars, loopVars, writerVars
<1>7. ASSUME NEW s \in Sessions, ResumeLoads(s) PROVE Grounded'
  <2>1. /\ TakesCommand("Resume") /\ driver' = "reading"
        /\ loaded' = [session |-> s, pair |-> [NoPair EXCEPT !["display"] = files[s]["display"]]]
    BY <1>7 DEF ResumeLoads
  <2>2. loaded' \in [session : {0} \cup Sessions, pair : Pair] /\ loaded'.session = s
    BY <1>0, <2>1, NothingTyped DEF Pair, Halves
  <2>3. commands' \in Seq(Commands) /\ Len(commands') <= work /\ Len(commands') <= MaxWork
    BY <1>0, <1>1, <1>2, <2>1, SeqFacts
  <2>4. driver = "idle" /\ phase = "live"
    BY <1>1, <2>1
  <2>5. s \in 1 .. minted
    BY <1>0, <1>7 DEF Dated, ResumeLoads, Saved, Stores, Halves, Sessions
  <2> QED BY <1>0, <1>7, <2>1, <2>2, <2>3, <2>4, <2>5, WriterStill
          DEF ResumeLoads, TypeOK, Placed, WriterPlaced, screenVars, loopVars, writerVars
<1>8. CASE ResumeReadsMachine
  <2>1. loaded.session \in Sessions
    BY <1>0, <1>8 DEF ResumeReadsMachine, Placed, Sessions
  <2>2. loaded' \in [session : {0} \cup Sessions, pair : Pair] /\ loaded'.session = loaded.session
    BY <1>0, <1>8, <2>1 DEF ResumeReadsMachine, Pair, Halves
  <2> QED BY <1>0, <1>8, <2>2, WriterStill
          DEF ResumeReadsMachine, TypeOK, Placed, WriterPlaced, screenVars, loopVars, writerVars
<1>9. CASE ResumeAdopts
  <2>1. /\ loaded.session \in Sessions /\ loaded.session \in 1 .. minted /\ driver' \in {"idle", "ended"}
        /\ committed' = Adopted(loaded.pair) /\ known' = committed' /\ cell' = loaded.session
        /\ owed' = <<Machine(committed')>> /\ owed = <<>> /\ phase \in {"live", "leaving"}
        /\ updates' = Append(updates, Resumed(loaded.pair["display"].turns))
    BY <1>0, <1>9 DEF ResumeAdopts, Placed, AfterLoad, AtAwait, Sessions
  <2>2. committed' \in SUBSET Turns /\ loaded.pair["display"].turns \in SUBSET Turns
    BY <1>0, <2>1, ResumedTyped
  <2>3. owed' \in Seq(Debt) /\ Len(owed') = 1
    BY <2>1, <2>2, DebtTypes, OneFacts
  <2>4. updates' \in Seq([kind : {"ModelName", "Resumed"}, turns : SUBSET Turns])
    BY <1>0, <2>1, <2>2, AppendFacts DEF Resumed
  <2>5. WriterTypeOK'
    BY <1>0, <1>9, <2>1 DEF ResumeAdopts, TypeOK, WriterTypeOK, Sessions
  <2>6. loaded' \in [session : {0} \cup Sessions, pair : Pair] /\ revisited' \subseteq Sessions
        /\ known' \in Histories
    BY <1>9, <2>1, <2>2, NothingTyped DEF ResumeAdopts, TypeOK, Histories
  <2> QED BY <1>0, <1>9, <2>1, <2>2, <2>3, <2>4, <2>5, <2>6
          DEF ResumeAdopts, TypeOK, Placed, WriterPlaced, screenVars
<1>10. CASE ResumeFails
  BY <1>0, <1>10, WriterStill, NothingTyped
     DEF ResumeFails, AfterLoad, TypeOK, Placed, WriterPlaced, screenVars, loopVars, writerVars
<1> QED BY <1>3, <1>4, <1>5, <1>6, <1>7, <1>8, <1>9, <1>10 DEF ApplyCommand

LEMMA PanelGrounded ==
  Grounded /\ ((\E c \in Commands : CommandKey(c)) \/ Frame \/ ApplyUpdate) => Grounded'
<1> SUFFICES ASSUME Grounded, (\E c \in Commands : CommandKey(c)) \/ Frame \/ ApplyUpdate
             PROVE  Grounded'
  OBVIOUS
<1> USE DEF Grounded
<1>0. /\ work \in 0 .. MaxWork /\ MaxWork \in Nat /\ commands \in Seq(Commands) /\ Len(commands) <= work
      /\ Len(commands) \in Nat
      /\ updates \in Seq([kind : {"ModelName", "Resumed"}, turns : SUBSET Turns])
      /\ shown \in SUBSET Turns /\ TypeOK
  BY LaunchAssumption, SeqFacts DEF TypeOK, Placed
<1>1. <<>> \in Seq(Debt) /\ Len(<<>>) <= 2
  OBVIOUS
<1>2. ASSUME NEW c \in Commands, CommandKey(c) PROVE Grounded'
  <2>1. /\ commands' \in Seq(Commands) /\ Len(commands') <= work' /\ work' \in 0 .. MaxWork
        /\ Len(commands') <= MaxWork
    BY <1>0, <1>2, AppendFacts DEF CommandKey, Works
  <2>2. \E base \in SUBSET Turns : Redraws(base, <<>>)
    BY <1>0, <1>2 DEF CommandKey
  <2>3. /\ shown' \subseteq Turns /\ rows' \subseteq Turns /\ history' \in Histories
        /\ fire' \in BOOLEAN /\ owed' \in Seq(Debt) /\ Len(owed') <= 4
    BY <1>0, <1>1, <2>2, RedrawTypes
  <2> QED BY <1>0, <1>2, <2>1, <2>3, WriterStill
          DEF CommandKey, TypeOK, Placed, WriterPlaced, loopVars, writerVars
<1>3. CASE Frame
  <2>1. Redraws(shown, <<>>)
    BY <1>3 DEF Frame
  <2>3. /\ shown' \subseteq Turns /\ rows' \subseteq Turns /\ history' \in Histories
        /\ fire' \in BOOLEAN /\ owed' \in Seq(Debt) /\ Len(owed') <= 4
    BY <1>0, <1>1, <2>1, RedrawTypes
  <2> QED BY <1>0, <1>3, <2>3, WriterStill
          DEF Frame, TypeOK, Placed, WriterPlaced, loopVars, writerVars
<1>4. CASE ApplyUpdate
  <2>1. /\ updates' \in Seq([kind : {"ModelName", "Resumed"}, turns : SUBSET Turns])
        /\ Head(updates).turns \in SUBSET Turns
    <3> DEFINE Kinds == [kind : {"ModelName", "Resumed"}, turns : SUBSET Turns]
    <3>1. updates # <<>> /\ updates' = Tail(updates)
      BY <1>4 DEF ApplyUpdate
    <3> HIDE DEF Kinds
    <3>2. updates \in Seq(Kinds)
      BY <1>0 DEF Kinds
    <3>3. Head(updates) \in Kinds /\ Tail(updates) \in Seq(Kinds)
      BY <3>1, <3>2, SeqFacts
    <3>4. Head(updates).turns \in SUBSET Turns
      BY <3>3 DEF Kinds
    <3> QED BY <3>1, <3>3, <3>4 DEF Kinds
  <2>2. \E base \in SUBSET Turns, before \in Seq(Debt) : Len(before) <= 2 /\ Redraws(base, before)
    <3>1. NoHistory \in Histories
      BY DEF Histories
    <3>2. Hook(shown, NoHistory) \in Seq(Debt) /\ Len(Hook(shown, NoHistory)) <= 2
      BY <1>0, <3>1, HookTypes
    <3> QED BY <1>0, <1>1, <1>4, <2>1, <3>2 DEF ApplyUpdate
  <2>3. /\ shown' \subseteq Turns /\ rows' \subseteq Turns /\ history' \in Histories
        /\ fire' \in BOOLEAN /\ owed' \in Seq(Debt) /\ Len(owed') <= 4
    BY <1>0, <2>2, RedrawTypes
  <2> QED BY <1>0, <1>4, <2>1, <2>3, WriterStill
          DEF ApplyUpdate, TypeOK, Placed, WriterPlaced, loopVars, writerVars
<1> QED BY <1>2, <1>3, <1>4

LEMMA LeaveGrounded == Grounded /\ Leave => Grounded'
<1> SUFFICES ASSUME Grounded, Leave PROVE Grounded'
  OBVIOUS
<1> USE DEF Grounded
<1>1. PICK drawn \in BOOLEAN, waiting \in BOOLEAN :
        LET last == IF drawn \/ Running THEN shown \cup rows ELSE shown
            flush == IF Running \/ waiting THEN Hook(last, NoHistory) ELSE <<>> IN
        IF drawn \/ Running
        THEN /\ shown' = last
             /\ rows' = {} /\ history' = NoHistory /\ fire' = FALSE
             /\ owed' = (IF rows # {} \/ fire \/ history # NoHistory
                         THEN Hook(last, history) ELSE <<>>) \o flush
        ELSE /\ owed' = flush
             /\ UNCHANGED screenVars
  BY DEF Leave
<1> DEFINE last == IF drawn \/ Running THEN shown \cup rows ELSE shown
           flush == IF Running \/ waiting THEN Hook(last, NoHistory) ELSE <<>>
           final == IF rows # {} \/ fire \/ history # NoHistory THEN Hook(last, history) ELSE <<>>
<1>2. last \in SUBSET Turns /\ history \in Histories /\ NoHistory \in Histories
  BY DEF TypeOK, Histories
<1> HIDE DEF last
<1>3. flush \in Seq(Debt) /\ Len(flush) \in Nat /\ Len(flush) <= 2
  BY <1>2, HookTypes
<1>4. final \in Seq(Debt) /\ Len(final) \in Nat /\ Len(final) <= 2
  BY <1>2, HookTypes
<1>5. owed' = final \o flush \/ owed' = flush
  BY <1>1 DEF last
<1> HIDE DEF flush, final
<1>6. owed' \in Seq(Debt) /\ Len(owed') <= 4
  <2>1. final \o flush \in Seq(Debt) /\ Len(final \o flush) = Len(final) + Len(flush)
    BY <1>3, <1>4, ConcatFacts
  <2>2. CASE owed' = flush
    BY <1>3, <2>2
  <2>3. CASE owed' = final \o flush
    BY <1>3, <1>4, <2>1, <2>3
  <2> QED BY <1>5, <2>2, <2>3
<1>7. /\ shown' \in SUBSET Turns /\ rows' \subseteq Turns /\ history' \in Histories /\ fire' \in BOOLEAN
  BY <1>1, <1>2 DEF screenVars, TypeOK, last
<1>8. /\ phase = "live" /\ phase' = "leaving"
      /\ UNCHANGED <<writerVars, driver, committed, turns, home, known, commands, updates, loaded,
                     minted, launches, work, revisited>>
  BY DEF Leave, loopVars
<1>9. TypeOK'
  BY <1>6, <1>7, <1>8, WriterStill DEF TypeOK
<1>10. driver # "reading"
  BY DEF Leave, AtAwait
<1>11. Placed' /\ WriterPlaced'
  BY <1>8, <1>10 DEF Placed, WriterPlaced, writerVars
<1> QED BY <1>9, <1>11

LEMMA GoneGrounded == Grounded /\ ProcessGone => Grounded'
<1> SUFFICES ASSUME Grounded, ProcessGone PROVE Grounded'
  OBVIOUS
<1> USE DEF Grounded
<1>0. 0 \in 0 .. MaxSessions /\ 0 \in 0 .. MaxTurns /\ 0 \in 0 .. MaxFaults
  BY BoundAssumption
<1>1. WriterTypeOK'
  BY <1>0, NothingTyped DEF ProcessGone, TypeOK, WriterTypeOK
<1>2. /\ owed' \in Seq(Debt) /\ Len(owed') = 0 /\ commands' \in Seq(Commands) /\ Len(commands') = 0
      /\ updates' \in Seq([kind : {"ModelName", "Resumed"}, turns : SUBSET Turns])
  BY DEF ProcessGone
<1>3. Len(owed') <= 4 /\ Len(commands') <= MaxWork
  BY <1>2, LaunchAssumption
<1>5. TypeOK'
  BY <1>1, <1>2, <1>3, NothingTyped DEF ProcessGone, TypeOK, Histories
<1>4. Placed' /\ WriterPlaced'
  BY <1>2 DEF ProcessGone, Placed, WriterPlaced, TypeOK, Halves
<1> QED BY <1>4, <1>5

LEMMA ExitGrounded == Grounded /\ ExitStep => Grounded'
<1> SUFFICES ASSUME Grounded, ExitStep PROVE Grounded'
  OBVIOUS
<1> USE DEF Grounded
<1>1. CASE DriverEnds
  <2>1. /\ owed = <<>> /\ driver' = "ended" /\ phase = "leaving"
        /\ UNCHANGED <<writerVars, phase, owed, shown, rows, history, fire, committed, turns, home, known,
                       commands, updates, loaded, minted, launches, work, revisited>>
    BY <1>1 DEF DriverEnds, AtAwait, screenVars, loopVars
  <2> QED BY <2>1, WriterStill DEF TypeOK, Placed, WriterPlaced, writerVars
<1>2. CASE TearsDown
  <2>1. shown \in SUBSET Turns /\ NoHistory \in Histories /\ <<>> \in Seq(Debt) /\ Len(<<>>) = 0
    BY DEF TypeOK, Histories
  <2>2. /\ Hook(shown, NoHistory) \in Seq(Debt) /\ Len(Hook(shown, NoHistory)) \in Nat
        /\ Len(Hook(shown, NoHistory)) <= 2
    BY <2>1, HookTypes
  <2>3. owed' \in Seq(Debt) /\ Len(owed') <= 4
    BY <1>2, <2>1, <2>2 DEF TearsDown
  <2>4. commands' \in Seq(Commands) /\ Len(commands') = 0 /\ work \in 0 .. MaxWork /\ MaxWork \in Nat
    BY <1>2, LaunchAssumption DEF TearsDown, TypeOK
  <2>5. /\ owed = <<>> /\ phase = "leaving" /\ phase' = "stopping" /\ driver' \in {"ended", "aborted"}
        /\ rows' = {} /\ history' = NoHistory /\ fire' = FALSE /\ loaded' = NoLoad
        /\ UNCHANGED <<writerVars, shown, committed, turns, home, known, updates, minted, launches,
                       work, revisited>>
    BY <1>2 DEF TearsDown, AtAwait, loopVars
  <2>8. WriterTypeOK' /\ Len(commands') <= MaxWork
    BY <2>4, <2>5, WriterStill
  <2>6. TypeOK'
    BY <2>1, <2>3, <2>4, <2>5, <2>8, NothingTyped DEF TypeOK
  <2>7. Placed' /\ WriterPlaced'
    BY <2>4, <2>5 DEF Placed, WriterPlaced, TypeOK, writerVars
  <2> QED BY <2>6, <2>7
<1>3. CASE Stops
  <2>1. WriterTypeOK'
    BY <1>3 DEF Stops, SignalStop, Woken, TypeOK, WriterTypeOK
  <2>2. owed = <<>> /\ phase = "stopping" /\ phase' = "joining" /\ stop' /\ wpc' = Woken /\ wpc # "waiting"
        /\ UNCHANGED <<slot, hand, cell>>
    BY <1>3 DEF Stops, AtAwait, SignalStop, LockFree
  <2>3. WriterPlaced'
    BY <1>3, <2>2 DEF Stops, WriterPlaced, Woken, Halves
  <2> QED BY <1>3, <2>1, <2>2, <2>3 DEF Stops, TypeOK, Placed, screenVars, loopVars
<1>4. CASE Joins
  BY <1>4, GoneGrounded DEF Joins
<1> QED BY <1>1, <1>2, <1>3, <1>4 DEF ExitStep

LEMMA CrashGrounded == Grounded /\ Crash => Grounded'
BY GoneGrounded DEF Crash

LEMMA InitGrounded == Init => Grounded
<1> SUFFICES ASSUME Init PROVE Grounded
  OBVIOUS
<1>0. /\ 0 \in 0 .. MaxSessions /\ 0 \in 0 .. MaxTurns /\ 0 \in 0 .. MaxFaults
      /\ 0 \in 0 .. MaxLaunches /\ 0 \in 0 .. MaxWork
  BY BoundAssumption, LaunchAssumption
<1>1. WriterTypeOK
  BY <1>0, NothingTyped DEF Init, WriterInit, WriterTypeOK
<1>2. /\ owed \in Seq(Debt) /\ Len(owed) = 0 /\ commands \in Seq(Commands) /\ Len(commands) = 0
      /\ updates \in Seq([kind : {"ModelName", "Resumed"}, turns : SUBSET Turns])
  BY DEF Init
<1>5. Len(owed) <= 4 /\ Len(commands) <= MaxWork
  BY <1>2, LaunchAssumption
<1>3. TypeOK
  BY <1>0, <1>1, <1>2, <1>5, NothingTyped DEF Init, TypeOK, Histories
<1>4. Placed /\ WriterPlaced
  BY <1>2 DEF Init, WriterInit, Placed, WriterPlaced, Halves
<1> QED BY <1>3, <1>4 DEF Grounded

LEMMA StepGrounded == Grounded /\ Dated /\ [Next]_vars => Grounded'
<1> SUFFICES ASSUME Grounded, Dated, [Next]_vars PROVE Grounded'
  OBVIOUS
<1>1. CASE Launch \/ RunStep \/ ApplyCommand
  BY <1>1, LaunchGrounded, RunStepGrounded, CommandGrounded
<1>2. CASE (\E c \in Commands : CommandKey(c)) \/ Frame \/ ApplyUpdate \/ PaysOne
  BY <1>2, PanelGrounded, PaysGrounded
<1>3. CASE Leave \/ ExitStep \/ Crash
  BY <1>3, LeaveGrounded, ExitGrounded, CrashGrounded
<1>4. CASE Writes
  BY <1>4, LooksGrounded, SleepsGrounded, SavesGrounded DEF Writes, WriterStep, WriterSaves
<1>5. CASE UNCHANGED vars
  BY <1>5
     DEF vars, writerVars, sessionVars, Grounded, TypeOK, WriterTypeOK, Placed, WriterPlaced
<1> QED BY <1>1, <1>2, <1>3, <1>4, <1>5 DEF Next, Over

-----------------------------------------------------------------------------
(* Snapshots: only a publication makes one; every other step keeps, moves  *)
(* or drops those there are.                                               *)

LEMMA StoreTypes ==
  ASSUME Grounded
  PROVE  /\ Stores \subseteq Pair
         /\ \A s \in Sessions : files[s] \in Stores /\ files[s] \in Pair
         /\ slot \in Stores /\ hand \in Stores /\ slot \in Pair /\ hand \in Pair
         /\ cell \in 0 .. MaxSessions /\ clock \in Nat /\ minted \in 0 .. MaxSessions
BY DEF Grounded, TypeOK, WriterTypeOK, Stores

NoneNew ==
  \A p \in Stores', h \in Halves : p[h] = None \/ \E q \in Stores : q[h] = p[h]

LEMMA KeptNoneNew == UNCHANGED <<slot, hand, files>> => NoneNew
BY DEF NoneNew, Stores

LEMMA ClearedNoneNew ==
  slot' = NoPair /\ hand' = NoPair /\ files' = files => NoneNew
BY DEF NoneNew, Stores, NoPair, Halves

LEMMA WritesNoneNew ==
  ASSUME Grounded, Writes
  PROVE  NoneNew /\ clock' = clock
<1>1. CASE WriterLooks
  <2>1. slot' \in {slot, NoPair} /\ hand' \in {slot, hand} /\ files' = files /\ clock' = clock
    BY <1>1 DEF WriterLooks
  <2>2. \A h \in Halves : NoPair[h] = None
    BY DEF NoPair
  <2> QED BY <2>1, <2>2 DEF NoneNew, Stores
<1>2. CASE WriterSleeps
  BY <1>2, KeptNoneNew DEF WriterSleeps
<1>3. ASSUME NEW half \in Halves, Saves(half) PROVE NoneNew /\ clock' = clock
  <2>1. /\ hand' = [hand EXCEPT ![half] = None] /\ hand \in Pair /\ files \in [Sessions -> Pair]
        /\ files' = files \/ files' = [files EXCEPT ![hand[half].session][half] = hand[half]]
        /\ slot' = slot /\ clock' = clock
    BY <1>3 DEF Saves, Grounded, TypeOK, WriterTypeOK
  <2>2. \A h \in Halves : hand'[h] = None \/ hand'[h] = hand[h]
    BY <2>1 DEF Pair
  <2>3. \A s \in Sessions, h \in Halves : files'[s][h] = files[s][h] \/ files'[s][h] = hand[h]
    BY <2>1 DEF Pair
  <2>4. \A p \in Stores' : p = slot' \/ p = hand' \/ \E s \in Sessions : p = files'[s]
    BY DEF Stores
  <2>5. slot \in Stores /\ hand \in Stores /\ \A s \in Sessions : files[s] \in Stores
    BY DEF Stores
  <2>6. ASSUME NEW p \in Stores', NEW h \in Halves PROVE p[h] = None \/ \E q \in Stores : q[h] = p[h]
    <3>1. CASE p = slot'
      BY <2>1, <2>5, <3>1
    <3>2. CASE p = hand'
      BY <2>2, <2>5, <3>2
    <3>3. ASSUME NEW s \in Sessions, p = files'[s] PROVE \E q \in Stores : q[h] = p[h]
      BY <2>3, <2>5, <3>3
    <3> QED BY <2>4, <3>1, <3>2, <3>3
  <2> QED BY <2>1, <2>6 DEF NoneNew
<1>4. WriterLooks \/ WriterSleeps \/ \E half \in Halves : Saves(half)
  BY DEF Writes, WriterStep, WriterSaves
<1> HIDE DEF NoneNew
<1> QED BY <1>1, <1>2, <1>3, <1>4

\* Every step but a publication.
LEMMA StorageSteps ==
  ASSUME Grounded, [Next]_vars, ~PaysOne
  PROVE  NoneNew /\ clock' = clock /\ minted' \in Nat /\ minted <= minted' /\ revisited \subseteq revisited'
<1>1. CASE Launch
  <2>1. /\ slot' = NoPair /\ hand' = NoPair /\ UNCHANGED <<files, clock, revisited>>
        /\ minted' = minted \/ minted' = minted + 1
    BY <1>1 DEF Launch, LaunchFresh, LaunchResumes, Starts
  <2> QED BY <2>1, ClearedNoneNew, StoreTypes
<1>2. CASE RunStep
  <2>1. UNCHANGED <<writerVars, minted, revisited>>
    BY <1>2 DEF RunStep, RunStarts, ResponseLands, ToolLands, TurnEnds, RunResolves
  <2> QED BY <2>1, KeptNoneNew, StoreTypes DEF writerVars
<1>3. CASE ApplyCommand
  BY <1>3, KeptNoneNew, StoreTypes
     DEF ApplyCommand, ClearApplied, CompactApplied, RebuildApplied, CommandDeclined, ResumeLoads,
         ResumeReadsMachine, ResumeAdopts, ResumeFails, writerVars
<1>4. CASE (\E c \in Commands : CommandKey(c)) \/ Frame \/ ApplyUpdate \/ Leave
  <2>1. UNCHANGED <<writerVars, minted, revisited>>
    BY <1>4 DEF CommandKey, Frame, ApplyUpdate, Leave
  <2> QED BY <2>1, KeptNoneNew, StoreTypes DEF writerVars
<1>5. CASE DriverEnds \/ TearsDown \/ Stops
  <2>1. UNCHANGED <<slot, hand, files, clock, minted, revisited>>
    BY <1>5 DEF DriverEnds, TearsDown, Stops, SignalStop, writerVars
  <2> QED BY <2>1, KeptNoneNew, StoreTypes
<1>8. CASE Joins \/ Crash
  <2>1. slot' = NoPair /\ hand' = NoPair /\ UNCHANGED <<files, clock, minted, revisited>>
    BY <1>8 DEF Joins, Crash, ProcessGone
  <2> QED BY <2>1, ClearedNoneNew, StoreTypes
<1>6. CASE Writes
  BY <1>6, WritesNoneNew, StoreTypes DEF Writes, sessionVars
<1>7. CASE UNCHANGED vars
  BY <1>7, KeptNoneNew, StoreTypes DEF vars, writerVars, sessionVars
<1> QED BY <1>1, <1>2, <1>3, <1>4, <1>5, <1>6, <1>7, <1>8 DEF Next, ExitStep, Over

\* A publication puts one snapshot into the mailbox, the youngest of all.
Published(half) ==
  [turns |-> Head(owed).turns, ended |-> Head(owed).ended, session |-> cell, at |-> clock + 1]

LEMMA PaysFacts ==
  ASSUME Grounded, PaysOne
  PROVE  /\ owed # <<>> /\ owed \in Seq(Debt) /\ Head(owed) \in Debt /\ Head(owed).half \in Halves
         /\ slot' = [slot EXCEPT ![Head(owed).half] = Published(Head(owed).half)]
         /\ slot \in Pair /\ clock' = clock + 1
         /\ owed' = Tail(owed)
         /\ UNCHANGED <<hand, stop, cell, files, faults, phase, driver, screenVars, loopVars, known,
                        commands, updates, loaded, minted, launches, work, revisited>>
         /\ phase # "off" /\ cell \in 1 .. minted
         /\ \A p \in Stores' :
              \/ p \in Stores
              \/ /\ p = slot'
                 /\ p[Head(owed).half] = Published(Head(owed).half)
                 /\ \A h \in Halves : h # Head(owed).half => p[h] = slot[h]
<1>1. owed # <<>> /\ owed \in Seq(Debt)
  BY DEF PaysOne, Grounded, TypeOK
<1>2. Head(owed) \in Debt /\ Head(owed).half \in Halves
  <2>1. Head(owed) \in Debt
    BY <1>1, SeqFacts
  <2> QED BY <2>1 DEF Debt
<1>3. /\ slot' = [slot EXCEPT ![Head(owed).half] = Published(Head(owed).half)] /\ clock' = clock + 1
      /\ owed' = Tail(owed)
      /\ UNCHANGED <<hand, stop, cell, files, faults, phase, driver, screenVars, loopVars, known,
                     commands, updates, loaded, minted, launches, work, revisited>>
  BY DEF PaysOne, Publish, Published
<1>4. phase # "off" /\ cell \in 1 .. minted /\ slot \in Pair
  BY <1>1, StoreTypes DEF Grounded, Placed
<1>5. /\ slot'[Head(owed).half] = Published(Head(owed).half)
      /\ \A h \in Halves : h # Head(owed).half => slot'[h] = slot[h]
  BY <1>2, <1>3, <1>4 DEF Pair
<1>6. \A p \in Stores' : p \in Stores \/ p = slot'
  BY <1>3 DEF Stores
<1> QED BY <1>1, <1>2, <1>3, <1>4, <1>5, <1>6

LEMMA FilesAreTheirs ==
  ASSUME Grounded, Dated, Writes, NEW s \in Sessions, NEW h \in Halves, files'[s][h] # None
  PROVE  files'[s][h].session = s
<1>1. CASE files' = files
  BY <1>1 DEF Dated
<1>2. ASSUME NEW half \in Halves, Saves(half), files' # files PROVE files'[s][h].session = s
  <2>1. /\ files' = [files EXCEPT ![hand[half].session][half] = hand[half]]
        /\ hand \in Pair /\ files \in [Sessions -> Pair] /\ hand[half] # None
    BY <1>2 DEF Saves, Grounded, TypeOK, WriterTypeOK, WriterPlaced
  <2>2. CASE s = hand[half].session /\ h = half
    BY <2>1, <2>2 DEF Pair
  <2>3. CASE ~(s = hand[half].session /\ h = half)
    <3>1. files'[s][h] = files[s][h]
      BY <2>1, <2>3 DEF Pair
    <3> QED BY <3>1 DEF Dated
  <2> QED BY <2>2, <2>3
<1> QED BY <1>1, <1>2 DEF Writes, WriterStep, WriterLooks, WriterSleeps, WriterSaves

LEMMA StepDated == Grounded /\ Dated /\ [Next]_vars => Dated'
<1> SUFFICES ASSUME Grounded, Dated, [Next]_vars PROVE Dated'
  OBVIOUS
<1>1. CASE PaysOne
  <2>1. Published(Head(owed).half).at = clock' /\ Published(Head(owed).half).session <= minted'
    BY <1>1, PaysFacts, StoreTypes DEF Published
  <2>2. ASSUME NEW p \in Stores', NEW h \in Halves PROVE p[h].at <= clock' /\ p[h].session <= minted'
    <3>1. \A q \in Stores : q[h].at <= clock /\ q[h].at \in Nat /\ q[h].session <= minted
      BY PairFacts, StoreTypes DEF Dated
    <3>2. p \in Stores \/ p[h] = Published(Head(owed).half) \/ p[h] = slot[h]
      BY <1>1, PaysFacts
    <3>3. clock \in Nat /\ clock' = clock + 1 /\ minted' = minted /\ slot \in Stores
      BY <1>1, PaysFacts, StoreTypes
    <3> QED BY <2>1, <3>1, <3>2, <3>3
  <2>3. files' = files
    BY <1>1, PaysFacts
  <2> QED BY <2>2, <2>3 DEF Dated
<1>2. CASE ~PaysOne
  <2>1. NoneNew /\ clock' = clock /\ minted' \in Nat /\ minted <= minted'
    BY <1>2, StorageSteps
  <2>2. ASSUME NEW p \in Stores', NEW h \in Halves PROVE p[h].at <= clock' /\ p[h].session <= minted'
    <3>1. clock \in Nat /\ minted \in Nat
      BY StoreTypes
    <3>2. CASE p[h] = None
      BY <2>1, <3>1, <3>2 DEF None
    <3>3. ASSUME NEW q \in Stores, q[h] = p[h] PROVE p[h].at <= clock' /\ p[h].session <= minted'
      <4>1. q[h].at <= clock /\ q[h].session <= minted /\ q[h].session \in Nat /\ q[h].at \in Nat
        BY PairFacts, StoreTypes DEF Dated
      <4> QED BY <2>1, <3>1, <3>3, <4>1
    <3> QED BY <2>1, <3>2, <3>3 DEF NoneNew
  <2>3. \A s \in Sessions, h \in Halves : files'[s][h] # None => files'[s][h].session = s
    <3>1. CASE files' = files
      BY <3>1 DEF Dated
    <3>2. CASE files' # files
      <4>1. Writes
        BY <1>2, <3>2
           DEF Next, Over, Launch, LaunchFresh, LaunchResumes, Starts, RunStep, RunStarts, ResponseLands,
               ToolLands, TurnEnds, RunResolves, ApplyCommand, ClearApplied, CompactApplied,
               RebuildApplied, CommandDeclined, ResumeLoads, ResumeReadsMachine, ResumeAdopts, ResumeFails,
               CommandKey, Frame, ApplyUpdate, Leave, ExitStep, DriverEnds, TearsDown, Stops, SignalStop,
               Joins, Crash, ProcessGone, vars, writerVars
      <4> QED BY <4>1, FilesAreTheirs
    <3> QED BY <3>1, <3>2
  <2> QED BY <2>2, <2>3 DEF Dated
<1> QED BY <1>1, <1>2

-----------------------------------------------------------------------------
(* What the histories at hand and the snapshots owed hold.                 *)

\* Snapshots that hold what they saw end.
Whole(s) == \A i \in DOMAIN s : s[i].ended \subseteq s[i].turns

\* Snapshots that agree with an engine that has the turns `past`.
Agreeing(s, past) ==
  \A i \in DOMAIN s : IF s[i].half = "machine" THEN past \subseteq s[i].turns
                      ELSE s[i].ended \subseteq past

LEMMA NoneOwed == ASSUME NEW past PROVE Whole(<<>>) /\ Agreeing(<<>>, past)
BY DEF Whole, Agreeing

LEMMA MachineOwed ==
  ASSUME NEW trs \in SUBSET Turns, NEW past \in SUBSET trs
  PROVE  /\ <<Machine(trs)>> \in Seq(Debt)
         /\ Whole(<<Machine(trs)>>) /\ Agreeing(<<Machine(trs)>>, past)
<1>1. Machine(trs) \in Debt
  BY DebtTypes
<1>2. Machine(trs).ended \subseteq Machine(trs).turns /\ Machine(trs).half = "machine" /\ past \subseteq Machine(trs).turns
  BY DEF Machine
<1> HIDE DEF Machine
<1>3. DOMAIN <<Machine(trs)>> = {1} /\ <<Machine(trs)>>[1] = Machine(trs)
  OBVIOUS
<1> QED BY <1>1, <1>2, <1>3, OneFacts DEF Whole, Agreeing

LEMMA DisplayOwed ==
  ASSUME NEW trs \in SUBSET Turns, NEW past \in SUBSET Turns
  PROVE  /\ <<Display(trs, past)>> \in Seq(Debt)
         /\ Whole(<<Display(trs, past)>>) /\ Agreeing(<<Display(trs, past)>>, past)
<1>1. Display(trs, past) \in Debt
  BY DebtTypes
<1>2. /\ Display(trs, past).ended \subseteq Display(trs, past).turns /\ Display(trs, past).half = "display"
      /\ Display(trs, past).ended \subseteq past
  BY DEF Display
<1> HIDE DEF Display
<1>3. DOMAIN <<Display(trs, past)>> = {1} /\ <<Display(trs, past)>>[1] = Display(trs, past)
  OBVIOUS
<1> QED BY <1>1, <1>2, <1>3, OneFacts DEF Whole, Agreeing

LEMMA BothOwed ==
  ASSUME NEW s \in Seq(Debt), NEW t \in Seq(Debt)
  PROVE  /\ Whole(s) /\ Whole(t) => Whole(s \o t)
         /\ \A past : Agreeing(s, past) /\ Agreeing(t, past) => Agreeing(s \o t, past)
<1>1. /\ Len(s \o t) = Len(s) + Len(t)
      /\ \A i \in 1 .. Len(s) : (s \o t)[i] = s[i]
      /\ \A i \in 1 .. Len(t) : (s \o t)[Len(s) + i] = t[i]
  BY ConcatFacts
<1>2. /\ DOMAIN s = 1 .. Len(s) /\ DOMAIN t = 1 .. Len(t) /\ Len(s) \in Nat /\ Len(t) \in Nat
      /\ DOMAIN (s \o t) = 1 .. Len(s \o t)
  OBVIOUS
<1>3. ASSUME NEW i \in DOMAIN (s \o t)
      PROVE  (\E j \in DOMAIN s : (s \o t)[i] = s[j]) \/ \E j \in DOMAIN t : (s \o t)[i] = t[j]
  <2>1. CASE i <= Len(s)
    BY <1>1, <1>2, <2>1
  <2>2. CASE i > Len(s)
    <3>1. i - Len(s) \in 1 .. Len(t) /\ Len(s) + (i - Len(s)) = i
      BY <1>1, <1>2, <2>2
    <3> QED BY <1>1, <1>2, <3>1
  <2> QED BY <1>2, <2>1, <2>2
<1> QED BY <1>3 DEF Whole, Agreeing

\* The hook's snapshots agree with the engine when the histories at hand cover it.
LEMMA HookOwed ==
  ASSUME TypeOK, NEW trs \in SUBSET Turns, NEW given \in Histories
  PROVE  /\ Hook(trs, given) \in Seq(Debt) /\ Whole(Hook(trs, given))
         /\ (known # NoHistory => committed \subseteq known)
            /\ (given # NoHistory => committed \subseteq given)
               => Agreeing(Hook(trs, given), committed)
<1> DEFINE newest == IF given # NoHistory THEN given ELSE known
           head == <<Display(trs, committed)>>
           tail == IF newest = NoHistory THEN <<>> ELSE <<Machine(newest)>>
<1>1. newest \in Histories /\ committed \in SUBSET Turns /\ Hook(trs, given) = head \o tail
  BY DEF TypeOK, Hook
<1>2. head \in Seq(Debt) /\ Whole(head) /\ Agreeing(head, committed)
  BY <1>1, DisplayOwed
<1>3. tail \in Seq(Debt) /\ Whole(tail)
      /\ ((newest # NoHistory => committed \subseteq newest) => Agreeing(tail, committed))
  <2>1. CASE newest = NoHistory
    <3>1. tail = <<>>
      BY <2>1
    <3> QED BY <3>1, NoneOwed, OneFacts, DebtTypes
  <2>2. CASE newest # NoHistory
    <3>1. newest \in SUBSET Turns /\ tail = <<Machine(newest)>>
      BY <1>1, <2>2 DEF Histories
    <3> HIDE DEF newest, tail
    <3>2. <<Machine(newest)>> \in Seq(Debt) /\ Whole(<<Machine(newest)>>)
      BY <3>1, MachineOwed
    <3>3. committed \subseteq newest => Agreeing(<<Machine(newest)>>, committed)
      BY <3>1, MachineOwed
    <3> QED BY <2>2, <3>1, <3>2, <3>3
  <2> QED BY <2>1, <2>2
<1>4. (known # NoHistory => committed \subseteq known) /\ (given # NoHistory => committed \subseteq given)
        => (newest # NoHistory => committed \subseteq newest)
  OBVIOUS
<1> HIDE DEF newest, head, tail
<1> QED BY <1>1, <1>2, <1>3, <1>4, BothOwed

\* So are those of a frame.
LEMMA RedrawOwed ==
  ASSUME TypeOK, NEW base \in SUBSET Turns, NEW before \in Seq(Debt), Redraws(base, before),
         Whole(before)
  PROVE  /\ Whole(owed') /\ history' = NoHistory
         /\ (known # NoHistory => committed \subseteq known)
            /\ (history # NoHistory => committed \subseteq history)
            /\ Agreeing(before, committed)
               => Agreeing(owed', committed)
<1>1. base \cup rows \in SUBSET Turns /\ history \in Histories
  BY DEF TypeOK
<1>2. CASE owed' = before \o Hook(base \cup rows, history)
  <2> DEFINE hooked == Hook(base \cup rows, history)
  <2>1. hooked \in Seq(Debt) /\ Whole(hooked)
    BY <1>1, HookOwed
  <2>2. (known # NoHistory => committed \subseteq known) /\ (history # NoHistory => committed \subseteq history)
          => Agreeing(hooked, committed)
    BY <1>1, HookOwed
  <2>3. history' = NoHistory /\ owed' = before \o hooked
    BY <1>2 DEF Redraws
  <2> HIDE DEF hooked
  <2> QED BY <2>1, <2>2, <2>3, BothOwed
<1>3. CASE owed' = before \o <<>>
  <2>1. history' = NoHistory /\ <<>> \in Seq(Debt)
    BY DEF Redraws
  <2> QED BY <1>3, <2>1, NoneOwed, BothOwed
<1>4. owed' = before \o Hook(base \cup rows, history) \/ owed' = before \o <<>>
  BY DEF Redraws
<1> QED BY <1>2, <1>3, <1>4

\* Whatever is owed is paid in order, and the rest is no worse.
LEMMA TailOwed ==
  ASSUME NEW s \in Seq(Debt), s # <<>>
  PROVE  /\ Whole(s) => Whole(Tail(s)) /\ Head(s).ended \subseteq Head(s).turns
         /\ \A past : Agreeing(s, past) =>
              /\ Agreeing(Tail(s), past)
              /\ Head(s).half = "machine" => past \subseteq Head(s).turns
              /\ Head(s).half # "machine" => Head(s).ended \subseteq past
<1>1. /\ Head(s) = s[1] /\ 1 \in DOMAIN s /\ \A i \in DOMAIN Tail(s) : i + 1 \in DOMAIN s /\ Tail(s)[i] = s[i + 1]
  <2>1. /\ Len(s) \in Nat /\ DOMAIN s = 1 .. Len(s) /\ Len(s) >= 1 /\ Head(s) = s[1]
        /\ Tail(s) \in Seq(Debt) /\ Len(Tail(s)) = Len(s) - 1
        /\ \A i \in 1 .. Len(s) - 1 : Tail(s)[i] = s[i + 1]
    BY SeqFacts
  <2>2. DOMAIN Tail(s) = 1 .. Len(Tail(s))
    BY <2>1
  <2> QED BY <2>1, <2>2
<1> QED BY <1>1 DEF Whole, Agreeing

\* HistoriesCover, in the terms of the lemmas above.
LEMMA HistoriesMeans ==
  HistoriesCover <=>
    /\ known # NoHistory => committed \subseteq known
    /\ phase = "live" /\ cell \notin revisited /\ history # NoHistory => committed \subseteq history
    /\ phase = "live" /\ driver = "answered" => history = NoHistory
    /\ cell \notin revisited => Agreeing(owed, committed)
    /\ Whole(owed)
BY DEF HistoriesCover, Agreeing, Whole

\* The same of the next state.
LEMMA HistoriesMeansNext ==
  /\ known' # NoHistory => committed' \subseteq known'
  /\ phase' = "live" /\ cell' \notin revisited' /\ history' # NoHistory => committed' \subseteq history'
  /\ phase' = "live" /\ driver' = "answered" => history' = NoHistory
  /\ cell' \notin revisited' => Agreeing(owed', committed')
  /\ Whole(owed')
  => HistoriesCover'
BY DEF HistoriesCover, Agreeing, Whole

LEMMA LaunchHistories ==
  ASSUME Grounded, Launch
  PROVE  HistoriesCover'
<1>1. ASSUME NEW session, NEW trs \in SUBSET Turns, NEW engine \in SUBSET Turns, NEW adopts \in BOOLEAN,
             Starts(session, trs, engine, adopts)
      PROVE  HistoriesCover'
  <2>1. Whole(<<Display(trs, engine)>>) /\ Agreeing(<<Display(trs, engine)>>, engine)
        /\ <<Display(trs, engine)>> \in Seq(Debt)
    BY DisplayOwed
  <2>2. Whole(<<Machine(engine)>>) /\ Agreeing(<<Machine(engine)>>, engine)
        /\ <<Machine(engine)>> \in Seq(Debt)
    BY MachineOwed
  <2>3. /\ owed' = <<Display(trs, engine)>> \o IF adopts THEN <<Machine(engine)>> ELSE <<>>
        /\ committed' = engine /\ known' \in {engine, NoHistory} /\ history' = NoHistory
        /\ phase' = "live" /\ driver' = "idle"
    BY <1>1 DEF Starts
  <2>4. Whole(owed') /\ Agreeing(owed', engine)
    <3>1. CASE owed' = <<Display(trs, engine)>> \o <<Machine(engine)>>
      BY <2>1, <2>2, <3>1, BothOwed
    <3>2. CASE owed' = <<Display(trs, engine)>> \o <<>>
      BY <2>1, <2>2, <3>2, BothOwed, NoneOwed
    <3> QED BY <2>3, <3>1, <3>2
  <2> QED BY <2>3, <2>4, HistoriesMeansNext
<1>2. CASE LaunchFresh
  BY <1>1, <1>2 DEF LaunchFresh
<1>3. ASSUME NEW s \in Sessions, LaunchResumes(s) PROVE HistoriesCover'
  <2>1. files[s] \in Pair
    BY StoreTypes
  <2>2. /\ files[s]["display"].turns \subseteq Turns /\ ResumedHistory(files[s]) \subseteq Turns
        /\ MachineCounts(files[s]) \in BOOLEAN
    BY <2>1, ResumedTyped
  <2> QED BY <1>1, <1>3, <2>2 DEF LaunchResumes
<1> QED BY <1>2, <1>3 DEF Launch

LEMMA RunHistories ==
  ASSUME Grounded, HistoriesCover, RunStep
  PROVE  HistoriesCover'
<1>1. CASE RunStarts
  <2>1. /\ UNCHANGED <<phase, cell, owed, known, history, committed, revisited>> /\ driver' = "asking"
    BY <1>1 DEF RunStarts, writerVars, screenVars, loopVars
  <2> QED BY <2>1, HistoriesMeans, HistoriesMeansNext
<1>2. CASE ResponseLands
  <2>1. /\ UNCHANGED <<phase, cell, owed, known, history, committed, revisited>>
        /\ phase = "live" => history = NoHistory
    BY <1>2 DEF ResponseLands, CaughtUp, writerVars
  <2> QED BY <2>1, HistoriesMeans, HistoriesMeansNext
<1>3. CASE ToolLands
  <2>1. /\ UNCHANGED <<phase, cell, owed, known, history, committed, revisited, driver>>
    BY <1>3 DEF ToolLands, writerVars, loopVars
  <2> QED BY <2>1, HistoriesMeans, HistoriesMeansNext
<1>4. CASE TurnEnds
  <2>1. /\ committed' = history' /\ committed' = known' /\ driver' = "asking" /\ owed' = <<>>
    BY <1>4 DEF TurnEnds, AtAwait
  <2> QED BY <2>1, NoneOwed, HistoriesMeansNext
<1>5. CASE RunResolves
  <2>1. PICK kept \in SUBSET (IF driver = "answered" THEN {turns} ELSE {}) : committed' = committed \cup kept
    BY <1>5 DEF RunResolves
  <2>2. /\ known' = committed' /\ owed' = <<Machine(committed')>> /\ driver' # "answered"
        /\ UNCHANGED <<phase, cell, history, revisited>>
    BY <1>5 DEF RunResolves, writerVars
  <2>3. committed' \in SUBSET Turns
    BY <1>5, RunStepGrounded DEF RunStep, Grounded, TypeOK
  <2>4. Whole(owed') /\ Agreeing(owed', committed')
    BY <2>2, <2>3, MachineOwed
  <2>5. phase = "live" /\ history # NoHistory => committed' = committed
    BY <2>1, HistoriesMeans
  <2> QED BY <2>2, <2>4, <2>5, HistoriesMeans, HistoriesMeansNext
<1> QED BY <1>1, <1>2, <1>3, <1>4, <1>5 DEF RunStep

LEMMA CommandHistories ==
  ASSUME Grounded, Dated, HistoriesCover, ApplyCommand
  PROVE  HistoriesCover'
<1>0. committed \in SUBSET Turns
  BY DEF Grounded, TypeOK
<1>1. CASE ClearApplied
  <2>1. committed' = {} /\ owed' = <<>> /\ UNCHANGED <<phase, driver, history>>
    BY <1>1 DEF ClearApplied, TakesCommand, AtAwait, screenVars
  <2> QED BY <2>1, NoneOwed, HistoriesMeans, HistoriesMeansNext
<1>2. CASE CompactApplied
  <2>1. known' = committed /\ owed' = <<Machine(committed)>> /\ UNCHANGED <<phase, driver, history, committed, cell, revisited>>
    BY <1>2 DEF CompactApplied, screenVars, loopVars, writerVars
  <2>2. Whole(owed') /\ Agreeing(owed', committed)
    BY <1>0, <2>1, MachineOwed
  <2> QED BY <2>1, <2>2, HistoriesMeans, HistoriesMeansNext
<1>3. CASE RebuildApplied \/ CommandDeclined
  <2>1. UNCHANGED <<phase, driver, history, committed, cell, revisited, known, owed>>
    BY <1>3 DEF RebuildApplied, CommandDeclined, screenVars, loopVars, writerVars
  <2> QED BY <2>1, HistoriesMeans, HistoriesMeansNext
<1>4. CASE ResumeReadsMachine \/ ResumeFails \/ \E s \in Sessions : ResumeLoads(s)
  <2>1. UNCHANGED <<phase, history, committed, cell, revisited, known, owed>> /\ driver' # "answered"
    BY <1>4 DEF ResumeReadsMachine, ResumeFails, ResumeLoads, AfterLoad, screenVars, loopVars, writerVars
  <2> QED BY <2>1, HistoriesMeans, HistoriesMeansNext
<1>5. CASE ResumeAdopts
  <2>1. /\ cell' \in revisited' /\ known' = committed' /\ owed' = <<Machine(committed')>>
        /\ driver' # "answered"
    BY <1>5 DEF ResumeAdopts, AfterLoad
  <2>2. committed' \in SUBSET Turns
    BY <1>5, CommandGrounded DEF ApplyCommand, Grounded, TypeOK
  <2>3. Whole(owed')
    BY <2>1, <2>2, MachineOwed
  <2> QED BY <2>1, <2>3, HistoriesMeansNext
<1> QED BY <1>1, <1>2, <1>3, <1>4, <1>5 DEF ApplyCommand

\* The panel's steps and the exit's: the hook's snapshots, of histories that cover.
LEMMA PanelHistories ==
  ASSUME Grounded, HistoriesCover,
         (\E c \in Commands : CommandKey(c)) \/ Frame \/ ApplyUpdate
  PROVE  HistoriesCover'
<1>1. shown \in SUBSET Turns /\ {} \in SUBSET Turns /\ NoHistory \in Histories /\ TypeOK /\ <<>> \in Seq(Debt)
  BY DEF Grounded, TypeOK, Histories
<1>2. phase = "live" /\ UNCHANGED <<phase, driver, cell, revisited, known, committed>>
  BY DEF CommandKey, Frame, ApplyUpdate, writerVars, loopVars
<1>3. ASSUME NEW base \in SUBSET Turns, NEW before \in Seq(Debt), Redraws(base, before), Whole(before),
             cell \notin revisited => Agreeing(before, committed)
      PROVE  HistoriesCover'
  <2>1. Whole(owed') /\ history' = NoHistory
    BY <1>1, <1>3, RedrawOwed
  <2>2. cell \notin revisited => Agreeing(owed', committed)
    BY <1>1, <1>2, <1>3, RedrawOwed, HistoriesMeans
  <2> QED BY <1>2, <2>1, <2>2, HistoriesMeans, HistoriesMeansNext
<1>4. CASE (\E c \in Commands : CommandKey(c)) \/ Frame
  <2>1. Redraws({}, <<>>) \/ Redraws(shown, <<>>)
    BY <1>4 DEF CommandKey, Frame
  <2> QED BY <1>1, <1>3, <2>1, NoneOwed
<1>5. CASE ApplyUpdate
  <2>1. Head(updates).turns \in SUBSET Turns
    <3>1. updates \in Seq([kind : {"ModelName", "Resumed"}, turns : SUBSET Turns]) /\ updates # <<>>
      BY <1>5 DEF ApplyUpdate, Grounded, TypeOK
    <3> DEFINE Update == [kind : {"ModelName", "Resumed"}, turns : SUBSET Turns]
    <3> HIDE DEF Update
    <3>2. Head(updates) \in Update
      BY <3>1, SeqFacts DEF Update
    <3> QED BY <3>2 DEF Update
  <2>2. Hook(shown, NoHistory) \in Seq(Debt) /\ Whole(Hook(shown, NoHistory))
        /\ Agreeing(Hook(shown, NoHistory), committed)
    BY <1>1, HookOwed, HistoriesMeans
  <2>3. Redraws(shown, Hook(shown, NoHistory)) \/ Redraws(Head(updates).turns, <<>>)
    BY <1>5 DEF ApplyUpdate
  <2>4. CASE Redraws(shown, Hook(shown, NoHistory))
    BY <1>1, <1>3, <2>2, <2>4
  <2>5. CASE Redraws(Head(updates).turns, <<>>)
    BY <1>1, <1>3, <2>1, <2>5, NoneOwed
  <2> QED BY <2>3, <2>4, <2>5
<1> QED BY <1>4, <1>5

LEMMA LeaveHistories ==
  ASSUME Grounded, HistoriesCover, Leave
  PROVE  HistoriesCover'
<1>1. /\ shown \in SUBSET Turns /\ shown \cup rows \in SUBSET Turns /\ history \in Histories
      /\ NoHistory \in Histories /\ TypeOK /\ <<>> \in Seq(Debt)
  BY DEF Grounded, TypeOK, Histories
<1>2. /\ phase = "live" /\ phase' = "leaving"
      /\ UNCHANGED <<driver, cell, revisited, known, committed>>
  BY DEF Leave, writerVars, loopVars
<1>3. PICK drawn \in BOOLEAN, waiting \in BOOLEAN :
        LET last == IF drawn \/ Running THEN shown \cup rows ELSE shown
            flush == IF Running \/ waiting THEN Hook(last, NoHistory) ELSE <<>>
        IN  IF drawn \/ Running
            THEN owed' = (IF rows # {} \/ fire \/ history # NoHistory
                          THEN Hook(last, history) ELSE <<>>) \o flush
            ELSE owed' = flush
  BY DEF Leave
<1> DEFINE last == IF drawn \/ Running THEN shown \cup rows ELSE shown
           flush == IF Running \/ waiting THEN Hook(last, NoHistory) ELSE <<>>
           drew == IF rows # {} \/ fire \/ history # NoHistory THEN Hook(last, history) ELSE <<>>
<1>4. last \in SUBSET Turns
  BY <1>1
<1>5. owed' = drew \o flush \/ owed' = flush
  BY <1>3
<1> HIDE DEF last
<1>6. /\ Hook(last, NoHistory) \in Seq(Debt) /\ Whole(Hook(last, NoHistory))
      /\ cell \notin revisited => Agreeing(Hook(last, NoHistory), committed)
  BY <1>1, <1>4, HookOwed, HistoriesMeans
<1>7. /\ Hook(last, history) \in Seq(Debt) /\ Whole(Hook(last, history))
      /\ cell \notin revisited => Agreeing(Hook(last, history), committed)
  BY <1>1, <1>2, <1>4, HookOwed, HistoriesMeans
<1>8. flush \in Seq(Debt) /\ Whole(flush) /\ (cell \notin revisited => Agreeing(flush, committed))
  BY <1>1, <1>6, NoneOwed
<1>9. drew \in Seq(Debt) /\ Whole(drew) /\ (cell \notin revisited => Agreeing(drew, committed))
  BY <1>1, <1>7, NoneOwed
<1> HIDE DEF flush, drew
<1>10. Whole(owed') /\ (cell \notin revisited => Agreeing(owed', committed))
  BY <1>5, <1>8, <1>9, BothOwed
<1> QED BY <1>2, <1>10, HistoriesMeans, HistoriesMeansNext

LEMMA ExitHistories ==
  ASSUME Grounded, HistoriesCover, ExitStep \/ Crash
  PROVE  HistoriesCover'
<1>1. CASE Joins \/ Crash
  <2>1. known' = NoHistory /\ phase' = "off" /\ owed' = <<>>
    BY <1>1 DEF Joins, Crash, ProcessGone
  <2> QED BY <2>1, NoneOwed, HistoriesMeansNext
<1>2. CASE DriverEnds \/ Stops
  <2>1. /\ phase' # "live" /\ UNCHANGED <<cell, revisited, known, committed, owed>>
    BY <1>2 DEF DriverEnds, Stops, SignalStop, writerVars, screenVars, loopVars
  <2> QED BY <2>1, HistoriesMeans, HistoriesMeansNext
<1>3. CASE TearsDown
  <2>1. shown \in SUBSET Turns /\ NoHistory \in Histories /\ TypeOK
    BY DEF Grounded, TypeOK, Histories
  <2>2. /\ phase' # "live" /\ UNCHANGED <<cell, revisited, known, committed>>
        /\ owed' = Hook(shown, NoHistory) \/ owed' = <<>>
    BY <1>3 DEF TearsDown, writerVars, loopVars
  <2>3. Whole(owed') /\ Agreeing(owed', committed)
    BY <2>1, <2>2, HookOwed, NoneOwed, HistoriesMeans
  <2> QED BY <2>2, <2>3, HistoriesMeans, HistoriesMeansNext
<1> QED BY <1>1, <1>2, <1>3 DEF ExitStep

LEMMA StepHistories == Grounded /\ Dated /\ HistoriesCover /\ [Next]_vars => HistoriesCover'
<1> SUFFICES ASSUME Grounded, Dated, HistoriesCover, [Next]_vars PROVE HistoriesCover'
  OBVIOUS
<1>1. CASE Launch \/ RunStep \/ ApplyCommand
  BY <1>1, LaunchHistories, RunHistories, CommandHistories
<1>2. CASE (\E c \in Commands : CommandKey(c)) \/ Frame \/ ApplyUpdate
  BY <1>2, PanelHistories
<1>3. CASE Leave \/ ExitStep \/ Crash
  BY <1>3, LeaveHistories, ExitHistories
<1>4. CASE PaysOne
  <2>1. /\ owed # <<>> /\ owed \in Seq(Debt) /\ owed' = Tail(owed)
        /\ UNCHANGED <<phase, driver, cell, revisited, known, committed, history>>
    BY <1>4, PaysFacts DEF screenVars, loopVars
  <2>2. Whole(owed') /\ (cell \notin revisited => Agreeing(owed', committed))
    BY <2>1, TailOwed, HistoriesMeans
  <2> QED BY <2>1, <2>2, HistoriesMeans, HistoriesMeansNext
<1>5. CASE Writes \/ UNCHANGED vars
  <2>1. UNCHANGED <<phase, driver, cell, revisited, known, committed, history, owed>>
    BY <1>5 DEF Writes, WriterStep, WriterLooks, WriterSleeps, WriterSaves, Saves, sessionVars, vars, writerVars
  <2> QED BY <2>1, HistoriesMeans, HistoriesMeansNext
<1> QED BY <1>1, <1>2, <1>3, <1>4, <1>5 DEF Next, Over

-----------------------------------------------------------------------------
(* The pair rule.                                                          *)

LEMMA NoneFacts == None.turns = {} /\ None.ended = {} /\ None.session = 0 /\ None.at = 0
BY DEF None

\* What a resume gives the engine holds what the session's transcript saw end.
LEMMA ResumedCovers ==
  ASSUME Grounded, Dated, PairsAgree, NEW s \in Sessions \ revisited
  PROVE  files[s]["display"].ended \subseteq ResumedHistory(files[s])
<1> DEFINE d == files[s]["display"]
           m == files[s]["machine"]
<1>1. files[s] \in Stores /\ files[s] \in Pair /\ d.ended \subseteq d.turns
  BY StoreTypes DEF PairsAgree
<1>2. CASE MachineCounts(files[s]) /\ d # None
  <2>1. m # None /\ m.at >= d.at /\ m.session = s /\ d.session = s
    BY <1>2 DEF MachineCounts, Dated, Halves
  <2>2. d.ended \subseteq m.turns
    BY <1>1, <2>1 DEF PairsAgree
  <2> QED BY <1>2, <2>2 DEF ResumedHistory
<1>3. CASE ~MachineCounts(files[s])
  BY <1>1, <1>3 DEF ResumedHistory
<1>4. CASE d = None
  BY <1>4, NoneFacts
<1> QED BY <1>2, <1>3, <1>4

\* Where a step leaves the cell, and what the engine keeps for it.
LEMMA CellSteps ==
  ASSUME [Next]_vars
  PROVE  \/ cell' = cell /\ committed \subseteq committed'
         \/ cell' = minted + 1
         \/ cell' = 0
         \/ cell' \in revisited'
         \/ \E s \in Sessions : LaunchResumes(s)
<1>1. CASE Launch
  BY <1>1 DEF Launch, LaunchFresh, Starts
<1>2. CASE RunStep
  BY <1>2 DEF RunStep, RunStarts, ResponseLands, ToolLands, TurnEnds, RunResolves, writerVars, loopVars
<1>3. CASE ApplyCommand
  BY <1>3
     DEF ApplyCommand, ClearApplied, CompactApplied, RebuildApplied, CommandDeclined, ResumeLoads,
         ResumeReadsMachine, ResumeAdopts, ResumeFails, writerVars, loopVars
<1>4. CASE (\E c \in Commands : CommandKey(c)) \/ Frame \/ ApplyUpdate \/ Leave \/ PaysOne
  BY <1>4 DEF CommandKey, Frame, ApplyUpdate, Leave, PaysOne, Publish, writerVars, loopVars
<1>5. CASE ExitStep \/ Crash
  BY <1>5 DEF ExitStep, DriverEnds, TearsDown, Stops, SignalStop, Joins, Crash, ProcessGone, writerVars, loopVars
<1>6. CASE Writes \/ UNCHANGED vars
  BY <1>6
     DEF Writes, WriterStep, WriterLooks, WriterSleeps, WriterSaves, Saves, sessionVars, vars, writerVars
<1> QED BY <1>1, <1>2, <1>3, <1>4, <1>5, <1>6 DEF Next, Over

\* But for a publication, a display half in a store stood in a store before.
LEMMA KeptPairs ==
  ASSUME Grounded, Dated, PairsAgree, [Next]_vars, ~PaysOne
  PROVE  PairsAgree'
<1>1. NoneNew /\ revisited \subseteq revisited'
  BY StorageSteps
<1>2. \A p \in Stores', h \in Halves : p[h] = None \/ \E q \in Stores : q[h] = p[h]
  BY <1>1 DEF NoneNew
<1>3. \A p \in Stores, h \in Halves : p[h] # None => p[h].session \in Sessions /\ p[h].session <= minted
  BY PairFacts, StoreTypes DEF Dated
<1>4. minted \in Nat /\ "display" \in Halves /\ "machine" \in Halves /\ 0 \notin Sessions
  BY StoreTypes DEF Halves, Sessions
<1>5. \A p \in Stores' : p["display"].ended \subseteq p["display"].turns
  BY <1>2, <1>4, NoneFacts DEF PairsAgree
<1>6. ASSUME NEW p \in Stores', NEW q \in Stores',
             q["machine"].session = p["display"].session, q["machine"].session \notin revisited',
             q["machine"].at >= p["display"].at
      PROVE  p["display"].ended \subseteq q["machine"].turns
  <2>1. CASE p["display"] = None
    BY <2>1, NoneFacts
  <2>2. ASSUME p["display"] # None, NEW p0 \in Stores, p0["display"] = p["display"]
        PROVE  p["display"].ended \subseteq q["machine"].turns
    <3>1. q["machine"] # None
      BY <1>3, <1>4, <1>6, <2>2, NoneFacts
    <3>2. PICK q0 \in Stores : q0["machine"] = q["machine"]
      BY <1>2, <1>4, <3>1
    <3>3. /\ q0["machine"].session = p0["display"].session /\ q0["machine"].session \notin revisited
          /\ q0["machine"].at >= p0["display"].at
      BY <1>1, <1>6, <2>2, <3>2
    <3> QED BY <2>2, <3>2, <3>3 DEF PairsAgree
  <2> QED BY <1>2, <1>4, <2>1, <2>2
<1>7. ASSUME NEW p \in Stores', p["display"].session = cell', cell' \notin revisited'
      PROVE  p["display"].ended \subseteq committed'
  <2>1. CASE p["display"] = None
    BY <2>1, NoneFacts
  <2>2. ASSUME p["display"] # None, NEW p0 \in Stores, p0["display"] = p["display"]
        PROVE  p["display"].ended \subseteq committed'
    <3>1. p0["display"].session \in Sessions /\ p0["display"].session <= minted /\ p0["display"].session = cell'
      BY <1>3, <1>4, <1>7, <2>2
    <3>2. cell' # 0 /\ cell' # minted + 1
      BY <1>4, <3>1 DEF Sessions
    <3>3. CASE cell' = cell /\ committed \subseteq committed'
      BY <1>1, <1>7, <2>2, <3>1, <3>3 DEF PairsAgree
    <3>4. ASSUME NEW s \in Sessions, LaunchResumes(s)
          PROVE  p["display"].ended \subseteq committed'
      <4>1. /\ cell' = s /\ committed' = ResumedHistory(files[s]) /\ UNCHANGED <<files, revisited>>
            /\ slot' = NoPair /\ hand' = NoPair
        BY <3>4 DEF LaunchResumes, Starts
      <4>2. PICK r \in Sessions : p = files[r]
        BY <2>2, <4>1 DEF Stores, NoPair, Halves
      <4>3. r = s
        BY <1>4, <1>7, <2>2, <4>1, <4>2 DEF Dated
      <4> QED BY <1>7, <4>1, <4>2, <4>3, ResumedCovers
    <3> QED BY <1>7, <3>2, <3>3, <3>4, CellSteps
  <2> QED BY <1>2, <1>4, <2>1, <2>2
<1> QED BY <1>5, <1>6, <1>7 DEF PairsAgree

\* A display half is published younger than every machine half, and a machine half
\* with all that the engine has.
LEMMA PaidPairs ==
  ASSUME Grounded, Dated, HistoriesCover, PairsAgree, PaysOne
  PROVE  PairsAgree'
<1> DEFINE half == Head(owed).half
           new == Published(half)
<1>1. /\ half \in Halves /\ slot \in Pair /\ clock \in Nat
      /\ UNCHANGED <<cell, committed, revisited>>
      /\ slot' = [slot EXCEPT ![half] = new]
  BY PaysFacts, StoreTypes DEF loopVars
<1>2. /\ new.turns = Head(owed).turns /\ new.ended = Head(owed).ended /\ new.session = cell
      /\ new.at = clock + 1
  BY DEF Published
<1>3. /\ new.ended \subseteq new.turns
      /\ cell \notin revisited /\ half = "machine" => committed \subseteq new.turns
      /\ cell \notin revisited /\ half # "machine" => new.ended \subseteq committed
  <2>1. owed \in Seq(Debt) /\ owed # <<>>
    BY PaysFacts
  <2>2. Whole(owed) /\ (cell \notin revisited => Agreeing(owed, committed))
    BY HistoriesMeans
  <2> QED BY <1>2, <2>1, <2>2, TailOwed
<1>4. \A p \in Stores', h \in Halves : (h = half /\ p[h] = new) \/ \E q \in Stores : q[h] = p[h]
  <2>1. \A p \in Stores' : p \in Stores \/ (p = slot' /\ p[half] = new /\ \A h \in Halves : h # half => p[h] = slot[h])
    BY PaysFacts
  <2> QED BY <2>1, StoreTypes
<1>5. \A q \in Stores, h \in Halves : q[h].at \in Nat /\ q[h].at <= clock
  BY PairFacts, StoreTypes DEF Dated
<1>6. "display" \in Halves /\ "machine" \in Halves
  BY DEF Halves
<1> HIDE DEF half, new
<1>7. \A p \in Stores' : p["display"].ended \subseteq p["display"].turns
  BY <1>3, <1>4, <1>6 DEF PairsAgree
<1>8. ASSUME NEW p \in Stores', p["display"].session = cell', cell' \notin revisited'
      PROVE  p["display"].ended \subseteq committed'
  <2>1. CASE half = "display" /\ p["display"] = new
    BY <1>1, <1>3, <1>8, <2>1
  <2>2. ASSUME NEW q \in Stores, q["display"] = p["display"]
        PROVE  p["display"].ended \subseteq committed'
    BY <1>1, <1>8, <2>2 DEF PairsAgree
  <2> QED BY <1>4, <1>6, <2>1, <2>2
<1>9. ASSUME NEW p \in Stores', NEW q \in Stores',
             q["machine"].session = p["display"].session, q["machine"].session \notin revisited',
             q["machine"].at >= p["display"].at
      PROVE  p["display"].ended \subseteq q["machine"].turns
  <2>1. CASE half = "display" /\ p["display"] = new
    <3>1. PICK r \in Stores : r["machine"] = q["machine"]
      BY <1>4, <1>6, <2>1
    <3> QED BY <1>1, <1>2, <1>5, <1>6, <1>9, <2>1, <3>1
  <2>2. ASSUME NEW r \in Stores, r["display"] = p["display"]
        PROVE  p["display"].ended \subseteq q["machine"].turns
    <3>1. CASE half = "machine" /\ q["machine"] = new
      <4>1. r["display"].session = cell /\ cell \notin revisited
        BY <1>1, <1>2, <1>9, <2>2, <3>1
      <4>2. r["display"].ended \subseteq committed
        BY <4>1 DEF PairsAgree
      <4> QED BY <1>3, <2>2, <3>1, <4>1, <4>2
    <3>2. ASSUME NEW t \in Stores, t["machine"] = q["machine"]
          PROVE  p["display"].ended \subseteq q["machine"].turns
      BY <1>1, <1>9, <2>2, <3>2 DEF PairsAgree
    <3> QED BY <1>4, <1>6, <3>1, <3>2
  <2> QED BY <1>4, <1>6, <2>1, <2>2
<1> QED BY <1>7, <1>8, <1>9 DEF PairsAgree

LEMMA StepPairs == Grounded /\ Dated /\ HistoriesCover /\ PairsAgree /\ [Next]_vars => PairsAgree'
BY KeptPairs, PaidPairs

LEMMA InitPaired == Init => Dated /\ HistoriesCover /\ PairsAgree
<1> SUFFICES ASSUME Init PROVE Dated /\ HistoriesCover /\ PairsAgree
  OBVIOUS
<1>1. /\ slot = NoPair /\ hand = NoPair /\ \A s \in Sessions : files[s] = NoPair
      /\ clock = 0 /\ minted = 0 /\ known = NoHistory /\ phase = "off" /\ owed = <<>> /\ committed = {}
  BY DEF Init, WriterInit
<1>2. \A p \in Stores, h \in Halves : p[h] = None
  BY <1>1 DEF Stores, NoPair
<1>3. "display" \in Halves /\ "machine" \in Halves
  BY DEF Halves
<1>4. Dated
  <2>1. \A s \in Sessions, h \in Halves : files[s][h] = None
    BY <1>2 DEF Stores
  <2> QED BY <1>1, <1>2, <2>1, NoneFacts DEF Dated
<1>5. HistoriesCover
  BY <1>1, NoneOwed, HistoriesMeans
<1>6. PairsAgree
  BY <1>2, <1>3, NoneFacts DEF PairsAgree
<1> QED BY <1>4, <1>5, <1>6

\* What every step keeps: types, places, the writer's place, and the pair rule
\* with what it rests on.
Paired == Grounded /\ Dated /\ HistoriesCover /\ PairsAgree

\* The saved session's memory, mailbox and files stay where the code can put them,
\* and the histories at hand, owed, waiting and saved never miss a turn that a
\* display half of their session saw end.
THEOREM SavedStaysPaired == Spec => []Paired
<1>1. Init => Paired
  BY InitGrounded, InitPaired DEF Paired
<1>2. Paired /\ [Next]_vars => Paired'
  BY StepGrounded, StepDated, StepHistories, StepPairs DEF Paired
<1> QED BY <1>1, <1>2, PTL DEF Spec

\* Every variable of the saved session keeps its type.
THEOREM SavedTypesHold == Spec => []TypeOK
<1>1. Paired => TypeOK
  BY DEF Paired, Grounded
<1> QED BY <1>1, SavedStaysPaired, PTL

\* TranscriptWorker's thread never sleeps on a snapshot or on the stop, so a join
\* never waits for a thread that nobody will wake.
THEOREM WriterIsAlwaysWoken == Spec => []NoLostWakeup
<1>1. Paired => NoLostWakeup
  BY DEF Paired, Grounded, WriterPlaced, NoLostWakeup
<1> QED BY <1>1, SavedStaysPaired, PTL

\* However the program ends, and however often it is started again, what a resume
\* gives the engine covers every turn that had ended when the transcript beside it
\* was saved (load_machine_in's pair rule), but on a session a live resume moved
\* onto.
THEOREM ResumeNeverLosesEndedTurns == Spec => []ResumeKeepsEndedTurns
<1>1. Paired => ResumeKeepsEndedTurns
  BY ResumedCovers DEF Paired, ResumeKeepsEndedTurns
<1> QED BY <1>1, SavedStaysPaired, PTL

-----------------------------------------------------------------------------
(* Only turns that were answered are held anywhere.                        *)

Within(s, n) == \A i \in DOMAIN s : s[i].turns \subseteq 1 .. n

LEMMA BothWithin ==
  ASSUME NEW S, NEW s \in Seq(S), NEW t \in Seq(S), NEW n, Within(s, n), Within(t, n)
  PROVE  Within(s \o t, n)
<1>1. /\ Len(s \o t) = Len(s) + Len(t)
      /\ \A i \in 1 .. Len(s) : (s \o t)[i] = s[i]
      /\ \A i \in 1 .. Len(t) : (s \o t)[Len(s) + i] = t[i]
  BY ConcatFacts
<1>2. /\ DOMAIN s = 1 .. Len(s) /\ DOMAIN t = 1 .. Len(t) /\ Len(s) \in Nat /\ Len(t) \in Nat
      /\ DOMAIN (s \o t) = 1 .. Len(s \o t)
  OBVIOUS
<1>3. ASSUME NEW i \in DOMAIN (s \o t)
      PROVE  (\E j \in DOMAIN s : (s \o t)[i] = s[j]) \/ \E j \in DOMAIN t : (s \o t)[i] = t[j]
  <2>1. CASE i <= Len(s)
    BY <1>1, <1>2, <2>1
  <2>2. CASE i > Len(s)
    <3>1. i - Len(s) \in 1 .. Len(t) /\ Len(s) + (i - Len(s)) = i
      BY <1>1, <1>2, <2>2
    <3> QED BY <1>1, <1>2, <3>1
  <2> QED BY <1>2, <2>1, <2>2
<1> QED BY <1>3 DEF Within

LEMMA OneWithin ==
  ASSUME NEW d, NEW n, d.turns \subseteq 1 .. n
  PROVE  Within(<<d>>, n) /\ Within(<<>>, n)
BY DEF Within

LEMMA TailWithin ==
  ASSUME NEW S, NEW s \in Seq(S), s # <<>>, NEW n, Within(s, n)
  PROVE  Within(Tail(s), n) /\ Head(s).turns \subseteq 1 .. n
<1>1. /\ Len(s) \in Nat /\ DOMAIN s = 1 .. Len(s) /\ Len(s) >= 1 /\ Head(s) = s[1]
      /\ Tail(s) \in Seq(S) /\ Len(Tail(s)) = Len(s) - 1
      /\ \A i \in 1 .. Len(s) - 1 : Tail(s)[i] = s[i + 1]
  BY SeqFacts
<1>2. DOMAIN Tail(s) = 1 .. Len(Tail(s))
  BY <1>1
<1>3. 1 \in DOMAIN s /\ \A i \in DOMAIN Tail(s) : i + 1 \in DOMAIN s /\ Tail(s)[i] = s[i + 1]
  BY <1>1, <1>2
<1> QED BY <1>1, <1>3 DEF Within

\* What is grown stays within more.
LEMMA WithinMore ==
  ASSUME NEW m \in Nat, NEW n \in Nat, m <= n
  PROVE  /\ 1 .. m \subseteq 1 .. n
         /\ \A s : Within(s, m) => Within(s, n)
<1>1. 1 .. m \subseteq 1 .. n
  OBVIOUS
<1> QED BY <1>1 DEF Within

LEMMA HookWithin ==
  ASSUME TypeOK, Answered, NEW trs \in SUBSET Turns, trs \subseteq 1 .. turns,
         NEW given \in Histories, given # NoHistory => given \subseteq 1 .. turns
  PROVE  Within(Hook(trs, given), turns) /\ Hook(trs, given) \in Seq(Debt)
<1> DEFINE newest == IF given # NoHistory THEN given ELSE known
           head == <<Display(trs, committed)>>
           tail == IF newest = NoHistory THEN <<>> ELSE <<Machine(newest)>>
<1>1. Hook(trs, given) = head \o tail /\ newest \in Histories /\ committed \in SUBSET Turns
  BY DEF Hook, TypeOK
<1>2. newest # NoHistory => newest \subseteq 1 .. turns
  BY DEF Answered
<1>3. head \in Seq(Debt) /\ Within(head, turns)
  <2>1. Display(trs, committed).turns \subseteq 1 .. turns
    BY DEF Display
  <2>2. Display(trs, committed) \in Debt
    BY <1>1, DebtTypes
  <2> HIDE DEF Display
  <2> QED BY <2>1, <2>2, OneWithin, OneFacts
<1>4. tail \in Seq(Debt) /\ Within(tail, turns)
  <2>1. CASE newest = NoHistory
    <3>1. tail = <<>>
      BY <2>1
    <3> QED BY <3>1 DEF Within
  <2>2. CASE newest # NoHistory
    <3>1. newest \in SUBSET Turns /\ tail = <<Machine(newest)>>
      BY <1>1, <2>2 DEF Histories
    <3>2. Machine(newest).turns \subseteq 1 .. turns
      BY <1>2, <2>2 DEF Machine
    <3> HIDE DEF newest, tail
    <3>3. Machine(newest) \in Debt
      BY <3>1, DebtTypes
    <3>4. Within(<<Machine(newest)>>, turns)
      BY <3>2, OneWithin
    <3>5. <<Machine(newest)>> \in Seq(Debt)
      BY <3>3, OneFacts
    <3> QED BY <3>1, <3>4, <3>5
  <2> QED BY <2>1, <2>2
<1> HIDE DEF newest, head, tail
<1> QED BY <1>1, <1>3, <1>4, BothWithin

LEMMA RedrawWithin ==
  ASSUME TypeOK, Answered, NEW base \in SUBSET Turns, base \subseteq 1 .. turns,
         NEW before \in Seq(Debt), Within(before, turns), Redraws(base, before)
  PROVE  Within(owed', turns) /\ shown' \subseteq 1 .. turns /\ rows' = {} /\ history' = NoHistory
<1> DEFINE hooked == Hook(base \cup rows, history)
<1>1. base \cup rows \in SUBSET Turns /\ history \in Histories /\ base \cup rows \subseteq 1 .. turns
      /\ (history # NoHistory => history \subseteq 1 .. turns)
  BY DEF TypeOK, Answered
<1>2. Within(hooked, turns) /\ hooked \in Seq(Debt)
  BY <1>1, HookWithin
<1>3. /\ owed' = before \o hooked \/ owed' = before \o <<>>
      /\ shown' = base \cup rows /\ rows' = {} /\ history' = NoHistory
  BY DEF Redraws
<1> HIDE DEF hooked
<1>4. <<>> \in Seq(Debt) /\ Within(<<>>, turns)
  BY DEF Within
<1> QED BY <1>1, <1>2, <1>3, <1>4, BothWithin

-----------------------------------------------------------------------------
(* Answered, step by step.                                                 *)

\* What every step does to the turns and to their homes.
LEMMA TurnSteps ==
  ASSUME Grounded, [Next]_vars
  PROVE  /\ turns \in Nat /\ turns' \in Nat /\ turns <= turns'
         /\ ~ResponseLands => turns' = turns /\ home' = home
<1>1. turns \in Nat
  BY BoundAssumption DEF Grounded, TypeOK
<1>2. ResponseLands => turns' = turns + 1
  BY DEF ResponseLands
<1>3. CASE Launch \/ RunStep
  <2>1. CASE ResponseLands
    BY <1>1, <1>2, <2>1
  <2>2. CASE ~ResponseLands
    <3>1. turns' = turns /\ home' = home
      BY <1>3, <2>2
         DEF Launch, LaunchFresh, LaunchResumes, Starts, RunStep, RunStarts, ToolLands, TurnEnds,
             RunResolves, loopVars
    <3> QED BY <1>1, <2>2, <3>1
  <2> QED BY <2>1, <2>2
<1>4. CASE ApplyCommand
  <2>1. turns' = turns /\ home' = home
    BY <1>4
       DEF ApplyCommand, ClearApplied, CompactApplied, RebuildApplied, CommandDeclined, ResumeLoads,
           ResumeReadsMachine, ResumeAdopts, ResumeFails, loopVars
  <2> QED BY <1>1, <2>1
<1>5. CASE (\E c \in Commands : CommandKey(c)) \/ Frame \/ ApplyUpdate \/ Leave \/ PaysOne
  <2>1. turns' = turns /\ home' = home
    BY <1>5 DEF CommandKey, Frame, ApplyUpdate, Leave, PaysOne, loopVars
  <2> QED BY <1>1, <2>1
<1>6. CASE ExitStep \/ Crash
  <2>1. turns' = turns /\ home' = home
    BY <1>6 DEF ExitStep, DriverEnds, TearsDown, Stops, Joins, Crash, ProcessGone, loopVars
  <2> QED BY <1>1, <2>1
<1>7. CASE Writes \/ UNCHANGED vars
  <2>1. turns' = turns /\ home' = home
    BY <1>7 DEF Writes, sessionVars, vars
  <2> QED BY <1>1, <2>1
<1> QED BY <1>3, <1>4, <1>5, <1>6, <1>7 DEF Next, Over

\* The stores and the homes, whatever the step.
LEMMA StoresAnswered ==
  ASSUME Grounded, Dated, Answered, [Next]_vars
  PROVE  /\ \A p \in Stores', h \in Halves : p[h].turns \subseteq 1 .. turns'
         /\ \A t \in Turns : home'[t] <= minted'
<1>1. turns \in Nat /\ turns' \in Nat /\ turns <= turns' /\ (~ResponseLands => turns' = turns /\ home' = home)
  BY TurnSteps
<1>2. 1 .. turns \subseteq 1 .. turns'
  BY <1>1, WithinMore
<1>3. ASSUME NEW p \in Stores', NEW h \in Halves PROVE p[h].turns \subseteq 1 .. turns'
  <2>1. CASE PaysOne
    <3>1. p \in Stores \/ p[h] = Published(Head(owed).half) \/ p[h] = slot[h]
      BY <2>1, PaysFacts
    <3>2. Published(Head(owed).half).turns \subseteq 1 .. turns
      <4>1. owed \in Seq(Debt) /\ owed # <<>> /\ Within(owed, turns)
        BY <2>1, PaysFacts DEF Answered, Within
      <4>2. Head(owed).turns \subseteq 1 .. turns
        BY <4>1, TailWithin
      <4> QED BY <4>2 DEF Published
    <3>3. \A q \in Stores : q[h].turns \subseteq 1 .. turns
      BY DEF Answered
    <3> QED BY <1>2, <3>1, <3>2, <3>3, StoreTypes
  <2>2. CASE ~PaysOne
    <3>1. p[h] = None \/ \E q \in Stores : q[h] = p[h]
      BY <2>2, StorageSteps DEF NoneNew
    <3>2. \A q \in Stores : q[h].turns \subseteq 1 .. turns
      BY DEF Answered
    <3> QED BY <1>2, <3>1, <3>2, NoneFacts
  <2> QED BY <2>1, <2>2
<1>4. minted \in Nat /\ minted' \in Nat /\ minted <= minted'
  <2>1. CASE PaysOne
    BY <2>1, PaysFacts, StoreTypes
  <2>2. CASE ~PaysOne
    BY <2>2, StorageSteps, StoreTypes
  <2> QED BY <2>1, <2>2
<1>5. ASSUME NEW t \in Turns PROVE home'[t] <= minted'
  <2>1. home[t] \in Nat /\ home[t] <= minted /\ home \in [Turns -> 0 .. MaxSessions]
    BY DEF Answered, Grounded, TypeOK
  <2>2. CASE ResponseLands
    <3>1. home' = [home EXCEPT ![turns + 1] = cell] /\ phase # "off"
      BY <2>2 DEF ResponseLands
    <3>2. cell \in Nat /\ cell <= minted
      BY <1>4, <3>1 DEF Grounded, Placed
    <3>3. home'[t] = home[t] \/ home'[t] = cell
      BY <2>1, <3>1
    <3> QED BY <1>4, <2>1, <3>2, <3>3
  <2>3. CASE ~ResponseLands
    BY <1>1, <1>4, <2>1, <2>3
  <2> QED BY <2>2, <2>3
<1> QED BY <1>3, <1>5

\* Answered, in the terms of the lemmas above, now and next.
LEMMA AnsweredMeans ==
  Answered =>
    /\ shown \subseteq 1 .. turns /\ rows \subseteq 1 .. turns /\ committed \subseteq 1 .. turns
    /\ known # NoHistory => known \subseteq 1 .. turns
    /\ history # NoHistory => history \subseteq 1 .. turns
    /\ Within(owed, turns) /\ Within(updates, turns)
    /\ \A h \in Halves : loaded.pair[h].turns \subseteq 1 .. turns
BY DEF Answered, Within

LEMMA AnsweredNext ==
  ASSUME Grounded, Dated, Answered, [Next]_vars,
         shown' \subseteq 1 .. turns', rows' \subseteq 1 .. turns', committed' \subseteq 1 .. turns',
         known' # NoHistory => known' \subseteq 1 .. turns',
         history' # NoHistory => history' \subseteq 1 .. turns',
         Within(owed', turns'), Within(updates', turns'),
         \A h \in Halves : loaded'.pair[h].turns \subseteq 1 .. turns'
  PROVE  Answered'
<1>1. /\ \A p \in Stores', h \in Halves : p[h].turns \subseteq 1 .. turns'
      /\ \A t \in Turns : home'[t] <= minted'
  BY StoresAnswered
<1> QED BY <1>1 DEF Answered, Within

LEMMA NothingWithin ==
  ASSUME NEW n
  PROVE  Within(<<>>, n) /\ {} \subseteq 1 .. n /\ \A h \in Halves : NoLoad.pair[h].turns \subseteq 1 .. n
BY NoneFacts DEF Within, NoLoad, NoPair

LEMMA LaunchAnswered ==
  ASSUME Grounded, Dated, Answered, Launch
  PROVE  Answered'
<1>0. [Next]_vars
  BY DEF Next
<1>1. ASSUME NEW session, NEW trs \in SUBSET Turns, NEW engine \in SUBSET Turns, NEW adopts \in BOOLEAN,
             trs \subseteq 1 .. turns, engine \subseteq 1 .. turns,
             Starts(session, trs, engine, adopts)
      PROVE  Answered'
  <2>1. /\ shown' = trs /\ committed' = engine /\ known' \in {engine, NoHistory}
        /\ history' = NoHistory /\ rows' = {} /\ updates' = <<>> /\ loaded' = NoLoad /\ turns' = turns
        /\ owed' = <<Display(trs, engine)>> \o IF adopts THEN <<Machine(engine)>> ELSE <<>>
    BY <1>1 DEF Starts
  <2>2. <<Display(trs, engine)>> \in Seq(Debt) /\ Within(<<Display(trs, engine)>>, turns)
    <3>1. Display(trs, engine) \in Debt
      BY DebtTypes
    <3>2. Display(trs, engine).turns \subseteq 1 .. turns
      BY <1>1 DEF Display
    <3> HIDE DEF Display
    <3> QED BY <3>1, <3>2, OneWithin, OneFacts
  <2>3. <<Machine(engine)>> \in Seq(Debt) /\ Within(<<Machine(engine)>>, turns)
    <3>1. Machine(engine) \in Debt
      BY DebtTypes
    <3>2. Machine(engine).turns \subseteq 1 .. turns
      BY <1>1 DEF Machine
    <3> HIDE DEF Machine
    <3> QED BY <3>1, <3>2, OneWithin, OneFacts
  <2>4. <<>> \in Seq(Debt) /\ Within(<<>>, turns)
    BY NothingWithin
  <2>5. Within(owed', turns)
    <3>1. CASE owed' = <<Display(trs, engine)>> \o <<Machine(engine)>>
      BY <2>2, <2>3, <3>1, BothWithin
    <3>2. CASE owed' = <<Display(trs, engine)>> \o <<>>
      BY <2>2, <2>4, <3>2, BothWithin
    <3> QED BY <2>1, <3>1, <3>2
  <2> QED BY <1>0, <1>1, <2>1, <2>5, NothingWithin, AnsweredNext
<1>2. CASE LaunchFresh
  <2>1. Starts(minted + 1, {}, {}, FALSE) /\ {} \in SUBSET Turns /\ {} \subseteq 1 .. turns
    BY <1>2 DEF LaunchFresh
  <2> QED BY <1>1, <2>1
<1>3. ASSUME NEW s \in Sessions, LaunchResumes(s) PROVE Answered'
  <2>1. files[s] \in Pair /\ \A h \in Halves : files[s][h].turns \subseteq 1 .. turns
    BY StoreTypes DEF Answered
  <2>2. /\ files[s]["display"].turns \subseteq Turns /\ ResumedHistory(files[s]) \subseteq Turns
        /\ MachineCounts(files[s]) \in BOOLEAN
    BY <2>1, ResumedTyped
  <2>3. files[s]["display"].turns \subseteq 1 .. turns /\ ResumedHistory(files[s]) \subseteq 1 .. turns
    BY <2>1 DEF ResumedHistory, Halves
  <2> QED BY <1>1, <1>3, <2>2, <2>3 DEF LaunchResumes
<1> QED BY <1>2, <1>3 DEF Launch

LEMMA RunAnswered ==
  ASSUME Grounded, Dated, Answered, RunStep
  PROVE  Answered'
<1>0. [Next]_vars /\ turns \in Nat
  BY BoundAssumption DEF Next, Grounded, TypeOK
<1>1. CASE RunStarts \/ ToolLands
  <2>1. UNCHANGED <<shown, rows, committed, known, history, owed, updates, loaded, turns>>
    BY <1>1 DEF RunStarts, ToolLands, screenVars, loopVars
  <2> QED BY <1>0, <2>1, AnsweredMeans, AnsweredNext
<1>2. CASE ResponseLands
  <2>1. /\ turns' = turns + 1 /\ rows' = rows \cup {turns + 1}
        /\ UNCHANGED <<shown, committed, known, history, owed, updates, loaded>>
    BY <1>2 DEF ResponseLands
  <2>2. 1 .. turns \subseteq 1 .. turns' /\ turns + 1 \in 1 .. turns' /\ (\A s : Within(s, turns) => Within(s, turns'))
    BY <1>0, <2>1, WithinMore
  <2>3. /\ shown' \subseteq 1 .. turns' /\ rows' \subseteq 1 .. turns' /\ committed' \subseteq 1 .. turns'
        /\ known' # NoHistory => known' \subseteq 1 .. turns'
        /\ history' # NoHistory => history' \subseteq 1 .. turns'
        /\ \A h \in Halves : loaded'.pair[h].turns \subseteq 1 .. turns'
    BY <2>1, <2>2, AnsweredMeans
  <2>4. Within(owed', turns') /\ Within(updates', turns')
    BY <2>1, <2>2, AnsweredMeans
  <2> QED BY <1>0, <2>3, <2>4, AnsweredNext
<1>3. CASE TurnEnds
  <2>1. /\ committed' = committed \cup {turns} /\ history' = committed' /\ known' = committed'
        /\ UNCHANGED <<shown, rows, owed, updates, loaded, turns>>
    BY <1>3 DEF TurnEnds
  <2>2. turns \in 1 .. turns
    BY <1>3 DEF TurnEnds, Grounded, Placed, Turns
  <2>3. committed' \subseteq 1 .. turns
    BY <2>1, <2>2, AnsweredMeans
  <2> QED BY <1>0, <2>1, <2>3, AnsweredMeans, AnsweredNext
<1>4. CASE RunResolves
  <2>1. PICK kept \in SUBSET (IF driver = "answered" THEN {turns} ELSE {}) : committed' = committed \cup kept
    BY <1>4 DEF RunResolves
  <2>2. /\ known' = committed' /\ owed' = <<Machine(committed')>>
        /\ UNCHANGED <<shown, rows, history, updates, loaded, turns>>
    BY <1>4 DEF RunResolves
  <2>3. driver = "answered" => turns \in 1 .. turns
    BY DEF Grounded, Placed, Turns
  <2>4. committed' \subseteq 1 .. turns
    BY <2>1, <2>3, AnsweredMeans
  <2>5. Machine(committed').turns \subseteq 1 .. turns
    BY <2>4 DEF Machine
  <2> HIDE DEF Machine
  <2>6. Within(owed', turns)
    BY <2>2, <2>5, OneWithin
  <2> QED BY <1>0, <2>2, <2>4, <2>6, AnsweredMeans, AnsweredNext
<1> QED BY <1>1, <1>2, <1>3, <1>4 DEF RunStep

LEMMA CommandAnswered ==
  ASSUME Grounded, Dated, Answered, ApplyCommand
  PROVE  Answered'
<1>0. [Next]_vars /\ turns \in Nat
  BY BoundAssumption DEF Next, Grounded, TypeOK
<1> DEFINE Update == [kind : {"ModelName", "Resumed"}, turns : SUBSET Turns]
<1>u. updates \in Seq(Update)
  BY DEF Grounded, TypeOK
<1>p. \A h \in Halves : loaded.pair[h].turns \in SUBSET Turns
  BY PairFacts DEF Grounded, TypeOK
<1>1. CASE ClearApplied
  <2>1. committed' = {} /\ UNCHANGED <<shown, rows, known, history, owed, updates, loaded, turns>>
    BY <1>1 DEF ClearApplied, screenVars
  <2> QED BY <1>0, <2>1, AnsweredMeans, AnsweredNext
<1>2. CASE CompactApplied
  <2>1. /\ known' = committed /\ owed' = <<Machine(committed)>>
        /\ UNCHANGED <<shown, rows, committed, history, updates, loaded, turns>>
    BY <1>2 DEF CompactApplied, screenVars, loopVars
  <2>2. Machine(committed).turns \subseteq 1 .. turns
    BY AnsweredMeans DEF Machine
  <2> HIDE DEF Machine
  <2>3. Within(owed', turns)
    BY <2>1, <2>2, OneWithin
  <2> QED BY <1>0, <2>1, <2>3, AnsweredMeans, AnsweredNext
<1>3. CASE RebuildApplied
  <2>1. /\ updates' = Append(updates, ModelName)
        /\ UNCHANGED <<shown, rows, committed, known, history, owed, loaded, turns>>
    BY <1>3 DEF RebuildApplied, screenVars, loopVars
  <2>2. ModelName.turns = {} /\ ModelName \in Update
    BY DEF ModelName
  <2> HIDE DEF ModelName, Update
  <2>3. Within(updates', turns)
    <3>1. Append(updates, ModelName) = updates \o <<ModelName>> /\ <<ModelName>> \in Seq(Update)
      BY <1>u, <2>2
    <3>2. Within(<<ModelName>>, turns)
      BY <2>2, OneWithin
    <3> QED BY <1>u, <2>1, <3>1, <3>2, AnsweredMeans, BothWithin
  <2> QED BY <1>0, <2>1, <2>3, AnsweredMeans, AnsweredNext
<1>4. CASE CommandDeclined
  <2>1. UNCHANGED <<shown, rows, committed, known, history, owed, updates, loaded, turns>>
    BY <1>4 DEF CommandDeclined, screenVars, loopVars
  <2> QED BY <1>0, <2>1, AnsweredMeans, AnsweredNext
<1>5. ASSUME NEW s \in Sessions, ResumeLoads(s) PROVE Answered'
  <2>1. /\ loaded' = [session |-> s, pair |-> [NoPair EXCEPT !["display"] = files[s]["display"]]]
        /\ UNCHANGED <<shown, rows, committed, known, history, owed, updates, turns>>
    BY <1>5 DEF ResumeLoads, screenVars, loopVars
  <2>2. \A h \in Halves : loaded'.pair[h] = None \/ loaded'.pair[h] = files[s]["display"]
    BY <2>1 DEF NoPair, Halves
  <2>3. files[s]["display"].turns \subseteq 1 .. turns
    BY StoreTypes DEF Answered, Halves
  <2>4. \A h \in Halves : loaded'.pair[h].turns \subseteq 1 .. turns
    BY <2>2, <2>3, NoneFacts
  <2> QED BY <1>0, <2>1, <2>4, AnsweredMeans, AnsweredNext
<1>6. CASE ResumeReadsMachine
  <2>1. /\ loaded' = [loaded EXCEPT !.pair["machine"] = files[loaded.session]["machine"]]
        /\ UNCHANGED <<shown, rows, committed, known, history, owed, updates, turns>>
    BY <1>6 DEF ResumeReadsMachine, screenVars, loopVars
  <2>2. loaded.session \in Sessions
    BY <1>6, BoundAssumption DEF ResumeReadsMachine, Grounded, Placed, TypeOK, Sessions
  <2>3. loaded.pair \in Pair /\ loaded \in [session : {0} \cup Sessions, pair : Pair]
    BY DEF Grounded, TypeOK
  <2>4. \A h \in Halves : loaded'.pair[h] = loaded.pair[h] \/ loaded'.pair[h] = files[loaded.session]["machine"]
    BY <2>1, <2>3 DEF Pair
  <2>5. files[loaded.session]["machine"].turns \subseteq 1 .. turns
    BY <2>2, StoreTypes DEF Answered, Halves
  <2>6. \A h \in Halves : loaded'.pair[h].turns \subseteq 1 .. turns
    BY <2>4, <2>5, AnsweredMeans
  <2> QED BY <1>0, <2>1, <2>6, AnsweredMeans, AnsweredNext
<1>7. CASE ResumeFails
  <2>1. loaded' = NoLoad /\ UNCHANGED <<shown, rows, committed, known, history, owed, updates, turns>>
    BY <1>7 DEF ResumeFails, screenVars, loopVars
  <2> QED BY <1>0, <2>1, AnsweredMeans, NothingWithin, AnsweredNext
<1>8. CASE ResumeAdopts
  <2>1. /\ committed' = Adopted(loaded.pair) /\ known' = committed' /\ owed' = <<Machine(committed')>>
        /\ updates' = Append(updates, Resumed(loaded.pair["display"].turns)) /\ loaded' = NoLoad
        /\ UNCHANGED <<shown, rows, history, turns>>
    BY <1>8 DEF ResumeAdopts, screenVars
  <2>2. committed' \subseteq 1 .. turns /\ loaded.pair["display"].turns \subseteq 1 .. turns
        /\ loaded.pair["display"].turns \in SUBSET Turns
    BY <1>p, <2>1, AnsweredMeans DEF Adopted, Halves
  <2>3. Machine(committed').turns \subseteq 1 .. turns
    BY <2>2 DEF Machine
  <2> DEFINE update == Resumed(loaded.pair["display"].turns)
  <2>4. update.turns \subseteq 1 .. turns /\ update \in Update
    BY <2>2 DEF Resumed
  <2>5. updates' = Append(updates, update)
    BY <2>1
  <2> HIDE DEF Machine, update, Update
  <2>6. Within(owed', turns)
    BY <2>1, <2>3, OneWithin
  <2>7. Within(updates', turns)
    <3>1. Append(updates, update) = updates \o <<update>> /\ <<update>> \in Seq(Update)
      BY <1>u, <2>4
    <3>2. Within(<<update>>, turns)
      BY <2>4, OneWithin
    <3> QED BY <1>u, <2>5, <3>1, <3>2, AnsweredMeans, BothWithin
  <2> QED BY <1>0, <2>1, <2>2, <2>6, <2>7, AnsweredMeans, NothingWithin, AnsweredNext
<1> QED BY <1>1, <1>2, <1>3, <1>4, <1>5, <1>6, <1>7, <1>8 DEF ApplyCommand

LEMMA PanelAnswered ==
  ASSUME Grounded, Dated, Answered,
         (\E c \in Commands : CommandKey(c)) \/ Frame \/ ApplyUpdate
  PROVE  Answered'
<1>0. [Next]_vars /\ turns \in Nat /\ TypeOK /\ <<>> \in Seq(Debt) /\ {} \in SUBSET Turns
  BY BoundAssumption DEF Next, Grounded, TypeOK
<1>1. shown \in SUBSET Turns /\ shown \subseteq 1 .. turns /\ NoHistory \in Histories
  BY AnsweredMeans DEF Grounded, TypeOK, Histories
<1>2. UNCHANGED <<committed, known, loaded, turns>>
  BY DEF CommandKey, Frame, ApplyUpdate, loopVars
<1>3. ASSUME NEW base \in SUBSET Turns, base \subseteq 1 .. turns, NEW before \in Seq(Debt), Within(before, turns),
             Redraws(base, before), Within(updates', turns)
      PROVE  Answered'
  <2>1. Within(owed', turns) /\ shown' \subseteq 1 .. turns /\ rows' = {} /\ history' = NoHistory
    BY <1>0, <1>3, RedrawWithin
  <2> QED BY <1>0, <1>2, <1>3, <2>1, AnsweredMeans, AnsweredNext
<1>4. CASE (\E c \in Commands : CommandKey(c)) \/ Frame
  <2>1. Redraws({}, <<>>) \/ Redraws(shown, <<>>)
    BY <1>4 DEF CommandKey, Frame
  <2>2. Within(updates', turns)
    <3>1. updates' = updates
      BY <1>4 DEF CommandKey, Frame
    <3> QED BY <3>1, AnsweredMeans
  <2> QED BY <1>0, <1>1, <1>3, <2>1, <2>2, NothingWithin
<1>5. CASE ApplyUpdate
  <2> DEFINE Update == [kind : {"ModelName", "Resumed"}, turns : SUBSET Turns]
  <2>1. updates \in Seq(Update) /\ updates # <<>> /\ updates' = Tail(updates)
    BY <1>5 DEF ApplyUpdate, Grounded, TypeOK
  <2>2. Head(updates) \in Update => Head(updates).turns \in SUBSET Turns
    OBVIOUS
  <2> HIDE DEF Update
  <2>3. Head(updates) \in Update
    BY <2>1, SeqFacts
  <2>4. Within(updates', turns) /\ Head(updates).turns \subseteq 1 .. turns
    BY <2>1, AnsweredMeans, TailWithin
  <2>5. Hook(shown, NoHistory) \in Seq(Debt) /\ Within(Hook(shown, NoHistory), turns)
    BY <1>0, <1>1, HookWithin
  <2>6. Redraws(shown, Hook(shown, NoHistory)) \/ Redraws(Head(updates).turns, <<>>)
    BY <1>5 DEF ApplyUpdate
  <2>7. CASE Redraws(shown, Hook(shown, NoHistory))
    BY <1>1, <1>3, <2>4, <2>5, <2>7
  <2>8. CASE Redraws(Head(updates).turns, <<>>)
    BY <1>0, <1>3, <2>2, <2>3, <2>4, <2>8, NothingWithin
  <2> QED BY <2>6, <2>7, <2>8
<1> QED BY <1>4, <1>5

\* What an exit has the hook publish: nothing, or the transcript once or twice,
\* the last time as it stands on the screen.
LEMMA LeaveOwes ==
  ASSUME Grounded, Leave
  PROVE  \E first, second \in {<<>>, Hook(shown', NoHistory), Hook(shown', history)} :
           /\ owed' = first \o second /\ history \in Histories /\ NoHistory \in Histories
           /\ shown' \in {shown, shown \cup rows} /\ shown' \in SUBSET Turns
           /\ first = <<>> /\ second = <<>> => shown' = shown
<1>1. PICK drawn \in BOOLEAN, waiting \in BOOLEAN :
        LET last == IF drawn \/ Running THEN shown \cup rows ELSE shown
            flush == IF Running \/ waiting THEN Hook(last, NoHistory) ELSE <<>>
        IN  IF drawn \/ Running
            THEN /\ shown' = last
                 /\ owed' = (IF rows # {} \/ fire \/ history # NoHistory
                             THEN Hook(last, history) ELSE <<>>) \o flush
            ELSE owed' = flush /\ UNCHANGED screenVars
  BY DEF Leave
<1> DEFINE flush == IF Running \/ waiting THEN Hook(shown', NoHistory) ELSE <<>>
           drew == IF rows # {} \/ fire \/ history # NoHistory THEN Hook(shown', history) ELSE <<>>
<1>2. /\ shown \in SUBSET Turns /\ shown \cup rows \in SUBSET Turns /\ history \in Histories
      /\ NoHistory \in Histories /\ <<>> \in Seq(Debt) /\ TypeOK
  BY DEF Grounded, TypeOK, Histories
<1>3. CASE drawn \/ Running
  <2>1. shown' = shown \cup rows /\ owed' = drew \o flush
    BY <1>1, <1>3
  <2>2. drew = <<>> => shown' = shown
    <3>1. CASE rows # {} \/ fire \/ history # NoHistory
      <4>1. drew = Hook(shown', history)
        BY <3>1
      <4>2. Len(<<Display(shown', committed)>>) = 1 /\ Hook(shown', history) = <<Display(shown', committed)>> \o
              (IF (IF history # NoHistory THEN history ELSE known) = NoHistory THEN <<>>
               ELSE <<Machine(IF history # NoHistory THEN history ELSE known)>>)
        BY DEF Hook
      <4>3. Hook(shown', history) # <<>>
        BY <4>2
      <4> QED BY <4>1, <4>3
    <3>2. CASE rows = {}
      BY <2>1, <3>2
    <3> QED BY <3>1, <3>2
  <2>3. drew \in {<<>>, Hook(shown', NoHistory), Hook(shown', history)}
        /\ flush \in {<<>>, Hook(shown', NoHistory), Hook(shown', history)}
    OBVIOUS
  <2> HIDE DEF drew, flush
  <2> QED BY <1>2, <2>1, <2>2, <2>3
<1>4. CASE ~(drawn \/ Running)
  <2>1. shown' = shown /\ owed' = flush
    BY <1>1, <1>4 DEF screenVars
  <2>2. flush \in {<<>>, Hook(shown', NoHistory), Hook(shown', history)}
    OBVIOUS
  <2>3. Hook(shown, NoHistory) \in Seq(Debt)
    BY <1>2, HookTypes
  <2>4. flush = <<>> \o flush
    BY <1>2, <2>1, <2>3
  <2> HIDE DEF flush
  <2> QED BY <1>2, <2>1, <2>2, <2>4
<1> QED BY <1>3, <1>4

LEMMA LeaveAnswered ==
  ASSUME Grounded, Dated, Answered, Leave
  PROVE  Answered'
<1>0. [Next]_vars /\ TypeOK
  BY DEF Next, Grounded
<1>1. PICK first \in {<<>>, Hook(shown', NoHistory), Hook(shown', history)},
           second \in {<<>>, Hook(shown', NoHistory), Hook(shown', history)} :
        /\ owed' = first \o second /\ history \in Histories /\ NoHistory \in Histories
        /\ shown' \in {shown, shown \cup rows} /\ shown' \in SUBSET Turns
  BY LeaveOwes
<1>2. shown' \subseteq 1 .. turns
  BY <1>1, AnsweredMeans
<1>3. /\ Within(Hook(shown', NoHistory), turns) /\ Hook(shown', NoHistory) \in Seq(Debt)
      /\ Within(Hook(shown', history), turns) /\ Hook(shown', history) \in Seq(Debt)
  BY <1>0, <1>1, <1>2, AnsweredMeans, HookWithin
<1>4. Within(<<>>, turns) /\ <<>> \in Seq(Debt)
  BY NothingWithin
<1>5. Within(owed', turns)
  BY <1>1, <1>3, <1>4, BothWithin
<1>6. /\ UNCHANGED <<committed, known, updates, loaded, turns>>
      /\ rows' \in {rows, {}} /\ history' \in {history, NoHistory}
  BY DEF Leave, screenVars, loopVars
<1> QED BY <1>0, <1>2, <1>5, <1>6, AnsweredMeans, AnsweredNext

LEMMA ExitAnswered ==
  ASSUME Grounded, Dated, Answered, ExitStep \/ Crash
  PROVE  Answered'
<1>0. [Next]_vars /\ TypeOK /\ shown \in SUBSET Turns /\ NoHistory \in Histories
  BY DEF Next, Grounded, TypeOK, Histories
<1>1. CASE DriverEnds \/ Stops
  <2>1. UNCHANGED <<shown, rows, committed, known, history, owed, updates, loaded, turns>>
    BY <1>1 DEF DriverEnds, Stops, screenVars, loopVars
  <2> QED BY <1>0, <2>1, AnsweredMeans, AnsweredNext
<1>2. CASE TearsDown
  <2>1. /\ rows' = {} /\ history' = NoHistory /\ loaded' = NoLoad
        /\ owed' = Hook(shown, NoHistory) \/ owed' = <<>>
        /\ UNCHANGED <<shown, committed, known, updates, turns>>
    BY <1>2 DEF TearsDown, loopVars
  <2>2. Within(Hook(shown, NoHistory), turns)
    BY <1>0, AnsweredMeans, HookWithin
  <2>3. Within(owed', turns)
    BY <2>1, <2>2, NothingWithin
  <2> QED BY <1>0, <2>1, <2>3, AnsweredMeans, NothingWithin, AnsweredNext
<1>3. CASE Joins \/ Crash
  <2>1. /\ shown' = {} /\ committed' = {} /\ rows' = {} /\ known' = NoHistory /\ history' = NoHistory
        /\ owed' = <<>> /\ updates' = <<>> /\ loaded' = NoLoad
    BY <1>3 DEF Joins, Crash, ProcessGone
  <2> QED BY <1>0, <2>1, NothingWithin, AnsweredNext
<1> QED BY <1>1, <1>2, <1>3 DEF ExitStep

LEMMA StepAnswered == Grounded /\ Dated /\ Answered /\ [Next]_vars => Answered'
<1> SUFFICES ASSUME Grounded, Dated, Answered, [Next]_vars PROVE Answered'
  OBVIOUS
<1>1. CASE Launch \/ RunStep \/ ApplyCommand
  BY <1>1, LaunchAnswered, RunAnswered, CommandAnswered
<1>2. CASE (\E c \in Commands : CommandKey(c)) \/ Frame \/ ApplyUpdate
  BY <1>2, PanelAnswered
<1>3. CASE Leave \/ ExitStep \/ Crash
  BY <1>3, LeaveAnswered, ExitAnswered
<1>4. CASE PaysOne
  <2>1. /\ owed \in Seq(Debt) /\ owed # <<>> /\ owed' = Tail(owed)
        /\ UNCHANGED <<shown, rows, committed, known, history, updates, loaded, turns>>
    BY <1>4, PaysFacts DEF screenVars, loopVars
  <2>2. Within(owed', turns)
    BY <2>1, AnsweredMeans, TailWithin
  <2> QED BY <2>1, <2>2, AnsweredMeans, AnsweredNext
<1>5. CASE Writes \/ UNCHANGED vars
  <2>1. UNCHANGED <<shown, rows, committed, known, history, owed, updates, loaded, turns>>
    BY <1>5 DEF Writes, sessionVars, vars
  <2> QED BY <2>1, AnsweredMeans, AnsweredNext
<1> QED BY <1>1, <1>2, <1>3, <1>4, <1>5 DEF Next, Over

-----------------------------------------------------------------------------
(* The newest display half is the transcript on the screen.                *)

HasDisplay(s) == \E i \in DOMAIN s : s[i].half = "display"

\* The last display half of s carries T.
LastShows(s, T) ==
  \A i \in DOMAIN s :
    s[i].half = "display" /\ (\A j \in DOMAIN s : s[j].half = "display" => j <= i) => s[i].turns = T

LEMMA ThenShows ==
  ASSUME NEW s \in Seq(Debt), NEW t \in Seq(Debt), NEW T, LastShows(t, T), HasDisplay(t)
  PROVE  LastShows(s \o t, T) /\ HasDisplay(s \o t)
<1>1. /\ Len(s \o t) = Len(s) + Len(t)
      /\ \A i \in 1 .. Len(s) : (s \o t)[i] = s[i]
      /\ \A i \in 1 .. Len(t) : (s \o t)[Len(s) + i] = t[i]
  BY ConcatFacts
<1>2. /\ DOMAIN s = 1 .. Len(s) /\ DOMAIN t = 1 .. Len(t) /\ Len(s) \in Nat /\ Len(t) \in Nat
      /\ DOMAIN (s \o t) = 1 .. Len(s) + Len(t)
  BY <1>1
<1>3. PICK k \in DOMAIN t : t[k].half = "display"
  BY DEF HasDisplay
<1>4. \A j \in DOMAIN t : Len(s) + j \in DOMAIN (s \o t) /\ (s \o t)[Len(s) + j] = t[j] /\ j \in Nat
  BY <1>1, <1>2
<1>5. HasDisplay(s \o t)
  BY <1>3, <1>4 DEF HasDisplay
<1>6. ASSUME NEW i \in DOMAIN (s \o t), (s \o t)[i].half = "display",
             \A j \in DOMAIN (s \o t) : (s \o t)[j].half = "display" => j <= i
      PROVE  (s \o t)[i].turns = T
  <2>1. Len(s) + k <= i /\ k >= 1 /\ i \in Nat
    BY <1>2, <1>3, <1>4, <1>6
  <2>2. i - Len(s) \in DOMAIN t /\ (s \o t)[i] = t[i - Len(s)]
    <3>1. i - Len(s) \in 1 .. Len(t) /\ Len(s) + (i - Len(s)) = i
      BY <1>2, <2>1
    <3> QED BY <1>1, <1>2, <3>1
  <2>3. \A j \in DOMAIN t : t[j].half = "display" => j <= i - Len(s)
    <3>1. ASSUME NEW j \in DOMAIN t, t[j].half = "display" PROVE j <= i - Len(s)
      <4>1. Len(s) + j <= i /\ j \in Nat
        BY <1>4, <1>6, <3>1
      <4> QED BY <1>2, <2>1, <4>1
    <3> QED BY <3>1
  <2> QED BY <1>6, <2>2, <2>3 DEF LastShows
<1> QED BY <1>5, <1>6 DEF LastShows

\* A display half, and a machine half after it or nothing.
LEMMA DisplayShows ==
  ASSUME NEW d, NEW m, d.half = "display", m.half # "display"
  PROVE  /\ HasDisplay(<<d>> \o <<>>) /\ LastShows(<<d>> \o <<>>, d.turns)
         /\ HasDisplay(<<d>> \o <<m>>) /\ LastShows(<<d>> \o <<m>>, d.turns)
<1>1. <<d>> \in Seq({d, m}) /\ <<m>> \in Seq({d, m})
  OBVIOUS
<1>2. Len(<<d>>) = 1 /\ Len(<<m>>) = 1 /\ <<d>>[1] = d /\ <<m>>[1] = m
  OBVIOUS
<1>3. <<d>> \o <<>> = <<d>> /\ DOMAIN <<d>> = {1}
  OBVIOUS
<1>4. HasDisplay(<<d>>) /\ LastShows(<<d>>, d.turns)
  BY <1>2, <1>3 DEF HasDisplay, LastShows
<1> DEFINE both == <<d>> \o <<m>>
<1>5. both \in Seq({d, m}) /\ Len(both) = 2 /\ both[1] = d /\ both[1 + 1] = m
  BY <1>1, <1>2, ConcatFacts
<1> HIDE DEF both
<1>6. DOMAIN both = {1, 2} /\ both[1] = d /\ both[2] = m
  BY <1>5
<1>7. HasDisplay(both) /\ LastShows(both, d.turns)
  BY <1>6 DEF HasDisplay, LastShows
<1> QED BY <1>3, <1>4, <1>7 DEF both

LEMMA HookShows ==
  ASSUME TypeOK, NEW trs \in SUBSET Turns, NEW given \in Histories
  PROVE  /\ Hook(trs, given) \in Seq(Debt) /\ HasDisplay(Hook(trs, given))
         /\ LastShows(Hook(trs, given), trs)
<1> DEFINE newest == IF given # NoHistory THEN given ELSE known
           d == Display(trs, committed)
           m == Machine(newest)
<1>1. Hook(trs, given) = <<d>> \o <<>> \/ Hook(trs, given) = <<d>> \o <<m>>
  BY DEF Hook
<1>2. d.half = "display" /\ d.turns = trs /\ m.half # "display"
  BY DEF Display, Machine
<1>3. Hook(trs, given) \in Seq(Debt)
  BY HookTypes
<1> HIDE DEF d, m, newest
<1> QED BY <1>1, <1>2, <1>3, DisplayShows

\* A frame publishes the transcript it drew, or leaves it as it was.
LEMMA RedrawShows ==
  ASSUME TypeOK, NEW base \in SUBSET Turns, NEW before \in Seq(Debt), Redraws(base, before)
  PROVE  \/ HasDisplay(owed') /\ LastShows(owed', shown')
         \/ owed' = before /\ shown' = base
<1>1. base \cup rows \in SUBSET Turns /\ history \in Histories /\ shown' = base \cup rows
  BY DEF TypeOK, Redraws
<1>2. CASE rows # {} \/ fire \/ history # NoHistory
  <2>1. owed' = before \o Hook(base \cup rows, history)
    BY <1>2 DEF Redraws
  <2> QED BY <1>1, <2>1, HookShows, ThenShows
<1>3. CASE ~(rows # {} \/ fire \/ history # NoHistory)
  <2>1. owed' = before \o <<>> /\ rows = {}
    BY <1>3 DEF Redraws
  <2> QED BY <1>1, <2>1
<1> QED BY <1>2, <1>3

\* Then all that the screen shows is carried.
LEMMA ShownIsCarried ==
  ASSUME HasDisplay(owed'), LastShows(owed', shown')
  PROVE  Carried(shown \cap AtHome)' /\ Carried(shown \cap committed)' /\ MachineUpToDate'
<1>1. Due("display")' # {}
  BY DEF Due, HasDisplay
<1>2. ASSUME NEW i \in Due("display")', \A j \in Due("display")' : j <= i PROVE owed'[i].turns = shown'
  BY <1>2 DEF Due, LastShows
<1> QED BY <1>1, <1>2 DEF Carried, MachineUpToDate

-----------------------------------------------------------------------------
(* The newest halves, while nothing is published.                          *)

LEMMA StoresStill ==
  ASSUME UNCHANGED <<slot, hand, files, cell>>
  PROVE  \A h \in Halves : Newest(h)' = Newest(h)
BY DEF Newest

\* The writer only carries the newest halves from the mailbox to the file.
LEMMA WritesNewest ==
  ASSUME Grounded, Writes, faults' = 0, phase # "off"
  PROVE  \A h \in Halves : Newest(h)' = Newest(h)
<1>1. /\ slot \in Pair /\ hand \in Pair /\ files \in [Sessions -> Pair] /\ faults \in Nat
      /\ cell # 0 /\ cell \in Sessions
  <2>1. faults \in Nat
    BY BoundAssumption DEF Grounded, TypeOK, WriterTypeOK
  <2> QED BY <2>1, StoreTypes, BoundAssumption DEF Grounded, Placed, TypeOK, WriterTypeOK, Sessions
<1>2. \A h \in Halves : NoPair[h].session # cell
  BY <1>1, NoneFacts DEF NoPair
<1>3. CASE WriterSleeps
  BY <1>3 DEF WriterSleeps, Newest
<1>4. CASE WriterLooks
  <2>1. hand = NoPair /\ UNCHANGED <<cell, files>>
    BY <1>4 DEF WriterLooks, Grounded, WriterPlaced
  <2>2. CASE slot = NoPair
    <3>1. slot' = slot /\ hand' = hand
      BY <1>4, <2>2 DEF WriterLooks
    <3> QED BY <2>1, <3>1 DEF Newest
  <2>3. CASE slot # NoPair
    <3>1. hand' = slot /\ slot' = NoPair
      BY <1>4, <2>3 DEF WriterLooks
    <3> QED BY <1>2, <2>1, <3>1 DEF Newest
  <2> QED BY <2>2, <2>3
<1>5. ASSUME NEW half \in Halves, Saves(half), NEW h \in Halves PROVE Newest(h)' = Newest(h)
  <2>1. /\ hand' = [hand EXCEPT ![half] = None]
        /\ files' = [files EXCEPT ![hand[half].session][half] = hand[half]]
        /\ UNCHANGED <<slot, cell>>
    BY <1>1, <1>5 DEF Saves
  <2>2. CASE h = half
    <3>1. hand'[h] = None /\ None.session # cell
      BY <1>1, <2>1, <2>2, NoneFacts DEF Pair
    <3>2. CASE hand[h].session = cell
      <4>1. files'[cell][h] = hand[h]
        BY <1>1, <2>1, <2>2, <3>2 DEF Pair
      <4> QED BY <2>1, <3>1, <3>2, <4>1 DEF Newest
    <3>3. CASE hand[h].session # cell
      <4>1. files'[cell] = files[cell]
        BY <1>1, <2>1, <2>2, <3>3
      <4> QED BY <2>1, <3>1, <3>3, <4>1 DEF Newest
    <3> QED BY <3>2, <3>3
  <2>3. CASE h # half
    <3>1. hand'[h] = hand[h] /\ files'[cell][h] = files[cell][h]
      BY <1>1, <2>1, <2>3 DEF Pair
    <3> QED BY <2>1, <3>1 DEF Newest
  <2> QED BY <2>2, <2>3
<1> QED BY <1>3, <1>4, <1>5 DEF Writes, WriterStep, WriterSaves

-----------------------------------------------------------------------------
(* NothingUnsaved, step by step.                                           *)

Watched == phase # "off" /\ faults = 0 /\ cell \notin revisited
Idles == driver \notin {"asking", "answered", "aborted"}

\* No update of a live resume brings turns of X.
Foreign(s, X) == \A i \in DOMAIN s : s[i].kind = "Resumed" => s[i].turns \cap X = {}

LEMMA UnsavedMeans ==
  ASSUME NothingUnsaved, Watched
  PROVE  /\ Carried(shown \cap AtHome) /\ Carried(shown \cap committed)
         /\ Foreign(updates, AtHome \cup committed)
         /\ Idles => MachineUpToDate
BY DEF NothingUnsaved, Watched, Idles, Foreign

LEMMA UnsavedNext ==
  ASSUME Watched' => /\ Carried(shown \cap AtHome)' /\ Carried(shown \cap committed)'
                     /\ Foreign(updates, AtHome \cup committed)'
                     /\ Idles' => MachineUpToDate'
  PROVE  NothingUnsaved'
BY DEF NothingUnsaved, Watched, Idles, Foreign

\* What was carried still is, when nothing is owed of the display half.
LEMMA StillCarried ==
  ASSUME owed = <<>>, ~HasDisplay(owed'), \A h \in Halves : Newest(h)' = Newest(h),
         Carried(shown \cap AtHome), Carried(shown \cap committed)
  PROVE  /\ (shown \cap AtHome)' \subseteq shown \cap AtHome => Carried(shown \cap AtHome)'
         /\ (shown \cap committed)' \subseteq (shown \cap AtHome) \cup (shown \cap committed)
              => Carried(shown \cap committed)'
<1>1. Due("display") = {} /\ Due("display")' = {}
  BY DEF Due, HasDisplay
<1>2. "display" \in Halves
  BY DEF Halves
<1> QED BY <1>1, <1>2 DEF Carried

LEMMA StillUpToDate ==
  ASSUME UNCHANGED <<owed, committed>>, \A h \in Halves : Newest(h)' = Newest(h), MachineUpToDate
  PROVE  MachineUpToDate'
BY DEF MachineUpToDate, Due, Halves

\* A step that moves nothing but the driver, and does not bring it to rest, or
\* nothing at all of what is watched.
LEMMA StillUnsaved ==
  ASSUME NothingUnsaved, Watched' => Watched,
         UNCHANGED <<owed, shown, committed, home, updates, cell>>,
         Watched' => \A h \in Halves : Newest(h)' = Newest(h),
         Idles' => Idles
  PROVE  NothingUnsaved'
<1> SUFFICES ASSUME Watched' PROVE NothingUnsaved'
  BY DEF NothingUnsaved, Watched
<1>1. /\ Carried(shown \cap AtHome) /\ Carried(shown \cap committed)
      /\ Foreign(updates, AtHome \cup committed) /\ (Idles => MachineUpToDate)
  BY UnsavedMeans
<1>2. AtHome' = AtHome
  BY DEF AtHome
<1>3. \A h \in Halves : Newest(h)' = Newest(h)
  OBVIOUS
<1>4. Carried(shown \cap AtHome)' /\ Carried(shown \cap committed)'
  BY <1>1, <1>2, <1>3 DEF Carried, Due, Halves
<1>5. Idles' => MachineUpToDate'
  BY <1>1, <1>3, StillUpToDate
<1>6. Foreign(updates, AtHome \cup committed)'
  BY <1>1, <1>2 DEF Foreign
<1> QED BY <1>4, <1>5, <1>6, UnsavedNext

LEMMA LaunchUnsaved ==
  ASSUME Launch
  PROVE  NothingUnsaved'
<1>1. PICK session, trs, engine, adopts : Starts(session, trs, engine, adopts)
  BY DEF Launch, LaunchFresh, LaunchResumes
<1> DEFINE d == Display(trs, engine)
           m == Machine(engine)
<1>2. /\ owed' = <<d>> \o <<>> \/ owed' = <<d>> \o <<m>>
      /\ shown' = trs /\ updates' = <<>>
  BY <1>1 DEF Starts
<1>3. d.half = "display" /\ d.turns = trs /\ m.half # "display"
  BY DEF Display, Machine
<1> HIDE DEF d, m
<1>4. HasDisplay(owed') /\ LastShows(owed', shown')
  BY <1>2, <1>3, DisplayShows
<1>5. Foreign(updates, AtHome \cup committed)'
  BY <1>2 DEF Foreign
<1> QED BY <1>4, <1>5, ShownIsCarried, UnsavedNext

LEMMA RunUnsaved ==
  ASSUME Grounded, Answered, NothingUnsaved, RunStep
  PROVE  NothingUnsaved'
<1>1. /\ owed = <<>> /\ UNCHANGED <<writerVars, phase, revisited, shown, updates>>
  BY DEF RunStep, RunStarts, ResponseLands, ToolLands, TurnEnds, RunResolves, AtAwait, screenVars
<1>2. UNCHANGED <<slot, hand, files, cell, faults>>
  BY <1>1 DEF writerVars
<1>3. \A h \in Halves : Newest(h)' = Newest(h)
  BY <1>2, StoresStill
<1>4. Watched' => Watched
  BY <1>1, <1>2 DEF Watched
<1>5. CASE RunStarts \/ ToolLands
  <2>1. UNCHANGED <<owed, shown, committed, home, updates, cell>> /\ (Idles' => Idles)
    BY <1>5 DEF RunStarts, ToolLands, screenVars, loopVars, writerVars, Idles
  <2> QED BY <1>3, <1>4, <2>1, StillUnsaved
<1>6. ASSUME Watched', ResponseLands PROVE NothingUnsaved'
  <2>1. /\ home' = [home EXCEPT ![turns + 1] = cell] /\ UNCHANGED <<owed, committed>>
        /\ driver' = "answered" /\ home \in [Turns -> 0 .. MaxSessions] /\ turns \in Nat
    BY <1>6, BoundAssumption DEF ResponseLands, Grounded, TypeOK
  <2>2. AtHome' \subseteq AtHome \cup {turns + 1}
    BY <1>2, <2>1 DEF AtHome
  <2>3. turns + 1 \notin 1 .. turns
    BY <2>1
  <2>4. (shown \cap AtHome)' \subseteq shown \cap AtHome
    BY <1>1, <2>2, <2>3, AnsweredMeans
  <2>5. Foreign(updates, AtHome \cup committed)'
    <3>1. Foreign(updates, AtHome \cup committed) /\ Within(updates, turns)
      BY <1>4, <1>6, UnsavedMeans, AnsweredMeans
    <3> QED BY <1>1, <2>1, <2>2, <2>3, <3>1 DEF Foreign, Within
  <2>6. ~HasDisplay(owed') /\ ~Idles'
    BY <1>1, <2>1 DEF HasDisplay, Idles
  <2>7. Carried(shown \cap AtHome)' /\ Carried(shown \cap committed)'
    BY <1>1, <1>3, <1>4, <1>6, <2>1, <2>4, <2>6, StillCarried, UnsavedMeans
  <2> QED BY <2>5, <2>6, <2>7, UnsavedNext
<1>7. ASSUME Watched', TurnEnds \/ RunResolves PROVE NothingUnsaved'
  <2>1. /\ committed' \subseteq committed \cup (IF driver = "answered" THEN {turns} ELSE {})
        /\ home' = home
        /\ owed' = <<Machine(committed')>> \/ (owed' = <<>> /\ driver' = "asking")
    BY <1>1, <1>7 DEF TurnEnds, RunResolves
  <2>2. AtHome' = AtHome /\ (driver = "answered" => turns \in AtHome)
    BY <1>2, <2>1 DEF AtHome, Grounded, Placed
  <2>3. committed' \subseteq committed \cup AtHome
    BY <2>1, <2>2
  <2>4. ~HasDisplay(owed') /\ (Idles' => Due("machine")' # {})
    <3>1. CASE owed' = <<>> /\ driver' = "asking"
      BY <3>1 DEF HasDisplay, Idles
    <3>2. CASE owed' = <<Machine(committed')>>
      <4>1. Machine(committed').half = "machine"
        BY DEF Machine
      <4> DEFINE m == Machine(committed')
      <4> HIDE DEF m
      <4>2. DOMAIN <<m>> = {1} /\ <<m>>[1] = m
        OBVIOUS
      <4>3. m.half = "machine" /\ owed' = <<m>>
        BY <3>2, <4>1 DEF m
      <4> QED BY <4>2, <4>3 DEF HasDisplay, Due
    <3> QED BY <2>1, <3>1, <3>2
  <2>5. Foreign(updates, AtHome \cup committed)'
    <3>1. Foreign(updates, AtHome \cup committed)
      BY <1>4, <1>7, UnsavedMeans
    <3> QED BY <1>1, <2>2, <2>3, <3>1 DEF Foreign
  <2>6. /\ (shown \cap AtHome)' \subseteq shown \cap AtHome
        /\ (shown \cap committed)' \subseteq (shown \cap AtHome) \cup (shown \cap committed)
    BY <1>1, <2>2, <2>3
  <2>7. Carried(shown \cap AtHome)' /\ Carried(shown \cap committed)'
    BY <1>1, <1>3, <1>4, <1>7, <2>4, <2>6, StillCarried, UnsavedMeans
  <2>8. Idles' => MachineUpToDate'
    BY <2>4 DEF MachineUpToDate
  <2> QED BY <2>5, <2>7, <2>8, UnsavedNext
<1>8. ~Watched' => NothingUnsaved'
  BY DEF NothingUnsaved, Watched
<1> QED BY <1>5, <1>6, <1>7, <1>8 DEF RunStep

LEMMA CommandUnsaved ==
  ASSUME Grounded, Answered, NothingUnsaved, ApplyCommand
  PROVE  NothingUnsaved'
<1>0. ~Watched' => NothingUnsaved'
  BY DEF NothingUnsaved, Watched
<1>1. ASSUME Watched', ClearApplied PROVE NothingUnsaved'
  <2>1. /\ owed = <<>> /\ committed' = {} /\ cell' = minted + 1 /\ minted \in Nat
        /\ UNCHANGED <<owed, home>>
    BY <1>1, StoreTypes DEF ClearApplied, TakesCommand, AtAwait
  <2>2. AtHome' = {}
    <3>1. \A t \in Turns : home[t] \in Nat /\ home[t] <= minted
      BY DEF Answered, Grounded, TypeOK
    <3> QED BY <2>1, <3>1 DEF AtHome
  <2>3. Due("display")' = {}
    BY <2>1 DEF Due
  <2>4. Carried(shown \cap AtHome)' /\ Carried(shown \cap committed)'
    BY <2>1, <2>2, <2>3 DEF Carried
  <2>5. MachineUpToDate' /\ Foreign(updates, AtHome \cup committed)'
    BY <2>1, <2>2 DEF MachineUpToDate, Foreign
  <2> QED BY <2>4, <2>5, UnsavedNext
<1>2. ASSUME Watched', CompactApplied PROVE NothingUnsaved'
  <2>1. /\ owed = <<>> /\ owed' = <<Machine(committed)>> /\ Watched
        /\ UNCHANGED <<slot, hand, files, cell, shown, committed, home, updates>>
    BY <1>2 DEF CompactApplied, TakesCommand, AtAwait, screenVars, loopVars, writerVars, Watched
  <2> DEFINE m == Machine(committed)
  <2>2. m.half = "machine" /\ owed' = <<m>>
    BY <2>1 DEF Machine
  <2> HIDE DEF m
  <2>3. DOMAIN <<m>> = {1} /\ <<m>>[1] = m
    OBVIOUS
  <2>4. ~HasDisplay(owed') /\ Due("machine")' # {}
    BY <2>2, <2>3 DEF HasDisplay, Due
  <2>5. AtHome' = AtHome /\ \A h \in Halves : Newest(h)' = Newest(h)
    BY <2>1, StoresStill DEF AtHome
  <2>6. Carried(shown \cap AtHome)' /\ Carried(shown \cap committed)'
    BY <2>1, <2>4, <2>5, StillCarried, UnsavedMeans
  <2>7. MachineUpToDate'
    BY <2>4 DEF MachineUpToDate
  <2>8. Foreign(updates, AtHome \cup committed)'
    <3>1. Foreign(updates, AtHome \cup committed)
      BY <2>1, UnsavedMeans
    <3> QED BY <2>1, <2>5, <3>1 DEF Foreign
  <2> QED BY <2>6, <2>7, <2>8, UnsavedNext
<1>3. ASSUME Watched', RebuildApplied PROVE NothingUnsaved'
  <2> DEFINE Update == [kind : {"ModelName", "Resumed"}, turns : SUBSET Turns]
  <2>1. /\ updates' = Append(updates, ModelName) /\ Watched /\ (Idles' <=> Idles) /\ updates \in Seq(Update)
        /\ UNCHANGED <<slot, hand, files, cell, owed, shown, committed, home>>
    BY <1>3 DEF RebuildApplied, screenVars, loopVars, writerVars, Watched, Idles, Grounded, TypeOK
  <2>2. AtHome' = AtHome /\ \A h \in Halves : Newest(h)' = Newest(h)
    BY <2>1, StoresStill DEF AtHome
  <2>3. /\ Carried(shown \cap AtHome) /\ Carried(shown \cap committed)
        /\ Foreign(updates, AtHome \cup committed) /\ (Idles => MachineUpToDate)
    BY <2>1, UnsavedMeans
  <2>4. Carried(shown \cap AtHome)' /\ Carried(shown \cap committed)'
    BY <2>1, <2>2, <2>3 DEF Carried, Due, Halves
  <2>5. Idles' => MachineUpToDate'
    BY <2>1, <2>2, <2>3, StillUpToDate
  <2>6. Foreign(updates, AtHome \cup committed)'
    <3>1. ModelName \in Update /\ ModelName.kind # "Resumed"
      BY DEF ModelName
    <3> HIDE DEF Update, ModelName
    <3>2. /\ updates' \in Seq(Update) /\ Len(updates') = Len(updates) + 1
          /\ \A i \in 1 .. Len(updates) : updates'[i] = updates[i]
          /\ updates'[Len(updates) + 1] = ModelName
      BY <2>1, <3>1, AppendFacts
    <3>3. Len(updates) \in Nat /\ DOMAIN updates = 1 .. Len(updates) /\ DOMAIN updates' = 1 .. Len(updates) + 1
      BY <2>1, <3>2
    <3>4. \A i \in DOMAIN updates' : i \in DOMAIN updates \/ i = Len(updates) + 1
      BY <3>3
    <3> QED BY <2>1, <2>2, <2>3, <3>1, <3>2, <3>3, <3>4 DEF Foreign
  <2> QED BY <2>4, <2>5, <2>6, UnsavedNext
<1>4. CASE CommandDeclined \/ ResumeReadsMachine \/ ResumeFails \/ \E s \in Sessions : ResumeLoads(s)
  <2>1. /\ UNCHANGED <<slot, hand, files, cell, owed, shown, committed, home, updates>>
        /\ (Watched' => Watched) /\ Idles
    BY <1>4
       DEF CommandDeclined, ResumeReadsMachine, ResumeFails, ResumeLoads, TakesCommand, screenVars, loopVars,
           writerVars, Watched, Idles
  <2> QED BY <2>1, StoresStill, StillUnsaved
<1>5. CASE ResumeAdopts
  <2>1. ~Watched'
    BY <1>5 DEF ResumeAdopts, Watched
  <2> QED BY <1>0, <2>1
<1> QED BY <1>0, <1>1, <1>2, <1>3, <1>4, <1>5 DEF ApplyCommand

\* A transcript published, or left as it was.
LEMMA ShowsUnsaved ==
  ASSUME Watched' => Watched, NothingUnsaved, owed = <<>>,
         UNCHANGED <<slot, hand, files, cell, committed, home, driver>>,
         \/ HasDisplay(owed') /\ LastShows(owed', shown')
         \/ owed' = <<>> /\ shown' \cap (AtHome \cup committed) \subseteq shown,
         Foreign(updates, AtHome \cup committed) => Foreign(updates', AtHome \cup committed)
  PROVE  NothingUnsaved'
<1> SUFFICES ASSUME Watched' PROVE NothingUnsaved'
  BY DEF NothingUnsaved, Watched
<1>1. /\ Carried(shown \cap AtHome) /\ Carried(shown \cap committed)
      /\ Foreign(updates, AtHome \cup committed) /\ (Idles => MachineUpToDate)
  BY UnsavedMeans
<1>2. AtHome' = AtHome /\ (\A h \in Halves : Newest(h)' = Newest(h)) /\ (Idles' <=> Idles)
  BY StoresStill DEF AtHome, Idles
<1>3. Foreign(updates, AtHome \cup committed)'
  BY <1>1, <1>2 DEF Foreign
<1>4. CASE HasDisplay(owed') /\ LastShows(owed', shown')
  BY <1>3, <1>4, ShownIsCarried, UnsavedNext
<1>5. CASE owed' = <<>> /\ shown' \cap (AtHome \cup committed) \subseteq shown
  <2>1. ~HasDisplay(owed') /\ owed' = owed
    BY <1>5 DEF HasDisplay
  <2>2. (shown \cap AtHome)' \subseteq shown \cap AtHome
        /\ (shown \cap committed)' \subseteq (shown \cap AtHome) \cup (shown \cap committed)
    BY <1>2, <1>5
  <2>3. Carried(shown \cap AtHome)' /\ Carried(shown \cap committed)'
    BY <1>1, <1>2, <2>1, <2>2, StillCarried
  <2>4. Idles' => MachineUpToDate'
    BY <1>1, <1>2, <2>1, StillUpToDate
  <2> QED BY <1>3, <2>3, <2>4, UnsavedNext
<1> QED BY <1>4, <1>5

LEMMA TailForeign ==
  ASSUME NEW S, NEW s \in Seq(S), s # <<>>, NEW X, Foreign(s, X)
  PROVE  /\ Foreign(Tail(s), X)
         /\ Head(s).kind = "Resumed" => Head(s).turns \cap X = {}
<1>1. /\ Len(s) \in Nat /\ DOMAIN s = 1 .. Len(s) /\ Len(s) >= 1 /\ Head(s) = s[1]
      /\ Tail(s) \in Seq(S) /\ Len(Tail(s)) = Len(s) - 1
      /\ \A i \in 1 .. Len(s) - 1 : Tail(s)[i] = s[i + 1]
  BY SeqFacts
<1>2. DOMAIN Tail(s) = 1 .. Len(Tail(s))
  BY <1>1
<1>3. 1 \in DOMAIN s /\ \A i \in DOMAIN Tail(s) : i + 1 \in DOMAIN s /\ Tail(s)[i] = s[i + 1]
  BY <1>1, <1>2
<1> QED BY <1>1, <1>3 DEF Foreign

LEMMA PanelUnsaved ==
  ASSUME Grounded, NothingUnsaved,
         (\E c \in Commands : CommandKey(c)) \/ Frame \/ ApplyUpdate
  PROVE  NothingUnsaved'
<1>0. /\ TypeOK /\ <<>> \in Seq(Debt) /\ {} \in SUBSET Turns /\ shown \in SUBSET Turns /\ NoHistory \in Histories
      /\ owed = <<>> /\ (Watched' => Watched)
      /\ UNCHANGED <<slot, hand, files, cell, committed, home, driver>>
  BY DEF Grounded, TypeOK, Histories, CommandKey, Frame, ApplyUpdate, AtAwait, Watched, loopVars, writerVars
<1>1. CASE (\E c \in Commands : CommandKey(c)) \/ Frame
  <2>1. PICK base \in {{}, shown} : Redraws(base, <<>>)
    BY <1>1 DEF CommandKey, Frame
  <2>2. \/ HasDisplay(owed') /\ LastShows(owed', shown')
        \/ owed' = <<>> /\ shown' = base
    BY <1>0, <2>1, RedrawShows
  <2>3. updates' = updates
    BY <1>1 DEF CommandKey, Frame
  <2> QED BY <1>0, <2>2, <2>3, ShowsUnsaved
<1>2. CASE ApplyUpdate
  <2> DEFINE Update == [kind : {"ModelName", "Resumed"}, turns : SUBSET Turns]
  <2>1. updates \in Seq(Update) /\ updates # <<>> /\ updates' = Tail(updates)
    BY <1>2 DEF ApplyUpdate, Grounded, TypeOK
  <2>2. Head(updates) \in Update => Head(updates).turns \in SUBSET Turns /\ Head(updates).kind \in {"ModelName", "Resumed"}
    OBVIOUS
  <2> HIDE DEF Update
  <2>3. Head(updates) \in Update
    BY <2>1, SeqFacts
  <2>4. Foreign(updates, AtHome \cup committed)
          => /\ Foreign(updates', AtHome \cup committed)
             /\ Head(updates).kind = "Resumed" => Head(updates).turns \cap (AtHome \cup committed) = {}
    BY <2>1, TailForeign
  <2>5. CASE Head(updates).kind = "ModelName"
    <3> DEFINE hooked == Hook(shown, NoHistory)
    <3>1. hooked \in Seq(Debt) /\ HasDisplay(hooked) /\ LastShows(hooked, shown)
      BY <1>0, HookShows
    <3>2. Redraws(shown, hooked)
      BY <1>2, <2>5 DEF ApplyUpdate
    <3> HIDE DEF hooked
    <3>3. HasDisplay(owed') /\ LastShows(owed', shown')
      BY <1>0, <3>1, <3>2, RedrawShows
    <3> QED BY <1>0, <2>4, <3>3, ShowsUnsaved
  <2>6. ASSUME Watched', Head(updates).kind # "ModelName" PROVE NothingUnsaved'
    <3>1. Redraws(Head(updates).turns, <<>>) /\ Head(updates).kind = "Resumed"
      BY <1>2, <2>2, <2>3, <2>6 DEF ApplyUpdate
    <3>2. \/ HasDisplay(owed') /\ LastShows(owed', shown')
          \/ owed' = <<>> /\ shown' = Head(updates).turns
      BY <1>0, <2>2, <2>3, <3>1, RedrawShows
    <3>3. Foreign(updates, AtHome \cup committed)
      BY <1>0, <2>6, UnsavedMeans
    <3> QED BY <1>0, <2>4, <3>1, <3>2, <3>3, ShowsUnsaved
  <2>7. ~Watched' => NothingUnsaved'
    BY DEF NothingUnsaved, Watched
  <2> QED BY <2>5, <2>6, <2>7
<1> QED BY <1>1, <1>2

LEMMA LeaveUnsaved ==
  ASSUME Grounded, NothingUnsaved, Leave
  PROVE  NothingUnsaved'
<1>0. /\ TypeOK /\ <<>> \in Seq(Debt) /\ owed = <<>> /\ (Watched' => Watched)
      /\ UNCHANGED <<slot, hand, files, cell, committed, home, driver, updates>>
  BY DEF Grounded, Leave, AtAwait, Watched, loopVars, writerVars
<1>1. PICK first \in {<<>>, Hook(shown', NoHistory), Hook(shown', history)},
           second \in {<<>>, Hook(shown', NoHistory), Hook(shown', history)} :
        /\ owed' = first \o second /\ history \in Histories /\ NoHistory \in Histories
        /\ shown' \in {shown, shown \cup rows} /\ shown' \in SUBSET Turns
        /\ first = <<>> /\ second = <<>> => shown' = shown
  BY LeaveOwes
<1>2. \A given \in {NoHistory, history} :
        /\ Hook(shown', given) \in Seq(Debt) /\ HasDisplay(Hook(shown', given))
        /\ LastShows(Hook(shown', given), shown')
  BY <1>0, <1>1, HookShows
<1>3. CASE second # <<>>
  <2>1. first \in Seq(Debt) /\ second \in Seq(Debt) /\ HasDisplay(second) /\ LastShows(second, shown')
    BY <1>0, <1>1, <1>2, <1>3
  <2>2. HasDisplay(owed') /\ LastShows(owed', shown')
    BY <1>1, <2>1, ThenShows
  <2> QED BY <1>0, <2>2, ShowsUnsaved
<1>4. CASE second = <<>> /\ first # <<>>
  <2>1. first \in Seq(Debt) /\ HasDisplay(first) /\ LastShows(first, shown')
    BY <1>1, <1>2, <1>4
  <2>2. owed' = first
    BY <1>1, <1>4, <2>1
  <2> QED BY <1>0, <2>1, <2>2, ShowsUnsaved
<1>5. CASE second = <<>> /\ first = <<>>
  <2>1. owed' = <<>> /\ shown' = shown
    BY <1>1, <1>5
  <2> QED BY <1>0, <2>1, ShowsUnsaved
<1> QED BY <1>3, <1>4, <1>5

LEMMA ExitUnsaved ==
  ASSUME Grounded, NothingUnsaved, ExitStep \/ Crash
  PROVE  NothingUnsaved'
<1>1. CASE DriverEnds \/ Stops
  <2>1. /\ UNCHANGED <<slot, hand, files, cell, owed, shown, committed, home, updates>>
        /\ (Watched' => Watched) /\ (Idles' => Idles)
    BY <1>1 DEF DriverEnds, Stops, SignalStop, screenVars, loopVars, writerVars, Watched, Idles
  <2> QED BY <2>1, StoresStill, StillUnsaved
<1>2. ASSUME Watched', TearsDown PROVE NothingUnsaved'
  <2>1. /\ TypeOK /\ shown \in SUBSET Turns /\ NoHistory \in Histories
    BY DEF Grounded, TypeOK, Histories
  <2>2. /\ owed = <<>> /\ Watched /\ UNCHANGED <<slot, hand, files, cell, committed, home, updates, shown>>
        /\ owed' = Hook(shown, NoHistory) \/ owed' = <<>>
        /\ Idles' => Idles
    BY <1>2 DEF TearsDown, AtAwait, Watched, Idles, loopVars, writerVars
  <2>3. CASE owed' = <<>>
    BY <2>2, <2>3, StoresStill, StillUnsaved
  <2>4. CASE owed' = Hook(shown, NoHistory)
    <3>1. HasDisplay(owed') /\ LastShows(owed', shown')
      BY <2>1, <2>2, <2>4, HookShows
    <3>2. Foreign(updates, AtHome \cup committed)'
      <4>1. Foreign(updates, AtHome \cup committed)
        BY <2>2, UnsavedMeans
      <4> QED BY <2>2, <4>1 DEF Foreign, AtHome
    <3> QED BY <3>1, <3>2, ShownIsCarried, UnsavedNext
  <2> QED BY <2>2, <2>3, <2>4
<1>3. CASE Joins \/ Crash
  <2>1. phase' = "off"
    BY <1>3 DEF Joins, Crash, ProcessGone
  <2> QED BY <2>1 DEF NothingUnsaved
<1>4. ~Watched' => NothingUnsaved'
  BY DEF NothingUnsaved, Watched
<1> QED BY <1>1, <1>2, <1>3, <1>4 DEF ExitStep

\* The snapshot paid takes the place of its debt.
LEMMA PaysUnsaved ==
  ASSUME Grounded, Dated, HistoriesCover, NothingUnsaved, PaysOne
  PROVE  NothingUnsaved'
<1> SUFFICES ASSUME Watched' PROVE NothingUnsaved'
  BY DEF NothingUnsaved, Watched
<1> DEFINE half == Head(owed).half
           new == Published(half)
<1>1. /\ owed # <<>> /\ owed \in Seq(Debt) /\ owed' = Tail(owed) /\ half \in Halves
      /\ slot' = [slot EXCEPT ![half] = new] /\ slot \in Pair /\ clock \in Nat
      /\ UNCHANGED <<hand, cell, files, faults, phase, driver, shown, committed, home, updates, revisited>>
  BY PaysFacts, StoreTypes DEF screenVars, loopVars
<1>2. /\ new.turns = Head(owed).turns /\ new.session = cell /\ new.at = clock + 1
  BY DEF Published
<1>3. Watched /\ AtHome' = AtHome
  BY <1>1 DEF Watched, AtHome
<1>4. /\ Carried(shown \cap AtHome) /\ Carried(shown \cap committed)
      /\ Foreign(updates, AtHome \cup committed) /\ (Idles => MachineUpToDate)
  BY <1>3, UnsavedMeans
<1>5. Foreign(updates, AtHome \cup committed)'
  BY <1>1, <1>3, <1>4 DEF Foreign
<1>6. /\ DOMAIN owed = 1 .. Len(owed) /\ Len(owed) \in Nat /\ Head(owed) = owed[1] /\ Len(owed) >= 1
      /\ DOMAIN owed' = 1 .. Len(owed) - 1 /\ \A i \in 1 .. Len(owed) - 1 : owed'[i] = owed[i + 1]
  <2>1. /\ Len(owed) \in Nat /\ DOMAIN owed = 1 .. Len(owed) /\ Len(owed) >= 1 /\ Head(owed) = owed[1]
        /\ Tail(owed) \in Seq(Debt) /\ Len(Tail(owed)) = Len(owed) - 1
        /\ \A i \in 1 .. Len(owed) - 1 : Tail(owed)[i] = owed[i + 1]
    BY <1>1, SeqFacts
  <2>2. DOMAIN Tail(owed) = 1 .. Len(Tail(owed))
    BY <2>1
  <2> QED BY <1>1, <2>1, <2>2
<1>7. /\ \A h \in Halves : Newest(h)' = IF h = half THEN new ELSE Newest(h)
      /\ "display" \in Halves /\ "machine" \in Halves
  BY <1>1, <1>2 DEF Newest, Pair, Halves
<1>8. half = owed[1].half /\ new.turns = owed[1].turns
  BY <1>2, <1>6
<1> HIDE DEF half, new
<1>9. \A h \in Halves, i \in 1 .. Len(owed) - 1 : i \in Due(h)' <=> i + 1 \in Due(h)
  BY <1>6 DEF Due
<1>10. \A h \in Halves : /\ 1 \in Due(h) <=> h = half
                         /\ Due(h) \subseteq 1 .. Len(owed) /\ Due(h)' \subseteq 1 .. Len(owed) - 1
  BY <1>6, <1>8 DEF Due
<1>11. ASSUME NEW T, Carried(T)
       PROVE  IF Due("display")' = {} THEN T \subseteq Newest("display")'.turns
              ELSE \A i \in Due("display")' : (\A j \in Due("display")' : j <= i) => T \subseteq owed'[i].turns
  <2>1. CASE Due("display")' = {}
    <3>1. \A i \in Due("display") : i = 1
      <4>1. ASSUME NEW i \in Due("display"), i # 1 PROVE FALSE
        <5>1. i - 1 \in 1 .. Len(owed) - 1 /\ (i - 1) + 1 = i
          BY <1>6, <1>7, <1>10, <4>1
        <5> QED BY <1>7, <1>9, <2>1, <4>1, <5>1
      <4> QED BY <4>1
    <3>2. CASE half = "display"
      <4>1. 1 \in Due("display") /\ \A j \in Due("display") : j <= 1
        BY <1>7, <1>10, <3>1, <3>2
      <4>2. T \subseteq owed[1].turns
        BY <1>11, <4>1 DEF Carried
      <4> QED BY <1>7, <1>8, <2>1, <3>2, <4>2
    <3>3. CASE half # "display"
      <4>1. Due("display") = {}
        BY <1>7, <1>10, <3>1, <3>3
      <4> QED BY <1>7, <1>11, <2>1, <3>3, <4>1 DEF Carried
    <3> QED BY <3>2, <3>3
  <2>2. ASSUME NEW i \in Due("display")', \A j \in Due("display")' : j <= i PROVE T \subseteq owed'[i].turns
    <3>1. i \in 1 .. Len(owed) - 1 /\ i \in Nat /\ i >= 1
      BY <1>6, <1>7, <1>10, <2>2
    <3>2. i + 1 \in Due("display") /\ owed'[i] = owed[i + 1]
      BY <1>6, <1>7, <1>9, <2>2, <3>1
    <3>3. ASSUME NEW j \in Due("display") PROVE j <= i + 1
      <4>1. j \in 1 .. Len(owed)
        BY <1>7, <1>10
      <4>2. CASE j = 1
        BY <3>1, <4>2
      <4>3. CASE j # 1
        <5>1. j - 1 \in 1 .. Len(owed) - 1 /\ (j - 1) + 1 = j /\ j \in Nat
          BY <1>6, <4>1, <4>3
        <5>2. j - 1 \in Due("display")'
          BY <1>7, <1>9, <5>1
        <5>3. j - 1 <= i
          BY <2>2, <5>2
        <5> QED BY <3>1, <5>1, <5>3
      <4> QED BY <4>2, <4>3
    <3>4. Due("display") # {} /\ T \subseteq owed[i + 1].turns
      BY <1>11, <3>2, <3>3 DEF Carried
    <3> QED BY <3>2, <3>4
  <2> QED BY <2>1, <2>2
<1>12. Carried(shown \cap AtHome)' /\ Carried(shown \cap committed)'
  BY <1>1, <1>3, <1>4, <1>11 DEF Carried
<1>13. ASSUME Idles' PROVE MachineUpToDate'
  <2>1. CASE half = "display"
    <3>1. Newest("machine")'.at <= clock /\ Newest("machine")'.at \in Nat
      <4>1. Newest("machine") \in {p["machine"] : p \in Stores}
        <5>1. cell \in Sessions
          BY <1>3, BoundAssumption DEF Watched, Grounded, Placed, TypeOK, Sessions
        <5> QED BY <5>1, StoreTypes DEF Newest
      <4>2. \A p \in Stores : p["machine"].at <= clock /\ p["machine"].at \in Nat
        BY <1>7, PairFacts, StoreTypes DEF Dated
      <4> QED BY <1>7, <2>1, <4>1, <4>2
    <3>2. Newest("display")'.at = clock + 1
      BY <1>2, <1>7, <2>1 DEF new
    <3>3. (Newest("machine").at < Newest("display").at)'
      BY <1>1, <3>1, <3>2
    <3> QED BY <3>3 DEF MachineUpToDate
  <2>2. CASE half = "machine"
    <3>1. committed \subseteq new.turns
      <4>1. Agreeing(owed, committed)
        BY <1>3, HistoriesMeans DEF Watched
      <4>2. 1 \in DOMAIN owed /\ owed[1].half = "machine"
        BY <1>6, <1>8, <2>2
      <4>3. committed \subseteq owed[1].turns
        BY <4>1, <4>2 DEF Agreeing
      <4> QED BY <1>8, <4>3
    <3>2. (committed \subseteq Newest("machine").turns)'
      BY <1>1, <1>7, <2>2, <3>1
    <3> QED BY <3>2 DEF MachineUpToDate
  <2> QED BY <1>1, <2>1, <2>2 DEF Halves, half
<1> QED BY <1>5, <1>12, <1>13, UnsavedNext

LEMMA WritesUnsaved ==
  ASSUME Grounded, NothingUnsaved, Writes
  PROVE  NothingUnsaved'
<1>1. /\ UNCHANGED <<owed, shown, committed, home, updates, cell, phase, revisited, driver>>
  BY DEF Writes, WriterStep, WriterLooks, WriterSleeps, WriterSaves, Saves, sessionVars
<1>2. Watched' => Watched
  <2>1. faults \in Nat /\ (faults' = faults \/ faults' = faults + 1)
    <3>1. faults \in Nat
      BY BoundAssumption DEF Grounded, TypeOK, WriterTypeOK
    <3>2. faults' = faults \/ faults' = faults + 1
      BY DEF Writes, WriterStep, WriterLooks, WriterSleeps, WriterSaves, Saves
    <3> QED BY <3>1, <3>2
  <2>2. faults' = 0 => faults = 0
    BY <2>1
  <2> QED BY <1>1, <2>2 DEF Watched
<1>3. Watched' => \A h \in Halves : Newest(h)' = Newest(h)
  BY <1>1, WritesNewest DEF Watched
<1>4. Idles' => Idles
  BY <1>1 DEF Idles
<1> QED BY <1>1, <1>2, <1>3, <1>4, StillUnsaved

LEMMA StepUnsaved ==
  ASSUME Paired, Answered, NothingUnsaved, [Next]_vars
  PROVE  NothingUnsaved'
<1>1. CASE Launch \/ RunStep \/ ApplyCommand
  BY <1>1, LaunchUnsaved, RunUnsaved, CommandUnsaved DEF Paired
<1>2. CASE (\E c \in Commands : CommandKey(c)) \/ Frame \/ ApplyUpdate \/ PaysOne
  BY <1>2, PanelUnsaved, PaysUnsaved DEF Paired
<1>3. CASE Leave \/ ExitStep \/ Crash
  BY <1>3, LeaveUnsaved, ExitUnsaved DEF Paired
<1>4. CASE Writes
  BY <1>4, WritesUnsaved DEF Paired
<1>5. CASE UNCHANGED vars
  <2>1. /\ UNCHANGED <<owed, shown, committed, home, updates, cell, phase, revisited, driver, faults>>
        /\ UNCHANGED <<slot, hand, files, cell>>
    BY <1>5 DEF vars, sessionVars, writerVars, screenVars, loopVars
  <2> QED BY <2>1, StoresStill, StillUnsaved DEF Watched, Idles
<1> QED BY <1>1, <1>2, <1>3, <1>4, <1>5 DEF Next, Over

LEMMA InitSaved == Init => Answered /\ NothingUnsaved
<1> SUFFICES ASSUME Init PROVE Answered /\ NothingUnsaved
  OBVIOUS
<1>1. /\ \A p \in Stores : p = NoPair
      /\ shown = {} /\ rows = {} /\ committed = {} /\ known = NoHistory /\ history = NoHistory
      /\ owed = <<>> /\ updates = <<>> /\ loaded = NoLoad /\ phase = "off" /\ minted = 0
      /\ \A t \in Turns : home[t] = 0
  BY DEF Init, WriterInit, Stores
<1>2. \A p \in Stores, h \in Halves : p[h].turns = {}
  BY <1>1, NoneFacts DEF NoPair
<1>3. Answered
  BY <1>1, <1>2, NoneFacts DEF Answered, NoLoad, NoPair
<1> QED BY <1>1, <1>3 DEF NothingUnsaved

\* What is on the screen and in the engine is in a file, in the writer's hand, in
\* the mailbox or owed, the newest of it last, as long as every write succeeds.
THEOREM NothingStaysUnsaved == Spec => [](Paired /\ Answered /\ NothingUnsaved)
<1> DEFINE Inv == Paired /\ Answered /\ NothingUnsaved
<1>1. Init => Inv
  BY InitGrounded, InitPaired, InitSaved DEF Paired
<1>2. Inv /\ [Next]_vars => Inv'
  BY StepGrounded, StepDated, StepHistories, StepPairs, StepAnswered, StepUnsaved DEF Paired
<1> HIDE DEF Inv
<1>3. Spec => []Inv
  BY <1>1, <1>2, PTL DEF Spec
<1> QED BY <1>3 DEF Inv

\* With nothing unsaved and nothing owed, what the files hold when the writer has
\* been joined.
LEMMA JoinKeeps ==
  ASSUME Paired, Answered, NothingUnsaved, Joins, faults = 0, cell \notin revisited
  PROVE  /\ {t \in shown : home[t] = cell} \subseteq files[cell]["display"].turns
         /\ driver = "ended" => shown \cap committed \subseteq ResumedHistory(files[cell])
<1>1. /\ phase = "joining" /\ owed = <<>> /\ slot = NoPair /\ hand = NoPair /\ Watched
      /\ shown \subseteq Turns
  BY DEF Joins, Paired, Grounded, WriterPlaced, Watched, TypeOK
<1>2. /\ Carried(shown \cap AtHome) /\ Carried(shown \cap committed) /\ (Idles => MachineUpToDate)
  BY <1>1, UnsavedMeans
<1>3. cell # 0 /\ cell \in Sessions
  BY <1>1, BoundAssumption DEF Paired, Grounded, Placed, TypeOK, Sessions
<1>4. \A h \in Halves : Newest(h) = files[cell][h]
  BY <1>1, <1>3, NoneFacts DEF Newest, NoPair
<1>5. "display" \in Halves /\ "machine" \in Halves /\ Due("display") = {} /\ Due("machine") = {}
  BY <1>1 DEF Halves, Due
<1>6. /\ shown \cap AtHome \subseteq files[cell]["display"].turns
      /\ shown \cap committed \subseteq files[cell]["display"].turns
  BY <1>2, <1>4, <1>5 DEF Carried
<1>7. {t \in shown : home[t] = cell} \subseteq files[cell]["display"].turns
  BY <1>1, <1>6 DEF AtHome
<1>8. ASSUME driver = "ended" PROVE shown \cap committed \subseteq ResumedHistory(files[cell])
  <2>1. CASE MachineCounts(files[cell])
    <3>1. files[cell]["machine"].at >= files[cell]["display"].at
      BY <2>1 DEF MachineCounts
    <3>2. files[cell]["machine"].at \in Nat /\ files[cell]["display"].at \in Nat
      BY <1>3, <1>5, PairFacts, StoreTypes DEF Paired
    <3>3. committed \subseteq files[cell]["machine"].turns
      <4>1. MachineUpToDate
        BY <1>2, <1>8 DEF Idles
      <4>2. ~(Newest("machine").at < Newest("display").at)
        BY <1>4, <1>5, <3>1, <3>2
      <4> QED BY <1>4, <1>5, <4>1, <4>2 DEF MachineUpToDate
    <3> QED BY <2>1, <3>3 DEF ResumedHistory
  <2>2. CASE ~MachineCounts(files[cell])
    BY <1>6, <2>2 DEF ResumedHistory
  <2> QED BY <2>1, <2>2
<1> QED BY <1>7, <1>8

\* After an exit that was waited for (TranscriptWorker::join) the session's file
\* carries what the screen showed of the session, and, unless the run was aborted,
\* a resume gives the engine every turn that it held and the screen showed.
THEOREM ExitsKeepTheConversation == Spec => ExitKeepsTheConversation
<1>1. Paired /\ Answered /\ NothingUnsaved /\ [Next]_vars
        => [Joins /\ faults = 0 /\ cell \notin revisited =>
              /\ {t \in shown : home[t] = cell} \subseteq files[cell]["display"].turns
              /\ driver = "ended" => shown \cap committed \subseteq ResumedHistory(files[cell])]_vars
  BY JoinKeeps
<1> QED BY <1>1, NothingStaysUnsaved, PTL DEF Spec, ExitKeepsTheConversation
=============================================================================
