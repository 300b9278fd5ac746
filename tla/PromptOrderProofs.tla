------------------------- MODULE PromptOrderProofs -------------------------
(***************************************************************************)
(* Types and order of the prompt session, for every value of the           *)
(* constants.  First, every reachable state has the types of TypeOK; then, *)
(* submission order is send order and no waiting prompt is stranded, with  *)
(* SendOrder (PromptSession) as the inductive invariant.                   *)
(***************************************************************************)
EXTENDS PromptSession, TLAPS

-----------------------------------------------------------------------------
(* Lemmas on the queue's operators, for every queue whose ids are naturals. *)

Queues(T) == Seq([id : Nat, text : T])

LEMMA ElementsTyped ==
  ASSUME NEW S, NEW q \in Seq(S)
  PROVE  DOMAIN q = 1 .. Len(q) /\ Len(q) \in Nat /\ \A i \in 1 .. Len(q) : q[i] \in S
OBVIOUS

\* What a queue holds.
LEMMA QueueFacts ==
  ASSUME NEW T, NEW q \in Queues(T)
  PROVE  /\ DOMAIN q = 1 .. Len(q) /\ Len(q) \in Nat
         /\ \A i \in DOMAIN q : q[i].id \in Nat /\ q[i].text \in T
<1>1. DOMAIN q = 1 .. Len(q) /\ Len(q) \in Nat
  BY DEF Queues
<1> DEFINE E == [id : Nat, text : T]
<1>2. q \in Seq(E)
  BY DEF Queues
<1>3. \A i \in 1 .. Len(q) : q[i] \in E
  <2> HIDE DEF E
  <2> QED BY <1>2, ElementsTyped
<1> QED BY <1>1, <1>3

\* Removing a position keeps the order of the rest.
LEMMA RemoveAtFacts ==
  ASSUME NEW S, NEW q \in Seq(S), NEW i \in DOMAIN q
  PROVE  /\ RemoveAt(q, i) \in Seq(S)
         /\ Len(RemoveAt(q, i)) = Len(q) - 1
         /\ \A j \in 1 .. Len(q) - 1 : RemoveAt(q, i)[j] = IF j < i THEN q[j] ELSE q[j + 1]
<1> DEFINE a == SubSeq(q, 1, i - 1)
           b == SubSeq(q, i + 1, Len(q))
<1>1. i \in 1 .. Len(q) /\ Len(q) \in Nat
  OBVIOUS
<1>2. a \in Seq(S) /\ Len(a) = i - 1 /\ \A j \in 1 .. i - 1 : a[j] = q[j]
  BY <1>1
<1>3. b \in Seq(S) /\ Len(b) = Len(q) - i /\ \A j \in 1 .. Len(q) - i : b[j] = q[i + j]
  BY <1>1
<1> HIDE DEF a, b
<1>4. a \o b \in Seq(S) /\ Len(a \o b) = Len(q) - 1
  BY <1>1, <1>2, <1>3
<1>5. \A j \in 1 .. Len(q) - 1 : (a \o b)[j] = IF j < i THEN q[j] ELSE q[j + 1]
  <2> SUFFICES ASSUME NEW j \in 1 .. Len(q) - 1
               PROVE  (a \o b)[j] = IF j < i THEN q[j] ELSE q[j + 1]
    OBVIOUS
  <2>1. CASE j < i
    BY <1>1, <1>2, <1>3, <2>1
  <2>2. CASE ~(j < i)
    <3>1. (a \o b)[j] = b[j - (i - 1)]
      BY <1>1, <1>2, <1>3, <2>2
    <3>2. b[j - (i - 1)] = q[j + 1]
      BY <1>1, <1>3, <2>2
    <3> QED BY <2>2, <3>1, <3>2
  <2> QED BY <2>1, <2>2
<1> QED BY <1>4, <1>5 DEF RemoveAt, a, b

\* A claim or a drop takes the named prompt's entry and leaves the rest: what is
\* left was there before.
LEMMA RemoveIdFacts ==
  ASSUME NEW T, NEW q \in Queues(T), NEW id
  PROVE  /\ RemoveId(q, id) \in Queues(T)
         /\ \A j \in DOMAIN RemoveId(q, id) : \E i \in DOMAIN q : RemoveId(q, id)[j] = q[i]
<1>1. CASE Waits(q, id)
  <2>1. IndexOf(q, id) \in DOMAIN q
    BY <1>1 DEF Waits, IndexOf
  <2>2. RemoveId(q, id) = RemoveAt(q, IndexOf(q, id))
    BY <1>1 DEF RemoveId
  <2>3. /\ RemoveId(q, id) \in Queues(T)
        /\ Len(RemoveId(q, id)) = Len(q) - 1
        /\ \A j \in 1 .. Len(q) - 1 : \/ RemoveId(q, id)[j] = q[j]
                                      \/ RemoveId(q, id)[j] = q[j + 1]
    BY <2>1, <2>2, RemoveAtFacts DEF Queues
  <2> DEFINE r == RemoveId(q, id)
  <2> HIDE DEF r
  <2>4. DOMAIN r = 1 .. Len(q) - 1 /\ DOMAIN q = 1 .. Len(q) /\ Len(q) \in Nat
    BY <2>3, QueueFacts DEF r
  <2>5. \A j \in 1 .. Len(q) - 1 : j \in DOMAIN q /\ j + 1 \in DOMAIN q
    BY <2>4
  <2>6. \A j \in DOMAIN r : \E i \in DOMAIN q : r[j] = q[i]
    BY <2>3, <2>4, <2>5 DEF r
  <2> QED BY <2>3, <2>6 DEF r
<1>2. CASE ~Waits(q, id)
  BY <1>2 DEF RemoveId
<1> QED BY <1>1, <1>2

\* Removal keeps submission order, and the named prompt is gone.
LEMMA RemoveIdAscends ==
  ASSUME NEW T, NEW q \in Queues(T), NEW id, Ascending(q)
  PROVE  /\ Ascending(RemoveId(q, id))
         /\ ~Waits(RemoveId(q, id), id)
<1>1. CASE Waits(q, id)
  <2> DEFINE k == IndexOf(q, id)
             r == RemoveId(q, id)
  <2>1. k \in DOMAIN q /\ q[k].id = id
    BY <1>1 DEF Waits, IndexOf
  <2>2. r = RemoveAt(q, k)
    BY <1>1 DEF RemoveId
  <2> HIDE DEF k, r
  <2>3. /\ r \in Queues(T) /\ Len(r) = Len(q) - 1
        /\ \A j \in 1 .. Len(q) - 1 : r[j] = IF j < k THEN q[j] ELSE q[j + 1]
    BY <2>1, <2>2, RemoveAtFacts DEF Queues
  <2>4. \A i, j \in DOMAIN q : q[i].id \in Nat /\ (i < j => q[i].id < q[j].id)
    BY QueueFacts DEF Ascending
  <2>5. DOMAIN r = 1 .. Len(q) - 1 /\ DOMAIN q = 1 .. Len(q) /\ Len(q) \in Nat
    BY <2>3 DEF Queues
  <2>6. ASSUME NEW i \in DOMAIN r, NEW j \in DOMAIN r, i < j
        PROVE  r[i].id < r[j].id
    <3>1. CASE j < k
      BY <2>1, <2>3, <2>4, <2>5, <2>6, <3>1
    <3>2. CASE i < k /\ ~(j < k)
      BY <2>1, <2>3, <2>4, <2>5, <2>6, <3>2
    <3>3. CASE ~(i < k)
      <4>1. /\ i \in Int /\ j \in Int /\ k \in Int /\ i >= k /\ j >= k
            /\ i + 1 \in DOMAIN q /\ j + 1 \in DOMAIN q /\ i + 1 < j + 1
        BY <2>1, <2>5, <2>6, <3>3
      <4>2. r[i] = q[i + 1] /\ r[j] = q[j + 1]
        BY <2>3, <2>5, <4>1
      <4> QED BY <2>4, <4>1, <4>2
    <3> QED BY <2>1, <2>5, <2>6, <3>1, <3>2, <3>3
  <2>7. ASSUME NEW j \in DOMAIN r PROVE r[j].id # id
    <3>1. CASE j < k
      BY <2>1, <2>3, <2>4, <2>5, <3>1
    <3>2. CASE ~(j < k)
      BY <2>1, <2>3, <2>4, <2>5, <3>2
    <3> QED BY <3>1, <3>2
  <2> QED BY <2>6, <2>7 DEF Ascending, Waits, r
<1>2. CASE ~Waits(q, id)
  BY <1>2 DEF RemoveId
<1> QED BY <1>1, <1>2

\* A save keeps the ids where they stand.
LEMMA ReplaceIdFacts ==
  ASSUME NEW T, NEW q \in Queues(T), NEW id \in Nat, NEW t \in T
  PROVE  /\ ReplaceId(q, id, t) \in Queues(T)
         /\ Len(ReplaceId(q, id, t)) = Len(q)
         /\ DOMAIN ReplaceId(q, id, t) = DOMAIN q
         /\ \A i \in DOMAIN q : ReplaceId(q, id, t)[i].id = q[i].id
BY DEF ReplaceId, Entry, Queues

\* A prompt pushed under a fresh id stands behind all the others.
LEMMA PushFacts ==
  ASSUME NEW T, NEW q \in Queues(T), NEW id \in Nat, NEW t \in T
  PROVE  /\ Push(q, id, t) \in Queues(T)
         /\ Len(Push(q, id, t)) = Len(q) + 1
         /\ Push(q, id, t)[Len(q) + 1] = Entry(id, t)
         /\ \A i \in DOMAIN q : Push(q, id, t)[i] = q[i]
BY DEF Push, Entry, Queues

\* The claim's words are a waiting prompt's.
LEMMA TextOfType ==
  ASSUME NEW T, NEW q \in Queues(T), NEW id, Waits(q, id)
  PROVE  /\ IndexOf(q, id) \in 1 .. Len(q)
         /\ q[IndexOf(q, id)].id = id
         /\ TextOf(q, id) \in T
         /\ id \in Nat
<1>1. IndexOf(q, id) \in DOMAIN q /\ q[IndexOf(q, id)].id = id
  BY DEF Waits, IndexOf
<1> QED BY <1>1, QueueFacts DEF TextOf

-----------------------------------------------------------------------------
(* What the constructors build.                                            *)

LEMMA MessageTypes ==
  /\ \A id \in Ids : RunMsg(id) \in Submissions
  /\ \A id \in IdsOrNone, t \in Texts : CorrectMsg(id, t) \in Submissions
  /\ \A command \in CommandKinds : CommandMsg(command) \in Submissions
BY DEF RunMsg, CorrectMsg, CommandMsg, Submission, Submissions, IdsOrNone, Ids

LEMMA MessageParts ==
  ASSUME NEW m \in Submissions
  PROVE  /\ m.kind = "Run" => m.id \in Ids
         /\ m.kind = "Correct" => m.id \in IdsOrNone /\ m.text \in Texts
         /\ m.kind \in {"Run", "Correct"} \cup CommandKinds
BY DEF Submissions, CommandKinds

LEMMA RowTypes ==
  \A t \in Texts, kind \in {"sent", "steered", "unsent"} : Row(t, kind) \in Rows
BY DEF Row, Rows

LEMMA PromptTypes ==
  /\ \A id \in Ids, t \in Texts : Entry(id, t) \in Prompts
  /\ \A p \in Prompts : p.id \in Ids /\ p.text \in Texts
BY DEF Entry, Prompts

LEMMA SlotTypes ==
  /\ \A slot \in SteeringSlots :
       /\ slot.open \in BOOLEAN /\ slot.preparing \in BOOLEAN
       /\ slot.live \in Seq(Texts) /\ slot.drained \in Seq(Texts) /\ slot.pocket \in Seq(Texts)
  /\ \A words \in Seq(Texts) : [ClosedSlot EXCEPT !.pocket = words] \in SteeringSlots
  /\ \A slot \in SteeringSlots, live \in Seq(Texts) : [slot EXCEPT !.live = live] \in SteeringSlots
  /\ \A slot \in SteeringSlots, words \in Seq(Texts) :
       /\ [slot EXCEPT !.preparing = TRUE, !.live = <<>>, !.drained = words] \in SteeringSlots
       /\ [slot EXCEPT !.open = TRUE, !.pocket = words] \in SteeringSlots
  /\ \A slot \in SteeringSlots :
       /\ [slot EXCEPT !.preparing = FALSE, !.drained = <<>>] \in SteeringSlots
       /\ [slot EXCEPT !.live = <<>>, !.drained = <<>>, !.pocket = <<>>] \in SteeringSlots
  /\ ClosedSlot \in SteeringSlots
  /\ \A slot \in StartupSlots : slot.left \in Seq(Texts) /\ [slot EXCEPT !.left = <<>>] \in StartupSlots
  /\ \A left \in Seq(Texts) : [rebuilt |-> TRUE, left |-> left] \in StartupSlots
<1> DEFINE T == Seq(Texts)
<1>1. /\ SteeringSlots = [open : BOOLEAN, preparing : BOOLEAN, live : T, drained : T, pocket : T]
      /\ StartupSlots = [rebuilt : BOOLEAN, left : T]
      /\ <<>> \in T
  BY DEF SteeringSlots, StartupSlots
<1> HIDE DEF T
<1>2. /\ \A slot \in SteeringSlots :
           /\ slot.open \in BOOLEAN /\ slot.preparing \in BOOLEAN
           /\ slot.live \in T /\ slot.drained \in T /\ slot.pocket \in T
      /\ \A words \in T : [ClosedSlot EXCEPT !.pocket = words] \in SteeringSlots
      /\ \A slot \in SteeringSlots, live \in T : [slot EXCEPT !.live = live] \in SteeringSlots
      /\ ClosedSlot \in SteeringSlots
  BY <1>1 DEF ClosedSlot
<1>4. /\ \A slot \in SteeringSlots, words \in T :
           /\ [slot EXCEPT !.preparing = TRUE, !.live = <<>>, !.drained = words] \in SteeringSlots
           /\ [slot EXCEPT !.open = TRUE, !.pocket = words] \in SteeringSlots
      /\ \A slot \in SteeringSlots :
           /\ [slot EXCEPT !.preparing = FALSE, !.drained = <<>>] \in SteeringSlots
           /\ [slot EXCEPT !.live = <<>>, !.drained = <<>>, !.pocket = <<>>] \in SteeringSlots
  BY <1>1
<1>3. /\ \A slot \in StartupSlots : slot.left \in T /\ [slot EXCEPT !.left = <<>>] \in StartupSlots
      /\ \A left \in T : [rebuilt |-> TRUE, left |-> left] \in StartupSlots
  BY <1>1
<1> QED BY <1>2, <1>3, <1>4 DEF T

LEMMA SeqTypes ==
  ASSUME NEW S
  PROVE  /\ <<>> \in Seq(S)
         /\ \A s, t \in Seq(S) : s \o t \in Seq(S)
         /\ \A s \in Seq(S), e \in S : Append(s, e) \in Seq(S)
         /\ \A s \in Seq(S) : s # <<>> => Head(s) \in S /\ Tail(s) \in Seq(S)
         /\ \A s \in Seq(S), n \in Nat : n <= Len(s) => SubSeq(s, 1, n) \in Seq(S)
OBVIOUS

LEMMA UnreadType == TypeOK => Unread \in Seq(Texts)
<1> SUFFICES ASSUME TypeOK PROVE Unread \in Seq(Texts)
  OBVIOUS
<1>1. /\ steering.pocket \in Seq(Texts) /\ steering.drained \in Seq(Texts)
      /\ steering.live \in Seq(Texts)
  BY SlotTypes DEF TypeOK, EngineType
<1>2. steering.pocket \o steering.drained \in Seq(Texts)
  BY <1>1, SeqTypes
<1> QED BY <1>1, <1>2, SeqTypes DEF Unread

LEMMA SealedType == TypeOK => SealedSlot \in SteeringSlots
BY SlotTypes, UnreadType DEF SealedSlot

-----------------------------------------------------------------------------
(* The driver's operators.                                                 *)

LEMMA StartRunType ==
  ASSUME TypeOK, NEW text \in Texts, StartRun(text)
  PROVE  /\ EngineType'
         /\ correctionCancel' \in IdsOrNone /\ cancelSignal' \in BOOLEAN
         /\ agentRunning' \in BOOLEAN /\ shuttingDown' \in BOOLEAN
         /\ pc' \in PCs /\ holder' = "free" /\ runText' \in Texts
<1>1. steering' \in SteeringSlots
  <2>1. steering' = [ClosedSlot EXCEPT !.open = TRUE, !.pocket = Unread]
    BY DEF StartRun
  <2> QED BY <2>1, SlotTypes, UnreadType
<1>2. graduations' \subseteq Rows
  BY RowTypes DEF StartRun, TypeOK, EngineType
<1>3. startupSlot' \in StartupSlots /\ pendingSteers' \subseteq Texts
  BY DEF StartRun, TypeOK, EngineType
<1> QED BY <1>1, <1>2, <1>3 DEF StartRun, TypeOK, EngineType, SignalType, PCs, IdsOrNone

LEMMA RewindType ==
  ASSUME TypeOK, NEW before \in Nat
  PROVE  RewoundTo(before) \in Seq(Units)
BY DEF TypeOK, DriverType, RewoundTo

\* A cut leaves a history.
LEMMA CutType ==
  ASSUME TypeOK, NEW id
  PROVE  CutOf(id) \in Seq(Units) /\ CutVerdictOf(id) \in Verdicts
<1>1. CutOf(id) \in Seq(Units)
  BY RewindType DEF CutOf, TypeOK, DriverType, Turns
<1>2. CutVerdictOf(id) \in Verdicts
  BY DEF CutVerdictOf, CutVerdict, Verdicts
<1> QED BY <1>1, <1>2

LEMMA HandleRunType ==
  ASSUME TypeOK, NEW id \in Ids, HandleRun(id),
         UNCHANGED <<updates, rescued, panelVars, userVars>>,
         channel' \in Seq(Submissions), revived' \in Seq(Submissions)
  PROVE  TypeOK'
<1>0. queued \in Queues(Texts)
  BY DEF TypeOK, QueueType, Queues, Prompts, Ids
<1>1. CASE Claimable(id)
  <2>1. /\ queued' = RemoveId(queued, id)
        /\ lastClaim' = ClaimOf(id) /\ liveClaim' = id /\ interruptedFor' = NoId
        /\ claims' = Append(claims, Entry(id, TextOf(queued, id)))
        /\ StartRun(TextOf(queued, id))
        /\ UNCHANGED <<nextId, history, verdict, applying>>
    BY <1>1 DEF HandleRun
  <2>2. TextOf(queued, id) \in Texts
    BY <1>0, <1>1, TextOfType DEF Claimable
  <2>3. queued' \in Seq(Prompts)
    BY <1>0, <2>1, RemoveIdFacts DEF Queues, Prompts, Ids
  <2>4. /\ EngineType' /\ pc' \in PCs /\ holder' = "free" /\ runText' \in Texts
        /\ correctionCancel' \in IdsOrNone /\ cancelSignal' \in BOOLEAN
        /\ agentRunning' \in BOOLEAN /\ shuttingDown' \in BOOLEAN
    BY <2>1, <2>2, StartRunType
  <2>5. SignalType'
    BY <2>1, <2>4 DEF SignalType, IdsOrNone
  <2>6. lastClaim' \in Turns
    BY <2>1 DEF ClaimOf, Turns, IdsOrNone, TypeOK, DriverType
  <2>7. DriverType'
    BY <2>1, <2>4, <2>6 DEF DriverType, TypeOK, TextsOrNone, IdsOrNone
  <2>8. claims' \in Seq(Prompts)
    BY <2>1, <2>2, PromptTypes, SeqTypes DEF TypeOK, GhostType
  <2> QED BY <2>1, <2>3, <2>4, <2>5, <2>7, <2>8
          DEF TypeOK, QueueType, ChannelType, PanelType, GhostType, panelVars, sheetVars, userVars
<1>2. CASE ~Claimable(id)
  BY <1>2 DEF HandleRun, Continue, TypeOK, QueueType, ChannelType, EngineType, SignalType,
              DriverType, PanelType, GhostType, engineVars, panelVars, sheetVars, userVars, PCs
<1> QED BY <1>1, <1>2

LEMMA HandleCorrectType ==
  ASSUME TypeOK, NEW id, NEW text \in Texts, HandleCorrect(id, text),
         UNCHANGED <<updates, rescued, panelVars, userVars>>,
         channel' \in Seq(Submissions), revived' \in Seq(Submissions)
  PROVE  TypeOK'
<1>1. /\ EngineType' /\ pc' \in PCs /\ holder' = "free" /\ runText' \in Texts
      /\ correctionCancel' \in IdsOrNone /\ cancelSignal' \in BOOLEAN
      /\ agentRunning' \in BOOLEAN /\ shuttingDown' \in BOOLEAN
  BY StartRunType DEF HandleCorrect
<1>2. history' \in Seq(Units) /\ verdict' \in Verdicts
  BY CutType DEF HandleCorrect
<1>3. lastClaim' \in Turns /\ interruptedFor' \in IdsOrNone
  BY DEF HandleCorrect, NoClaim, Turns, IdsOrNone
<1> QED BY <1>1, <1>2, <1>3
        DEF HandleCorrect, TypeOK, QueueType, ChannelType, SignalType, DriverType, PanelType,
            GhostType, panelVars, sheetVars, userVars, TextsOrNone

LEMMA HandleCommandType ==
  ASSUME TypeOK, NEW command \in CommandKinds, HandleCommand(command),
         UNCHANGED <<rescued, panelVars, userVars>>,
         channel' \in Seq(Submissions), revived' \in Seq(Submissions)
  PROVE  TypeOK'
<1>1. CASE command = "Clear"
  <2>1. history' = <<>> /\ history' \in Seq(Units)
    BY <1>1 DEF HandleCommand
  <2> QED BY <1>1, <2>1
       DEF HandleCommand, Continue, TypeOK, QueueType, ChannelType, EngineType, SignalType,
           DriverType, PanelType, GhostType, queueVars, engineVars, panelVars, sheetVars, userVars, PCs
<1>2. CASE command = "ListSessions"
  <2>1. updates' = Append(updates, "SessionCatalog")
    BY <1>2 DEF HandleCommand
  <2>2. updates' \in Seq({"Resumed", "SessionCatalog"})
    BY <2>1, SeqTypes DEF TypeOK, ChannelType
  <2> QED BY <1>2, <2>2
       DEF HandleCommand, Continue, TypeOK, QueueType, ChannelType, EngineType, SignalType,
           DriverType, PanelType, GhostType, queueVars, engineVars, panelVars, sheetVars, userVars, PCs
<1>3. CASE command \notin {"Clear", "ListSessions"}
  BY <1>3
     DEF HandleCommand, TypeOK, QueueType, ChannelType, EngineType, SignalType,
         DriverType, PanelType, GhostType, queueVars, engineVars, panelVars, sheetVars, userVars, PCs
<1> QED BY <1>1, <1>2, <1>3

LEMMA HandleType ==
  ASSUME TypeOK, NEW m \in Submissions, Handle(m),
         UNCHANGED <<rescued, panelVars, userVars>>,
         channel' \in Seq(Submissions), revived' \in Seq(Submissions)
  PROVE  TypeOK'
<1>1. CASE m.kind = "Run" /\ HandleRun(m.id) /\ UNCHANGED updates
  BY <1>1, MessageParts, HandleRunType
<1>2. CASE m.kind = "Correct" /\ HandleCorrect(m.id, m.text) /\ UNCHANGED updates
  BY <1>2, MessageParts, HandleCorrectType
<1>3. CASE m.kind \in CommandKinds /\ HandleCommand(m.kind)
  BY <1>3, HandleCommandType
<1> QED BY <1>1, <1>2, <1>3 DEF Handle

-----------------------------------------------------------------------------
(* The driver's steps.                                                     *)

LEMMA TakeType == TypeOK /\ (TakeRevived \/ TakeChannel \/ Wake) => TypeOK'
<1>1. ASSUME TypeOK, TakeRevived PROVE TypeOK'
  <2>1. /\ Head(revived) \in Submissions /\ Tail(revived) \in Seq(Submissions)
        /\ channel \in Seq(Submissions)
    BY <1>1, SeqTypes DEF TakeRevived, TypeOK, DriverType, ChannelType
  <2>2. /\ Handle(Head(revived)) /\ UNCHANGED <<rescued, panelVars, userVars>>
        /\ channel' \in Seq(Submissions) /\ revived' \in Seq(Submissions)
    BY <1>1, <2>1 DEF TakeRevived
  <2> QED BY <1>1, <2>1, <2>2, HandleType
<1>2. ASSUME TypeOK, TakeChannel \/ Wake PROVE TypeOK'
  <2>1. /\ Head(channel) \in Submissions /\ Tail(channel) \in Seq(Submissions)
        /\ revived \in Seq(Submissions)
    BY <1>2, SeqTypes DEF TakeChannel, Wake, TypeOK, DriverType, ChannelType
  <2>2. /\ Handle(Head(channel)) /\ UNCHANGED <<rescued, panelVars, userVars>>
        /\ channel' \in Seq(Submissions) /\ revived' \in Seq(Submissions)
    BY <1>2, <2>1 DEF TakeChannel, Wake
  <2> QED BY <1>2, <2>1, <2>2, HandleType
<1> QED BY <1>1, <1>2

LEMMA ParkType == TypeOK /\ Park => TypeOK'
BY DEF Park, TypeOK, QueueType, ChannelType, EngineType, SignalType, DriverType, PanelType,
       GhostType, queueVars, channelVars, engineVars, panelVars, sheetVars, ghostVars, userVars, PCs

LEMMA RescueType ==
  ASSUME NEW stranded \in Seq(Submissions)
  PROVE  CorrectedTexts(stranded) \subseteq Texts
BY MessageParts DEF CorrectedTexts, ToSet

LEMMA EndType ==
  ASSUME TypeOK, NEW stranded \in Seq(Submissions), NEW collected \in SUBSET Texts,
         EndWithRescue(stranded, collected)
  PROVE  /\ rescued' \subseteq Texts
         /\ revived' \in Seq(Submissions) /\ channel' \in Seq(Submissions)
         /\ pc' \in PCs /\ pc' = "done" /\ holder' = "free" /\ agentRunning' \in BOOLEAN
BY RescueType, SeqTypes DEF EndWithRescue, PCs

LEMMA LeaveType == TypeOK /\ Leave => TypeOK'
<1> SUFFICES ASSUME TypeOK, Leave PROVE TypeOK'
  OBVIOUS
<1>1. revived \o channel \in Seq(Submissions) /\ rescued \in SUBSET Texts
  BY SeqTypes DEF TypeOK, DriverType, ChannelType
<1>2. EndWithRescue(revived \o channel, rescued)
  BY DEF Leave
<1>3. /\ rescued' \subseteq Texts
      /\ revived' \in Seq(Submissions) /\ channel' \in Seq(Submissions)
      /\ pc' \in PCs /\ pc' = "done" /\ holder' = "free" /\ agentRunning' \in BOOLEAN
  BY <1>1, <1>2, EndType
<1> QED BY <1>3
  DEF Leave, TypeOK, QueueType, ChannelType, EngineType, SignalType, DriverType, PanelType,
      GhostType, queueVars, engineVars, panelVars, sheetVars, ghostVars, userVars

LEMMA BoundaryType == TypeOK /\ (TurnBoundary \/ SlotSeals) => TypeOK'
<1>1. ASSUME TypeOK, TurnBoundary PROVE TypeOK'
  <2>1. steering' \in SteeringSlots
    <3>1. steering \in SteeringSlots /\ steering.drained \o steering.live \in Seq(Texts)
      BY <1>1, SlotTypes, SeqTypes DEF TypeOK, EngineType
    <3>2. CASE DrainsSlot
      BY <3>1, <3>2, SlotTypes DEF DrainsSlot
    <3>3. CASE TurnStarts
      BY <3>1, <3>3, SlotTypes DEF TurnStarts
    <3> QED BY <1>1, <3>2, <3>3 DEF TurnBoundary
  <2>2. graduations' \subseteq Rows
    BY <1>1, RowTypes DEF TurnBoundary, DrainsSlot, TurnStarts, TypeOK, EngineType
  <2> QED BY <1>1, <2>1, <2>2
    DEF TurnBoundary, DrainsSlot, TurnStarts, TypeOK, QueueType, ChannelType, EngineType,
           SignalType, DriverType, PanelType,
        GhostType, queueVars, channelVars, signalVars, driverVars, panelVars, sheetVars, ghostVars,
        userVars
<1>2. ASSUME TypeOK, SlotSeals PROVE TypeOK'
  <2>1. steering' \in SteeringSlots
    BY <1>2, SealedType DEF SlotSeals, TypeOK, EngineType
  <2> QED BY <1>2, <2>1
    DEF SlotSeals, TypeOK, QueueType, ChannelType, EngineType, SignalType, DriverType, PanelType,
        GhostType, queueVars, channelVars, signalVars, driverVars, panelVars, sheetVars, ghostVars,
        userVars
<1> QED BY <1>1, <1>2

-----------------------------------------------------------------------------
(* The run's end.                                                          *)

LEMMA CommittedType ==
  ASSUME TypeOK, runText \in Texts, RunCommits
  PROVE  history' \in Seq(Units)
<1> DEFINE carried == UNION {history[i] : i \in DOMAIN history}
           folds == IF MayFold /\ history # <<>>
                    THEN {<<carried>>, <<carried \cup {runText}>>} ELSE {}
<1>1. history \in Seq(Units)
  BY DEF TypeOK, DriverType
<1>2. \A i \in DOMAIN history : history[i] \in Units
  BY <1>1, ElementsTyped
<1>3. carried \in Units /\ carried \cup {runText} \in Units /\ {runText} \in Units
  BY <1>2 DEF Units
<1>4. PICK base \in {history} \cup folds, n \in TurnLengths :
        history' = base \o [i \in 1 .. n |-> {runText}]
  BY Zenon DEF RunCommits
<1>5. base \in Seq(Units)
  <2>1. \/ base = history \/ base = <<carried>> \/ base = <<carried \cup {runText}>>
    BY <1>4
  <2> HIDE DEF carried, folds
  <2>2. \A u \in Units : <<u>> \in Seq(Units)
    OBVIOUS
  <2> QED BY <1>1, <1>3, <2>1, <2>2
<1> HIDE DEF carried, folds
<1>6. n \in Nat
  BY TurnAssumption
<1>7. [i \in 1 .. n |-> {runText}] \in Seq(Units)
  BY <1>3, <1>6
<1> QED BY <1>4, <1>5, <1>7, SeqTypes

LEMMA SeqEqual ==
  ASSUME NEW S, NEW s \in Seq(S), NEW t \in Seq(S), Len(s) = Len(t),
         \A i \in 1 .. Len(s) : s[i] = t[i]
  PROVE  s = t
OBVIOUS

LEMMA SplitSeq ==
  ASSUME NEW S, NEW s \in Seq(S), NEW k \in 0 .. Len(s)
  PROVE  SubSeq(s, 1, k) \o SubSeq(s, k + 1, Len(s)) = s
<1> DEFINE a == SubSeq(s, 1, k)
           b == SubSeq(s, k + 1, Len(s))
<1>1. a \in Seq(S) /\ Len(a) = k /\ \A j \in 1 .. k : a[j] = s[j]
  OBVIOUS
<1>2. b \in Seq(S) /\ Len(b) = Len(s) - k /\ \A j \in 1 .. Len(s) - k : b[j] = s[k + j]
  OBVIOUS
<1> HIDE DEF a, b
<1>3. a \o b \in Seq(S) /\ Len(a \o b) = Len(s)
  BY <1>1, <1>2
<1>4. ASSUME NEW j \in 1 .. Len(s) PROVE (a \o b)[j] = s[j]
  <2>1. CASE j <= k
    BY <1>1, <1>2, <2>1
  <2>2. CASE ~(j <= k)
    <3>1. (a \o b)[j] = b[j - k] /\ j - k \in 1 .. Len(s) - k
      BY <1>1, <1>2, <2>2
    <3>2. b[j - k] = s[k + (j - k)] /\ k + (j - k) = j
      BY <1>2, <3>1
    <3> QED BY <3>1, <3>2
  <2> QED BY <2>1, <2>2
<1>5. a \o b = s
  BY <1>3, <1>4, SeqEqual
<1> QED BY <1>5 DEF a, b

\* Where the correction stands.
LEMMA CorrectionAtFacts ==
  ASSUME NEW s \in Seq(Submissions), NEW id
  PROVE  /\ CorrectionAt(s, id) \in 0 .. Len(s)
         /\ CorrectionAt(s, id) # 0 => Corrects(s[CorrectionAt(s, id)], id)
<1> DEFINE firsts == {i \in DOMAIN s : Corrects(s[i], id) /\ \A j \in 1 .. i - 1 : ~Corrects(s[j], id)}
<1>1. CASE firsts = {}
  BY <1>1, ElementsTyped DEF CorrectionAt
<1>2. CASE firsts # {}
  <2>1. CorrectionAt(s, id) \in firsts
    BY <1>2 DEF CorrectionAt
  <2> QED BY <2>1, ElementsTyped
<1> QED BY <1>1, <1>2

\* What is pulled and what is left are the channel, in its order.
LEMMA PulledFacts ==
  ASSUME channel \in Seq(Submissions), NEW id
  PROVE  /\ Pulled(id) \in Seq(Submissions) /\ LeftInChannel(id) \in Seq(Submissions)
         /\ Pulled(id) \o LeftInChannel(id) = channel
         /\ CorrectionAt(channel, id) # 0 =>
              /\ Len(Pulled(id)) = CorrectionAt(channel, id)
              /\ Pulled(id) # <<>>
              /\ Last(Pulled(id)).kind = "Correct" /\ Last(Pulled(id)).text \in Texts
              /\ Front(Pulled(id)) \in Seq(Submissions)
<1> DEFINE k == CorrectionAt(channel, id)
<1>1. k \in 0 .. Len(channel) /\ (k # 0 => Corrects(channel[k], id))
  BY CorrectionAtFacts
<1>2. CASE k = 0
  BY <1>2 DEF Pulled, LeftInChannel
<1>3. CASE k # 0
  <2>1. /\ Pulled(id) = SubSeq(channel, 1, k) /\ LeftInChannel(id) = SubSeq(channel, k + 1, Len(channel))
    BY <1>3 DEF Pulled, LeftInChannel
  <2>2. channel[k] \in Submissions /\ channel[k].kind = "Correct"
    BY <1>1, <1>3, ElementsTyped DEF Corrects
  <2> HIDE DEF k
  <2>3. /\ Pulled(id) \in Seq(Submissions) /\ LeftInChannel(id) \in Seq(Submissions)
        /\ Len(Pulled(id)) = k /\ Len(LeftInChannel(id)) = Len(channel) - k
        /\ Last(Pulled(id)) = channel[k]
        /\ Front(Pulled(id)) \in Seq(Submissions)
    <3>1. k \in 1 .. Len(channel) /\ Len(channel) \in Nat
      BY <1>1, <1>3
    <3>2. /\ Pulled(id) \in Seq(Submissions) /\ Len(Pulled(id)) = k
          /\ \A i \in 1 .. k : Pulled(id)[i] = channel[i]
      BY <2>1, <3>1
    <3>3. LeftInChannel(id) \in Seq(Submissions) /\ Len(LeftInChannel(id)) = Len(channel) - k
      BY <2>1, <3>1
    <3>4. Last(Pulled(id)) = channel[k]
      BY <3>1, <3>2 DEF Last
    <3>5. Front(Pulled(id)) \in Seq(Submissions)
      BY <3>1, <3>2 DEF Front
    <3> QED BY <3>2, <3>3, <3>4, <3>5
  <2>5. Pulled(id) \o LeftInChannel(id) = channel
    BY <1>1, <1>3, <2>1, SplitSeq
  <2>4. channel[k].text \in Texts
    BY <2>2, MessageParts
  <2> QED BY <1>1, <1>3, <2>2, <2>3, <2>4, <2>5 DEF k
<1> QED BY <1>2, <1>3

LEMMA RunOverType ==
  ASSUME TypeOK, RunOver
  PROVE  /\ history' \in Seq(Units) /\ liveClaim' \in IdsOrNone /\ steering' \in SteeringSlots
         /\ runText \in Texts
<1>1. runText \in Texts
  BY DEF TypeOK, RunOver
<1>2. history' \in Seq(Units)
  BY <1>1, CommittedType DEF RunOver
<1>3. steering' \in SteeringSlots
  BY SealedType DEF RunOver, TypeOK, EngineType
<1> QED BY <1>1, <1>2, <1>3 DEF RunOver, IdsOrNone

LEMMA RunFinishesType == TypeOK /\ RunFinishes => TypeOK'
<1> SUFFICES ASSUME TypeOK, RunFinishes PROVE TypeOK'
  OBVIOUS
<1>1. history' \in Seq(Units) /\ liveClaim' \in IdsOrNone /\ steering' \in SteeringSlots
  BY RunOverType DEF RunFinishes
<1> QED BY <1>1
  DEF RunFinishes, RunOver, TypeOK, QueueType, ChannelType, EngineType, SignalType, DriverType,
      PanelType, GhostType, panelVars, sheetVars, ghostVars, userVars, PCs

LEMMA RunCancelledType == TypeOK /\ RunCancelled => TypeOK'
<1> SUFFICES ASSUME TypeOK, RunCancelled PROVE TypeOK'
  OBVIOUS
<1>1. history' \in Seq(Units) /\ liveClaim' \in IdsOrNone /\ steering' \in SteeringSlots
  BY RunOverType DEF RunCancelled
<1>2. channel \in Seq(Submissions) /\ revived \in Seq(Submissions) /\ correctionCancel \in IdsOrNone
  BY DEF TypeOK, ChannelType, DriverType, SignalType
<1>3. /\ revived' \in Seq(Submissions) /\ channel' \in Seq(Submissions)
      /\ interruptedFor' \in IdsOrNone
  <2>1. Pulled(correctionCancel) \in Seq(Submissions) /\ LeftInChannel(correctionCancel) \in Seq(Submissions)
    BY <1>2, PulledFacts
  <2>2. revived \o Pulled(correctionCancel) \in Seq(Submissions)
    BY <1>2, <2>1, SeqTypes
  <2> QED BY <1>2, <2>1, <2>2 DEF RunCancelled, TypeOK, DriverType
<1> QED BY <1>1, <1>3
  DEF RunCancelled, RunOver, TypeOK, QueueType, ChannelType, EngineType, SignalType, DriverType,
      PanelType, GhostType, panelVars, sheetVars, ghostVars, userVars, PCs, IdsOrNone

LEMMA RunCancelledByExitType == TypeOK /\ RunCancelledByExit => TypeOK'
<1> SUFFICES ASSUME TypeOK, RunCancelledByExit PROVE TypeOK'
  OBVIOUS
<1> DEFINE id == lastClaim.id
           buffered == id # NoId /\ CorrectionAt(channel, id) # 0
           pulled == IF id = NoId THEN <<>> ELSE Pulled(id)
           left == IF id = NoId THEN channel ELSE LeftInChannel(id)
<1>1. /\ channel \in Seq(Submissions) /\ revived \in Seq(Submissions) /\ rescued \in SUBSET Texts
      /\ runText \in Texts /\ queued \in Queues(Texts) /\ nextId \in Nat
  BY DEF RunCancelledByExit, TypeOK, ChannelType, DriverType, QueueType, Queues, Prompts, Ids
<1>2. history' \in Seq(Units)
  BY <1>1, CommittedType DEF RunCancelledByExit
<1>3. steering' \in SteeringSlots
  BY SealedType DEF RunCancelledByExit, TypeOK, EngineType
<1>4. pulled \in Seq(Submissions) /\ left \in Seq(Submissions)
  BY <1>1, PulledFacts, SeqTypes
<1>5. /\ rescued' \subseteq Texts /\ QueueType'
      /\ revived' \in Seq(Submissions) /\ channel' \in Seq(Submissions)
      /\ pc' \in PCs /\ pc' = "done" /\ holder' = "free" /\ agentRunning' \in BOOLEAN
  <2>1. CASE buffered
    <3>1. /\ EndWithRescue(revived \o Front(pulled) \o left, rescued \cup {Last(pulled).text})
          /\ UNCHANGED queueVars
      BY <2>1 DEF RunCancelledByExit
    <3>2. Front(pulled) \in Seq(Submissions) /\ Last(pulled).text \in Texts
      BY <1>1, <2>1, PulledFacts
    <3> HIDE DEF id, buffered, pulled, left
    <3>3. /\ revived \o Front(pulled) \o left \in Seq(Submissions)
          /\ rescued \cup {Last(pulled).text} \in SUBSET Texts
      BY <1>1, <1>4, <3>2, SeqTypes
    <3> QED BY <3>1, <3>3, EndType DEF TypeOK, QueueType, queueVars
  <2>2. CASE ~buffered
    <3>1. /\ EndWithRescue(revived \o pulled \o left, rescued)
          /\ queued' = Push(queued, nextId, runText) /\ nextId' = nextId + 1
      BY <2>2 DEF RunCancelledByExit
    <3> HIDE DEF id, buffered, pulled, left
    <3>2. revived \o pulled \o left \in Seq(Submissions)
      BY <1>1, <1>4, SeqTypes
    <3>3. queued' \in Seq(Prompts)
      BY <1>1, <3>1, PushFacts DEF Queues, Prompts, Ids
    <3>4. QueueType'
      BY <1>1, <3>1, <3>3 DEF QueueType
    <3> QED BY <1>1, <3>1, <3>2, <3>4, EndType
  <2> QED BY <2>1, <2>2
<1> QED BY <1>2, <1>3, <1>5
  DEF RunCancelledByExit, TypeOK, ChannelType, EngineType, SignalType, DriverType,
      PanelType, GhostType, panelVars, sheetVars, ghostVars, userVars, IdsOrNone

LEMMA ApplyCommandType == TypeOK /\ ApplyCommand => TypeOK'
<1> SUFFICES ASSUME TypeOK, ApplyCommand PROVE TypeOK'
  OBVIOUS
<1>1. history \in Seq(Units) /\ steering \in SteeringSlots /\ startupSlot \in StartupSlots
  BY DEF TypeOK, DriverType, EngineType
<1>2. AdoptRunner => steering' \in SteeringSlots /\ startupSlot' \in StartupSlots
  <2>1. Unread \in Seq(Texts)
    BY UnreadType
  <2> QED BY <1>1, <2>1, SlotTypes DEF AdoptRunner
<1>3. \A u \in Units : <<u>> \in Seq(Units) /\ <<u, u>> \in Seq(Units)
  OBVIOUS
<1>4. UNION {history[i] : i \in DOMAIN history} \in Units /\ {Saved} \in Units
  <2>1. \A i \in DOMAIN history : history[i] \in Units
    BY <1>1, ElementsTyped
  <2> QED BY <2>1 DEF Units
<1>5. history' \in Seq(Units)
  BY <1>1, <1>3, <1>4
     DEF ApplyCommand, CompactApplied, RebuildApplied, ResumeApplied, CommandDeclined
<1>6. updates' \in Seq({"Resumed", "SessionCatalog"})
  <2>1. updates' = updates \/ updates' = Append(updates, "Resumed")
    BY DEF ApplyCommand, CompactApplied, RebuildApplied, ResumeApplied, CommandDeclined
  <2> QED BY <2>1, SeqTypes DEF TypeOK, ChannelType
<1>7. steering' \in SteeringSlots /\ startupSlot' \in StartupSlots /\ cancelSignal' \in BOOLEAN
  BY <1>1, <1>2
     DEF ApplyCommand, CompactApplied, RebuildApplied, ResumeApplied, CommandDeclined, AdoptRunner,
         TypeOK, SignalType
<1> QED BY <1>5, <1>6, <1>7
  DEF ApplyCommand, TypeOK, QueueType, ChannelType, EngineType, SignalType, DriverType,
      PanelType, GhostType, queueVars, panelVars, sheetVars, ghostVars, userVars, PCs

-----------------------------------------------------------------------------
(* The panel's operators.                                                  *)

LEMMA QueuesArePrompts == Queues(Texts) = Seq(Prompts)
BY DEF Queues, Prompts, Ids

LEMMA ClampedType ==
  ASSUME NEW q \in Seq(Prompts), NEW view \in Nat
  PROVE  DisplayLen(q) \in Nat /\ Clamped(view, q) \in Nat
<1>1. Len(q) \in Nat /\ (Waits(q, handed) => Len(q) >= 1)
  BY ElementsTyped DEF Waits
<1>2. DisplayLen(q) \in Nat
  BY <1>1 DEF DisplayLen
<1> QED BY <1>2 DEF Clamped, LastRow

LEMMA ViewedType ==
  ASSUME TypeOK, ViewHolds
  PROVE  Viewed \in Prompts /\ Viewed.id \in Ids /\ Viewed.text \in Texts
<1>1. queueView + 1 \in 1 .. Len(queued) /\ queued \in Seq(Prompts)
  BY DEF TypeOK, QueueType, PanelType, ViewHolds
<1>2. Viewed \in Prompts
  BY <1>1, ElementsTyped DEF Viewed
<1> QED BY <1>2, PromptTypes

LEMMA FreshType == TypeOK /\ TypesOne => Fresh \in Texts /\ typed' \in 0 .. MaxTexts
BY BoundAssumption DEF TypeOK, GhostType, TypesOne, Fresh, Texts

LEMMA RemoveIdType ==
  ASSUME NEW q \in Seq(Prompts), NEW id
  PROVE  RemoveId(q, id) \in Seq(Prompts)
BY RemoveIdFacts, QueuesArePrompts

LEMMA TextsOfType ==
  ASSUME NEW q \in Seq(Prompts)
  PROVE  TextsOf(q) \subseteq Texts /\ IdsOf(q) \subseteq Ids
BY ElementsTyped, PromptTypes DEF TextsOf, IdsOf

LEMMA SubmitTextType ==
  ASSUME TypeOK, NEW q \in Seq(Prompts), NEW text \in Texts, SubmitText(q, text)
  PROVE  QueueType' /\ channel' \in Seq(Submissions) /\ handed' \in IdsOrNone
<1>1. nextId \in Nat /\ nextId \in Ids /\ channel \in Seq(Submissions)
  BY DEF TypeOK, QueueType, ChannelType, Ids
<1>2. queued' \in Seq(Prompts)
  BY <1>1, PushFacts, QueuesArePrompts DEF SubmitText
<1>3. channel' \in Seq(Submissions)
  BY <1>1, MessageTypes, SeqTypes DEF SubmitText
<1> QED BY <1>1, <1>2, <1>3 DEF SubmitText, QueueType, IdsOrNone

LEMMA DeliverType ==
  ASSUME TypeOK, NEW q \in Seq(Prompts), NEW text \in Texts, DeliverGuidance(q, text)
  PROVE  /\ QueueType' /\ channel' \in Seq(Submissions) /\ handed' \in IdsOrNone
         /\ steering' \in SteeringSlots /\ pendingSteers' \subseteq Texts
<1>1. CASE steering.open
  <2>1. Append(steering.live, text) \in Seq(Texts)
    BY SlotTypes, SeqTypes DEF TypeOK, EngineType
  <2>2. steering' \in SteeringSlots
    BY <1>1, <2>1, SlotTypes DEF DeliverGuidance, TypeOK, EngineType
  <2> QED BY <1>1, <2>2
    DEF DeliverGuidance, TypeOK, QueueType, ChannelType, EngineType, PanelType
<1>2. CASE ~steering.open
  BY <1>2, SubmitTextType DEF DeliverGuidance, TypeOK, EngineType
<1> QED BY <1>1, <1>2

LEMMA ReturnedType == TypeOK => Returned \in Seq(Texts)
BY SlotTypes, SeqTypes, UnreadType DEF Returned, TypeOK, EngineType

\* What a frame hands back waits again, whatever was taken.
LEMMA RequeuedType ==
  ASSUME TypeOK, NEW taken \in Seq(Texts)
  PROVE  /\ Requeued(taken) \in Seq(Prompts) /\ Promised(taken) \in Seq(Submissions)
         /\ Unpinned(taken) \subseteq Texts
         /\ nextId + Len(taken) \in Nat
<1>1. nextId \in Nat /\ queued \in Seq(Prompts) /\ channel \in Seq(Submissions)
  BY DEF TypeOK, QueueType, ChannelType
<1>2. Len(taken) \in Nat /\ \A i \in 1 .. Len(taken) : taken[i] \in Texts
  BY ElementsTyped
<1>3. \A i \in 1 .. Len(taken) :
        /\ Entry(nextId + i - 1, taken[i]) \in Prompts
        /\ RunMsg(nextId + i - 1) \in Submissions
  BY <1>1, <1>2, PromptTypes, MessageTypes DEF Ids
<1>4. [i \in 1 .. Len(taken) |-> Entry(nextId + i - 1, taken[i])] \in Seq(Prompts)
  BY <1>2, <1>3
<1>5. [i \in 1 .. Len(taken) |-> RunMsg(nextId + i - 1)] \in Seq(Submissions)
  BY <1>2, <1>3
<1>6. DOMAIN taken = 1 .. Len(taken)
  BY ElementsTyped
<1> QED BY <1>1, <1>2, <1>4, <1>5, <1>6, SeqTypes
        DEF Requeued, Promised, Unpinned, TypeOK, EngineType

LEMMA SlotsTakenType ==
  ASSUME TypeOK, SlotsTaken
  PROVE  steering' \in SteeringSlots /\ startupSlot' \in StartupSlots
<1>1. [steering EXCEPT !.live = <<>>, !.drained = <<>>, !.pocket = <<>>] \in SteeringSlots
  BY SlotTypes DEF TypeOK, EngineType
<1> QED BY <1>1, SlotTypes DEF SlotsTaken, TypeOK, EngineType

LEMMA DrawFrameType ==
  ASSUME TypeOK, DrawFrame, holder' \in {"free", "panel", "driver"},
         app' \in {"live", "quitting", "drawn", "leaving", "gone"}
  PROVE  TypeOK'
<1> DEFINE taken == Returned
           q == Requeued(taken)
<1>1. taken \in Seq(Texts)
  BY ReturnedType
<1>2. /\ queued' = q /\ nextId' = nextId + Len(taken) /\ channel' = Promised(taken)
      /\ pendingSteers' = Unpinned(taken) /\ SlotsTaken
      /\ landed' = landed \cup graduations /\ graduations' = {}
      /\ handed' = IF Waits(queued, handed) THEN handed ELSE NoId
      /\ queueView' = IF q = <<>> THEN 0 ELSE Clamped(queueView, q)
      /\ queueMode' = Released(queueMode, q)
      /\ UNCHANGED <<updates, rescued, signalVars, driverVars, confirmAct, editing, picker, ghostVars>>
  BY DEF DrawFrame
<1> HIDE DEF taken, q
<1>3. q \in Seq(Prompts) /\ QueueType'
  BY <1>1, <1>2, RequeuedType DEF QueueType, q
<1>4. ChannelType'
  BY <1>1, <1>2, RequeuedType DEF TypeOK, ChannelType
<1>5. EngineType'
  BY <1>1, <1>2, RequeuedType, SlotsTakenType DEF TypeOK, EngineType
<1>6. queueView' \in Nat
  BY <1>2, <1>3, ClampedType DEF TypeOK, PanelType
<1>7. PanelType'
  BY <1>2, <1>6 DEF TypeOK, PanelType, EngineType, Released, Modes, IdsOrNone
<1> QED BY <1>2, <1>3, <1>4, <1>5, <1>7
        DEF TypeOK, SignalType, DriverType, GhostType, signalVars, driverVars, ghostVars, userVars

-----------------------------------------------------------------------------
(* The panel's steps.                                                      *)

LEMMA SubmitPromptType == TypeOK /\ SubmitPrompt => TypeOK'
<1> SUFFICES ASSUME TypeOK, SubmitPrompt PROVE TypeOK'
  OBVIOUS
<1>1. Fresh \in Texts /\ typed' \in 0 .. MaxTexts
  BY FreshType DEF SubmitPrompt
<1>2. QueueType' /\ channel' \in Seq(Submissions) /\ handed' \in IdsOrNone
  BY <1>1, SubmitTextType DEF SubmitPrompt, TypeOK, QueueType
<1> QED BY <1>1, <1>2 DEF SubmitPrompt, PanelTurn, TypeOK, QueueType, ChannelType, EngineType, SignalType, DriverType, PanelType, GhostType, queueVars, channelVars, engineVars, signalVars, driverVars, panelVars, sheetVars, ghostVars, userVars

LEMMA SteerNowType == TypeOK /\ SteerNow => TypeOK'
<1> SUFFICES ASSUME TypeOK, SteerNow PROVE TypeOK'
  OBVIOUS
<1> DEFINE q == IF queueMode = "Editing" THEN RemoveId(queued, editing) ELSE queued
<1>1. Fresh \in Texts /\ typed' \in 0 .. MaxTexts
  BY FreshType DEF SteerNow
<1>2. q \in Seq(Prompts)
  BY RemoveIdType DEF TypeOK, QueueType
<1>3. DeliverGuidance(q, Fresh)
  BY DEF SteerNow
<1>4. /\ QueueType' /\ channel' \in Seq(Submissions) /\ handed' \in IdsOrNone
      /\ steering' \in SteeringSlots /\ pendingSteers' \subseteq Texts
  BY <1>1, <1>2, <1>3, DeliverType
<1>5. /\ queueMode' \in Modes /\ editing' \in IdsOrNone /\ queueView' \in Nat
      /\ released' \subseteq Texts
  <2>1. CASE queueMode = "Editing"
    <3>1. /\ queueMode' = AfterEdit(q) /\ editing' = NoId /\ queueView' = Clamped(queueView, q)
          /\ released' = released \cup
               (IF Waits(queued, editing) THEN {TextOf(queued, editing)} ELSE {})
      BY <2>1 DEF SteerNow
    <3>2. Waits(queued, editing) => TextOf(queued, editing) \in Texts
      BY TextOfType, QueuesArePrompts DEF TypeOK, QueueType
    <3> HIDE DEF q
    <3> QED BY <1>2, <3>1, <3>2, ClampedType DEF TypeOK, PanelType, GhostType, AfterEdit, Modes, IdsOrNone
  <2>2. CASE queueMode # "Editing"
    BY <2>2 DEF SteerNow, TypeOK, PanelType, GhostType
  <2> QED BY <2>1, <2>2
<1> QED BY <1>1, <1>4, <1>5 DEF SteerNow, PanelTurn, TypeOK, QueueType, ChannelType, EngineType, SignalType, DriverType, PanelType, GhostType, queueVars, channelVars, engineVars, signalVars, driverVars, panelVars, sheetVars, ghostVars, userVars

LEMMA WalkType ==
  TypeOK /\ (FocusQueue \/ StepView \/ UnfocusQueue \/ AskConfirm \/ DeclineAsk \/ OpenEdit \/ AbortEdit)
    => TypeOK'
<1> SUFFICES ASSUME TypeOK,
                    FocusQueue \/ StepView \/ UnfocusQueue \/ AskConfirm \/ DeclineAsk \/ OpenEdit \/ AbortEdit
             PROVE  TypeOK'
  OBVIOUS
<1>1. SheetOnly /\ holder' = "panel"
  BY DEF FocusQueue, StepView, UnfocusQueue, AskConfirm, DeclineAsk, OpenEdit, AbortEdit, SheetKey, PanelTurn
<1>2. Clamped(queueView, queued) \in Nat /\ Len(queued) \in Nat /\ queueView \in Nat
  BY ClampedType, ElementsTyped DEF TypeOK, QueueType, PanelType
<1>3. queueView' \in Nat
  BY <1>2 DEF FocusQueue, StepView, UnfocusQueue, AskConfirm, DeclineAsk, OpenEdit, AbortEdit
<1>4. queueMode' \in Modes /\ confirmAct' \in {"Drop", "Steer"}
  BY DEF FocusQueue, StepView, UnfocusQueue, AskConfirm, DeclineAsk, OpenEdit, AbortEdit, AfterEdit,
         TypeOK, PanelType, Modes
<1>5. editing' \in IdsOrNone /\ asked' \in IdsOrNone
  BY ViewedType DEF FocusQueue, StepView, UnfocusQueue, AskConfirm, DeclineAsk, OpenEdit, AbortEdit,
         TypeOK, PanelType, GhostType, IdsOrNone
<1> QED BY <1>1, <1>3, <1>4, <1>5 DEF SheetOnly, TypeOK, QueueType, ChannelType, EngineType, SignalType, DriverType, PanelType, GhostType, queueVars, channelVars, engineVars, signalVars, driverVars, panelVars, sheetVars, ghostVars, userVars

LEMMA ConfirmDropType == TypeOK /\ ConfirmDrop => TypeOK'
<1> SUFFICES ASSUME TypeOK, ConfirmDrop PROVE TypeOK'
  OBVIOUS
<1>1. queued' \in Seq(Prompts) /\ queueView' \in Nat /\ queueMode' \in Modes /\ released' \subseteq Texts
  <2>1. queued \in Seq(Prompts) /\ queueView \in Nat /\ released \subseteq Texts
    BY DEF TypeOK, QueueType, PanelType, GhostType
  <2>2. CASE ViewHolds
    <3> DEFINE q == RemoveId(queued, Viewed.id)
    <3>1. q \in Seq(Prompts)
      BY <2>1, RemoveIdType
    <3>2. /\ queued' = q /\ queueView' = Clamped(queueView, q) /\ queueMode' = Released("Focused", q)
          /\ released' = released \cup {Viewed.text}
      BY <2>2 DEF ConfirmDrop
    <3> HIDE DEF q
    <3> QED BY <2>1, <2>2, <3>1, <3>2, ClampedType, ViewedType DEF Released, Modes
  <2>3. CASE ~ViewHolds
    BY <2>1, <2>3, ClampedType DEF ConfirmDrop, Modes
  <2> QED BY <2>2, <2>3
<1> QED BY <1>1 DEF ConfirmDrop, SheetKey, PanelTurn, IdsOrNone, TypeOK, QueueType, ChannelType, EngineType, SignalType, DriverType, PanelType, GhostType, queueVars, channelVars, engineVars, signalVars, driverVars, panelVars, sheetVars, ghostVars, userVars

LEMMA ConfirmSteerType == TypeOK /\ ConfirmSteer => TypeOK'
<1> SUFFICES ASSUME TypeOK, ConfirmSteer PROVE TypeOK'
  OBVIOUS
<1>1. /\ QueueType' /\ channel' \in Seq(Submissions) /\ handed' \in IdsOrNone
      /\ steering' \in SteeringSlots /\ pendingSteers' \subseteq Texts
      /\ queueView' \in Nat /\ queueMode' \in Modes
  <2>1. queued \in Seq(Prompts) /\ queueView \in Nat
    BY DEF TypeOK, QueueType, PanelType
  <2>2. CASE ViewHolds /\ agentRunning
    <3> DEFINE q == RemoveId(queued, Viewed.id)
    <3>1. q \in Seq(Prompts)
      BY <2>1, RemoveIdType
    <3>2. /\ queueView' = Clamped(queueView, q) /\ queueMode' = Released("Focused", q)
          /\ DeliverGuidance(q, Viewed.text)
      BY <2>2 DEF ConfirmSteer
    <3>3. Viewed.text \in Texts
      BY <2>2, ViewedType
    <3> HIDE DEF q
    <3> QED BY <2>1, <3>1, <3>2, <3>3, ClampedType, DeliverType DEF Released, Modes
  <2>3. CASE ~(ViewHolds /\ agentRunning)
    <3>1. queueView' \in Nat /\ queueMode' = "Focused"
      BY <2>1, <2>3, ClampedType DEF ConfirmSteer
    <3> QED BY <2>3, <3>1
      DEF ConfirmSteer, Modes, TypeOK, QueueType, ChannelType, EngineType, PanelType, queueVars
  <2> QED BY <2>2, <2>3
<1> QED BY <1>1 DEF ConfirmSteer, SheetKey, PanelTurn, IdsOrNone, TypeOK, QueueType, ChannelType, EngineType, SignalType, DriverType, PanelType, GhostType, queueVars, channelVars, engineVars, signalVars, driverVars, panelVars, sheetVars, ghostVars, userVars

LEMMA CommitEditType == TypeOK /\ CommitEdit => TypeOK'
<1> SUFFICES ASSUME TypeOK, CommitEdit PROVE TypeOK'
  OBVIOUS
<1>1. Fresh \in Texts /\ typed' \in 0 .. MaxTexts
  BY FreshType DEF CommitEdit
<1>2. /\ queued \in Seq(Prompts) /\ queueView \in Nat /\ released \subseteq Texts
      /\ channel \in Seq(Submissions) /\ editing \in IdsOrNone
      /\ cancelSignal \in BOOLEAN /\ correctionCancel \in IdsOrNone
  BY DEF TypeOK, QueueType, PanelType, GhostType, ChannelType, SignalType
<1>3. /\ queued' \in Seq(Prompts) /\ queueView' \in Nat /\ released' \subseteq Texts
      /\ channel' \in Seq(Submissions)
      /\ cancelSignal' \in BOOLEAN /\ correctionCancel' \in IdsOrNone
  <2>1. CASE EditStillWaits
    <3>1. /\ queued' = ReplaceId(queued, editing, Fresh)
          /\ released' = released \cup {TextOf(queued, editing)}
          /\ queueView' = Clamped(IndexOf(queued, editing) - 1, queued)
          /\ UNCHANGED <<channel, correctionCancel, cancelSignal>>
      BY <2>1 DEF CommitEdit
    <3>2. /\ IndexOf(queued, editing) \in 1 .. Len(queued)
          /\ TextOf(queued, editing) \in Texts /\ editing \in Nat
      BY <1>2, <2>1, TextOfType, QueuesArePrompts DEF EditStillWaits
    <3>3. queued' \in Seq(Prompts)
      BY <1>1, <1>2, <3>1, <3>2, ReplaceIdFacts, QueuesArePrompts
    <3>4. IndexOf(queued, editing) - 1 \in Nat
      BY <3>2
    <3> QED BY <1>2, <3>1, <3>2, <3>3, <3>4, ClampedType
  <2>2. CASE ~EditStillWaits
    <3>1. /\ CorrectClaimed(editing, Fresh)
          /\ queueView' = Clamped(queueView, queued)
          /\ UNCHANGED <<queued, released>>
      BY <2>2 DEF CommitEdit
    <3>2. channel' \in Seq(Submissions)
      BY <1>1, <1>2, <3>1, MessageTypes, SeqTypes DEF CorrectClaimed
    <3> QED BY <1>2, <3>1, <3>2, ClampedType DEF CorrectClaimed
  <2> QED BY <2>1, <2>2
<1>4. queueMode' \in Modes /\ editing' \in IdsOrNone /\ holder' = "panel"
  BY DEF CommitEdit, SheetKey, PanelTurn, AfterEdit, Modes, IdsOrNone
<1> QED BY <1>1, <1>3, <1>4
  DEF CommitEdit, TypeOK, QueueType, ChannelType, EngineType, SignalType, DriverType, PanelType,
      GhostType, queueVars, channelVars, engineVars, signalVars, driverVars, panelVars, sheetVars,
      ghostVars, userVars

LEMMA CommandKeyType ==
  ASSUME TypeOK, NEW command, CommandKey(command)
  PROVE  channel' \in Seq(Submissions) /\ commandsSent' \in 0 .. MaxCommands /\ holder' = "panel"
<1>1. command \in CommandKinds
  BY CommandsAssumption DEF CommandKey
<1>2. channel' \in Seq(Submissions)
  BY <1>1, MessageTypes, SeqTypes DEF CommandKey, TypeOK, ChannelType
<1> QED BY <1>2, BoundAssumption DEF CommandKey, PanelTurn, TypeOK, GhostType

\* An emptied queue is a queue.
LEMMA EmptyQueueType ==
  ASSUME TypeOK
  PROVE  /\ <<>> \in Seq(Prompts)
         /\ released \cup TextsOf(queued) \subseteq Texts
         /\ swept \cup IdsOf(queued) \subseteq Ids
BY TextsOfType, SeqTypes DEF TypeOK, QueueType, GhostType

LEMMA CommandsType == TypeOK /\ (ClearCommand \/ ResumeCommand \/ OtherCommand) => TypeOK'
<1> SUFFICES ASSUME TypeOK, ClearCommand \/ ResumeCommand \/ OtherCommand PROVE TypeOK'
  OBVIOUS
<1>1. channel' \in Seq(Submissions) /\ commandsSent' \in 0 .. MaxCommands /\ holder' = "panel"
  BY CommandKeyType DEF ClearCommand, ResumeCommand, OtherCommand
<1>2. queued' \in Seq(Prompts) /\ handed' \in IdsOrNone /\ released' \subseteq Texts
  BY EmptyQueueType DEF ClearCommand, ResumeCommand, OtherCommand, EmptyQueue, queueVars, IdsOrNone,
                        TypeOK, QueueType, PanelType, GhostType
<1>3. CASE ClearCommand
  BY <1>1, <1>2, <1>3 DEF ClearCommand, TypeOK, QueueType, ChannelType, EngineType, SignalType, DriverType, PanelType,
      GhostType, queueVars, channelVars, engineVars, signalVars, driverVars, panelVars, sheetVars,
      ghostVars, userVars
<1>4. CASE ResumeCommand
  BY <1>1, <1>2, <1>4 DEF ResumeCommand, TypeOK, QueueType, ChannelType, EngineType, SignalType, DriverType, PanelType,
      GhostType, queueVars, channelVars, engineVars, signalVars, driverVars, panelVars, sheetVars,
      ghostVars, userVars
<1>5. CASE OtherCommand
  BY <1>1, <1>2, <1>5 DEF OtherCommand, TypeOK, QueueType, ChannelType, EngineType, SignalType, DriverType, PanelType,
      GhostType, queueVars, channelVars, engineVars, signalVars, driverVars, panelVars, sheetVars,
      ghostVars, userVars
<1> QED BY <1>3, <1>4, <1>5

LEMMA SmallKeysType == TypeOK /\ (ClosePicker \/ CancelRun \/ QuitKey) => TypeOK'
<1>1. ASSUME TypeOK, ClosePicker PROVE TypeOK'
  BY <1>1 DEF ClosePicker, PanelTurn, TypeOK, QueueType, ChannelType, EngineType, SignalType, DriverType, PanelType,
      GhostType, queueVars, channelVars, engineVars, signalVars, driverVars, panelVars, sheetVars,
      ghostVars, userVars
<1>2. ASSUME TypeOK, CancelRun PROVE TypeOK'
  BY <1>2 DEF CancelRun, PanelTurn, TypeOK, QueueType, ChannelType, EngineType, SignalType, DriverType, PanelType,
      GhostType, queueVars, channelVars, engineVars, signalVars, driverVars, panelVars, sheetVars,
      ghostVars, userVars
<1>3. ASSUME TypeOK, QuitKey PROVE TypeOK'
  <2>1. cancelSignal' \in BOOLEAN
    BY <1>3 DEF QuitKey, TypeOK, SignalType
  <2> QED BY <1>3, <2>1 DEF QuitKey, PanelTurn, TypeOK, QueueType, ChannelType, EngineType, SignalType, DriverType, PanelType,
      GhostType, queueVars, channelVars, engineVars, signalVars, driverVars, panelVars, sheetVars,
      ghostVars, userVars
<1> QED BY <1>1, <1>2, <1>3

LEMMA ApplyUpdateType == TypeOK /\ ApplyUpdate => TypeOK'
<1> SUFFICES ASSUME TypeOK, ApplyUpdate PROVE TypeOK'
  OBVIOUS
<1>1. updates' \in Seq({"Resumed", "SessionCatalog"})
  BY SeqTypes DEF ApplyUpdate, TypeOK, ChannelType
<1>2. /\ queued' \in Seq(Prompts) /\ handed' \in IdsOrNone
      /\ released' \subseteq Texts /\ swept' \subseteq Ids /\ picker' \in BOOLEAN
  BY EmptyQueueType DEF ApplyUpdate, IdsOrNone, TypeOK, QueueType, PanelType, GhostType
<1> QED BY <1>1, <1>2 DEF ApplyUpdate, TypeOK, QueueType, ChannelType, EngineType, SignalType, DriverType, PanelType,
      GhostType, queueVars, channelVars, engineVars, signalVars, driverVars, panelVars, sheetVars,
      ghostVars, userVars

LEMMA FrameType == TypeOK /\ (Frame \/ LastFrame) => TypeOK'
BY DrawFrameType DEF Frame, LastFrame, TypeOK, PanelType

\* Rows said at the exit.
LEMMA UnsentType ==
  ASSUME NEW texts \in SUBSET Texts
  PROVE  Unsent(texts) \subseteq Rows
BY RowTypes DEF Unsent

LEMMA ExitStretchType == TypeOK /\ ExitStretch => TypeOK'
<1> SUFFICES ASSUME TypeOK, ExitStretch PROVE TypeOK'
  OBVIOUS
<1>1. WaitingAtExit \in SUBSET Texts
  BY TextsOfType DEF WaitingAtExit, TypeOK, QueueType, EngineType
<1>2. landed' \subseteq Rows
  BY <1>1, UnsentType DEF ExitStretch, TypeOK, EngineType, PanelType
<1> QED BY <1>2 DEF ExitStretch, TypeOK, QueueType, ChannelType, EngineType, SignalType, DriverType, PanelType,
      GhostType, queueVars, channelVars, engineVars, signalVars, driverVars, panelVars, sheetVars,
      ghostVars, userVars

LEMMA DriverOverType == TypeOK /\ (DriverJoined \/ DriverAborted) => TypeOK'
<1> SUFFICES ASSUME TypeOK, DriverJoined \/ DriverAborted PROVE TypeOK'
  OBVIOUS
<1>1. landed' \subseteq Rows
  BY UnsentType DEF DriverJoined, DriverAborted, TypeOK, ChannelType, PanelType
<1>2. rescued' \subseteq Texts /\ <<>> \in Seq(Submissions)
  BY SeqTypes DEF DriverJoined, DriverAborted
<1>3. CASE DriverJoined
  BY <1>1, <1>2, <1>3 DEF DriverJoined, TypeOK, QueueType, ChannelType, EngineType, SignalType, DriverType, PanelType,
      GhostType, queueVars, channelVars, engineVars, signalVars, driverVars, panelVars, sheetVars,
      ghostVars, userVars
<1>4. CASE DriverAborted
  BY <1>1, <1>2, <1>4 DEF DriverAborted, PCs, TypeOK, QueueType, ChannelType, EngineType, SignalType, DriverType, PanelType,
      GhostType, queueVars, channelVars, engineVars, signalVars, driverVars, panelVars, sheetVars,
      ghostVars, userVars
<1> QED BY <1>3, <1>4

-----------------------------------------------------------------------------
(* The theorem.                                                            *)

LEMMA InitType == Init => TypeOK
<1> SUFFICES ASSUME Init PROVE TypeOK
  OBVIOUS
<1>1. steering \in SteeringSlots
  BY SlotTypes DEF Init
<1>2. startupSlot \in StartupSlots
  BY SeqTypes DEF Init, StartupSlots
<1>3. queued \in Seq(Prompts) /\ channel \in Seq(Submissions) /\ revived \in Seq(Submissions)
      /\ updates \in Seq({"Resumed", "SessionCatalog"}) /\ history \in Seq(Units)
      /\ claims \in Seq(Prompts)
  BY SeqTypes DEF Init
<1>4. QueueType /\ ChannelType
  BY <1>3 DEF Init, QueueType, ChannelType
<1>5. EngineType /\ SignalType
  BY <1>1, <1>2 DEF Init, EngineType, SignalType, IdsOrNone
<1>6. DriverType
  BY <1>3 DEF Init, DriverType, NoClaim, Turns, IdsOrNone, TextsOrNone, PCs, Verdicts
<1>7. PanelType
  BY DEF Init, PanelType, IdsOrNone, Modes
<1>8. GhostType
  BY <1>3, BoundAssumption DEF Init, GhostType, IdsOrNone
<1> QED BY <1>4, <1>5, <1>6, <1>7, <1>8 DEF Init, TypeOK

LEMMA StepType == TypeOK /\ [Next]_vars => TypeOK'
<1> SUFFICES ASSUME TypeOK, [Next]_vars PROVE TypeOK'
  OBVIOUS
<1>1. CASE KeyPress
  BY <1>1, SubmitPromptType, SteerNowType, WalkType, ConfirmDropType, ConfirmSteerType,
     CommitEditType, CommandsType, SmallKeysType DEF KeyPress
<1>2. CASE ApplyUpdate \/ Frame \/ LastFrame
  BY <1>2, ApplyUpdateType, FrameType
<1>3. CASE DriverStep
  BY <1>3, TakeType, ParkType, LeaveType DEF DriverStep
<1>4. CASE TurnBoundary \/ SlotSeals
  BY <1>4, BoundaryType
<1>5. CASE RunResolves
  BY <1>5, RunFinishesType, RunCancelledType, RunCancelledByExitType DEF RunResolves
<1>6. CASE ApplyCommand
  BY <1>6, ApplyCommandType
<1>7. CASE LeaveScreen \/ TerminalCloses
  BY <1>7, ExitStretchType DEF LeaveScreen, TerminalCloses
<1>8. CASE DriverJoined \/ DriverAborted
  BY <1>8, DriverOverType
<1>9. CASE UNCHANGED vars
  BY <1>9 DEF vars, TypeOK, QueueType, ChannelType, EngineType, SignalType, DriverType, PanelType,
      GhostType, queueVars, channelVars, engineVars, signalVars, driverVars, panelVars, sheetVars,
      ghostVars, userVars
<1> QED BY <1>1, <1>2, <1>3, <1>4, <1>5, <1>6, <1>7, <1>8, <1>9 DEF Next, SessionOver

\* Type correctness: every reachable state of the session, whatever the bounds, the
\* commands and the lengths of its turns, has the types of TypeOK.
THEOREM TypeCorrect == Spec => []TypeOK
<1>1. Init => TypeOK
  BY InitType
<1>2. TypeOK /\ [Next]_vars => TypeOK'
  BY StepType
<1> QED BY <1>1, <1>2, PTL DEF Spec

-----------------------------------------------------------------------------
(* The order of prompts: what one step's change to the queue, the pending  *)
(* submissions and the claims does to it.                                  *)

Promises(q, p) == \A i \in DOMAIN q : PendsIn(p, q[i].id)

-----------------------------------------------------------------------------
(* Sequences.                                                              *)

LEMMA AppendParts ==
  ASSUME NEW S, NEW s \in Seq(S), NEW e \in S
  PROVE  /\ Append(s, e) \in Seq(S)
         /\ DOMAIN Append(s, e) = 1 .. Len(s) + 1
         /\ \A i \in 1 .. Len(s) : Append(s, e)[i] = s[i]
         /\ Append(s, e)[Len(s) + 1] = e
OBVIOUS

LEMMA TailParts ==
  ASSUME NEW S, NEW s \in Seq(S), s # <<>>
  PROVE  /\ Tail(s) \in Seq(S) /\ Head(s) = s[1] /\ Len(s) \in Nat \ {0}
         /\ DOMAIN Tail(s) = 1 .. Len(s) - 1
         /\ \A i \in 1 .. Len(s) - 1 : Tail(s)[i] = s[i + 1]
OBVIOUS

LEMMA ConcatParts ==
  ASSUME NEW S, NEW s \in Seq(S), NEW t \in Seq(S)
  PROVE  /\ s \o t \in Seq(S)
         /\ DOMAIN (s \o t) = 1 .. Len(s) + Len(t)
         /\ \A i \in 1 .. Len(s) : (s \o t)[i] = s[i]
         /\ \A i \in Len(s) + 1 .. Len(s) + Len(t) : (s \o t)[i] = t[i - Len(s)]
OBVIOUS

LEMMA ConcatAppend ==
  ASSUME NEW S, NEW s \in Seq(S), NEW t \in Seq(S), NEW e \in S
  PROVE  s \o Append(t, e) = Append(s \o t, e)
OBVIOUS

LEMMA ConcatAssociates ==
  ASSUME NEW S, NEW s \in Seq(S), NEW t \in Seq(S), NEW u \in Seq(S)
  PROVE  (s \o t) \o u = s \o (t \o u)
<1> DEFINE l == (s \o t) \o u
           r == s \o (t \o u)
<1>1. l \in Seq(S) /\ r \in Seq(S) /\ Len(l) = Len(r) /\ Len(l) = Len(s) + Len(t) + Len(u)
  BY ConcatParts
<1>2. ASSUME NEW i \in 1 .. Len(l) PROVE l[i] = r[i]
  <2>1. CASE i <= Len(s)
    BY <1>1, <2>1, ConcatParts
  <2>2. CASE ~(i <= Len(s)) /\ i <= Len(s) + Len(t)
    BY <1>1, <2>2, ConcatParts
  <2>3. CASE ~(i <= Len(s) + Len(t))
    BY <1>1, <2>3, ConcatParts
  <2> QED BY <2>1, <2>2, <2>3
<1> HIDE DEF l, r
<1>3. l = r
  BY <1>1, <1>2, SeqEqual
<1> QED BY <1>3 DEF l, r

LEMMA ConcatTail ==
  ASSUME NEW S, NEW s \in Seq(S), NEW t \in Seq(S)
  PROVE  /\ s # <<>> => Tail(s \o t) = Tail(s) \o t /\ Head(s \o t) = Head(s) /\ s \o t # <<>>
         /\ <<>> \o t = t
<1>1. <<>> \o t = t
  OBVIOUS
<1>2. ASSUME s # <<>> PROVE Tail(s \o t) = Tail(s) \o t
  <2> DEFINE l == Tail(s \o t)
             r == Tail(s) \o t
  <2>1. s \o t \in Seq(S) /\ Len(s \o t) = Len(s) + Len(t) /\ s \o t # <<>>
    BY <1>2, ConcatParts
  <2>2. /\ l \in Seq(S) /\ Len(l) = Len(s) + Len(t) - 1
        /\ \A i \in 1 .. Len(s) + Len(t) - 1 : l[i] = (s \o t)[i + 1]
    BY <2>1, TailParts
  <2>3. r \in Seq(S) /\ Len(r) = Len(s) + Len(t) - 1
    BY <1>2, TailParts, ConcatParts
  <2>4. ASSUME NEW i \in 1 .. Len(s) + Len(t) - 1 PROVE l[i] = r[i]
    <3>1. CASE i <= Len(s) - 1
      BY <1>2, <2>2, <3>1, TailParts, ConcatParts
    <3>2. CASE ~(i <= Len(s) - 1)
      <4>1. (s \o t)[i + 1] = t[i + 1 - Len(s)]
        BY <3>2, ConcatParts
      <4>2. r[i] = t[i - (Len(s) - 1)]
        BY <1>2, <3>2, TailParts, ConcatParts
      <4> QED BY <2>2, <4>1, <4>2
    <3> QED BY <3>1, <3>2
  <2> HIDE DEF l, r
  <2>5. l = r
    BY <2>2, <2>3, <2>4, SeqEqual
  <2> QED BY <2>5 DEF l, r
<1>3. s # <<>> => Head(s \o t) = Head(s) /\ s \o t # <<>>
  BY ConcatParts
<1> QED BY <1>1, <1>2, <1>3

-----------------------------------------------------------------------------
(* What a change does to the order.                                        *)

LEMMA PromptParts ==
  ASSUME NEW q \in Seq(Prompts)
  PROVE  /\ DOMAIN q = 1 .. Len(q) /\ Len(q) \in Nat
         /\ \A i \in DOMAIN q : q[i] \in Prompts /\ q[i].id \in Nat
BY ElementsTyped, PromptTypes DEF Ids

LEMMA PendingParts ==
  ASSUME NEW p \in Seq(Submissions)
  PROVE  /\ DOMAIN p = 1 .. Len(p) /\ Len(p) \in Nat
         /\ \A i \in DOMAIN p : p[i] \in Submissions /\ (p[i].kind = "Run" => p[i].id \in Nat)
BY ElementsTyped, MessageParts DEF Ids

\* A prompt submitted under the next id stands last in the queue, and its claim
\* last among the submissions.
LEMMA SubmitOrder ==
  ASSUME NEW q \in Seq(Prompts), NEW n \in Nat, NEW p \in Seq(Submissions),
         NEW c \in Seq(Prompts), NEW t \in Texts,
         Ordered(q, n, p, c)
  PROVE  /\ Ordered(Push(q, n, t), n + 1, Append(p, RunMsg(n)), c)
         /\ Promises(q, p) => Promises(Push(q, n, t), Append(p, RunMsg(n)))
<1> DEFINE r == Push(q, n, t)
           s == Append(p, RunMsg(n))
<1>1. Entry(n, t) \in Prompts /\ RunMsg(n) \in Submissions
  BY PromptTypes, MessageTypes DEF Ids
<1>2. /\ DOMAIN r = 1 .. Len(q) + 1 /\ Len(q) \in Nat
      /\ \A i \in 1 .. Len(q) : r[i] = q[i]
      /\ r[Len(q) + 1].id = n
  BY <1>1, AppendParts, PromptParts DEF Push, Entry
<1>3. /\ DOMAIN s = 1 .. Len(p) + 1 /\ Len(p) \in Nat
      /\ \A i \in 1 .. Len(p) : s[i] = p[i]
      /\ s[Len(p) + 1].id = n /\ s[Len(p) + 1].kind = "Run"
  BY <1>1, AppendParts, PendingParts DEF RunMsg, Submission
<1> HIDE DEF r, s
<1>4. Ascending(r) /\ Below(r, n + 1) /\ Before(c, r)
  <2>1. /\ \A i, j \in 1 .. Len(q) : i < j => q[i].id < q[j].id
        /\ \A i \in 1 .. Len(q) : q[i].id < n /\ q[i].id \in Nat
        /\ \A i \in DOMAIN c, j \in 1 .. Len(q) : c[i].id < q[j].id
        /\ \A i \in DOMAIN c : c[i].id < n
    BY PromptParts DEF Ordered, Ascending, Below, Before
  <2>2. \A i \in DOMAIN r : i \in 1 .. Len(q) \/ i = Len(q) + 1
    BY <1>2
  <2>3. Ascending(r)
    <3> SUFFICES ASSUME NEW i \in DOMAIN r, NEW j \in DOMAIN r, i < j PROVE r[i].id < r[j].id
      BY DEF Ascending
    <3>1. i \in 1 .. Len(q)
      BY <1>2
    <3> QED BY <1>2, <2>1, <2>2, <3>1
  <2>4. Below(r, n + 1)
    BY <1>2, <2>1, <2>2 DEF Below
  <2>5. Before(c, r)
    BY <1>2, <2>1, <2>2 DEF Before
  <2> QED BY <2>3, <2>4, <2>5
<1>5. Ascending(c) /\ Below(c, n + 1)
  BY PromptParts DEF Ordered, Below
<1>6. /\ DOMAIN p = 1 .. Len(p)
      /\ \A i \in DOMAIN p : p[i].kind = "Run" => p[i].id \in Nat /\ p[i].id < n
      /\ \A i \in DOMAIN c : c[i].id \in Nat /\ c[i].id < n
  BY PendingParts, PromptParts DEF Ordered, Below
<1>7. \A i, j \in DOMAIN s : i < j /\ s[i].kind = "Run" /\ s[j].kind = "Run" => s[i].id < s[j].id
  <2> SUFFICES ASSUME NEW i \in DOMAIN s, NEW j \in DOMAIN s, i < j,
                      s[i].kind = "Run", s[j].kind = "Run"
               PROVE  s[i].id < s[j].id
    OBVIOUS
  <2>1. i \in DOMAIN p /\ s[i] = p[i]
    BY <1>3, <1>6
  <2>2. CASE j \in DOMAIN p
    BY <1>3, <1>6, <2>1, <2>2 DEF Ordered
  <2>3. CASE j = Len(p) + 1
    BY <1>3, <1>6, <2>1, <2>3
  <2> QED BY <1>3, <1>6, <2>2, <2>3
<1>8. \A i \in DOMAIN s : s[i].kind = "Run" => s[i].id < n + 1 /\ \A k \in DOMAIN c : c[k].id < s[i].id
  <2> SUFFICES ASSUME NEW i \in DOMAIN s, s[i].kind = "Run"
               PROVE  s[i].id < n + 1 /\ \A k \in DOMAIN c : c[k].id < s[i].id
    OBVIOUS
  <2>1. CASE i \in DOMAIN p
    BY <1>3, <1>6, <2>1 DEF Ordered
  <2>2. CASE i = Len(p) + 1
    BY <1>3, <1>6, <2>2
  <2> QED BY <1>3, <1>6, <2>1, <2>2
<1>9. ASSUME Promises(q, p) PROVE Promises(r, s)
  <2> SUFFICES ASSUME NEW i \in DOMAIN r PROVE PendsIn(s, r[i].id)
    BY DEF Promises
  <2>1. CASE i = Len(q) + 1
    BY <1>2, <1>3, <2>1 DEF PendsIn
  <2>2. CASE i \in 1 .. Len(q)
    <3>1. i \in DOMAIN q
      BY <2>2, PromptParts
    <3>2. PICK j \in DOMAIN p : p[j].kind = "Run" /\ p[j].id = q[i].id
      BY <1>9, <3>1 DEF Promises, PendsIn
    <3>3. j \in DOMAIN s /\ s[j] = p[j]
      BY <1>3, PendingParts
    <3> QED BY <1>2, <2>2, <3>2, <3>3 DEF PendsIn
  <2> QED BY <1>2, <2>1, <2>2
<1> QED BY <1>4, <1>5, <1>7, <1>8, <1>9 DEF Ordered, r, s

\* A submission that claims nothing goes on its way.
LEMMA SendOther ==
  ASSUME NEW q \in Seq(Prompts), NEW n \in Nat, NEW p \in Seq(Submissions),
         NEW c \in Seq(Prompts), NEW m \in Submissions, m.kind # "Run",
         Ordered(q, n, p, c)
  PROVE  /\ Ordered(q, n, Append(p, m), c)
         /\ Promises(q, p) => Promises(q, Append(p, m))
<1>1. /\ DOMAIN Append(p, m) = 1 .. Len(p) + 1 /\ Len(p) \in Nat /\ DOMAIN p = 1 .. Len(p)
      /\ \A i \in 1 .. Len(p) : Append(p, m)[i] = p[i]
      /\ Append(p, m)[Len(p) + 1] = m
  BY AppendParts, PendingParts
<1> DEFINE s == Append(p, m)
<1>2. DOMAIN p \subseteq DOMAIN s /\ (\A i \in DOMAIN p : s[i] = p[i])
      /\ (\A i \in DOMAIN s : s[i].kind = "Run" => i \in DOMAIN p)
  BY <1>1
<1> HIDE DEF s
<1>3. Ordered(q, n, s, c)
  BY <1>2 DEF Ordered
<1>4. Promises(q, p) => Promises(q, s)
  BY <1>2 DEF Promises, PendsIn
<1> QED BY <1>3, <1>4 DEF s

\* A submission taken that claims nothing that waits.
LEMMA TakeOther ==
  ASSUME NEW q \in Seq(Prompts), NEW n \in Nat, NEW p \in Seq(Submissions),
         NEW c \in Seq(Prompts), p # <<>>,
         Ordered(q, n, p, c)
  PROVE  /\ Ordered(q, n, Tail(p), c)
         /\ Promises(q, p) /\ (Head(p).kind = "Run" => ~Waits(q, Head(p).id))
              => Promises(q, Tail(p))
<1> DEFINE s == Tail(p)
<1>1. /\ Head(p) = p[1] /\ Len(p) \in Nat \ {0} /\ DOMAIN s = 1 .. Len(p) - 1
      /\ DOMAIN p = 1 .. Len(p)
      /\ \A i \in 1 .. Len(p) - 1 : s[i] = p[i + 1]
  BY TailParts, PendingParts
<1> HIDE DEF s
<1>2. \A i \in DOMAIN s : i + 1 \in DOMAIN p /\ s[i] = p[i + 1]
  BY <1>1
<1>3. \A i, j \in DOMAIN s : i < j => i + 1 < j + 1
  BY <1>1
<1>4. Ordered(q, n, s, c)
  BY <1>2, <1>3 DEF Ordered
<1>5. ASSUME Promises(q, p), Head(p).kind = "Run" => ~Waits(q, Head(p).id) PROVE Promises(q, s)
  <2> SUFFICES ASSUME NEW i \in DOMAIN q PROVE PendsIn(s, q[i].id)
    BY DEF Promises
  <2>1. PICK j \in DOMAIN p : p[j].kind = "Run" /\ p[j].id = q[i].id
    BY <1>5 DEF Promises, PendsIn
  <2>2. j # 1
    BY <1>1, <1>5, <2>1 DEF Waits
  <2>3. j - 1 \in DOMAIN s /\ s[j - 1] = p[j]
    BY <1>1, <2>2
  <2> QED BY <2>1, <2>3 DEF PendsIn
<1> QED BY <1>4, <1>5 DEF s

\* A prompt dropped or taken back leaves the rest in order, each still promised.
LEMMA RemoveOrder ==
  ASSUME NEW q \in Seq(Prompts), NEW n \in Nat, NEW p \in Seq(Submissions),
         NEW c \in Seq(Prompts), NEW id,
         Ordered(q, n, p, c)
  PROVE  /\ Ordered(RemoveId(q, id), n, p, c)
         /\ Promises(q, p) => Promises(RemoveId(q, id), p)
<1> DEFINE r == RemoveId(q, id)
<1>1. \A j \in DOMAIN r : \E i \in DOMAIN q : r[j] = q[i]
  BY RemoveIdFacts, QueuesArePrompts
<1>2. Ascending(r)
  BY RemoveIdAscends, QueuesArePrompts DEF Ordered
<1> HIDE DEF r
<1>3. Below(r, n) /\ Before(c, r)
  BY <1>1 DEF Ordered, Below, Before
<1>4. Ordered(r, n, p, c)
  BY <1>2, <1>3 DEF Ordered
<1>5. Promises(q, p) => Promises(r, p)
  BY <1>1 DEF Promises
<1> QED BY <1>4, <1>5 DEF r

\* The claim at the front takes a prompt older than all that wait: its id is the
\* least that is still promised.
LEMMA ClaimOrder ==
  ASSUME NEW q \in Seq(Prompts), NEW n \in Nat, NEW p \in Seq(Submissions),
         NEW c \in Seq(Prompts), NEW id \in Nat, NEW t \in Texts,
         p # <<>>, Head(p).kind = "Run", Head(p).id = id,
         Ordered(q, n, p, c), Promises(q, p)
  PROVE  /\ Ordered(RemoveId(q, id), n, Tail(p), Append(c, Entry(id, t)))
         /\ Promises(RemoveId(q, id), Tail(p))
<1> DEFINE r == RemoveId(q, id)
           s == Tail(p)
           d == Append(c, Entry(id, t))
<1>1. r \in Seq(Prompts) /\ ~Waits(r, id)
  BY RemoveIdType, RemoveIdAscends, QueuesArePrompts DEF Ordered
<1>2. Ordered(r, n, p, c) /\ Promises(r, p)
  BY RemoveOrder
<1>3. Ordered(r, n, s, c) /\ Promises(r, s)
  BY <1>1, <1>2, TakeOther
<1>4. /\ Head(p) = p[1] /\ Len(p) \in Nat \ {0} /\ DOMAIN s = 1 .. Len(p) - 1
      /\ DOMAIN p = 1 .. Len(p) /\ 1 \in DOMAIN p
      /\ \A i \in 1 .. Len(p) - 1 : s[i] = p[i + 1]
  BY TailParts, PendingParts
<1>5. /\ DOMAIN d = 1 .. Len(c) + 1 /\ Len(c) \in Nat /\ DOMAIN c = 1 .. Len(c)
      /\ \A i \in 1 .. Len(c) : d[i] = c[i]
      /\ d[Len(c) + 1].id = id
  BY PromptTypes, PromptParts, AppendParts DEF Entry, Ids
<1> HIDE DEF r, s, d
<1>6. id < n /\ \A k \in DOMAIN c : c[k].id < id
  BY <1>2, <1>4 DEF Ordered
<1>7. \A i \in DOMAIN s : s[i].kind = "Run" => id < s[i].id
  <2> SUFFICES ASSUME NEW i \in DOMAIN s, s[i].kind = "Run" PROVE id < s[i].id
    OBVIOUS
  <2>1. i + 1 \in DOMAIN p /\ 1 < i + 1 /\ s[i] = p[i + 1]
    BY <1>4
  <2> QED BY <1>2, <1>4, <2>1 DEF Ordered
<1>8. \A i \in DOMAIN r : id < r[i].id
  <2> SUFFICES ASSUME NEW i \in DOMAIN r PROVE id < r[i].id
    OBVIOUS
  <2>1. PICK j \in DOMAIN s : s[j].kind = "Run" /\ s[j].id = r[i].id
    BY <1>3 DEF Promises, PendsIn
  <2> QED BY <1>7, <2>1
<1>9. Ascending(d) /\ Below(d, n) /\ Before(d, r)
  <2>1. Ascending(c) /\ Below(c, n) /\ Before(c, r)
    BY <1>3 DEF Ordered
  <2>2. \A i \in DOMAIN d : i \in 1 .. Len(c) \/ i = Len(c) + 1
    BY <1>5
  <2>3. Ascending(d)
    <3> SUFFICES ASSUME NEW i \in DOMAIN d, NEW j \in DOMAIN d, i < j PROVE d[i].id < d[j].id
      BY DEF Ascending
    <3>1. i \in 1 .. Len(c)
      BY <1>5
    <3> QED BY <1>5, <1>6, <2>1, <2>2, <3>1 DEF Ascending
  <2>4. Below(d, n)
    BY <1>5, <1>6, <2>1, <2>2 DEF Below
  <2>5. Before(d, r)
    BY <1>5, <1>8, <2>1, <2>2 DEF Before
  <2> QED BY <2>3, <2>4, <2>5
<1>10. \A i \in DOMAIN s : s[i].kind = "Run" => s[i].id < n /\ \A k \in DOMAIN d : d[k].id < s[i].id
  BY <1>3, <1>5, <1>7 DEF Ordered
<1>11. Ordered(r, n, s, d)
  BY <1>3, <1>9, <1>10 DEF Ordered
<1> QED BY <1>3, <1>11 DEF r, s, d

\* An emptied queue, an emptied channel.
LEMMA EmptyOrder ==
  ASSUME NEW q \in Seq(Prompts), NEW n \in Nat, NEW p \in Seq(Submissions),
         NEW c \in Seq(Prompts), Ordered(q, n, p, c)
  PROVE  /\ Ordered(<<>>, n, p, c) /\ Promises(<<>>, p)
         /\ Ordered(q, n, <<>>, c)
BY DEF Ordered, Promises, Ascending, Below, Before

\* A save keeps every id in its place.
LEMMA ReplaceOrder ==
  ASSUME NEW q \in Seq(Prompts), NEW n \in Nat, NEW p \in Seq(Submissions),
         NEW c \in Seq(Prompts), NEW id \in Nat, NEW t \in Texts,
         Ordered(q, n, p, c)
  PROVE  /\ Ordered(ReplaceId(q, id, t), n, p, c)
         /\ Promises(q, p) => Promises(ReplaceId(q, id, t), p)
<1> DEFINE r == ReplaceId(q, id, t)
<1>1. DOMAIN r = DOMAIN q /\ \A i \in DOMAIN q : r[i].id = q[i].id
  BY DEF ReplaceId, Entry
<1> HIDE DEF r
<1>2. Ordered(r, n, p, c) /\ (Promises(q, p) => Promises(r, p))
  BY <1>1 DEF Ordered, Ascending, Below, Before, Promises
<1> QED BY <1>2 DEF r

\* What a frame hands back goes behind everything, under the next ids.
LEMMA FrameOrder ==
  ASSUME NEW q \in Seq(Prompts), NEW n \in Nat, NEW p \in Seq(Submissions),
         NEW c \in Seq(Prompts), NEW r \in Seq(Prompts), NEW s \in Seq(Submissions),
         Len(r) = Len(s), \A i \in 1 .. Len(r) : r[i].id = n + i - 1 /\ s[i] = RunMsg(n + i - 1),
         Ordered(q, n, p, c)
  PROVE  /\ Ordered(q \o r, n + Len(r), p \o s, c)
         /\ Promises(q, p) => Promises(q \o r, p \o s)
<1> DEFINE qr == q \o r
           ps == p \o s
           lq == Len(q)
           lp == Len(p)
           k == Len(r)
<1>1. /\ lq \in Nat /\ lp \in Nat /\ k \in Nat /\ DOMAIN q = 1 .. lq /\ DOMAIN p = 1 .. lp
      /\ DOMAIN qr = 1 .. lq + k /\ DOMAIN ps = 1 .. lp + k
  <2>1. lq \in Nat /\ k \in Nat /\ DOMAIN q = 1 .. lq
    BY PromptParts
  <2>2. lp \in Nat /\ DOMAIN p = 1 .. lp
    BY PendingParts
  <2>3. DOMAIN qr = 1 .. lq + k
    BY ConcatParts
  <2>4. DOMAIN ps = 1 .. lp + Len(s)
    BY ConcatParts
  <2> QED BY <2>1, <2>2, <2>3, <2>4
<1>2. /\ \A i \in 1 .. lq : qr[i] = q[i]
      /\ \A i \in 1 .. lp : ps[i] = p[i]
  <2>1. \A i \in 1 .. lq : qr[i] = q[i]
    BY ConcatParts
  <2>2. \A i \in 1 .. lp : ps[i] = p[i]
    BY ConcatParts
  <2> QED BY <2>1, <2>2
<1>3. /\ \A i \in lq + 1 .. lq + k : qr[i] = r[i - lq]
      /\ \A i \in lp + 1 .. lp + k : ps[i] = s[i - lp]
  <2>1. \A i \in lq + 1 .. lq + k : qr[i] = r[i - lq]
    BY ConcatParts
  <2>2. \A i \in lp + 1 .. lp + Len(s) : ps[i] = s[i - lp]
    BY ConcatParts
  <2> QED BY <2>1, <2>2
<1>4. \A i \in 1 .. k : r[i].id = n + i - 1 /\ s[i].kind = "Run" /\ s[i].id = n + i - 1
  <2>1. \A m : RunMsg(m).kind = "Run" /\ RunMsg(m).id = m
    BY DEF RunMsg, Submission
  <2> QED BY <2>1
<1>5. \A i \in lq + 1 .. lq + k : qr[i].id = n + (i - lq) - 1
  BY <1>1, <1>3, <1>4
<1>6. \A i \in lp + 1 .. lp + k : ps[i].kind = "Run" /\ ps[i].id = n + (i - lp) - 1
  <2>1. \A i \in lp + 1 .. lp + k : i - lp \in 1 .. k
    BY <1>1
  <2> HIDE DEF qr, ps, lq, lp, k
  <2> QED BY <1>3, <1>4, <2>1
<1>7. \A i \in 1 .. lq : q[i].id \in Nat /\ q[i].id < n
  BY <1>1, PromptParts DEF Ordered, Below
<1>8. \A i \in 1 .. lp : p[i].kind = "Run" => p[i].id \in Nat /\ p[i].id < n
  BY <1>1, PendingParts DEF Ordered
<1>9. \A i \in DOMAIN c : c[i].id \in Nat /\ c[i].id < n
  BY PromptParts DEF Ordered, Below
<1> HIDE DEF qr, ps, lq, lp, k
<1>10. Ascending(qr)
  <2> SUFFICES ASSUME NEW i \in DOMAIN qr, NEW j \in DOMAIN qr, i < j PROVE qr[i].id < qr[j].id
    BY DEF Ascending
  <2>1. CASE j \in 1 .. lq
    <3>1. i \in 1 .. lq
      BY <1>1, <2>1
    <3> QED BY <1>1, <1>2, <2>1, <3>1 DEF Ordered, Ascending
  <2>2. CASE i \in 1 .. lq /\ j \in lq + 1 .. lq + k
    BY <1>1, <1>2, <1>5, <1>7, <2>2
  <2>3. CASE i \in lq + 1 .. lq + k /\ j \in lq + 1 .. lq + k
    BY <1>1, <1>5, <2>3
  <2> QED BY <1>1, <2>1, <2>2, <2>3
<1>11. Below(qr, n + k) /\ Before(c, qr)
  <2> SUFFICES ASSUME NEW i \in DOMAIN qr
               PROVE  qr[i].id < n + k /\ \A j \in DOMAIN c : c[j].id < qr[i].id
    BY DEF Below, Before
  <2>1. CASE i \in 1 .. lq
    BY <1>1, <1>2, <1>7, <2>1 DEF Ordered, Before
  <2>2. CASE i \in lq + 1 .. lq + k
    BY <1>1, <1>5, <1>9, <2>2
  <2> QED BY <1>1, <2>1, <2>2
<1>12. \A i, j \in DOMAIN ps :
         i < j /\ ps[i].kind = "Run" /\ ps[j].kind = "Run" => ps[i].id < ps[j].id
  <2> SUFFICES ASSUME NEW i \in DOMAIN ps, NEW j \in DOMAIN ps, i < j,
                      ps[i].kind = "Run", ps[j].kind = "Run"
               PROVE  ps[i].id < ps[j].id
    OBVIOUS
  <2>1. CASE j \in 1 .. lp
    <3>1. i \in 1 .. lp
      BY <1>1, <2>1
    <3> QED BY <1>1, <1>2, <2>1, <3>1 DEF Ordered
  <2>2. CASE i \in 1 .. lp /\ j \in lp + 1 .. lp + k
    BY <1>1, <1>2, <1>6, <1>8, <2>2
  <2>3. CASE i \in lp + 1 .. lp + k /\ j \in lp + 1 .. lp + k
    BY <1>1, <1>6, <2>3
  <2> QED BY <1>1, <2>1, <2>2, <2>3
<1>13. \A i \in DOMAIN ps :
         ps[i].kind = "Run" => ps[i].id < n + k /\ \A j \in DOMAIN c : c[j].id < ps[i].id
  <2> SUFFICES ASSUME NEW i \in DOMAIN ps, ps[i].kind = "Run"
               PROVE  ps[i].id < n + k /\ \A j \in DOMAIN c : c[j].id < ps[i].id
    OBVIOUS
  <2>1. CASE i \in 1 .. lp
    BY <1>1, <1>2, <1>8, <2>1 DEF Ordered
  <2>2. CASE i \in lp + 1 .. lp + k
    BY <1>1, <1>6, <1>9, <2>2
  <2> QED BY <1>1, <2>1, <2>2
<1>14. Ascending(c) /\ Below(c, n + k)
  BY <1>1, <1>9 DEF Ordered, Below
<1>15. ASSUME Promises(q, p) PROVE Promises(qr, ps)
  <2> SUFFICES ASSUME NEW i \in DOMAIN qr PROVE PendsIn(ps, qr[i].id)
    BY DEF Promises
  <2>1. CASE i \in 1 .. lq
    <3>1. PICK j \in DOMAIN p : p[j].kind = "Run" /\ p[j].id = q[i].id
      BY <1>1, <1>15, <2>1 DEF Promises, PendsIn
    <3>2. j \in DOMAIN ps /\ ps[j] = p[j] /\ qr[i] = q[i]
      BY <1>1, <1>2, <2>1
    <3> QED BY <3>1, <3>2 DEF PendsIn
  <2>2. CASE i \in lq + 1 .. lq + k
    <3>1. lp + (i - lq) \in lp + 1 .. lp + k
      BY <1>1, <2>2
    <3>2. ps[lp + (i - lq)].kind = "Run" /\ ps[lp + (i - lq)].id = qr[i].id
      BY <1>1, <1>5, <1>6, <2>2, <3>1
    <3> QED BY <1>1, <3>1, <3>2 DEF PendsIn
  <2> QED BY <1>1, <2>1, <2>2
<1>16. Ordered(qr, n + k, ps, c)
  BY <1>10, <1>11, <1>12, <1>13, <1>14 DEF Ordered
<1> QED BY <1>15, <1>16 DEF qr, ps, k

-----------------------------------------------------------------------------
(* The driver's steps.                                                     *)

LEMMA OrderTypes ==
  ASSUME TypeOK
  PROVE  /\ queued \in Seq(Prompts) /\ claims \in Seq(Prompts) /\ nextId \in Nat
         /\ channel \in Seq(Submissions) /\ revived \in Seq(Submissions)
         /\ Pending \in Seq(Submissions)
BY ConcatParts DEF TypeOK, QueueType, ChannelType, DriverType, GhostType, Pending

LEMMA OrderParts ==
  SendOrder <=> /\ Ordered(queued, nextId, Pending, claims)
                /\ ~shuttingDown => Promises(queued, Pending)
                /\ pc = "parked" => revived = <<>>
                /\ app # "live" => shuttingDown
BY DEF SendOrder, NoneStranded, Promises

\* A step that touches neither the queue nor the pending submissions nor the claims.
LEMMA SameOrder ==
  ASSUME SendOrder, UNCHANGED <<queued, nextId, Pending, claims>>,
         shuttingDown => shuttingDown',
         pc' = "parked" => revived' = <<>>,
         app' # "live" => shuttingDown'
  PROVE  SendOrder'
BY OrderParts DEF SendOrder, NoneStranded

\* A submission handled is the front of what is pending.
LEMMA HandleOrder ==
  ASSUME TypeOK, SendOrder, ~shuttingDown, Pending # <<>>,
         Handle(Head(Pending)), Pending' = Tail(Pending), app' = app
  PROVE  SendOrder'
<1> DEFINE m == Head(Pending)
<1>1. /\ Ordered(queued, nextId, Pending, claims) /\ Promises(queued, Pending)
      /\ app # "live" => shuttingDown
  BY OrderParts
<1>2. m \in Submissions
  BY OrderTypes, SeqTypes
<1>3. nextId' = nextId /\ pc' # "parked" /\ shuttingDown' = shuttingDown
  BY DEF Handle, HandleRun, HandleCorrect, HandleCommand, StartRun, Continue, queueVars
<1>4. Ordered(queued, nextId, Pending, claims)' /\ Promises(queued, Pending)'
  <2>1. CASE m.kind = "Run" /\ Claimable(m.id)
    <3>1. m.id \in Nat /\ Waits(queued, m.id)
      BY <1>2, <2>1, MessageParts DEF Claimable, Ids
    <3>2. TextOf(queued, m.id) \in Texts
      BY <3>1, OrderTypes, QueuesArePrompts, TextOfType
    <3>3. /\ queued' = RemoveId(queued, m.id)
          /\ claims' = Append(claims, Entry(m.id, TextOf(queued, m.id)))
      BY <2>1 DEF Handle, HandleRun, CommandKinds
    <3>4. /\ Ordered(RemoveId(queued, m.id), nextId, Tail(Pending),
                     Append(claims, Entry(m.id, TextOf(queued, m.id))))
          /\ Promises(RemoveId(queued, m.id), Tail(Pending))
      <4> DEFINE id == m.id
                 t == TextOf(queued, id)
      <4>1. Head(Pending).kind = "Run" /\ Head(Pending).id = id /\ id \in Nat /\ t \in Texts
        BY <2>1, <3>1, <3>2
      <4> HIDE DEF id, t
      <4>2. /\ Ordered(RemoveId(queued, id), nextId, Tail(Pending), Append(claims, Entry(id, t)))
            /\ Promises(RemoveId(queued, id), Tail(Pending))
        BY <1>1, <4>1, OrderTypes, ClaimOrder
      <4> QED BY <4>2 DEF id, t
    <3> HIDE DEF m
    <3> QED BY <1>3, <3>3, <3>4
  <2>2. CASE ~(m.kind = "Run" /\ Claimable(m.id))
    <3>1. UNCHANGED <<queued, claims>>
      BY <2>2 DEF Handle, HandleRun, HandleCorrect, HandleCommand, queueVars
    <3>2. m.kind = "Run" => ~Waits(queued, m.id)
      BY <2>2 DEF Claimable
    <3>3. Ordered(queued, nextId, Tail(Pending), claims) /\ Promises(queued, Tail(Pending))
      BY <1>1, <3>2, OrderTypes, TakeOther
    <3> QED BY <1>3, <3>1, <3>3
  <2> QED BY <2>1, <2>2
<1>5. SendOrder'
  BY <1>1, <1>3, <1>4 DEF SendOrder, NoneStranded, Promises
<1> QED BY <1>5

\* What the driver takes is the oldest of what is on its way.
LEMMA TakePends ==
  ASSUME TypeOK, SendOrder, TakeRevived \/ TakeChannel \/ Wake
  PROVE  Pending # <<>> /\ Handle(Head(Pending)) /\ Pending' = Tail(Pending)
<1>1. CASE TakeRevived
  <2>1. Pending' = Tail(revived) \o channel /\ revived # <<>> /\ Handle(Head(revived))
    BY <1>1 DEF TakeRevived, Pending
  <2>2. Pending # <<>> /\ Head(Pending) = Head(revived) /\ Tail(Pending) = Tail(revived) \o channel
    BY <2>1, OrderTypes, ConcatTail DEF Pending
  <2> QED BY <2>1, <2>2
<1>2. CASE TakeChannel \/ Wake
  <2>1. revived = <<>> /\ revived' = <<>>
    BY <1>2, OrderParts DEF TakeChannel, Wake
  <2>2. channel # <<>> /\ Handle(Head(channel)) /\ channel' = Tail(channel)
    BY <1>2 DEF TakeChannel, Wake
  <2>3. Pending = channel /\ Pending' = Tail(channel)
    BY <2>1, <2>2, OrderTypes, SeqTypes, ConcatTail DEF Pending
  <2> QED BY <2>2, <2>3
<1> QED BY <1>1, <1>2

LEMMA TakeOrder == TypeOK /\ SendOrder /\ (TakeRevived \/ TakeChannel \/ Wake) => SendOrder'
<1> SUFFICES ASSUME TypeOK, SendOrder, TakeRevived \/ TakeChannel \/ Wake PROVE SendOrder'
  OBVIOUS
<1>1. ~shuttingDown /\ app' = app
  BY DEF TakeRevived, TakeChannel, Wake, panelVars
<1>2. Pending # <<>> /\ Handle(Head(Pending)) /\ Pending' = Tail(Pending)
  BY TakePends
<1> QED BY <1>1, <1>2, HandleOrder

\* The loop's end empties what was pending, under the flag.
LEMMA EndOrder ==
  ASSUME TypeOK, SendOrder, shuttingDown', UNCHANGED claims,
         revived' = <<>>, channel' = <<>>,
         \/ UNCHANGED queueVars
         \/ /\ queued' = Push(queued, nextId, runText) /\ nextId' = nextId + 1
            /\ runText \in Texts
  PROVE  SendOrder'
<1>1. Pending' = <<>>
  BY DEF Pending
<1>2. Ordered(queued, nextId, Pending, claims)
  BY OrderParts
<1>3. CASE UNCHANGED queueVars
  <2>1. Ordered(queued, nextId, <<>>, claims)
    BY <1>2, OrderTypes, EmptyOrder
  <2> QED BY <1>1, <1>3, <2>1 DEF SendOrder, NoneStranded, queueVars
<1>4. CASE /\ queued' = Push(queued, nextId, runText) /\ nextId' = nextId + 1
           /\ runText \in Texts
  <2> DEFINE q == Push(queued, nextId, runText)
             p == Append(Pending, RunMsg(nextId))
  <2>1. Ordered(q, nextId + 1, p, claims)
    BY <1>2, <1>4, OrderTypes, SubmitOrder
  <2>2. q \in Seq(Prompts) /\ nextId + 1 \in Nat /\ p \in Seq(Submissions)
    <3>1. queued \in Queues(Texts) /\ nextId \in Nat /\ runText \in Texts
      BY <1>4, OrderTypes, QueuesArePrompts
    <3>2. q \in Seq(Prompts)
      BY <3>1, PushFacts, QueuesArePrompts
    <3>3. p \in Seq(Submissions)
      BY <3>1, OrderTypes, MessageTypes, SeqTypes DEF Ids
    <3> QED BY <3>1, <3>2, <3>3
  <2> HIDE DEF q, p
  <2>3. Ordered(q, nextId + 1, <<>>, claims)
    BY <2>1, <2>2, OrderTypes, EmptyOrder
  <2> QED BY <1>1, <1>4, <2>3 DEF SendOrder, NoneStranded, q
<1> QED BY <1>3, <1>4

LEMMA LeaveOrder == TypeOK /\ SendOrder /\ Leave => SendOrder'
<1> SUFFICES ASSUME TypeOK, SendOrder, Leave PROVE SendOrder'
  OBVIOUS
<1>1. /\ shuttingDown' /\ UNCHANGED <<queueVars, claims>> /\ revived' = <<>> /\ channel' = <<>>
  BY DEF Leave, EndWithRescue, ghostVars
<1> QED BY <1>1, EndOrder

\* What a run's end pulls ahead keeps its order.
LEMMA RunOverPends ==
  ASSUME TypeOK, RunFinishes \/ RunCancelled
  PROVE  Pending' = Pending
<1>1. CASE UNCHANGED <<revived, channel>>
  BY <1>1 DEF Pending
<1>2. CASE ~UNCHANGED <<revived, channel>>
  <2> DEFINE id == correctionCancel
  <2>1. revived' = revived \o Pulled(id) /\ channel' = LeftInChannel(id)
    BY <1>2 DEF RunFinishes, RunCancelled
  <2>2. /\ Pulled(id) \in Seq(Submissions) /\ LeftInChannel(id) \in Seq(Submissions)
        /\ Pulled(id) \o LeftInChannel(id) = channel
    BY OrderTypes, PulledFacts
  <2> HIDE DEF id
  <2>3. (revived \o Pulled(id)) \o LeftInChannel(id) = revived \o channel
    <3> DEFINE P == Pulled(id)
               L == LeftInChannel(id)
    <3>1. P \in Seq(Submissions) /\ L \in Seq(Submissions) /\ revived \in Seq(Submissions)
      BY <2>2, OrderTypes
    <3>2. P \o L = channel
      BY <2>2
    <3> HIDE DEF P, L
    <3>3. (revived \o P) \o L = revived \o (P \o L)
      BY <3>1, ConcatAssociates
    <3>4. (revived \o P) \o L = revived \o channel
      BY <3>2, <3>3
    <3> QED BY <3>4 DEF P, L
  <2> QED BY <2>1, <2>3 DEF Pending
<1> QED BY <1>1, <1>2

LEMMA RunOverOrder == TypeOK /\ SendOrder /\ (RunFinishes \/ RunCancelled) => SendOrder'
<1> SUFFICES ASSUME TypeOK, SendOrder, RunFinishes \/ RunCancelled PROVE SendOrder'
  OBVIOUS
<1>1. /\ UNCHANGED <<queued, nextId, claims, shuttingDown, app>> /\ pc' = "loop"
  BY DEF RunFinishes, RunCancelled, RunOver, panelVars, ghostVars
<1>2. Pending' = Pending
  BY RunOverPends
<1>3. app' # "live" => shuttingDown'
  BY <1>1, OrderParts
<1> QED BY <1>1, <1>2, <1>3, SameOrder

LEMMA RunCancelledByExitOrder == TypeOK /\ SendOrder /\ RunCancelledByExit => SendOrder'
<1> SUFFICES ASSUME TypeOK, SendOrder, RunCancelledByExit PROVE SendOrder'
  OBVIOUS
<1>1. shuttingDown' /\ UNCHANGED claims /\ runText \in Texts
  BY DEF RunCancelledByExit, ghostVars, TypeOK
<1>2. revived' = <<>> /\ channel' = <<>>
  BY DEF RunCancelledByExit, EndWithRescue
<1>3. \/ UNCHANGED queueVars
      \/ queued' = Push(queued, nextId, runText) /\ nextId' = nextId + 1
  BY DEF RunCancelledByExit
<1> QED BY <1>1, <1>2, <1>3, EndOrder

LEMMA DriverRestOrder ==
  TypeOK /\ SendOrder /\ (Park \/ TurnBoundary \/ SlotSeals \/ ApplyCommand) => SendOrder'
<1> SUFFICES ASSUME TypeOK, SendOrder, Park \/ TurnBoundary \/ SlotSeals \/ ApplyCommand
             PROVE  SendOrder'
  OBVIOUS
<1>1. UNCHANGED <<queued, nextId, revived, channel, claims, shuttingDown, app>>
  BY DEF Park, TurnBoundary, DrainsSlot, TurnStarts, SlotSeals, ApplyCommand, queueVars,
         channelVars, signalVars, driverVars,
         panelVars, ghostVars
<1>2. pc' = "parked" => revived' = <<>>
  BY DEF Park, TurnBoundary, DrainsSlot, TurnStarts, SlotSeals, ApplyCommand, driverVars
<1> QED BY <1>1, <1>2, SameOrder, OrderParts DEF Pending

-----------------------------------------------------------------------------
(* The panel's steps.                                                      *)

\* The queue a key leaves before its words go anywhere.
LeavesOrdered(q) ==
  /\ q \in Seq(Prompts)
  /\ Ordered(q, nextId, Pending, claims)
  /\ ~shuttingDown => Promises(q, Pending)

LEMMA QueueLeft ==
  ASSUME TypeOK, SendOrder
  PROVE  /\ LeavesOrdered(queued) /\ LeavesOrdered(<<>>)
         /\ \A id : LeavesOrdered(RemoveId(queued, id))
<1>1. LeavesOrdered(queued)
  BY OrderTypes, OrderParts DEF LeavesOrdered
<1>2. LeavesOrdered(<<>>)
  BY OrderTypes, OrderParts, EmptyOrder, SeqTypes DEF LeavesOrdered
<1>3. ASSUME NEW id PROVE LeavesOrdered(RemoveId(queued, id))
  BY OrderTypes, OrderParts, RemoveOrder, RemoveIdType DEF LeavesOrdered
<1> QED BY <1>1, <1>2, <1>3

\* A key that only changes what waits.
LEMMA QueueOrder ==
  ASSUME TypeOK, SendOrder, NEW q, LeavesOrdered(q), queued' = q,
         UNCHANGED <<nextId, channel, revived, claims, shuttingDown, pc, app>>
  PROVE  SendOrder'
<1>1. Pending' = Pending
  BY DEF Pending
<1> QED BY <1>1, OrderParts DEF LeavesOrdered, SendOrder, NoneStranded, Promises

\* A key that sends a message which claims nothing.
LEMMA MessageOrder ==
  ASSUME TypeOK, SendOrder, NEW q, LeavesOrdered(q), queued' = q,
         NEW m \in Submissions, m.kind # "Run", channel' = Append(channel, m),
         UNCHANGED <<nextId, revived, claims, shuttingDown, pc, app>>
  PROVE  SendOrder'
<1>1. Pending' = Append(Pending, m)
  BY OrderTypes, ConcatAppend DEF Pending
<1>2. /\ Ordered(q, nextId, Append(Pending, m), claims)
      /\ ~shuttingDown => Promises(q, Append(Pending, m))
  BY OrderTypes, SendOther DEF LeavesOrdered
<1> QED BY <1>1, <1>2, OrderParts DEF SendOrder, NoneStranded, Promises

LEMMA SubmitTextOrder ==
  ASSUME TypeOK, SendOrder, NEW q, LeavesOrdered(q), NEW text \in Texts, SubmitText(q, text),
         UNCHANGED <<revived, claims, shuttingDown, pc, app>>
  PROVE  SendOrder'
<1>1. /\ queued' = Push(q, nextId, text) /\ nextId' = nextId + 1
      /\ channel' = Append(channel, RunMsg(nextId))
  BY DEF SubmitText
<1>2. RunMsg(nextId) \in Submissions
  BY OrderTypes, MessageTypes DEF Ids
<1>3. Pending' = Append(Pending, RunMsg(nextId))
  BY <1>1, <1>2, OrderTypes, ConcatAppend DEF Pending
<1>4. /\ Ordered(Push(q, nextId, text), nextId + 1, Append(Pending, RunMsg(nextId)), claims)
      /\ ~shuttingDown => Promises(Push(q, nextId, text), Append(Pending, RunMsg(nextId)))
  BY OrderTypes, SubmitOrder DEF LeavesOrdered
<1> QED BY <1>1, <1>3, <1>4, OrderParts DEF SendOrder, NoneStranded, Promises

LEMMA DeliverOrder ==
  ASSUME TypeOK, SendOrder, NEW q, LeavesOrdered(q), NEW text \in Texts,
         DeliverGuidance(q, text),
         UNCHANGED <<revived, claims, shuttingDown, pc, app>>
  PROVE  SendOrder'
<1>1. CASE steering.open
  <2>1. queued' = q /\ UNCHANGED <<nextId, channel>>
    BY <1>1 DEF DeliverGuidance
  <2> QED BY <2>1, QueueOrder
<1>2. CASE ~steering.open
  <2>1. SubmitText(q, text)
    BY <1>2 DEF DeliverGuidance
  <2> QED BY <2>1, SubmitTextOrder
<1> QED BY <1>1, <1>2

LEMMA SendKeysOrder == TypeOK /\ SendOrder /\ (SubmitPrompt \/ SteerNow \/ ConfirmSteer) => SendOrder'
<1> SUFFICES ASSUME TypeOK, SendOrder, SubmitPrompt \/ SteerNow \/ ConfirmSteer PROVE SendOrder'
  OBVIOUS
<1>1. UNCHANGED <<revived, claims, shuttingDown, pc, app>>
  BY DEF SubmitPrompt, SteerNow, ConfirmSteer, signalVars, driverVars
<1>2. CASE SubmitPrompt
  <2>1. Fresh \in Texts /\ SubmitText(queued, Fresh)
    BY <1>2, FreshType DEF SubmitPrompt
  <2> QED BY <1>1, <2>1, QueueLeft, SubmitTextOrder
<1>3. CASE SteerNow
  <2> DEFINE q == IF queueMode = "Editing" THEN RemoveId(queued, editing) ELSE queued
  <2>1. Fresh \in Texts /\ DeliverGuidance(q, Fresh)
    BY <1>3, FreshType DEF SteerNow
  <2>2. LeavesOrdered(q)
    BY QueueLeft
  <2> HIDE DEF q
  <2> QED BY <1>1, <2>1, <2>2, DeliverOrder
<1>4. CASE ConfirmSteer /\ ViewHolds /\ agentRunning
  <2> DEFINE q == RemoveId(queued, Viewed.id)
  <2>1. Viewed.text \in Texts /\ DeliverGuidance(q, Viewed.text)
    BY <1>4, ViewedType DEF ConfirmSteer
  <2>2. LeavesOrdered(q)
    BY QueueLeft
  <2> HIDE DEF q
  <2> QED BY <1>1, <2>1, <2>2, DeliverOrder
<1>5. CASE ConfirmSteer /\ ~(ViewHolds /\ agentRunning)
  <2>1. UNCHANGED <<queueVars, channel>>
    BY <1>5 DEF ConfirmSteer
  <2> QED BY <1>1, <2>1, QueueLeft, QueueOrder DEF queueVars
<1> QED BY <1>2, <1>3, <1>4, <1>5

LEMMA SheetOrder ==
  TypeOK /\ SendOrder /\ (FocusQueue \/ StepView \/ UnfocusQueue \/ AskConfirm \/ DeclineAsk
                          \/ OpenEdit \/ AbortEdit \/ ClosePicker \/ CancelRun)
    => SendOrder'
<1> SUFFICES ASSUME TypeOK, SendOrder,
                    FocusQueue \/ StepView \/ UnfocusQueue \/ AskConfirm \/ DeclineAsk
                      \/ OpenEdit \/ AbortEdit \/ ClosePicker \/ CancelRun
             PROVE  SendOrder'
  OBVIOUS
<1>1. UNCHANGED <<queued, nextId, channel, revived, claims, shuttingDown, pc, app>>
  BY DEF FocusQueue, StepView, UnfocusQueue, AskConfirm, DeclineAsk, OpenEdit, AbortEdit, ClosePicker,
         CancelRun, SheetOnly, queueVars, channelVars, signalVars, driverVars, panelVars, ghostVars
<1> QED BY <1>1, QueueLeft, QueueOrder

LEMMA ConfirmDropOrder == TypeOK /\ SendOrder /\ ConfirmDrop => SendOrder'
<1> SUFFICES ASSUME TypeOK, SendOrder, ConfirmDrop PROVE SendOrder'
  OBVIOUS
<1>1. UNCHANGED <<nextId, channel, revived, claims, shuttingDown, pc, app>>
  BY DEF ConfirmDrop, channelVars, signalVars, driverVars
<1>2. queued' = queued \/ queued' = RemoveId(queued, Viewed.id)
  BY DEF ConfirmDrop
<1> QED BY <1>1, <1>2, QueueLeft, QueueOrder

LEMMA CommitEditOrder == TypeOK /\ SendOrder /\ CommitEdit => SendOrder'
<1> SUFFICES ASSUME TypeOK, SendOrder, CommitEdit PROVE SendOrder'
  OBVIOUS
<1>1. /\ UNCHANGED <<nextId, revived, claims, shuttingDown, pc, app>>
      /\ Fresh \in Texts /\ editing \in IdsOrNone
  BY FreshType DEF CommitEdit, driverVars, TypeOK, PanelType
<1>2. CASE EditStillWaits
  <2> DEFINE q == ReplaceId(queued, editing, Fresh)
  <2>1. queued' = q /\ UNCHANGED channel
    BY <1>2 DEF CommitEdit
  <2>2. editing \in Nat
    BY <1>2, OrderTypes, QueuesArePrompts, TextOfType DEF EditStillWaits
  <2>3. q \in Seq(Prompts)
    BY <1>1, <2>2, OrderTypes, QueuesArePrompts, ReplaceIdFacts
  <2>4. Ordered(q, nextId, Pending, claims) /\ (~shuttingDown => Promises(q, Pending))
    BY <1>1, <2>2, OrderTypes, OrderParts, ReplaceOrder
  <2> HIDE DEF q
  <2>5. LeavesOrdered(q)
    BY <2>3, <2>4 DEF LeavesOrdered
  <2> QED BY <1>1, <2>1, <2>5, QueueOrder
<1>3. CASE ~EditStillWaits
  <2> DEFINE m == CorrectMsg(editing, Fresh)
  <2>1. queued' = queued /\ channel' = Append(channel, m)
    BY <1>3 DEF CommitEdit, CorrectClaimed
  <2>2. m \in Submissions /\ m.kind # "Run"
    BY <1>1, MessageTypes DEF CorrectMsg, Submission
  <2> HIDE DEF m
  <2> QED BY <1>1, <2>1, <2>2, QueueLeft, MessageOrder
<1> QED BY <1>2, <1>3

LEMMA CommandsOrder ==
  TypeOK /\ SendOrder /\ (ClearCommand \/ ResumeCommand \/ OtherCommand) => SendOrder'
<1> SUFFICES ASSUME TypeOK, SendOrder, ClearCommand \/ ResumeCommand \/ OtherCommand
             PROVE  SendOrder'
  OBVIOUS
<1>1. UNCHANGED <<nextId, revived, claims, shuttingDown, pc, app>>
  BY DEF ClearCommand, ResumeCommand, OtherCommand, queueVars, signalVars, driverVars
<1>2. queued' = queued \/ queued' = <<>>
  BY DEF ClearCommand, ResumeCommand, OtherCommand, EmptyQueue, queueVars
<1>3. PICK command \in Commands : channel' = Append(channel, CommandMsg(command))
  BY DEF ClearCommand, ResumeCommand, OtherCommand, CommandKey
<1>4. CommandMsg(command) \in Submissions /\ CommandMsg(command).kind # "Run"
  BY CommandsAssumption, MessageTypes DEF CommandMsg, Submission, CommandKinds
<1> QED BY <1>1, <1>2, <1>3, <1>4, QueueLeft, MessageOrder

LEMMA ApplyUpdateOrder == TypeOK /\ SendOrder /\ ApplyUpdate => SendOrder'
<1> SUFFICES ASSUME TypeOK, SendOrder, ApplyUpdate PROVE SendOrder'
  OBVIOUS
<1>1. UNCHANGED <<nextId, channel, revived, claims, shuttingDown, pc, app>>
  BY DEF ApplyUpdate, signalVars, driverVars
<1>2. queued' = queued \/ queued' = <<>>
  BY DEF ApplyUpdate
<1> QED BY <1>1, <1>2, QueueLeft, QueueOrder

LEMMA DrawFrameOrder ==
  ASSUME TypeOK, SendOrder, DrawFrame, app' # "live" => shuttingDown'
  PROVE  SendOrder'
<1> DEFINE taken == Returned
           r == [i \in DOMAIN taken |-> Entry(nextId + i - 1, taken[i])]
           s == [i \in DOMAIN taken |-> RunMsg(nextId + i - 1)]
<1>1. /\ queued' = queued \o r /\ nextId' = nextId + Len(taken) /\ channel' = channel \o s
      /\ UNCHANGED <<revived, claims, shuttingDown, pc>>
  BY DEF DrawFrame, Requeued, Promised, signalVars, driverVars, ghostVars
<1>2. taken \in Seq(Texts)
  BY ReturnedType
<1> HIDE DEF taken
<1>3. DOMAIN taken = 1 .. Len(taken) /\ Len(taken) \in Nat /\ \A i \in 1 .. Len(taken) : taken[i] \in Texts
  BY <1>2, ElementsTyped
<1>4. \A i \in 1 .. Len(taken) : /\ Entry(nextId + i - 1, taken[i]) \in Prompts
                                 /\ RunMsg(nextId + i - 1) \in Submissions
  BY <1>3, OrderTypes, PromptTypes, MessageTypes DEF Ids
<1>5. r \in Seq(Prompts) /\ s \in Seq(Submissions) /\ Len(r) = Len(taken) /\ Len(s) = Len(taken)
  BY <1>3, <1>4
<1>6. \A i \in 1 .. Len(taken) : r[i].id = nextId + i - 1 /\ s[i] = RunMsg(nextId + i - 1)
  BY <1>3 DEF Entry
<1> HIDE DEF r, s
<1>7. Pending' = Pending \o s
  <2>1. revived \in Seq(Submissions) /\ channel \in Seq(Submissions)
    BY OrderTypes
  <2>2. (revived \o channel) \o s = revived \o (channel \o s)
    BY <1>5, <2>1, ConcatAssociates
  <2> QED BY <1>1, <2>2 DEF Pending
<1>8. Ordered(queued, nextId, Pending, claims) /\ (~shuttingDown => Promises(queued, Pending))
  BY OrderParts
<1>9. /\ Ordered(queued \o r, nextId + Len(r), Pending \o s, claims)
      /\ ~shuttingDown => Promises(queued \o r, Pending \o s)
  BY <1>5, <1>6, <1>8, OrderTypes, FrameOrder
<1> QED BY <1>1, <1>5, <1>7, <1>9, OrderParts DEF SendOrder, NoneStranded, Promises

LEMMA FramesOrder == TypeOK /\ SendOrder /\ (Frame \/ LastFrame) => SendOrder'
<1> SUFFICES ASSUME TypeOK, SendOrder, Frame \/ LastFrame PROVE SendOrder'
  OBVIOUS
<1>1. DrawFrame /\ (app' # "live" => shuttingDown')
  BY OrderParts DEF Frame, LastFrame, DrawFrame, signalVars
<1> QED BY <1>1, DrawFrameOrder

-----------------------------------------------------------------------------
(* Leaving.                                                                *)

LEMMA LeavingOrder ==
  TypeOK /\ SendOrder /\ (QuitKey \/ ExitStretch \/ DriverJoined) => SendOrder'
<1> SUFFICES ASSUME TypeOK, SendOrder, QuitKey \/ ExitStretch \/ DriverJoined PROVE SendOrder'
  OBVIOUS
<1>1. /\ UNCHANGED <<queued, nextId, channel, revived, claims, pc>>
      /\ shuttingDown' = TRUE \/ (shuttingDown' = shuttingDown /\ app = "leaving")
  BY DEF QuitKey, ExitStretch, DriverJoined, queueVars, channelVars, driverVars, ghostVars, signalVars
<1>2. shuttingDown'
  BY <1>1, OrderParts
<1> QED BY <1>1, <1>2, OrderParts, SameOrder DEF Pending

LEMMA DriverAbortedOrder == TypeOK /\ SendOrder /\ DriverAborted => SendOrder'
<1> SUFFICES ASSUME TypeOK, SendOrder, DriverAborted PROVE SendOrder'
  OBVIOUS
<1>1. /\ revived' = <<>> /\ channel' = <<>> /\ UNCHANGED <<queueVars, claims, shuttingDown>>
      /\ app # "live"
  BY DEF DriverAborted, ghostVars, signalVars
<1> QED BY <1>1, OrderParts, EndOrder

-----------------------------------------------------------------------------
(* The theorems.                                                           *)

LEMMA InitOrder == Init => SendOrder
BY ConcatTail, SeqTypes
   DEF Init, SendOrder, Ordered, NoneStranded, Pending, Ascending, Below, Before

LEMMA StepOrder == TypeOK /\ SendOrder /\ [Next]_vars => SendOrder'
<1> SUFFICES ASSUME TypeOK, SendOrder, [Next]_vars PROVE SendOrder'
  OBVIOUS
<1>1. CASE KeyPress
  BY <1>1, SendKeysOrder, SheetOrder, ConfirmDropOrder, CommitEditOrder, CommandsOrder,
     LeavingOrder DEF KeyPress
<1>2. CASE ApplyUpdate \/ Frame \/ LastFrame
  BY <1>2, ApplyUpdateOrder, FramesOrder
<1>3. CASE DriverStep
  BY <1>3, TakeOrder, DriverRestOrder, LeaveOrder DEF DriverStep
<1>4. CASE TurnBoundary \/ SlotSeals \/ ApplyCommand
  BY <1>4, DriverRestOrder
<1>5. CASE RunResolves
  BY <1>5, RunOverOrder, RunCancelledByExitOrder DEF RunResolves
<1>6. CASE LeaveScreen \/ TerminalCloses \/ DriverJoined
  BY <1>6, LeavingOrder DEF LeaveScreen, TerminalCloses
<1>7. CASE DriverAborted
  BY <1>7, DriverAbortedOrder
<1>8. CASE UNCHANGED vars
  <2>1. UNCHANGED <<queued, nextId, channel, revived, claims, shuttingDown, pc, app>>
    BY <1>8 DEF vars, queueVars, channelVars, signalVars, driverVars, panelVars, ghostVars
  <2> QED BY <2>1, QueueLeft, QueueOrder
<1> QED BY <1>1, <1>2, <1>3, <1>4, <1>5, <1>6, <1>7, <1>8 DEF Next, SessionOver

\* The inductive invariant: the queue, the submissions on their way and the claims
\* stand in the order of their ids, and every waiting prompt has its claim coming.
THEOREM SendOrderHolds == Spec => []SendOrder
<1>1. Init => TypeOK /\ SendOrder
  BY InitType, InitOrder
<1>2. TypeOK /\ SendOrder /\ [Next]_vars => (TypeOK /\ SendOrder)'
  BY StepType, StepOrder
<1> QED BY <1>1, <1>2, PTL DEF Spec

\* Submission order is send order: however submissions are pulled ahead, revived,
\* steered, requeued, edited or dropped, prompts are claimed in the order of their
\* ids, no id is claimed twice, and what waits is younger than what was claimed.
THEOREM PromptsGoOutInOrder == Spec => []InOrder
<1>1. SendOrder => InOrder
  BY DEF SendOrder, Ordered, InOrder
<1> QED BY <1>1, SendOrderHolds, PTL

\* No prompt that waits is stranded: until the exit's flag its claim is on its way
\* to the driver.
THEOREM NoPromptIsStranded == Spec => []NoneStranded
<1>1. SendOrder => NoneStranded
  BY DEF SendOrder
<1> QED BY <1>1, SendOrderHolds, PTL

\* Once the exit's flag is up no run starts: the loop's top, the parked receive's
\* wake and the claim each look at it.
THEOREM NoRunStartsPastTheFlag == Spec => NoRunPastTheFlag
<1>1. [Next]_vars => [shuttingDown => ~RunStarts]_vars
  <2> SUFFICES ASSUME Next, shuttingDown, RunStarts PROVE FALSE
    BY DEF RunStarts
  <2>1. pc # "running" /\ pc' = "running"
    BY DEF RunStarts
  <2>2. CASE KeyPress \/ ApplyUpdate \/ Frame \/ LastFrame \/ LeaveScreen \/ TerminalCloses
    BY <2>1, <2>2
       DEF KeyPress, SubmitPrompt, SteerNow, FocusQueue, StepView, UnfocusQueue, AskConfirm,
           DeclineAsk, ConfirmDrop, ConfirmSteer, OpenEdit, AbortEdit, CommitEdit, ClearCommand,
           ResumeCommand, OtherCommand, ClosePicker, CancelRun, QuitKey, SheetOnly, ApplyUpdate,
           Frame, LastFrame, DrawFrame, LeaveScreen, TerminalCloses, ExitStretch, driverVars
  <2>3. CASE DriverStep \/ RunResolves
    BY <2>1, <2>3
       DEF DriverStep, TakeRevived, TakeChannel, Wake, Park, Leave, EndWithRescue, RunResolves,
           RunFinishes, RunCancelled, RunCancelledByExit
  <2>4. CASE TurnBoundary \/ SlotSeals \/ ApplyCommand \/ DriverJoined \/ DriverAborted \/ SessionOver
    BY <2>1, <2>4
       DEF TurnBoundary, DrainsSlot, TurnStarts, SlotSeals, ApplyCommand, DriverJoined,
              DriverAborted, SessionOver, vars,
           driverVars
  <2> QED BY <2>2, <2>3, <2>4 DEF Next
<1> QED BY <1>1, PTL DEF Spec, NoRunPastTheFlag
=============================================================================
