---------------------------- MODULE ApprovalsProofs ----------------------------
(***************************************************************************)
(* For any number of questions, batches, generations and permissions: what *)
(* the model is told of a question is what the user did with it, every     *)
(* party that waits still has one that can end its wait, and the question  *)
(* on the screen stays while nobody answers, walks or withdraws it.        *)
(***************************************************************************)
EXTENDS Approvals, SequenceTheorems, FiniteSetTheorems, TLAPS

Responses == {"unused", "open", "unheard"} \union Settled
ReplyStates == {"unused", "open", "withdrawn"} \union Settled
Reported == {"nothing", "answer", "no answer"}
Batch(g, i) == Range(requests[g][i])
Sent(q) == \E g \in Runners : \E i \in 1 .. Len(requests[g]) : q \in Batch(g, i)

AskTypes ==
  /\ asked \in Nat /\ runner \in Runners
  /\ batch \in Seq(Questions) /\ at \in Nat \ {0} /\ heard \in SUBSET Questions
  /\ reported \in [Questions -> Reported]
  /\ response \in [Questions -> Responses] /\ reply \in [Questions -> ReplyStates]
  /\ requests \in [Runners -> Seq(Seq(Questions))]
  /\ awaiting \in [Runners -> Seq(Questions)]

\* A question is in one batch on its way to a bridge, once,
SentOnce ==
  \A g, h \in Runners : \A i \in 1 .. Len(requests[g]), j \in 1 .. Len(requests[h]) :
    (Batch(g, i) \intersect Batch(h, j) # {}) => g = h /\ i = j

\* and until it gets there, or before it is asked, nobody knows of it.
Unknown(q) == reply[q] = "unused" /\ reported[q] = "nothing"
SentUnknown ==
  \A q \in Questions : /\ Sent(q) => q <= asked /\ Unknown(q)
                       /\ q > asked => Unknown(q)

\* The tool hears of a question what became of it on the screen, and of one the
\* screen will never show that it was dropped.
HeardTrue ==
  \A q \in Questions :
    /\ response[q] = "answered" => reply[q] = "answered"
    /\ response[q] = "dismissed" => reply[q] \in {"dismissed", "dropped"}
    /\ response[q] = "dropped" => reply[q] = "unused" /\ ~Sent(q)

\* The tool's own place in its batch.
InPlace ==
  /\ IF batch = <<>> THEN at = 1 /\ heard = {} ELSE at <= Len(batch)
  /\ \A i \in 1 .. Len(batch) : batch[i] <= asked
  /\ \A q \in heard : response[q] = "answered"
  /\ \A i \in 1 .. Len(batch) : i < at =>
       /\ response[batch[i]] \in Settled
       /\ response[batch[i]] = "answered" => batch[i] \in heard

\* What is reported is final on the screen.
ReportedTrue ==
  \A q \in Questions : reported[q] # "nothing" =>
    reply[q] # "open" /\ (reported[q] = "answer" <=> reply[q] = "answered")

AskInvariant == AskTypes /\ SentOnce /\ SentUnknown /\ HeardTrue /\ InPlace /\ ReportedTrue

-----------------------------------------------------------------------------
(* Sequences and one-shots.                                                *)

LEMMA Ranged ==
  ASSUME NEW S, NEW q \in Seq(S)
  PROVE  /\ Range(q) \subseteq S
         /\ \A e : e \in Range(q) <=> \E i \in 1 .. Len(q) : e = q[i]
BY DEF Range

LEMMA ClosedTyped ==
  ASSUME NEW V, NEW of \in [Questions -> V], NEW qs, NEW as \in V
  PROVE  /\ Closed(of, qs, as) \in [Questions -> V]
         /\ \A q \in Questions :
              Closed(of, qs, as)[q] = IF q \in qs /\ of[q] = "open" THEN as ELSE of[q]
BY DEF Closed

\* A reply that was still open, and no other, may change by a step of the screen.
LEMMA ScreenKeeps ==
  ASSUME AskInvariant, runner' \in Runners, reply' \in [Questions -> ReplyStates],
         \A q \in Questions : reply'[q] = reply[q] \/ reply[q] = "open",
         awaiting' \in [Runners -> Seq(Questions)],
         UNCHANGED <<asked, batch, at, heard, reported, response, requests>>
  PROVE  AskInvariant'
<1>1. AskTypes'
  BY DEF AskInvariant, AskTypes
<1>0. \A g, i : Batch(g, i)' = Batch(g, i) /\ requests'[g] = requests[g]
  BY DEF Batch
<1>2. SentOnce'
  BY <1>0 DEF AskInvariant, SentOnce
<1>3. \A q \in Questions : Sent(q)' <=> Sent(q)
  BY <1>0 DEF Sent
<1>4. SentUnknown'
  BY <1>3 DEF AskInvariant, SentUnknown, Unknown
<1>5. HeardTrue'
  BY <1>3 DEF AskInvariant, HeardTrue
<1>6. InPlace'
  BY DEF AskInvariant, InPlace
<1>7. ReportedTrue'
  BY DEF AskInvariant, ReportedTrue
<1> QED BY <1>1, <1>2, <1>4, <1>5, <1>6, <1>7 DEF AskInvariant

LEMMA ScreenSteps ==
  ASSUME AskInvariant,
         \/ LandQuestions \/ LandPermissions \/ TickWake \/ PermissionKey
         \/ (\E as \in {"answered", "dismissed"} : AnswerKey(as))
         \/ (\E forward \in BOOLEAN : WalkKey(forward)) \/ ScreenLeaves
         \/ (\E g \in Runners : Forwards(g) \/ SupervisorEnds(g))
         \/ RunStarts \/ RunFinishes \/ RunnerRebuilt
         \/ (\E p \in Permissions : AsksPermission(p))
         \/ UNCHANGED approvalVars
  PROVE  AskInvariant'
<1>1. /\ runner \in Runners /\ reply \in [Questions -> ReplyStates]
      /\ awaiting \in [Runners -> Seq(Questions)]
  BY DEF AskInvariant, AskTypes
<1>2. ASSUME NEW qs, NEW as \in ReplyStates, reply' = Closed(reply, qs, as)
      PROVE  /\ reply' \in [Questions -> ReplyStates]
             /\ \A q \in Questions : reply'[q] = reply[q] \/ reply[q] = "open"
  <2>1. /\ Closed(reply, qs, as) \in [Questions -> ReplyStates]
        /\ \A q \in Questions :
             Closed(reply, qs, as)[q] = IF q \in qs /\ reply[q] = "open" THEN as ELSE reply[q]
    <3>1. DOMAIN reply = Questions /\ \A q \in Questions : reply[q] \in ReplyStates
      BY <1>1
    <3> QED BY <1>2, <3>1 DEF Closed
  <2> QED BY <1>2, <2>1
<1>3. /\ UNCHANGED <<asked, batch, at, heard, reported, response, requests>>
      /\ awaiting' = awaiting
  BY DEF LandQuestions, LandPermissions, TickWake, PermissionKey, AnswerKey, WalkKey,
         ScreenLeaves, Forwards, SupervisorEnds, RunStarts, RunFinishes, RunnerRebuilt,
         AsksPermission, approvalVars, askVars, ScreenOnly, AskVarsButBridge
<1>4. runner' \in Runners
  <2>1. CASE RunnerRebuilt
    BY <1>1, <2>1, AskBounds DEF RunnerRebuilt, Runners
  <2>2. CASE ~RunnerRebuilt
    <3>1. runner' = runner
      BY <2>2
         DEF LandQuestions, LandPermissions, TickWake, PermissionKey, AnswerKey, WalkKey,
             ScreenLeaves, Forwards, SupervisorEnds, RunStarts, RunFinishes, AsksPermission,
             approvalVars, askVars, ScreenOnly, AskVarsButBridge
    <3> QED BY <1>1, <3>1
  <2> QED BY <2>1, <2>2
<1>5. \/ reply' = reply
      \/ \E as \in ReplyStates : \E qs \in {Range(questions), {Shown}, Range(askSink)} \union
                                       {Range(prompts[g]) : g \in Runners} :
           reply' = Closed(reply, qs, as)
  <2>1. {"dropped", "answered", "dismissed"} \subseteq ReplyStates
    BY DEF ReplyStates, Settled
  <2>2. CASE TickWake
    BY <2>1, <2>2 DEF TickWake
  <2>3. CASE \E as \in {"answered", "dismissed"} : AnswerKey(as)
    BY <2>1, <2>3 DEF AnswerKey
  <2>4. CASE ScreenLeaves
    BY <2>1, <2>4 DEF ScreenLeaves
  <2>5. CASE \E g \in Runners : SupervisorEnds(g)
    BY <2>1, <2>5 DEF SupervisorEnds
  <2>6. CASE \/ LandQuestions \/ LandPermissions \/ PermissionKey
             \/ (\E forward \in BOOLEAN : WalkKey(forward))
             \/ (\E g \in Runners : Forwards(g))
             \/ RunStarts \/ RunFinishes \/ RunnerRebuilt
             \/ (\E p \in Permissions : AsksPermission(p))
             \/ UNCHANGED approvalVars
    BY <2>6 DEF LandQuestions, LandPermissions, PermissionKey, WalkKey, Forwards,
         RunStarts, RunFinishes, RunnerRebuilt, AsksPermission, approvalVars, askVars
  <2> QED BY <2>2, <2>3, <2>4, <2>5, <2>6
<1>6. /\ reply' \in [Questions -> ReplyStates]
      /\ \A q \in Questions : reply'[q] = reply[q] \/ reply[q] = "open"
  BY <1>1, <1>2, <1>5
<1> QED BY <1>1, <1>3, <1>4, <1>6, ScreenKeeps

-----------------------------------------------------------------------------
(* The tool. *)

LEMMA CancelKeeps ==
  ASSUME AskInvariant, RunCancelled
  PROVE  AskInvariant'
<1>1. /\ UNCHANGED <<runner, asked, reported, reply, requests, awaiting>>
      /\ response' = Closed(response, Awaited, "unheard")
      /\ batch' = <<>> /\ at' = 1 /\ heard' = {}
  BY DEF RunCancelled, CallOver
<1>2. "unheard" \in Responses /\ response \in [Questions -> Responses]
  BY DEF AskInvariant, AskTypes, Responses
<1>3. DOMAIN response = Questions
  BY <1>2
<1>4. /\ response' \in [Questions -> Responses]
      /\ \A q \in Questions : response'[q] # response[q] => response'[q] = "unheard"
  BY <1>1, <1>2, <1>3 DEF Closed
<1>5. \A g, i : Batch(g, i)' = Batch(g, i) /\ requests'[g] = requests[g]
  BY <1>1 DEF Batch
<1>6. \A q \in Questions : Sent(q)' <=> Sent(q)
  BY <1>5 DEF Sent
<1>7. AskTypes'
  BY <1>1, <1>4 DEF AskInvariant, AskTypes
<1>8. SentOnce'
  BY <1>5 DEF AskInvariant, SentOnce
<1>9. SentUnknown'
  BY <1>1, <1>6 DEF AskInvariant, SentUnknown, Unknown
<1>10. HeardTrue'
  BY <1>1, <1>4, <1>6 DEF AskInvariant, HeardTrue
<1>11. InPlace'
  BY <1>1 DEF InPlace
<1>12. ReportedTrue'
  BY <1>1 DEF AskInvariant, ReportedTrue
<1> QED BY <1>7, <1>8, <1>9, <1>10, <1>11, <1>12 DEF AskInvariant

\* What the tool has gone past is settled, so the screen knows of it.
LEMMA Passed ==
  ASSUME AskInvariant, NEW q \in Questions, response[q] \in Settled
  PROVE  /\ reply[q] # "open" /\ ~Sent(q)
         /\ response[q] = "answered" <=> reply[q] = "answered"
<1>1. response[q] = "answered" => reply[q] = "answered"
  BY DEF AskInvariant, HeardTrue
<1>2. response[q] = "dismissed" => reply[q] \in {"dismissed", "dropped"}
  BY DEF AskInvariant, HeardTrue
<1>3. response[q] = "dropped" => reply[q] = "unused" /\ ~Sent(q)
  BY DEF AskInvariant, HeardTrue
<1>4. Sent(q) => reply[q] = "unused"
  BY DEF AskInvariant, SentUnknown, Unknown
<1> QED BY <1>1, <1>2, <1>3, <1>4 DEF Settled

LEMMA HearsKeeps ==
  ASSUME AskInvariant, Hears
  PROVE  AskInvariant'
<1> DEFINE now == IF response[batch[at]] = "answered" THEN heard \union {batch[at]} ELSE heard
<1>1. /\ batch # <<>> /\ response[batch[at]] \in Settled
      /\ UNCHANGED <<runner, asked, reply, requests, awaiting, response>>
      /\ \/ at = Len(batch) /\ Reports(Range(batch), now) /\ CallOver
         \/ at # Len(batch) /\ at' = at + 1 /\ heard' = now /\ UNCHANGED <<batch, reported>>
  BY DEF Hears, AskVarsButTool
<1>2. /\ batch \in Seq(Questions) /\ at \in Nat \ {0} /\ heard \in SUBSET Questions
      /\ reported \in [Questions -> Reported] /\ Len(batch) \in Nat /\ at <= Len(batch)
      /\ response \in [Questions -> Responses]
  BY <1>1, LenProperties DEF AskInvariant, AskTypes, InPlace
<1>3. /\ at \in 1 .. Len(batch) /\ batch[at] \in Questions
      /\ \A i \in 1 .. Len(batch) : batch[i] \in Questions
  BY <1>2, ElementOfSeq
<1>4. /\ \A q \in now : response[q] = "answered"
      /\ \A i \in 1 .. Len(batch) : i <= at =>
           /\ response[batch[i]] \in Settled
           /\ response[batch[i]] = "answered" => batch[i] \in now
  <2>1. \A i \in 1 .. Len(batch) : i < at =>
           /\ response[batch[i]] \in Settled
           /\ response[batch[i]] = "answered" => batch[i] \in heard
    BY DEF AskInvariant, InPlace
  <2>2. \A q \in heard : response[q] = "answered"
    BY DEF AskInvariant, InPlace
  <2>3. \A i \in 1 .. Len(batch) : i <= at => i < at \/ i = at
    BY <1>2
  <2> QED BY <1>1, <2>1, <2>2, <2>3
<1>5. now \in SUBSET Questions
  BY <1>2, <1>3
<1> HIDE DEF now
<1>6. \A g, i : Batch(g, i)' = Batch(g, i) /\ requests'[g] = requests[g]
  BY <1>1 DEF Batch
<1>7. \A q \in Questions : Sent(q)' <=> Sent(q)
  BY <1>6 DEF Sent
<1>8. SentOnce'
  BY <1>6 DEF AskInvariant, SentOnce
<1>9. HeardTrue'
  BY <1>1, <1>7 DEF AskInvariant, HeardTrue
<1>10. CASE at # Len(batch)
  <2>1. at' = at + 1 /\ heard' = now /\ UNCHANGED <<batch, reported>>
    BY <1>1, <1>10
  <2>2. AskTypes'
    BY <1>1, <1>5, <2>1, <1>2 DEF AskInvariant, AskTypes
  <2>3. SentUnknown'
    BY <1>1, <1>7, <2>1 DEF AskInvariant, SentUnknown, Unknown
  <2>4. InPlace'
    <3>1. at + 1 <= Len(batch) /\ \A i \in 1 .. Len(batch) : i < at + 1 => i <= at
      BY <1>2, <1>10
    <3>2. \A i \in 1 .. Len(batch) : batch[i] <= asked
      BY DEF AskInvariant, InPlace
    <3> QED BY <1>1, <1>4, <2>1, <3>1, <3>2 DEF InPlace
  <2>5. ReportedTrue'
    BY <1>1, <2>1 DEF AskInvariant, ReportedTrue
  <2> QED BY <1>8, <1>9, <2>2, <2>3, <2>4, <2>5 DEF AskInvariant
<1>11. CASE at = Len(batch)
  <2>1. /\ reported' = [q \in Questions |-> IF q \in Range(batch)
                          THEN IF q \in now THEN "answer" ELSE "no answer" ELSE reported[q]]
        /\ batch' = <<>> /\ at' = 1 /\ heard' = {}
    BY <1>1, <1>11 DEF Reports, CallOver
  <2>0. batch' = <<>> /\ at' = 1 /\ heard' = {}
    BY <2>1
  <2>2. ASSUME NEW q \in Questions, q \in Range(batch)
        PROVE  /\ q <= asked /\ response[q] \in Settled
               /\ response[q] = "answered" <=> q \in now
    <3>1. PICK i \in 1 .. Len(batch) : q = batch[i]
      BY <1>2, <2>2, Ranged
    <3>2. i <= at
      BY <1>2, <1>11, <3>1
    <3>3. q <= asked
      BY <3>1 DEF AskInvariant, InPlace
    <3> QED BY <1>4, <3>1, <3>2, <3>3
  <2>3. \A q \in Questions : q \in Range(batch) =>
           /\ q <= asked /\ ~Sent(q) /\ reply[q] # "open"
           /\ reported'[q] = "answer" <=> reply[q] = "answered"
    BY <2>1, <2>2, Passed
  <2>4. \A q \in Questions : q \notin Range(batch) => reported'[q] = reported[q]
    BY <2>1
  <2>5. reported' \in [Questions -> Reported]
    BY <1>2, <2>1 DEF Reported
  <2>6. AskTypes'
    BY <1>1, <2>0, <2>5 DEF AskInvariant, AskTypes
  <2>7. SentUnknown'
    <3>1. asked \in Nat /\ \A q \in Questions : q \in Range(batch) => ~(q > asked)
      BY <2>3 DEF AskInvariant, AskTypes, Questions
    <3> QED BY <1>1, <1>7, <2>3, <2>4, <3>1 DEF AskInvariant, SentUnknown, Unknown
  <2>8. InPlace'
    BY <2>0 DEF InPlace
  <2>9. ReportedTrue'
    BY <1>1, <2>3, <2>4 DEF AskInvariant, ReportedTrue
  <2> QED BY <1>8, <1>9, <2>6, <2>7, <2>8, <2>9 DEF AskInvariant
<1> QED BY <1>10, <1>11

\* A new call's questions are those after the ones asked so far.
LEMMA AsksKeeps ==
  ASSUME AskInvariant, NEW n \in 1 .. MaxBatch, Asks(n)
  PROVE  AskInvariant'
<1> DEFINE new == [i \in 1 .. n |-> asked + i]
<1>1. /\ batch = <<>> /\ asked + n <= MaxQuestions /\ asked' = asked + n
      /\ UNCHANGED <<runner, reply, awaiting>>
      /\ \/ /\ Reports(Range(new), {})
            /\ UNCHANGED <<batch, at, heard, response, requests>>
         \/ /\ requests' = [requests EXCEPT ![runner] = Append(@, new)]
            /\ response' = [q \in Questions |-> IF q \in Range(new) THEN "open"
                                                ELSE response[q]]
            /\ batch' = new /\ UNCHANGED <<at, heard, reported>>
  BY DEF Asks
<1>2. /\ asked \in Nat /\ runner \in Runners /\ n \in Nat \ {0}
      /\ reported \in [Questions -> Reported] /\ response \in [Questions -> Responses]
      /\ requests \in [Runners -> Seq(Seq(Questions))] /\ MaxQuestions \in Nat
      /\ at = 1 /\ heard = {}
  BY <1>1, AskBounds DEF AskInvariant, AskTypes, InPlace
<1>3. /\ new \in Seq(Questions) /\ Len(new) = n
      /\ \A i \in 1 .. n : new[i] = asked + i
  <2>1. \A i \in 1 .. n : asked + i \in Questions
    BY <1>1, <1>2 DEF Questions
  <2>2. new \in [1 .. n -> Questions] /\ DOMAIN new = 1 .. n
    BY <2>1
  <2>3. \A i \in 1 .. n : new[i] = asked + i
    OBVIOUS
  <2> HIDE DEF new
  <2>4. new \in Seq(Questions)
    BY <1>2, <2>2, SeqDef
  <2>5. Len(new) \in Nat /\ DOMAIN new = 1 .. Len(new)
    BY <2>4, LenProperties
  <2>6. Len(new) = n
    BY <1>2, <2>2, <2>5
  <2> QED BY <2>3, <2>4, <2>6
<1> HIDE DEF new
<1>4. \A q : q \in Range(new) => q \in Questions /\ q > asked /\ q <= asked + n
  <2> SUFFICES ASSUME NEW q, q \in Range(new)
               PROVE  q \in Questions /\ q > asked /\ q <= asked + n
    OBVIOUS
  <2>1. PICK i \in 1 .. Len(new) : q = new[i]
    BY <1>3, Ranged
  <2>2. q = asked + i /\ i \in 1 .. n
    BY <1>3, <2>1
  <2> QED BY <1>1, <1>2, <2>2 DEF Questions
<1>5. asked' \in Nat /\ asked' = asked + n /\ asked < asked'
  BY <1>1, <1>2
<1>6. \A q \in Questions : q \in Nat
  BY <1>2 DEF Questions
<1>7. \A q \in Questions : q > asked => reply[q] = "unused" /\ reported[q] = "nothing"
  BY DEF AskInvariant, SentUnknown, Unknown
<1>8. \A q \in Questions : Sent(q) => q <= asked
  BY DEF AskInvariant, SentUnknown
<1>9. CASE /\ Reports(Range(new), {})
           /\ UNCHANGED <<batch, at, heard, response, requests>>
  <2>1. reported' = [q \in Questions |-> IF q \in Range(new) THEN "no answer" ELSE reported[q]]
    BY <1>9 DEF Reports
  <2>2. UNCHANGED <<batch, at, heard, response, requests>>
    BY <1>9
  <2>3. \A g, i : Batch(g, i)' = Batch(g, i) /\ requests'[g] = requests[g]
    BY <2>2 DEF Batch
  <2>4. \A q \in Questions : Sent(q)' <=> Sent(q)
    BY <2>3 DEF Sent
  <2>5. /\ reported' \in [Questions -> Reported]
        /\ \A q \in Questions : q \in Range(new) => reported'[q] = "no answer"
        /\ \A q \in Questions : q \notin Range(new) => reported'[q] = reported[q]
    BY <1>2, <2>1 DEF Reported
  <2>6. AskTypes'
    BY <1>1, <1>5, <2>2, <2>5 DEF AskInvariant, AskTypes
  <2>7. SentOnce'
    BY <2>3 DEF AskInvariant, SentOnce
  <2>8. SentUnknown'
    <3>1. \A q \in Questions : Sent(q) => q \notin Range(new) /\ q <= asked'
      BY <1>2, <1>4, <1>5, <1>6, <1>8
    <3>2. \A q \in Questions : q > asked' => q > asked /\ q \notin Range(new)
      BY <1>2, <1>4, <1>5, <1>6
    <3>3. \A q \in Questions : Sent(q) => reply[q] = "unused" /\ reported[q] = "nothing"
      BY DEF AskInvariant, SentUnknown, Unknown
    <3> QED BY <1>1, <1>7, <2>4, <2>5, <3>1, <3>2, <3>3 DEF SentUnknown, Unknown
  <2>9. HeardTrue'
    BY <1>1, <2>2, <2>4 DEF AskInvariant, HeardTrue
  <2>10. InPlace'
    <3>1. batch' = <<>> /\ at' = 1 /\ heard' = {}
      BY <1>1, <1>2, <2>2
    <3> QED BY <3>1 DEF InPlace
  <2>11. ReportedTrue'
    BY <1>1, <1>4, <1>7, <2>5 DEF AskInvariant, ReportedTrue
  <2> QED BY <2>6, <2>7, <2>8, <2>9, <2>10, <2>11 DEF AskInvariant
<1>10. CASE /\ requests' = [requests EXCEPT ![runner] = Append(@, new)]
            /\ response' = [q \in Questions |-> IF q \in Range(new) THEN "open"
                                                ELSE response[q]]
            /\ batch' = new /\ UNCHANGED <<at, heard, reported>>
  <2>1. batch' = new /\ UNCHANGED <<at, heard, reported>>
    BY <1>10
  <2>2. /\ response' \in [Questions -> Responses]
        /\ \A q \in Questions : q \in Range(new) => response'[q] = "open"
        /\ \A q \in Questions : q \notin Range(new) => response'[q] = response[q]
    BY <1>2, <1>10 DEF Responses
  <2>3. /\ requests' \in [Runners -> Seq(Seq(Questions))]
        /\ requests'[runner] = Append(requests[runner], new)
        /\ \A g \in Runners : g # runner => requests'[g] = requests[g]
    <3>1. /\ requests' = [requests EXCEPT ![runner] = Append(requests[runner], new)]
          /\ requests[runner] \in Seq(Seq(Questions))
      BY <1>2, <1>10
    <3>2. Append(requests[runner], new) \in Seq(Seq(Questions))
      BY <1>3, <3>1, AppendProperties
    <3> DEFINE Pipe == Seq(Seq(Questions))
    <3>3. requests \in [Runners -> Pipe] /\ Append(requests[runner], new) \in Pipe
      BY <1>2, <3>2
    <3> HIDE DEF Pipe
    <3>4. requests' \in [Runners -> Pipe] /\ requests'[runner] = Append(requests[runner], new)
          /\ \A g \in Runners : g # runner => requests'[g] = requests[g]
      BY <1>2, <3>1, <3>3
    <3> QED BY <3>4 DEF Pipe
  <2> DEFINE old == Len(requests[runner])
  <2>4. /\ old \in Nat /\ Len(requests'[runner]) = old + 1
        /\ requests'[runner][old + 1] = new
        /\ \A i \in 1 .. old : requests'[runner][i] = requests[runner][i]
    <3>1. requests[runner] \in Seq(Seq(Questions))
      BY <1>2
    <3> QED BY <1>3, <2>3, <3>1, AppendProperties, LenProperties
  <2>5. \A g \in Runners : \A i \in 1 .. Len(requests'[g]) :
          \/ i \in 1 .. Len(requests[g]) /\ requests'[g][i] = requests[g][i]
          \/ g = runner /\ i = old + 1 /\ requests'[g][i] = new
    <3>1. \A i \in 1 .. old + 1 : i \in 1 .. old \/ i = old + 1
      BY <2>4
    <3> QED BY <2>3, <2>4, <3>1
  <2> HIDE DEF old
  <2>6. \A g \in Runners : \A i \in 1 .. Len(requests'[g]) :
          \/ i \in 1 .. Len(requests[g]) /\ Batch(g, i)' = Batch(g, i)
          \/ g = runner /\ i = old + 1 /\ Batch(g, i)' = Range(new)
    BY <2>5 DEF Batch
  <2>7. \A g \in Runners : \A i \in 1 .. Len(requests[g]) : \A q \in Range(new) :
          q \notin Batch(g, i)
    <3>1. \A q \in Range(new) : q \in Questions /\ ~(q <= asked)
      BY <1>2, <1>4, <1>6
    <3>2. \A q \in Range(new) : ~Sent(q)
      BY <1>8, <3>1
    <3> QED BY <3>2 DEF Sent
  <2>8. SentOnce'
    <3> SUFFICES ASSUME NEW g \in Runners, NEW h \in Runners,
                        NEW i \in 1 .. Len(requests'[g]), NEW j \in 1 .. Len(requests'[h]),
                        Batch(g, i)' \intersect Batch(h, j)' # {}
                 PROVE  g = h /\ i = j
      BY DEF SentOnce
    <3>1. PICK q : q \in Batch(g, i)' /\ q \in Batch(h, j)'
      OBVIOUS
    <3>2. CASE i \in 1 .. Len(requests[g]) /\ Batch(g, i)' = Batch(g, i)
      <4>1. CASE j \in 1 .. Len(requests[h]) /\ Batch(h, j)' = Batch(h, j)
        <5>1. Batch(g, i) \intersect Batch(h, j) # {}
          BY <3>1, <3>2, <4>1
        <5> QED BY <3>2, <4>1, <5>1 DEF AskInvariant, SentOnce
      <4>2. CASE h = runner /\ j = old + 1 /\ Batch(h, j)' = Range(new)
        BY <2>7, <3>1, <3>2, <4>2
      <4> QED BY <2>6, <4>1, <4>2
    <3>3. CASE g = runner /\ i = old + 1 /\ Batch(g, i)' = Range(new)
      <4>1. CASE j \in 1 .. Len(requests[h]) /\ Batch(h, j)' = Batch(h, j)
        BY <2>7, <3>1, <3>3, <4>1
      <4>2. CASE h = runner /\ j = old + 1 /\ Batch(h, j)' = Range(new)
        BY <3>3, <4>2
      <4> QED BY <2>6, <4>1, <4>2
    <3> QED BY <2>6, <3>2, <3>3
  <2>9. \A q \in Questions : Sent(q)' => Sent(q) \/ q \in Range(new)
    BY <2>6 DEF Sent
  <2>10. SentUnknown'
    <3>1. \A q \in Questions : Sent(q)' => q <= asked' /\ reply[q] = "unused"
                                           /\ reported[q] = "nothing"
      <4>1. \A q \in Questions : Sent(q) => reply[q] = "unused" /\ reported[q] = "nothing"
        BY DEF AskInvariant, SentUnknown, Unknown
      <4>2. \A q \in Questions : q \in Range(new) => q > asked /\ q <= asked'
        BY <1>4, <1>5
      <4>3. \A q \in Questions : q <= asked => q <= asked'
        BY <1>2, <1>5, <1>6
      <4> QED BY <1>7, <1>8, <2>9, <4>1, <4>2, <4>3
    <3>2. \A q \in Questions : q > asked' => q > asked
      BY <1>2, <1>5, <1>6
    <3> QED BY <1>1, <1>7, <2>1, <3>1, <3>2 DEF SentUnknown, Unknown
  <2>11. HeardTrue'
    <3>1. \A q \in Questions : response[q] = "dropped" /\ q \notin Range(new) => ~Sent(q)'
      BY <2>9 DEF AskInvariant, HeardTrue
    <3> QED BY <1>1, <2>2, <3>1 DEF AskInvariant, HeardTrue
  <2>12. InPlace'
    <3>1. /\ at' = 1 /\ heard' = {} /\ Len(batch') = n /\ 1 <= n
          /\ \A i \in 1 .. n : batch'[i] <= asked' /\ ~(i < 1)
      BY <1>2, <1>3, <1>5, <2>1
    <3>2. IF batch' = <<>> THEN at' = 1 /\ heard' = {} ELSE at' <= Len(batch')
      BY <3>1
    <3> QED BY <3>1, <3>2 DEF InPlace
  <2>13. ReportedTrue'
    BY <1>1, <2>1 DEF AskInvariant, ReportedTrue
  <2>14. AskTypes'
    <3>1. batch' \in Seq(Questions)
      BY <1>3, <2>1
    <3> QED BY <1>1, <1>5, <2>1, <2>2, <2>3, <3>1 DEF AskInvariant, AskTypes
  <2> QED BY <2>8, <2>10, <2>11, <2>12, <2>13, <2>14 DEF AskInvariant
<1> QED BY <1>1, <1>9, <1>10

-----------------------------------------------------------------------------
(* The bridge. *)

\* What the bridge takes is nobody's other batch, so its prompts are the first.
LEMMA ReceivesKeeps ==
  ASSUME AskInvariant, NEW g \in Runners, BridgeReceives(g)
  PROVE  AskInvariant'
<1>1. PICK new \in Seq(Questions) : new = Head(requests[g]) /\ requests[g] # <<>>
  BY HeadTailProperties DEF AskInvariant, AskTypes, BridgeReceives
<1>2. /\ requests \in [Runners -> Seq(Seq(Questions))]
      /\ awaiting \in [Runners -> Seq(Questions)]
      /\ reply \in [Questions -> ReplyStates]
  BY DEF AskInvariant, AskTypes
<1>3. /\ UNCHANGED <<runner, asked, batch, at, heard, reported, response>>
      /\ reply' = [q \in Questions |-> IF q \in Range(new) THEN "open" ELSE reply[q]]
      /\ awaiting' = [awaiting EXCEPT ![g] = new]
      /\ requests' = [requests EXCEPT ![g] = Tail(requests[g])]
  BY <1>1, <1>2 DEF BridgeReceives, AskVarsButBridge
<1>4. /\ requests[g] \in Seq(Seq(Questions)) /\ Tail(requests[g]) \in Seq(Seq(Questions))
      /\ Len(requests[g]) \in Nat /\ Len(requests[g]) >= 1 /\ new = requests[g][1]
      /\ Len(Tail(requests[g])) = Len(requests[g]) - 1
      /\ \A i \in 1 .. Len(requests[g]) - 1 : Tail(requests[g])[i] = requests[g][i + 1]
  <2>1. requests[g] \in Seq(Seq(Questions))
    BY <1>2
  <2>2. Len(requests[g]) \in Nat /\ Len(requests[g]) # 0
    BY <1>1, <2>1, LenProperties, EmptySeq
  <2> QED BY <1>1, <2>1, <2>2, HeadTailProperties
<1>5. /\ requests' \in [Runners -> Seq(Seq(Questions))]
      /\ requests'[g] = Tail(requests[g])
      /\ \A h \in Runners : h # g => requests'[h] = requests[h]
  <2> DEFINE Pipe == Seq(Seq(Questions))
  <2>1. requests \in [Runners -> Pipe] /\ Tail(requests[g]) \in Pipe
    BY <1>2, <1>4
  <2> HIDE DEF Pipe
  <2>2. requests' \in [Runners -> Pipe] /\ requests'[g] = Tail(requests[g])
        /\ \A h \in Runners : h # g => requests'[h] = requests[h]
    BY <1>3, <2>1
  <2> QED BY <2>2 DEF Pipe
<1> DEFINE was(h, i) == IF h = g THEN i + 1 ELSE i
<1>6. \A h \in Runners : \A i \in 1 .. Len(requests'[h]) :
        /\ was(h, i) \in 1 .. Len(requests[h]) /\ Batch(h, i)' = Batch(h, was(h, i))
        /\ h = g => was(h, i) # 1
  <2>1. ASSUME NEW i \in 1 .. Len(requests'[g])
        PROVE  /\ i + 1 \in 1 .. Len(requests[g]) /\ i + 1 # 1
               /\ requests'[g][i] = requests[g][i + 1]
    <3> DEFINE n == Len(requests[g])
               rest == Tail(requests[g])
    <3>1. n \in Nat /\ n >= 1 /\ Len(rest) = n - 1
      BY <1>4
    <3>2. \A l \in 1 .. n - 1 : rest[l] = requests[g][l + 1]
      BY <1>4
    <3>3. requests'[g] = rest
      BY <1>5
    <3> HIDE DEF n, rest
    <3>4. i \in 1 .. n - 1
      BY <2>1, <3>1, <3>3
    <3>5. i + 1 \in 1 .. n /\ i + 1 # 1
      BY <3>1, <3>4
    <3>6. requests'[g][i] = requests[g][i + 1]
      BY <3>2, <3>3, <3>4
    <3> QED BY <3>5, <3>6 DEF n
  <2>2. ASSUME NEW i \in 1 .. Len(requests'[g])
        PROVE  was(g, i) = i + 1 /\ Batch(g, i)' = Batch(g, i + 1)
    BY <2>1 DEF Batch
  <2>3. ASSUME NEW h \in Runners, h # g
        PROVE  \A i : was(h, i) = i /\ Batch(h, i)' = Batch(h, i) /\ requests'[h] = requests[h]
    BY <1>5, <2>3 DEF Batch
  <2> HIDE DEF was
  <2>4. SUFFICES ASSUME NEW h \in Runners, NEW i \in 1 .. Len(requests'[h])
                 PROVE  /\ was(h, i) \in 1 .. Len(requests[h])
                        /\ Batch(h, i)' = Batch(h, was(h, i))
                        /\ h = g => was(h, i) # 1
    OBVIOUS
  <2>5. CASE h = g
    BY <2>1, <2>2, <2>5
  <2>6. CASE h # g
    <3>1. was(h, i) = i /\ Batch(h, i)' = Batch(h, i) /\ requests'[h] = requests[h]
      BY <2>3, <2>6
    <3> QED BY <2>6, <3>1
  <2> QED BY <2>5, <2>6
<1>7. Batch(g, 1) = Range(new) /\ 1 \in 1 .. Len(requests[g])
  BY <1>4 DEF Batch
<1>8. \A h \in Runners : \A i \in 1 .. Len(requests'[h]), j \in 1 .. Len(requests'[h]) :
        was(h, i) = was(h, j) => i = j
  BY <1>4
<1> HIDE DEF was
<1>9. SentOnce'
  <2> SUFFICES ASSUME NEW h \in Runners, NEW k \in Runners,
                      NEW i \in 1 .. Len(requests'[h]), NEW j \in 1 .. Len(requests'[k]),
                      Batch(h, i)' \intersect Batch(k, j)' # {}
               PROVE  h = k /\ i = j
    BY DEF SentOnce
  <2>1. /\ was(h, i) \in 1 .. Len(requests[h]) /\ was(k, j) \in 1 .. Len(requests[k])
        /\ Batch(h, was(h, i)) \intersect Batch(k, was(k, j)) # {}
    BY <1>6
  <2>2. h = k /\ was(h, i) = was(k, j)
    BY <2>1 DEF AskInvariant, SentOnce
  <2> QED BY <1>8, <2>2
<1>10. \A q \in Questions : Sent(q)' => Sent(q) /\ q \notin Range(new)
  <2> SUFFICES ASSUME NEW q \in Questions, Sent(q)'
               PROVE  Sent(q) /\ q \notin Range(new)
    OBVIOUS
  <2>1. PICK h \in Runners : \E i \in 1 .. Len(requests'[h]) : q \in Batch(h, i)'
    BY DEF Sent
  <2>4. PICK i \in 1 .. Len(requests'[h]) : q \in Batch(h, i)'
    BY <2>1
  <2>2. was(h, i) \in 1 .. Len(requests[h]) /\ q \in Batch(h, was(h, i))
    BY <1>6, <2>4
  <2>3. q \notin Batch(g, 1)
    <3> SUFFICES ASSUME q \in Batch(g, 1) PROVE FALSE
      OBVIOUS
    <3>1. Batch(h, was(h, i)) \intersect Batch(g, 1) # {}
      BY <2>2
    <3>2. h = g /\ was(h, i) = 1
      BY <1>7, <2>2, <3>1 DEF AskInvariant, SentOnce
    <3> QED BY <1>6, <3>2
  <2> QED BY <1>7, <2>2, <2>3 DEF Sent
<1>11. \A q \in Questions : q \in Range(new) => Sent(q)
  BY <1>7 DEF Sent
<1>12. /\ reply' \in [Questions -> ReplyStates]
       /\ \A q \in Questions : q \notin Range(new) => reply'[q] = reply[q]
       /\ \A q \in Questions : q \in Range(new) =>
            /\ reply[q] = "unused" /\ reported[q] = "nothing" /\ reply'[q] = "open"
            /\ q <= asked
  <2>1. /\ reply' \in [Questions -> ReplyStates]
        /\ \A q \in Questions : q \notin Range(new) => reply'[q] = reply[q]
        /\ \A q \in Questions : q \in Range(new) => reply'[q] = "open"
    BY <1>2, <1>3 DEF ReplyStates
  <2>2. \A q \in Questions : Sent(q) => /\ q <= asked /\ reply[q] = "unused"
                                        /\ reported[q] = "nothing"
    BY DEF AskInvariant, SentUnknown, Unknown
  <2> QED BY <1>11, <2>1, <2>2
<1>13. AskTypes'
  <2>1. awaiting' \in [Runners -> Seq(Questions)]
    <3> DEFINE Pipe == Seq(Questions)
    <3>1. awaiting \in [Runners -> Pipe] /\ new \in Pipe
      BY <1>2
    <3> HIDE DEF Pipe
    <3>2. awaiting' \in [Runners -> Pipe]
      BY <1>3, <3>1
    <3> QED BY <3>2 DEF Pipe
  <2>2. UNCHANGED <<runner, asked, batch, at, heard, reported, response>>
    BY <1>3
  <2> QED BY <1>5, <1>12, <2>1, <2>2 DEF AskInvariant, AskTypes
<1>14. UNCHANGED <<asked, batch, at, heard, reported, response>>
  BY <1>3
<1>15. SentUnknown'
  <2>1. \A q \in Questions : q > asked => q \notin Range(new)
    <3>1. asked \in Nat /\ \A q \in Questions : q \in Int
      BY DEF AskInvariant, AskTypes, Questions
    <3> QED BY <1>12, <3>1
  <2> QED BY <1>10, <1>12, <1>14, <2>1 DEF AskInvariant, SentUnknown, Unknown
<1>16. HeardTrue'
  <2>1. \A q \in Questions :
          /\ response[q] = "answered" => reply[q] = "answered"
          /\ response[q] = "dismissed" => reply[q] \in {"dismissed", "dropped"}
          /\ response[q] = "dropped" => reply[q] = "unused" /\ ~Sent(q)
    BY DEF AskInvariant, HeardTrue
  <2>2. \A q \in Questions : response[q] \in {"answered", "dismissed", "dropped"} =>
          reply'[q] = reply[q]
    BY <1>11, <1>12, <2>1
  <2> QED BY <1>10, <1>14, <2>1, <2>2 DEF HeardTrue
<1>17. InPlace'
  BY <1>14 DEF AskInvariant, InPlace
<1>18. ReportedTrue'
  BY <1>12, <1>14 DEF AskInvariant, ReportedTrue
<1> QED BY <1>9, <1>13, <1>15, <1>16, <1>17, <1>18 DEF AskInvariant

\* A bridge that ends drops the one-shots of what it was sent; nobody saw those.
LEMMA EndsKeeps ==
  ASSUME AskInvariant, NEW g \in Runners, BridgeEnds(g)
  PROVE  AskInvariant'
<1> DEFINE held == UNION {Range(b) : b \in Range(requests[g])}
<1>1. /\ UNCHANGED <<runner, asked, batch, at, heard, reported, reply, awaiting>>
      /\ response' = Closed(response, held, "dropped")
      /\ requests' = [requests EXCEPT ![g] = <<>>]
  BY DEF BridgeEnds, AskVarsButBridge
<1>2. /\ requests \in [Runners -> Seq(Seq(Questions))]
      /\ response \in [Questions -> Responses] /\ "dropped" \in Responses
  BY DEF AskInvariant, AskTypes, Responses, Settled
<1>3. \A q \in Questions : q \in held => \E i \in 1 .. Len(requests[g]) : q \in Batch(g, i)
  <2>1. requests[g] \in Seq(Seq(Questions))
    BY <1>2
  <2>2. \A b \in Range(requests[g]) : \E i \in 1 .. Len(requests[g]) : b = requests[g][i]
    BY <2>1, Ranged
  <2> QED BY <2>2 DEF Batch
<1> HIDE DEF held
<1>4. /\ requests' \in [Runners -> Seq(Seq(Questions))]
      /\ requests'[g] = <<>> /\ Len(requests'[g]) = 0
      /\ \A h \in Runners : h # g => requests'[h] = requests[h]
  <2> DEFINE Pipe == Seq(Seq(Questions))
  <2>1. requests \in [Runners -> Pipe] /\ <<>> \in Pipe
    BY <1>2
  <2> HIDE DEF Pipe
  <2>2. requests' \in [Runners -> Pipe] /\ requests'[g] = <<>>
        /\ \A h \in Runners : h # g => requests'[h] = requests[h]
    BY <1>1, <2>1
  <2> QED BY <2>2 DEF Pipe
<1>5. \A h \in Runners : \A i \in 1 .. Len(requests'[h]) :
        h # g /\ i \in 1 .. Len(requests[h]) /\ Batch(h, i)' = Batch(h, i)
  <2>1. \A i \in 1 .. Len(requests'[g]) : FALSE
    BY <1>4
  <2> QED BY <1>4, <2>1 DEF Batch
<1>6. \A q \in Questions : Sent(q)' => Sent(q) /\ q \notin held
  <2> SUFFICES ASSUME NEW q \in Questions, Sent(q)'
               PROVE  Sent(q) /\ q \notin held
    OBVIOUS
  <2>1. PICK h \in Runners : \E i \in 1 .. Len(requests'[h]) : q \in Batch(h, i)'
    BY DEF Sent
  <2>2. PICK i \in 1 .. Len(requests'[h]) : q \in Batch(h, i)'
    BY <2>1
  <2>3. h # g /\ i \in 1 .. Len(requests[h]) /\ q \in Batch(h, i)
    BY <1>5, <2>2
  <2>4. \A j \in 1 .. Len(requests[g]) : q \notin Batch(g, j)
    <3> SUFFICES ASSUME NEW j \in 1 .. Len(requests[g]), q \in Batch(g, j)
                 PROVE  FALSE
      OBVIOUS
    <3>1. Batch(h, i) \intersect Batch(g, j) # {}
      BY <2>3
    <3> QED BY <2>3, <3>1 DEF AskInvariant, SentOnce
  <2> QED BY <1>3, <2>3, <2>4 DEF Sent
<1>7. \A q \in Questions : q \in held => Sent(q)
  BY <1>3 DEF Sent
<1>8. /\ response' \in [Questions -> Responses]
      /\ \A q \in Questions : \/ response'[q] = response[q]
                              \/ response[q] = "open" /\ response'[q] = "dropped" /\ q \in held
  <2>1. DOMAIN response = Questions /\ \A q \in Questions : response[q] \in Responses
    BY <1>2
  <2> QED BY <1>1, <1>2, <2>1 DEF Closed
<1>9. UNCHANGED <<asked, batch, at, heard, reported, reply>>
  BY <1>1
<1>10. AskTypes'
  BY <1>1, <1>4, <1>8 DEF AskInvariant, AskTypes
<1>11. SentOnce'
  BY <1>5 DEF AskInvariant, SentOnce
<1>12. SentUnknown'
  BY <1>6, <1>9 DEF AskInvariant, SentUnknown, Unknown
<1>13. HeardTrue'
  <2>1. \A q \in Questions : q \in held => reply[q] = "unused" /\ ~Sent(q)'
    BY <1>6, <1>7 DEF AskInvariant, SentUnknown, Unknown
  <2> QED BY <1>6, <1>8, <1>9, <2>1 DEF AskInvariant, HeardTrue
<1>14. InPlace'
  <2>1. \A i \in 1 .. Len(batch) : batch[i] \in Questions
    BY ElementOfSeq DEF AskInvariant, AskTypes
  <2>2. \A q \in Questions : response[q] # "open" => response'[q] = response[q]
    BY <1>8
  <2>3. heard \subseteq Questions /\ "open" \notin Settled
    BY DEF AskInvariant, AskTypes, Settled
  <2> QED BY <1>9, <2>1, <2>2, <2>3 DEF AskInvariant, InPlace
<1>15. ReportedTrue'
  BY <1>9 DEF AskInvariant, ReportedTrue
<1> QED BY <1>10, <1>11, <1>12, <1>13, <1>14, <1>15 DEF AskInvariant

\* The bridge passes on what became of the prompt it waits for.
LEMMA AwaitsKeeps ==
  ASSUME AskInvariant, NEW g \in Runners, BridgeAwaits(g)
  PROVE  AskInvariant'
<1>1. /\ awaiting \in [Runners -> Seq(Questions)] /\ awaiting[g] # <<>>
      /\ response \in [Questions -> Responses] /\ reply \in [Questions -> ReplyStates]
      /\ runner \in Runners
  BY DEF AskInvariant, AskTypes, BridgeAwaits
<1>2. PICK q \in Questions : q = Head(awaiting[g])
  BY <1>1, HeadTailProperties
<1>3. /\ UNCHANGED <<runner, asked, batch, at, heard, reported, requests>>
      /\ \/ /\ reply[q] \in Settled /\ UNCHANGED reply
            /\ response' = Closed(response, {q}, IF reply[q] = "answered" THEN "answered"
                                                 ELSE "dismissed")
         \/ /\ reply[q] = "open" /\ UNCHANGED response
            /\ reply' = [reply EXCEPT ![q] = "withdrawn"]
  BY <1>2 DEF BridgeAwaits, AskVarsButBridge
<1>4. awaiting' \in [Runners -> Seq(Questions)]
  <2> DEFINE Pipe == Seq(Questions)
  <2>1. Tail(awaiting[g]) \in Pipe /\ awaiting \in [Runners -> Pipe]
    BY <1>1, HeadTailProperties
  <2> HIDE DEF Pipe
  <2>2. awaiting' = [awaiting EXCEPT ![g] = Tail(awaiting[g])]
    BY <1>1 DEF BridgeAwaits
  <2>3. awaiting' \in [Runners -> Pipe]
    BY <2>1, <2>2
  <2> QED BY <2>3 DEF Pipe
<1>5. CASE /\ reply[q] = "open" /\ UNCHANGED response
           /\ reply' = [reply EXCEPT ![q] = "withdrawn"]
  <2>1. /\ reply' \in [Questions -> ReplyStates]
        /\ \A r \in Questions : reply'[r] = reply[r] \/ reply[r] = "open"
    BY <1>1, <1>5 DEF ReplyStates
  <2> QED BY <1>1, <1>3, <1>4, <1>5, <2>1, ScreenKeeps
<1>6. CASE /\ reply[q] \in Settled /\ UNCHANGED reply
           /\ response' = Closed(response, {q}, IF reply[q] = "answered" THEN "answered"
                                                ELSE "dismissed")
  <2>1. UNCHANGED <<runner, asked, batch, at, heard, reported, requests, reply>>
    BY <1>3, <1>6
  <2>2. \A h, i : Batch(h, i)' = Batch(h, i) /\ requests'[h] = requests[h]
    BY <2>1 DEF Batch
  <2>3. \A r \in Questions : Sent(r)' <=> Sent(r)
    BY <2>2 DEF Sent
  <2>4. /\ response' \in [Questions -> Responses]
        /\ \A r \in Questions :
             \/ response'[r] = response[r]
             \/ /\ response[r] = "open" /\ r = q
                /\ response'[r] = IF reply[q] = "answered" THEN "answered" ELSE "dismissed"
    <3>1. DOMAIN response = Questions /\ \A r \in Questions : response[r] \in Responses
      BY <1>1
    <3> QED BY <1>6, <3>1 DEF Closed, Responses, Settled
  <2>5. AskTypes'
    BY <1>4, <2>1, <2>4 DEF AskInvariant, AskTypes
  <2>6. SentOnce'
    BY <2>2 DEF AskInvariant, SentOnce
  <2>7. SentUnknown'
    BY <2>1, <2>3 DEF AskInvariant, SentUnknown, Unknown
  <2>8. HeardTrue'
    BY <1>6, <2>1, <2>3, <2>4 DEF AskInvariant, HeardTrue, Settled
  <2>9. InPlace'
    <3>1. \A i \in 1 .. Len(batch) : batch[i] \in Questions
      BY ElementOfSeq DEF AskInvariant, AskTypes
    <3>2. \A r \in Questions : response[r] # "open" => response'[r] = response[r]
      BY <2>4
    <3>3. heard \subseteq Questions /\ "open" \notin Settled
      BY DEF AskInvariant, AskTypes, Settled
    <3> QED BY <2>1, <3>1, <3>2, <3>3 DEF AskInvariant, InPlace
  <2>10. ReportedTrue'
    BY <2>1 DEF AskInvariant, ReportedTrue
  <2> QED BY <2>5, <2>6, <2>7, <2>8, <2>9, <2>10 DEF AskInvariant
<1> QED BY <1>3, <1>5, <1>6

-----------------------------------------------------------------------------

LEMMA AskStart == ApprovalsInit => AskInvariant
<1> SUFFICES ASSUME ApprovalsInit PROVE AskInvariant
  OBVIOUS
<1>1. AskTypes
  <2>1. /\ asked = 0 /\ runner = 1 /\ batch = <<>> /\ at = 1 /\ heard = {}
        /\ requests = [g \in Runners |-> <<>>] /\ awaiting = [g \in Runners |-> <<>>]
        /\ reported = [q \in Questions |-> "nothing"]
        /\ response = [q \in Questions |-> "unused"] /\ reply = [q \in Questions |-> "unused"]
    BY DEF ApprovalsInit
  <2>2. runner \in Runners
    BY <2>1, AskBounds DEF Runners
  <2> QED BY <2>1, <2>2 DEF AskTypes, Reported, Responses, ReplyStates
<1>2. \A g \in Runners : \A i \in 1 .. Len(requests[g]) : FALSE
  BY DEF ApprovalsInit
<1>3. \A q \in Questions : ~Sent(q)
  BY <1>2 DEF Sent
<1>4. \A q \in Questions : response[q] = "unused" /\ reply[q] = "unused" /\ reported[q] = "nothing"
  BY DEF ApprovalsInit
<1>5. SentOnce
  BY <1>2 DEF SentOnce
<1>6. SentUnknown /\ HeardTrue /\ ReportedTrue
  BY <1>3, <1>4 DEF SentUnknown, Unknown, HeardTrue, ReportedTrue
<1>7. InPlace
  BY DEF ApprovalsInit, InPlace
<1> QED BY <1>1, <1>5, <1>6, <1>7 DEF AskInvariant

LEMMA AskStep == AskInvariant /\ [ApprovalsNext]_approvalVars => AskInvariant'
<1> SUFFICES ASSUME AskInvariant, [ApprovalsNext]_approvalVars PROVE AskInvariant'
  OBVIOUS
<1>1. ASSUME NEW n \in 1 .. MaxBatch, Asks(n) PROVE AskInvariant'
  BY <1>1, AsksKeeps
<1>2. CASE Hears
  BY <1>2, HearsKeeps
<1>3. CASE RunCancelled
  BY <1>3, CancelKeeps
<1>4. ASSUME NEW g \in Runners, BridgeStep(g) PROVE AskInvariant'
  BY <1>4, ReceivesKeeps, EndsKeeps, AwaitsKeeps, ScreenSteps DEF BridgeStep
<1>5. CASE \/ LandQuestions \/ LandPermissions \/ TickWake \/ PermissionKey
           \/ (\E as \in {"answered", "dismissed"} : AnswerKey(as))
           \/ (\E forward \in BOOLEAN : WalkKey(forward)) \/ ScreenLeaves
           \/ RunStarts \/ RunFinishes \/ RunnerRebuilt
           \/ (\E p \in Permissions : AsksPermission(p))
           \/ UNCHANGED approvalVars
  BY <1>5, ScreenSteps
<1> QED BY <1>1, <1>2, <1>3, <1>4, <1>5 DEF ApprovalsNext, ApprovalsOver

\* What the model is told of a question is what the user did with it, however
\* many questions, calls, generations and permissions there are (ask.rs,
\* question_bridge.rs, app.rs).
THEOREM TheReportsAreTrue == ApprovalsSpec => []ReportsAreTrue
<1>1. ApprovalsInit => AskInvariant
  BY AskStart
<1>2. AskInvariant /\ [ApprovalsNext]_approvalVars => AskInvariant'
  BY AskStep
<1>3. AskInvariant => ReportsAreTrue
  BY DEF AskInvariant, ReportedTrue, ReportsAreTrue
<1> QED BY <1>1, <1>2, <1>3, PTL DEF ApprovalsSpec

-----------------------------------------------------------------------------
(* What is left of a queue.                                                *)

\* Where a position that stays comes among those that stay.
Rank(stays, i) == Cardinality({j \in stays : j <= i})

LEMMA RankGrows ==
  ASSUME NEW n \in Nat, NEW stays \in SUBSET (1 .. n)
  PROVE  /\ IsFiniteSet(stays) /\ Cardinality(stays) \in Nat
         /\ \A i \in stays : Rank(stays, i) \in 1 .. Cardinality(stays)
         /\ \A i, j \in stays : i < j => Rank(stays, i) < Rank(stays, j)
<1>1. IsFiniteSet(1 .. n)
  BY FS_Interval
<1>2. IsFiniteSet(stays) /\ Cardinality(stays) \in Nat
  BY <1>1, FS_Subset, FS_CardinalityType
<1>3. ASSUME NEW i \in stays
      PROVE  /\ IsFiniteSet({j \in stays : j <= i})
             /\ Rank(stays, i) \in Nat /\ Rank(stays, i) <= Cardinality(stays)
             /\ Rank(stays, i) # 0
  <2> DEFINE upTo == {j \in stays : j <= i}
  <2>1. upTo \in SUBSET stays /\ i \in upTo
    OBVIOUS
  <2> HIDE DEF upTo
  <2>2. /\ IsFiniteSet(upTo) /\ Cardinality(upTo) \in Nat
        /\ Cardinality(upTo) <= Cardinality(stays)
    BY <1>2, <2>1, FS_Subset, FS_CardinalityType
  <2>3. Cardinality(upTo) # 0
    BY <2>1, <2>2, FS_EmptySet
  <2> QED BY <2>2, <2>3 DEF Rank, upTo
<1>4. ASSUME NEW i \in stays, NEW j \in stays, i < j
      PROVE  Rank(stays, i) < Rank(stays, j)
  <2> DEFINE upToI == {k \in stays : k <= i}
             upToJ == {k \in stays : k <= j}
  <2>0. i \in Int /\ j \in Int /\ \A k \in stays : k \in Int
    OBVIOUS
  <2>1. upToI \in SUBSET upToJ /\ j \in upToJ /\ j \notin upToI
    <3>1. \A k \in stays : k <= i => k <= j
      BY <1>4, <2>0
    <3>2. j <= j /\ ~(j <= i)
      BY <1>4, <2>0
    <3> QED BY <3>1, <3>2
  <2>2. IsFiniteSet(upToJ) /\ Rank(stays, i) \in Nat /\ Rank(stays, j) \in Nat
    BY <1>3
  <2>3. Rank(stays, i) = Cardinality(upToI) /\ Rank(stays, j) = Cardinality(upToJ)
    BY DEF Rank
  <2> HIDE DEF upToI, upToJ
  <2>4. /\ Cardinality(upToI) <= Cardinality(upToJ)
        /\ Cardinality(upToJ) = Cardinality(upToI) => upToJ = upToI
    BY <2>1, <2>2, FS_Subset
  <2> QED BY <2>1, <2>2, <2>3, <2>4
<1>5. \A i \in stays : Rank(stays, i) \in 1 .. Cardinality(stays)
  <2> SUFFICES ASSUME NEW i \in stays
               PROVE  Rank(stays, i) \in 1 .. Cardinality(stays)
    OBVIOUS
  <2>1. /\ Rank(stays, i) \in Nat /\ Rank(stays, i) <= Cardinality(stays)
        /\ Rank(stays, i) # 0
    BY <1>3
  <2> QED BY <1>2, <2>1
<1> QED BY <1>2, <1>4, <1>5

\* Every place among those that stay is taken, once.
LEMMA RankOnto ==
  ASSUME NEW n \in Nat, NEW stays \in SUBSET (1 .. n)
  PROVE  /\ \A i, j \in stays : Rank(stays, i) = Rank(stays, j) => i = j
         /\ \A k \in 1 .. Cardinality(stays) : \E i \in stays : Rank(stays, i) = k
<1> DEFINE m == Cardinality(stays)
           f == [i \in stays |-> Rank(stays, i)]
<1>1. ASSUME NEW i \in stays, NEW j \in stays, Rank(stays, i) = Rank(stays, j)
      PROVE  i = j
  <2>1. i < j \/ j < i \/ i = j
    <3>1. i \in Int /\ j \in Int
      OBVIOUS
    <3> QED BY <3>1
  <2>2. /\ \A k \in stays : Rank(stays, k) \in 1 .. m
        /\ \A k, l \in stays : k < l => Rank(stays, k) < Rank(stays, l)
    BY RankGrows
  <2>3. Rank(stays, i) \in Int /\ Rank(stays, j) \in Int
    BY <2>2
  <2> QED BY <1>1, <2>1, <2>2, <2>3
<1>2. m \in Nat /\ f \in [stays -> 1 .. m]
  BY RankGrows
<1>3. IsFiniteSet(1 .. m) /\ Cardinality(1 .. m) = m
  BY <1>2, FS_Interval
<1>4. f \in Injection(stays, 1 .. m)
  BY <1>1, <1>2 DEF Injection, IsInjective
<1>5. f \in Surjection(stays, 1 .. m)
  <2> HIDE DEF f
  <2> QED BY <1>3, <1>4, FS_Injection
<1>6. \A k \in 1 .. m : \E i \in stays : f[i] = k
  BY <1>5 DEF Surjection
<1> QED BY <1>1, <1>6

\* A position that stays moves up by those gone ahead of it.
LEMMA RankIsShift ==
  ASSUME NEW n \in Nat, NEW gone, NEW v \in (1 .. n) \ gone
  PROVE  Rank((1 .. n) \ gone, v) = v - Cardinality({i \in gone \cap (1 .. n) : i < v})
<1> DEFINE ahead == {i \in gone \cap (1 .. n) : i < v}
<1>1. IsFiniteSet(1 .. v) /\ Cardinality(1 .. v) = v /\ v \in Nat
  BY FS_Interval
<1>2. {j \in (1 .. n) \ gone : j <= v} = (1 .. v) \ ahead
  OBVIOUS
<1>3. (1 .. v) \cap ahead = ahead
  OBVIOUS
<1> HIDE DEF ahead
<1>4. Cardinality((1 .. v) \ ahead) = v - Cardinality(ahead)
  BY <1>1, <1>3, FS_Difference
<1> QED BY <1>2, <1>4 DEF Rank, ahead

-----------------------------------------------------------------------------
(* Sequences without repetition.                                           *)

Once(s) == \A i, j \in 1 .. Len(s) : s[i] = s[j] => i = j
Apart(s, t) == \A q \in Range(s) : q \notin Range(t)

LEMMA HeadsAndTails ==
  ASSUME NEW S, NEW s \in Seq(S), s # <<>>
  PROVE  /\ Head(s) \in S /\ Tail(s) \in Seq(S)
         /\ \A e : e \in Range(s) <=> e = Head(s) \/ e \in Range(Tail(s))
         /\ Once(s) => Once(Tail(s)) /\ Head(s) \notin Range(Tail(s))
<1>1. /\ Head(s) \in S /\ Tail(s) \in Seq(S) /\ Head(s) = s[1]
      /\ Len(s) \in Nat /\ Len(s) >= 1 /\ Len(Tail(s)) = Len(s) - 1
      /\ \A i \in 1 .. Len(Tail(s)) : Tail(s)[i] = s[i + 1]
  BY HeadTailProperties, LenProperties, EmptySeq
<1>2. /\ \A e : e \in Range(s) <=> \E i \in 1 .. Len(s) : e = s[i]
      /\ \A e : e \in Range(Tail(s)) <=> \E i \in 1 .. Len(Tail(s)) : e = Tail(s)[i]
  BY <1>1, Ranged
<1> DEFINE t == Tail(s)
           h == Head(s)
           n == Len(s)
<1>3. /\ Len(t) = n - 1 /\ n \in Nat /\ n >= 1 /\ h = s[1]
      /\ \A i \in 1 .. n - 1 : t[i] = s[i + 1]
      /\ \A e : e \in Range(s) <=> \E i \in 1 .. n : e = s[i]
      /\ \A e : e \in Range(t) <=> \E i \in 1 .. n - 1 : e = t[i]
      /\ Len(s) = n
  BY <1>1, <1>2
<1> HIDE DEF t, h, n
<1>4. ASSUME NEW e
      PROVE  e \in Range(s) <=> e = h \/ e \in Range(t)
  <2>1. ASSUME e \in Range(s) PROVE e = h \/ e \in Range(t)
    <3>1. PICK i \in 1 .. n : e = s[i]
      BY <1>3, <2>1
    <3>2. CASE i = 1
      BY <1>3, <3>1, <3>2
    <3>3. CASE i # 1
      <4>1. i - 1 \in 1 .. n - 1 /\ (i - 1) + 1 = i
        BY <1>3, <3>3
      <4>2. t[i - 1] = s[i]
        BY <1>3, <4>1
      <4> QED BY <1>3, <3>1, <4>1, <4>2
    <3> QED BY <3>2, <3>3
  <2>2. ASSUME e = h \/ e \in Range(t) PROVE e \in Range(s)
    <3>1. CASE e = h
      BY <1>3, <3>1
    <3>2. CASE e \in Range(t)
      <4>1. PICK i \in 1 .. n - 1 : e = t[i]
        BY <1>3, <3>2
      <4>2. i + 1 \in 1 .. n /\ e = s[i + 1]
        BY <1>3, <4>1
      <4> QED BY <1>3, <4>2
    <3> QED BY <2>2, <3>1, <3>2
  <2> QED BY <2>1, <2>2
<1>5. ASSUME Once(s)
      PROVE  Once(t) /\ h \notin Range(t)
  <2>1. \A i, j \in 1 .. n : s[i] = s[j] => i = j
    BY <1>3, <1>5 DEF Once
  <2>2. ASSUME NEW i \in 1 .. n - 1, NEW j \in 1 .. n - 1, t[i] = t[j]
        PROVE  i = j
    <3>1. i + 1 \in 1 .. n /\ j + 1 \in 1 .. n /\ s[i + 1] = s[j + 1]
      BY <1>3, <2>2
    <3>2. i + 1 = j + 1
      BY <2>1, <3>1
    <3> QED BY <3>2
  <2>3. ASSUME h \in Range(t) PROVE FALSE
    <3>1. PICK i \in 1 .. n - 1 : h = t[i]
      BY <1>3, <2>3
    <3>2. 1 \in 1 .. n /\ i + 1 \in 1 .. n /\ s[1] = s[i + 1] /\ i + 1 # 1
      BY <1>3, <3>1
    <3> QED BY <2>1, <3>2
  <2>4. Once(t)
    BY <1>3, <2>2 DEF Once
  <2> QED BY <2>3, <2>4
<1> QED BY <1>1, <1>4, <1>5 DEF t, h

LEMMA Appends ==
  ASSUME NEW S, NEW s \in Seq(S), NEW e \in S
  PROVE  /\ Append(s, e) \in Seq(S)
         /\ \A x : x \in Range(Append(s, e)) <=> x \in Range(s) \/ x = e
         /\ (Once(s) /\ e \notin Range(s)) => Once(Append(s, e))
<1> DEFINE t == Append(s, e)
           n == Len(s)
<1>1. /\ t \in Seq(S) /\ Len(t) = n + 1 /\ n \in Nat /\ t[n + 1] = e
      /\ \A i \in 1 .. n : t[i] = s[i]
  BY AppendProperties, LenProperties
<1>2. /\ \A x : x \in Range(s) <=> \E i \in 1 .. n : x = s[i]
      /\ \A x : x \in Range(t) <=> \E i \in 1 .. n + 1 : x = t[i]
      /\ Len(s) = n
  <2>1. \A x : x \in Range(s) <=> \E i \in 1 .. n : x = s[i]
    BY Ranged
  <2>2. \A x : x \in Range(t) <=> \E i \in 1 .. Len(t) : x = t[i]
    BY <1>1, Ranged
  <2> QED BY <1>1, <2>1, <2>2
<1>3. \A i \in 1 .. n + 1 : i \in 1 .. n \/ i = n + 1
  BY <1>1
<1>4. \A i \in 1 .. n : i \in 1 .. n + 1
  BY <1>1
<1>5. n + 1 \in 1 .. n + 1
  BY <1>1
<1> HIDE DEF t, n
<1>6. ASSUME NEW x
      PROVE  x \in Range(t) <=> x \in Range(s) \/ x = e
  <2>1. x \in Range(t) => x \in Range(s) \/ x = e
    BY <1>1, <1>2, <1>3
  <2>2. x \in Range(s) => x \in Range(t)
    BY <1>1, <1>2, <1>4
  <2>3. x = e => x \in Range(t)
    BY <1>1, <1>2, <1>5
  <2> QED BY <2>1, <2>2, <2>3
<1>7. ASSUME Once(s), e \notin Range(s)
      PROVE  Once(t)
  <2>1. ASSUME NEW i \in 1 .. n + 1, NEW j \in 1 .. n + 1, t[i] = t[j]
        PROVE  i = j
    BY <1>1, <1>2, <1>3, <1>7, <2>1 DEF Once
  <2> QED BY <1>1, <2>1 DEF Once
<1> QED BY <1>1, <1>6, <1>7 DEF t

LEMMA Concats ==
  ASSUME NEW S, NEW s \in Seq(S), NEW t \in Seq(S)
  PROVE  /\ s \o t \in Seq(S) /\ Len(s \o t) = Len(s) + Len(t)
         /\ Len(s) \in Nat /\ Len(t) \in Nat
         /\ \A i \in 1 .. Len(s) : (s \o t)[i] = s[i]
         /\ \A x : x \in Range(s \o t) <=> x \in Range(s) \/ x \in Range(t)
         /\ (Once(s) /\ Once(t) /\ Apart(s, t)) => Once(s \o t)
<1> DEFINE u == s \o t
           m == Len(s)
           n == Len(t)
<1>1. /\ u \in Seq(S) /\ Len(u) = m + n /\ m \in Nat /\ n \in Nat
      /\ \A i \in 1 .. m : u[i] = s[i]
      /\ \A i \in 1 .. m + n : i > m => u[i] = t[i - m]
  BY ConcatProperties, LenProperties
<1>0. \A i \in 1 .. n : i + m \in 1 .. m + n /\ u[i + m] = t[i]
  <2> SUFFICES ASSUME NEW i \in 1 .. n
               PROVE  i + m \in 1 .. m + n /\ u[i + m] = t[i]
    OBVIOUS
  <2>1. i + m \in 1 .. m + n /\ i + m > m /\ (i + m) - m = i
    BY <1>1
  <2>2. u[i + m] = t[(i + m) - m]
    BY <1>1, <2>1
  <2> QED BY <2>1, <2>2
<1>2. /\ \A x : x \in Range(s) <=> \E i \in 1 .. m : x = s[i]
      /\ \A x : x \in Range(t) <=> \E i \in 1 .. n : x = t[i]
      /\ \A x : x \in Range(u) <=> \E i \in 1 .. m + n : x = u[i]
      /\ Len(s) = m /\ Len(t) = n
  <2>1. \A x : x \in Range(s) <=> \E i \in 1 .. m : x = s[i]
    BY Ranged
  <2>2. \A x : x \in Range(t) <=> \E i \in 1 .. n : x = t[i]
    BY Ranged
  <2>3. \A x : x \in Range(u) <=> \E i \in 1 .. Len(u) : x = u[i]
    BY <1>1, Ranged
  <2> QED BY <1>1, <2>1, <2>2, <2>3
<1>3. \A i \in 1 .. m + n : i \in 1 .. m \/ (i > m /\ i - m \in 1 .. n)
  BY <1>1
<1>4. \A i \in 1 .. m : i \in 1 .. m + n
  BY <1>1
<1> HIDE DEF u, m, n
<1>5. ASSUME NEW x
      PROVE  x \in Range(u) <=> x \in Range(s) \/ x \in Range(t)
  <2>1. x \in Range(u) => x \in Range(s) \/ x \in Range(t)
    BY <1>1, <1>2, <1>3
  <2>2. x \in Range(s) => x \in Range(u)
    BY <1>1, <1>2, <1>4
  <2>3. x \in Range(t) => x \in Range(u)
    BY <1>0, <1>2
  <2> QED BY <2>1, <2>2, <2>3
<1>6. ASSUME Once(s), Once(t), Apart(s, t)
      PROVE  Once(u)
  <2>1. ASSUME NEW i \in 1 .. m + n, NEW j \in 1 .. m + n, u[i] = u[j]
        PROVE  i = j
    <3>1. CASE i \in 1 .. m /\ j \in 1 .. m
      BY <1>1, <1>2, <1>6, <2>1, <3>1 DEF Once
    <3>2. CASE i > m /\ i - m \in 1 .. n /\ j > m /\ j - m \in 1 .. n
      <4>1. t[i - m] = t[j - m]
        BY <1>1, <2>1, <3>2
      <4>2. i - m = j - m
        BY <1>2, <1>6, <3>2, <4>1 DEF Once
      <4> QED BY <1>1, <4>2
    <3>3. CASE i \in 1 .. m /\ j > m /\ j - m \in 1 .. n
      BY <1>1, <1>2, <1>6, <2>1, <3>3 DEF Apart
    <3>4. CASE j \in 1 .. m /\ i > m /\ i - m \in 1 .. n
      BY <1>1, <1>2, <1>6, <2>1, <3>4 DEF Apart
    <3> QED BY <1>3, <3>1, <3>2, <3>3, <3>4
  <2> QED BY <1>1, <2>1 DEF Once
<1> QED BY <1>1, <1>5, <1>6 DEF u, m, n

LEMMA Removed ==
  ASSUME NEW S, NEW s \in Seq(S), NEW v \in 1 .. Len(s)
  PROVE  /\ RemoveAt(s, v) \in Seq(S)
         /\ \A x \in Range(RemoveAt(s, v)) : x \in Range(s)
         /\ \A x \in Range(s) : x = s[v] \/ x \in Range(RemoveAt(s, v))
         /\ Once(s) => Once(RemoveAt(s, v)) /\ s[v] \notin Range(RemoveAt(s, v))
<1> DEFINE t == RemoveAt(s, v)
           n == Len(s)
           from(i) == IF i < v THEN i ELSE i + 1
<1>1. /\ n \in Nat /\ v \in 1 .. n
      /\ \A i \in 1 .. n : s[i] \in S
  BY LenProperties, ElementOfSeq
<1>2. /\ t \in Seq(S) /\ Len(t) = n - 1
      /\ \A i \in 1 .. n - 1 : t[i] = s[from(i)]
  <2> DEFINE a == SubSeq(s, 1, v - 1)
             b == SubSeq(s, v + 1, n)
  <2>1. /\ a \in Seq(S) /\ Len(a) = v - 1
        /\ \A i \in 1 .. v - 1 : a[i] = s[i]
    BY <1>1
  <2>2. /\ b \in Seq(S) /\ Len(b) = n - v
        /\ \A i \in 1 .. n - v : b[i] = s[v + i]
    BY <1>1
  <2>3. t = a \o b
    BY DEF RemoveAt
  <2> HIDE DEF t, a, b
  <2>4. /\ t \in Seq(S) /\ Len(t) = n - 1
        /\ \A i \in 1 .. v - 1 : t[i] = a[i]
        /\ \A i \in 1 .. n - 1 : i > v - 1 => t[i] = b[i - (v - 1)]
    <3>1. /\ t \in Seq(S) /\ Len(t) = Len(a) + Len(b)
          /\ \A i \in 1 .. Len(a) + Len(b) :
               t[i] = IF i <= Len(a) THEN a[i] ELSE b[i - Len(a)]
      BY <2>1, <2>2, <2>3, ConcatProperties
    <3>2. Len(a) + Len(b) = n - 1
      BY <1>1, <2>1, <2>2
    <3>3. \A i \in 1 .. v - 1 : i \in 1 .. n - 1 /\ i <= v - 1
      BY <1>1
    <3>4. \A i \in 1 .. n - 1 : i > v - 1 => ~(i <= v - 1)
      BY <1>1
    <3> QED BY <2>1, <3>1, <3>2, <3>3, <3>4
  <2>5. ASSUME NEW i \in 1 .. n - 1
        PROVE  t[i] = s[from(i)]
    <3>1. CASE i < v
      BY <1>1, <2>1, <2>4, <3>1
    <3>2. CASE ~(i < v)
      <4>1. i - (v - 1) \in 1 .. n - v /\ v + (i - (v - 1)) = i + 1 /\ i > v - 1
        BY <1>1, <3>2
      <4> QED BY <2>2, <2>4, <3>2, <4>1
    <3> QED BY <3>1, <3>2
  <2> QED BY <2>4, <2>5
<1>3. /\ \A x : x \in Range(s) <=> \E i \in 1 .. n : x = s[i]
      /\ \A x : x \in Range(t) <=> \E i \in 1 .. n - 1 : x = t[i]
      /\ Len(s) = n
  BY <1>2, Ranged
<1>4. /\ \A i \in 1 .. n - 1 : from(i) \in 1 .. n /\ from(i) # v
      /\ \A i, j \in 1 .. n - 1 : from(i) = from(j) => i = j
      /\ \A j \in 1 .. n : j # v => \E i \in 1 .. n - 1 : from(i) = j
  <2>1. \A i \in 1 .. n - 1 : from(i) \in 1 .. n /\ from(i) # v
    BY <1>1
  <2>2. \A i, j \in 1 .. n - 1 : from(i) = from(j) => i = j
    BY <1>1
  <2>3. ASSUME NEW j \in 1 .. n, j # v
        PROVE  \E i \in 1 .. n - 1 : from(i) = j
    <3>1. CASE j < v
      <4>1. j \in 1 .. n - 1 /\ from(j) = j
        BY <1>1, <3>1
      <4> QED BY <4>1
    <3>2. CASE ~(j < v)
      <4>1. j - 1 \in 1 .. n - 1 /\ from(j - 1) = j
        BY <1>1, <2>3, <3>2
      <4> QED BY <4>1
    <3> QED BY <3>1, <3>2
  <2> QED BY <2>1, <2>2, <2>3
<1> HIDE DEF t, n, from
<1>5. \A x \in Range(t) : x \in Range(s)
  BY <1>2, <1>3, <1>4
<1>6. \A x \in Range(s) : x = s[v] \/ x \in Range(t)
  BY <1>2, <1>3, <1>4
<1>7. ASSUME Once(s)
      PROVE  Once(t) /\ s[v] \notin Range(t)
  <2>1. \A i, j \in 1 .. n : s[i] = s[j] => i = j
    BY <1>3, <1>7 DEF Once
  <2>2. Once(t)
    BY <1>2, <1>4, <2>1 DEF Once
  <2>3. s[v] \notin Range(t)
    BY <1>1, <1>2, <1>3, <1>4, <2>1
  <2> QED BY <2>2, <2>3
<1> QED BY <1>2, <1>5, <1>6, <1>7 DEF t

-----------------------------------------------------------------------------
(* A question's way to the user, and back.                                 *)

ViewRange(s) == 1 .. (IF s = <<>> THEN 1 ELSE Len(s))

SheetTypes ==
  /\ prompts \in [Runners -> Seq(Questions)]
  /\ askSink \in Seq(Questions) /\ questions \in Seq(Questions)
  /\ questionView \in ViewRange(questions)

BatchesOnce == \A g \in Runners : \A i \in 1 .. Len(requests[g]) : Once(requests[g][i])

\* No bridge has a prompt it did not open, and a prompt is in one place, once.
Unoffered(q) ==
  /\ q \notin Range(askSink) /\ q \notin Range(questions)
  /\ \A g \in Runners : q \notin Range(prompts[g]) /\ q \notin Range(awaiting[g])
OfferedKnown == \A q \in Questions : reply[q] = "unused" => Unoffered(q)

PromptsOnce ==
  /\ Once(askSink) /\ Once(questions) /\ Apart(askSink, questions)
  /\ \A g \in Runners : /\ Once(prompts[g]) /\ Apart(prompts[g], askSink)
                        /\ Apart(prompts[g], questions)
                        /\ \A h \in Runners : h # g => Apart(prompts[g], prompts[h])

\* An open prompt the bridge waits on is on its way to the sheet, or on it,
Shows(g, q) == q \in Range(prompts[g]) \/ q \in Range(askSink) \/ q \in Range(questions)
PromptOnItsWay ==
  \A g \in Runners : \A q \in Questions :
    (q \in Range(awaiting[g]) /\ reply[q] = "open") => Shows(g, q)

\* and an open question of the call is on its way to the runner's bridge, or with it.
Comes(q) == \/ \E i \in 1 .. Len(requests[runner]) : q \in Batch(runner, i)
            \/ q \in Range(awaiting[runner])
QuestionOnItsWay == \A q \in Awaited : response[q] = "open" => Comes(q)

RestIsQuiet == running \in BOOLEAN /\ (~running => batch = <<>>)

QueueInv ==
  /\ SheetTypes /\ BatchesOnce /\ OfferedKnown /\ PromptsOnce
  /\ PromptOnItsWay /\ QuestionOnItsWay /\ RestIsQuiet

\* What a wake of the screen leaves on the sheet, and in the user's view.
LEMMA RetiredParts ==
  ASSUME NEW qs \in Seq(Questions), NEW view \in ViewRange(qs), Retired(qs, view)
  PROVE  /\ questions' \in Seq(Questions) /\ questionView' \in ViewRange(questions')
         /\ \A q \in Range(questions') : q \in Range(qs)
         /\ \A q \in Range(qs) : reply'[q] # "withdrawn" => q \in Range(questions')
         /\ Once(qs) => Once(questions')
         /\ (qs # <<>> /\ Once(qs) /\ qs[view] \in Range(questions')) =>
              questionView' <= Len(questions') /\ questions'[questionView'] = qs[view]
<1> DEFINE gone == Withdrawn(qs)
           stays == DOMAIN qs \ gone
           n == Len(qs)
           m == Cardinality(stays)
           new == questions'
           rank(i) == Rank(stays, i)
           ahead == Cardinality({i \in gone : i < view})
<1>1. /\ new = Remaining(qs, gone)
      /\ questionView' = IF gone = {} THEN view ELSE ClampedView(new, view - ahead)
  BY DEF Retired
<1>2. /\ n \in Nat /\ DOMAIN qs = 1 .. n /\ gone \in SUBSET (1 .. n)
      /\ stays = (1 .. n) \ gone
      /\ \A i \in 1 .. n : i \in gone <=> reply'[qs[i]] = "withdrawn"
  BY LenProperties DEF Withdrawn
<1>3. /\ new \in Seq(Questions) /\ Len(new) = m /\ m \in Nat
      /\ \A i \in stays : rank(i) \in 1 .. m /\ new[rank(i)] = qs[i]
      /\ \A k \in 1 .. m : \E i \in stays : rank(i) = k /\ new[k] = qs[i]
  <2>1. /\ stays \in SUBSET (1 .. n)
        /\ \A i \in stays : qs[i] \in Questions
    BY <1>2, ElementOfSeq
  <2>2. /\ \A i, j \in stays : rank(i) = rank(j) => i = j
        /\ \A k \in 1 .. m : \E i \in stays : rank(i) = k
    BY <1>2, <2>1, RankOnto
  <2>3. m \in Nat /\ \A i \in stays : rank(i) \in 1 .. m
    BY <1>2, <2>1, RankGrows
  <2> DEFINE nth(k) == CHOOSE i \in stays : rank(i) = k
  <2>4. \A k \in 1 .. m : nth(k) \in stays /\ rank(nth(k)) = k
    <3> SUFFICES ASSUME NEW k \in 1 .. m
                 PROVE  nth(k) \in stays /\ rank(nth(k)) = k
      OBVIOUS
    <3>1. \E i \in stays : rank(i) = k
      BY <2>2
    <3> QED BY <3>1
  <2>5. new = [k \in 1 .. m |-> qs[nth(k)]]
    BY <1>1 DEF Remaining, Rank
  <2> HIDE DEF nth, rank, new, stays, gone, m
  <2>6. \A i \in stays : nth(rank(i)) = i
    BY <2>2, <2>3, <2>4
  <2>7. \A k \in 1 .. m : new[k] = qs[nth(k)]
    BY <2>5
  <2>8. new \in Seq(Questions) /\ Len(new) = m
    <3>1. new \in [1 .. m -> Questions]
      BY <2>1, <2>4, <2>5
    <3>2. new \in Seq(Questions)
      BY <2>3, <3>1, SeqDef
    <3>3. DOMAIN new = 1 .. m /\ DOMAIN new = 1 .. Len(new) /\ Len(new) \in Nat
      BY <3>1, <3>2, LenProperties
    <3> QED BY <2>3, <3>2, <3>3
  <2>9. \A i \in stays : new[rank(i)] = qs[i]
    BY <2>3, <2>6, <2>7
  <2> QED BY <2>3, <2>4, <2>7, <2>8, <2>9
<1>4. \A q : q \in Range(qs) <=> \E i \in 1 .. n : q = qs[i]
  BY Ranged
<1>5. \A q : q \in Range(new) <=> \E k \in 1 .. m : q = new[k]
  BY <1>3, Ranged
<1>7. view \in stays => rank(view) = view - ahead
  <2> SUFFICES ASSUME view \in stays
               PROVE  rank(view) = view - ahead
    OBVIOUS
  <2>1. view \in (1 .. n) \ gone /\ gone \cap (1 .. n) = gone
    BY <1>2
  <2>2. Rank((1 .. n) \ gone, view) = view - Cardinality({i \in gone \cap (1 .. n) : i < view})
    BY <1>2, <2>1, RankIsShift
  <2> QED BY <1>2, <2>1, <2>2
<1>8. /\ ahead \in Nat /\ view \in Nat /\ view >= 1 /\ view - ahead >= 1
      /\ gone = {} => m = n /\ ahead = 0
  <2>1. view \in Nat /\ view >= 1
    <3>1. CASE qs = <<>>
      BY <3>1 DEF ViewRange
    <3>2. CASE qs # <<>>
      BY <1>2, <3>2 DEF ViewRange
    <3> QED BY <3>1, <3>2
  <2>2. {i \in gone : i < view} \in SUBSET (1 .. view - 1)
    BY <1>2, <2>1
  <2>3. IsFiniteSet(1 .. view - 1) /\ Cardinality(1 .. view - 1) = view - 1
    BY <2>1, FS_Interval
  <2>4. ahead \in Nat /\ ahead <= view - 1
    BY <2>2, <2>3, FS_Subset, FS_CardinalityType
  <2>5. gone = {} => m = n
    BY <1>2, FS_Interval
  <2>6. gone = {} => ahead = 0
    <3>1. gone = {} => {i \in gone : i < view} = {}
      OBVIOUS
    <3> QED BY <3>1, FS_EmptySet
  <2> QED BY <2>1, <2>4, <2>5, <2>6
<1> HIDE DEF gone, stays, n, m, new, rank, ahead
<1>9. \A q \in Range(new) : q \in Range(qs)
  BY <1>2, <1>3, <1>4, <1>5
<1>10. \A q \in Range(qs) : reply'[q] # "withdrawn" => q \in Range(new)
  <2> SUFFICES ASSUME NEW q \in Range(qs), reply'[q] # "withdrawn"
               PROVE  q \in Range(new)
    OBVIOUS
  <2>1. PICK i \in 1 .. n : q = qs[i]
    BY <1>4
  <2>2. i \in stays
    BY <1>2, <2>1
  <2>3. rank(i) \in 1 .. m /\ new[rank(i)] = q
    BY <1>3, <2>1, <2>2
  <2> QED BY <1>5, <2>3
<1>11. Once(qs) => Once(new)
  <2> SUFFICES ASSUME Once(qs), NEW k \in 1 .. m, NEW l \in 1 .. m, new[k] = new[l]
               PROVE  k = l
    BY <1>3 DEF Once
  <2>1. PICK i \in stays : rank(i) = k /\ new[k] = qs[i]
    BY <1>3
  <2>2. PICK j \in stays : rank(j) = l /\ new[l] = qs[j]
    BY <1>3
  <2>3. i \in 1 .. n /\ j \in 1 .. n /\ qs[i] = qs[j]
    BY <1>2, <2>1, <2>2
  <2>4. i = j
    BY <2>3 DEF Once, n
  <2> QED BY <2>1, <2>2, <2>4
<1>12. questionView' \in ViewRange(new)
  <2>1. CASE gone = {}
    <3>1. questionView' = view /\ m = n
      BY <1>1, <1>8, <2>1
    <3>2. new = <<>> <=> qs = <<>>
      <4>1. new = <<>> <=> m = 0
        BY <1>3
      <4>2. qs = <<>> <=> n = 0
        BY DEF n
      <4> QED BY <3>1, <4>1, <4>2
    <3> QED BY <1>3, <3>1, <3>2 DEF ViewRange, n
  <2>2. CASE gone # {}
    <3>1. questionView' = ClampedView(new, view - ahead)
      BY <1>1, <2>2
    <3>2. new # <<>> => m >= 1
      BY <1>3
    <3> QED BY <1>3, <1>8, <3>1, <3>2 DEF ViewRange, ClampedView
  <2> QED BY <2>1, <2>2
<1>13. ASSUME qs # <<>>, Once(qs), qs[view] \in Range(new)
       PROVE  questionView' <= m /\ new[questionView'] = qs[view]
  <2>1. view \in 1 .. n
    BY <1>13 DEF ViewRange, n
  <2>2. PICK k \in 1 .. m : qs[view] = new[k]
    BY <1>5, <1>13
  <2>3. PICK i \in stays : new[k] = qs[i]
    BY <1>3
  <2>4. i \in 1 .. n /\ qs[i] = qs[view]
    BY <1>2, <2>2, <2>3
  <2>5. view \in stays
    BY <1>13, <2>1, <2>4 DEF Once, n
  <2>6. view - ahead \in 1 .. m /\ new[view - ahead] = qs[view]
    BY <1>3, <1>7, <2>5
  <2>7. questionView' = view - ahead
    <3>1. CASE gone = {}
      BY <1>1, <1>8, <3>1
    <3>2. CASE gone # {}
      <4>1. new # <<>> /\ ~(view - ahead > Len(new))
        BY <1>3, <2>6
      <4> QED BY <1>1, <3>2, <4>1 DEF ClampedView
    <3> QED BY <3>1, <3>2
  <2> QED BY <1>3, <2>6, <2>7
<1> QED BY <1>3, <1>9, <1>10, <1>11, <1>12, <1>13 DEF new

\* What the tool and the bridges do leaves what stands of the way as it is,
LEMMA PipeStands ==
  ASSUME QueueInv,
         UNCHANGED <<prompts, askSink, questions, questionView, awaiting, reply>>
  PROVE  SheetTypes' /\ OfferedKnown' /\ PromptsOnce' /\ PromptOnItsWay'
<1>1. SheetTypes'
  BY DEF QueueInv, SheetTypes
<1>2. OfferedKnown'
  BY DEF QueueInv, OfferedKnown, Unoffered
<1>3. PromptsOnce'
  BY DEF QueueInv, PromptsOnce, Once, Apart
<1>4. PromptOnItsWay'
  BY DEF QueueInv, PromptOnItsWay, Shows
<1> QED BY <1>1, <1>2, <1>3, <1>4

\* and what the screen does the call and its question.
LEMMA CallStands ==
  ASSUME QueueInv, UNCHANGED <<requests, awaiting, response, batch, at, runner, running>>
  PROVE  BatchesOnce' /\ QuestionOnItsWay' /\ RestIsQuiet'
<1>1. BatchesOnce'
  <2>1. BatchesOnce /\ requests' = requests
    BY DEF QueueInv
  <2> QED BY <2>1 DEF BatchesOnce, Once
<1>2. Awaited' = Awaited
  BY DEF Awaited
<1>3. \A q : Comes(q) => Comes(q)'
  BY DEF Comes, Batch
<1>4. QuestionOnItsWay'
  BY <1>2, <1>3 DEF QueueInv, QuestionOnItsWay
<1>5. RestIsQuiet'
  BY DEF QueueInv, RestIsQuiet
<1> QED BY <1>1, <1>4, <1>5

LEMMA NothingAwaited == batch = <<>> /\ at = 1 => Awaited = {}
BY DEF Awaited

LEMMA RunKeeps ==
  ASSUME AskInvariant, QueueInv,
         \/ Hears \/ RunCancelled \/ RunStarts \/ RunFinishes \/ RunnerRebuilt
         \/ (\E p \in Permissions : AsksPermission(p)) \/ UNCHANGED approvalVars
  PROVE  QueueInv'
<1>1. /\ UNCHANGED <<prompts, askSink, questions, questionView, awaiting, reply>>
      /\ requests' = requests
  BY DEF Hears, RunCancelled, RunStarts, RunFinishes, RunnerRebuilt, AsksPermission,
         approvalVars, askVars, AskVarsButTool
<1>2. BatchesOnce'
  BY <1>1 DEF QueueInv, BatchesOnce, Once
<1>3. QuestionOnItsWay /\ RestIsQuiet /\ (batch = <<>> => at = 1)
  BY DEF QueueInv, AskInvariant, InPlace
<1>4. QuestionOnItsWay' /\ RestIsQuiet'
  <2>1. CASE Hears
    <3>1. UNCHANGED <<runner, running, requests, awaiting, response>>
      BY <2>1 DEF Hears, AskVarsButTool
    <3>2. /\ batch # <<>> /\ batch \in Seq(Questions) /\ at \in Nat \ {0}
          /\ Len(batch) \in Nat
      BY <2>1, LenProperties DEF Hears, AskInvariant, AskTypes
    <3>3. \/ batch' = <<>> /\ at' = 1
          \/ batch' = batch /\ at' = at + 1
      BY <2>1 DEF Hears, CallOver
    <3>4. \A q \in Awaited' : q \in Awaited
      <4>1. CASE batch' = <<>> /\ at' = 1
        BY <4>1 DEF Awaited
      <4>2. CASE batch' = batch /\ at' = at + 1
        <5>1. \A i \in at + 1 .. Len(batch) : i \in at .. Len(batch)
          BY <3>2
        <5> QED BY <4>2, <5>1 DEF Awaited
      <4> QED BY <3>3, <4>1, <4>2
    <3>5. \A q : Comes(q) => Comes(q)'
      BY <3>1 DEF Comes, Batch
    <3>6. running
      BY <1>3, <3>2 DEF RestIsQuiet
    <3>7. RestIsQuiet'
      BY <1>3, <3>1, <3>6 DEF RestIsQuiet
    <3> QED BY <1>3, <3>1, <3>4, <3>5, <3>7 DEF QuestionOnItsWay
  <2>2. CASE RunCancelled \/ RunFinishes \/ RunnerRebuilt
    <3>1. batch' = <<>> /\ at' = 1
      BY <1>3, <2>2 DEF RunCancelled, CallOver, RunFinishes, RunnerRebuilt, RestIsQuiet
    <3>2. Awaited' = {}
      BY <3>1 DEF Awaited
    <3>3. running' \in BOOLEAN
      BY <1>3, <2>2 DEF RunCancelled, RunFinishes, RunnerRebuilt, RestIsQuiet
    <3> QED BY <3>1, <3>2, <3>3 DEF QuestionOnItsWay, RestIsQuiet
  <2>3. CASE RunStarts
    <3>1. UNCHANGED <<runner, requests, awaiting, response, batch, at>> /\ running' = TRUE
      BY <2>3 DEF RunStarts
    <3>2. Awaited' = Awaited /\ \A q : Comes(q) => Comes(q)'
      BY <3>1 DEF Awaited, Comes, Batch
    <3> QED BY <1>3, <3>1, <3>2 DEF QuestionOnItsWay, RestIsQuiet
  <2>4. CASE (\E p \in Permissions : AsksPermission(p)) \/ UNCHANGED approvalVars
    <3>1. UNCHANGED <<requests, awaiting, response, batch, at, runner, running>>
      BY <2>4 DEF AsksPermission, approvalVars, askVars
    <3> QED BY <3>1, CallStands
  <2> QED BY <2>1, <2>2, <2>3, <2>4
<1> QED BY <1>1, <1>2, <1>4, PipeStands DEF QueueInv

LEMMA AskQueues ==
  ASSUME AskInvariant, QueueInv, NEW n \in 1 .. MaxBatch, Asks(n)
  PROVE  QueueInv'
<1> DEFINE new == [i \in 1 .. n |-> asked + i]
<1>1. /\ batch = <<>> /\ running
      /\ UNCHANGED <<running, runner, prompts, askSink, questions, questionView, awaiting,
                     reply>>
      /\ \/ UNCHANGED <<batch, at, response, requests>>
         \/ /\ requests' = [requests EXCEPT ![runner] = Append(@, new)]
            /\ batch' = new /\ UNCHANGED at
  BY DEF Asks
<1>2. /\ asked \in Nat /\ runner \in Runners /\ n \in Nat \ {0}
      /\ requests \in [Runners -> Seq(Seq(Questions))] /\ at = 1
      /\ asked + n <= MaxQuestions /\ MaxQuestions \in Nat
  BY <1>1, AskBounds DEF AskInvariant, AskTypes, InPlace, Asks
<1>3. CASE UNCHANGED <<batch, at, response, requests>>
  BY <1>1, <1>3, PipeStands, CallStands DEF QueueInv
<1>4. CASE /\ requests' = [requests EXCEPT ![runner] = Append(@, new)]
           /\ batch' = new /\ UNCHANGED at
  <2>1. /\ new \in Seq(Questions) /\ Len(new) = n
        /\ \A i \in 1 .. n : new[i] = asked + i
    <3>1. \A i \in 1 .. n : asked + i \in Questions
      BY <1>2 DEF Questions
    <3>2. new \in [1 .. n -> Questions] /\ DOMAIN new = 1 .. n
      BY <3>1
    <3>3. \A i \in 1 .. n : new[i] = asked + i
      OBVIOUS
    <3> HIDE DEF new
    <3>4. new \in Seq(Questions)
      BY <1>2, <3>2, SeqDef
    <3>5. DOMAIN new = 1 .. Len(new) /\ Len(new) \in Nat
      BY <3>4, LenProperties
    <3> QED BY <1>2, <3>2, <3>3, <3>4, <3>5
  <2>2. Once(new)
    <3>1. \A i, j \in 1 .. n : asked + i = asked + j => i = j
      BY <1>2
    <3> HIDE DEF new
    <3> QED BY <2>1, <3>1 DEF Once
  <2> DEFINE old == requests[runner]
  <2>3. old \in Seq(Seq(Questions)) /\ batch' = new /\ at' = 1
    BY <1>2, <1>4
  <2> HIDE DEF new
  <2>4. /\ requests'[runner] = Append(old, new)
        /\ \A g \in Runners : g # runner => requests'[g] = requests[g]
    <3> DEFINE Pipe == Seq(Seq(Questions))
    <3>1. requests \in [Runners -> Pipe]
      BY <1>2
    <3> HIDE DEF Pipe
    <3>2. requests' = [requests EXCEPT ![runner] = Append(old, new)]
      BY <1>4
    <3> QED BY <1>2, <3>1, <3>2
  <2>5. /\ Len(requests'[runner]) = Len(old) + 1 /\ Len(old) \in Nat
        /\ \A i \in 1 .. Len(old) : requests'[runner][i] = old[i]
        /\ requests'[runner][Len(old) + 1] = new
    BY <2>1, <2>3, <2>4, AppendProperties, LenProperties
  <2>6. BatchesOnce'
    <3> SUFFICES ASSUME NEW g \in Runners, NEW i \in 1 .. Len(requests'[g])
                 PROVE  Once(requests'[g][i])
      BY DEF BatchesOnce, Once
    <3>1. CASE g # runner
      BY <2>4, <3>1 DEF QueueInv, BatchesOnce
    <3>2. CASE g = runner /\ i \in 1 .. Len(old)
      BY <2>5, <3>2 DEF QueueInv, BatchesOnce
    <3>3. CASE g = runner /\ i = Len(old) + 1
      BY <2>2, <2>5, <3>3
    <3>4. g = runner => i \in 1 .. Len(old) \/ i = Len(old) + 1
      BY <2>5
    <3> QED BY <3>1, <3>2, <3>3, <3>4
  <2>7. QuestionOnItsWay'
    <3>1. \A q \in Awaited' : q \in Range(new)
      <4>1. \A q \in Awaited' : \E i \in 1 .. Len(new) : q = new[i]
        BY <2>3 DEF Awaited
      <4> QED BY <2>1, <4>1, Ranged
    <3>2. Len(old) + 1 \in 1 .. Len(requests'[runner])
      BY <2>5
    <3>3. \A q \in Range(new) : Comes(q)'
      BY <1>1, <2>5, <3>2 DEF Comes, Batch
    <3> QED BY <3>1, <3>3 DEF QuestionOnItsWay
  <2>8. RestIsQuiet'
    BY <1>1 DEF QueueInv, RestIsQuiet
  <2> QED BY <1>1, <2>6, <2>7, <2>8, PipeStands DEF QueueInv
<1> QED BY <1>1, <1>3, <1>4

LEMMA Closes ==
  ASSUME AskInvariant, NEW qs, NEW as \in {"dropped", "answered", "dismissed"},
         reply' = Closed(reply, qs, as)
  PROVE  /\ \A q \in Questions : reply'[q] = reply[q]
                                 \/ (reply[q] = "open" /\ reply'[q] # "unused" /\ q \in qs)
         /\ \A q \in Questions : q \in qs => reply'[q] # "open"
<1>1. DOMAIN reply = Questions
  BY DEF AskInvariant, AskTypes
<1> QED BY <1>1 DEF Closed

LEMMA WakeKeeps ==
  ASSUME AskInvariant, QueueInv, NEW qs \in Seq(Questions), NEW view \in ViewRange(qs),
         Retired(qs, view), Once(qs),
         \A q \in Questions : reply'[q] = reply[q] \/ (reply[q] = "open" /\ reply'[q] # "unused"),
         UNCHANGED <<prompts, awaiting, requests, response, batch, at, runner, running>>,
         askSink' \in {askSink, <<>>},
         \A q \in Range(qs) :
           q \in Range(questions) \/ (askSink' = <<>> /\ q \in Range(askSink)),
         \A q \in Questions :
           (reply'[q] = "open" /\ (q \in Range(questions) \/ q \in Range(askSink)))
             => q \in Range(qs) \/ q \in Range(askSink')
  PROVE  QueueInv'
<1>1. SheetTypes /\ OfferedKnown /\ PromptsOnce /\ PromptOnItsWay
  BY DEF QueueInv
<1>2. /\ questions' \in Seq(Questions) /\ questionView' \in ViewRange(questions')
      /\ \A q \in Range(questions') : q \in Range(qs)
      /\ \A q \in Range(qs) : reply'[q] # "withdrawn" => q \in Range(questions')
      /\ Once(questions')
  BY RetiredParts
<1>3. Range(<<>>) = {} /\ Len(<<>>) = 0 /\ <<>> \in Seq(Questions)
  BY DEF Range
<1>4. \A q \in Range(askSink') : q \in Range(askSink)
  BY <1>3
<1>5. SheetTypes'
  BY <1>1, <1>2, <1>3 DEF SheetTypes, ViewRange
<1>6. OfferedKnown'
  <2> SUFFICES ASSUME NEW q \in Questions, reply'[q] = "unused"
               PROVE  Unoffered(q)'
    BY DEF OfferedKnown
  <2>1. reply[q] = "unused"
    OBVIOUS
  <2>2. Unoffered(q)
    BY <1>1, <2>1 DEF OfferedKnown
  <2> QED BY <1>2, <1>4, <2>2 DEF Unoffered
<1>7. PromptsOnce'
  <2>1. Once(askSink)'
    BY <1>1, <1>3 DEF PromptsOnce, Once
  <2>2. Apart(askSink, questions)'
    BY <1>1, <1>2, <1>3 DEF PromptsOnce, Apart
  <2>3. ASSUME NEW g \in Runners
        PROVE  /\ Once(prompts[g])' /\ Apart(prompts[g], askSink)'
               /\ Apart(prompts[g], questions)'
               /\ \A h \in Runners : h # g => Apart(prompts[g], prompts[h])'
    <3>1. Once(prompts[g])' /\ \A h \in Runners : h # g => Apart(prompts[g], prompts[h])'
      BY <1>1 DEF PromptsOnce, Once, Apart
    <3>2. Apart(prompts[g], askSink)'
      BY <1>1, <1>4 DEF PromptsOnce, Apart
    <3>3. Apart(prompts[g], questions)'
      BY <1>1, <1>2 DEF PromptsOnce, Apart
    <3> QED BY <3>1, <3>2, <3>3
  <2>4. Once(questions)'
    BY <1>2 DEF Once
  <2> QED BY <2>1, <2>2, <2>3, <2>4 DEF PromptsOnce
<1>8. PromptOnItsWay'
  <2> SUFFICES ASSUME NEW g \in Runners, NEW q \in Questions,
                      q \in Range(awaiting'[g]), reply'[q] = "open"
               PROVE  Shows(g, q)'
    BY DEF PromptOnItsWay
  <2>1. q \in Range(awaiting[g]) /\ reply[q] = "open"
    OBVIOUS
  <2>2. Shows(g, q)
    BY <1>1, <2>1 DEF PromptOnItsWay
  <2>3. CASE q \in Range(prompts[g])
    BY <2>3 DEF Shows
  <2>4. CASE q \in Range(askSink) \/ q \in Range(questions)
    <3>1. q \in Range(qs) \/ q \in Range(askSink')
      BY <2>4
    <3>2. q \in Range(questions') \/ q \in Range(askSink')
      BY <1>2, <3>1
    <3> QED BY <3>2 DEF Shows
  <2> QED BY <2>2, <2>3, <2>4 DEF Shows
<1> QED BY <1>5, <1>6, <1>7, <1>8, CallStands DEF QueueInv

LEMMA SheetKeeps ==
  ASSUME AskInvariant, QueueInv,
         \/ LandQuestions \/ LandPermissions \/ TickWake \/ PermissionKey
         \/ (\E as \in {"answered", "dismissed"} : AnswerKey(as))
         \/ (\E forward \in BOOLEAN : WalkKey(forward))
  PROVE  QueueInv'
<1>1. UNCHANGED <<prompts, awaiting, requests, response, batch, at, runner, running>>
  BY DEF LandQuestions, LandPermissions, TickWake, PermissionKey, AnswerKey, WalkKey,
         ScreenOnly
<1>2. /\ questions \in Seq(Questions) /\ askSink \in Seq(Questions)
      /\ questionView \in ViewRange(questions)
      /\ Once(questions) /\ Once(askSink) /\ Apart(questions, askSink)
  BY DEF QueueInv, SheetTypes, PromptsOnce, Apart
<1>3. Len(questions) \in Nat /\ (questions = <<>> <=> Len(questions) = 0)
  BY <1>2
<1>4. CASE LandQuestions
  <2>1. /\ askSink # <<>> /\ askSink' = <<>> /\ reply' = reply
        /\ Retired(questions \o askSink, questionView)
    BY <1>4 DEF LandQuestions
  <2> DEFINE all == questions \o askSink
  <2>2. /\ all \in Seq(Questions) /\ Len(all) = Len(questions) + Len(askSink)
        /\ \A q : q \in Range(all) <=> q \in Range(questions) \/ q \in Range(askSink)
        /\ Once(all) /\ Len(askSink) \in Nat
    BY <1>2, Concats
  <2>3. Len(askSink) # 0
    BY <1>2, <2>1
  <2>4. questionView \in ViewRange(all)
    <3> HIDE DEF all
    <3>1. all # <<>> /\ Len(all) >= 1
      BY <1>3, <2>2, <2>3
    <3> QED BY <1>2, <1>3, <2>2, <3>1 DEF ViewRange
  <2> HIDE DEF all
  <2>5. Retired(all, questionView)
    BY <2>1 DEF all
  <2> QED BY <1>1, <2>1, <2>2, <2>4, <2>5, WakeKeeps
<1>5. CASE \/ LandPermissions \/ PermissionKey \/ (TickWake /\ running)
           \/ (\E forward \in BOOLEAN : WalkKey(forward))
  <2>1. reply' = reply /\ askSink' = askSink
    BY <1>5 DEF LandPermissions, PermissionKey, TickWake, WalkKey
  <2>2. \E view \in ViewRange(questions) : Retired(questions, view)
    <3>1. CASE LandPermissions \/ PermissionKey \/ (TickWake /\ running)
      BY <1>2, <3>1 DEF LandPermissions, PermissionKey, TickWake
    <3>2. CASE \E forward \in BOOLEAN : WalkKey(forward)
      <4>1. PICK forward \in BOOLEAN : WalkKey(forward)
        BY <3>2
      <4> DEFINE view == IF forward THEN (questionView % Len(questions)) + 1
                         ELSE IF questionView = 1 THEN Len(questions) ELSE questionView - 1
      <4>2. Len(questions) >= 2 /\ Retired(questions, view)
        BY <4>1 DEF WalkKey
      <4>3. questionView \in 1 .. Len(questions) /\ questions # <<>>
        BY <1>2, <1>3, <4>2 DEF ViewRange
      <4>4. view \in 1 .. Len(questions)
        <5>1. questionView % Len(questions) \in 0 .. Len(questions) - 1
          BY <1>3, <4>2, <4>3
        <5> QED BY <1>3, <4>2, <4>3, <5>1
      <4> HIDE DEF view
      <4> QED BY <4>2, <4>3, <4>4 DEF ViewRange
    <3> QED BY <1>5, <3>1, <3>2
  <2>3. PICK view \in ViewRange(questions) : Retired(questions, view)
    BY <2>2
  <2> QED BY <1>1, <1>2, <2>1, <2>3, WakeKeeps
<1>6. CASE TickWake /\ ~running
  <2>1. /\ reply' = Closed(reply, Range(questions), "dropped")
        /\ Retired(<<>>, 1) /\ askSink' = askSink
    BY <1>6 DEF TickWake
  <2>2. /\ Range(<<>>) = {} /\ <<>> \in Seq(Questions) /\ 1 \in ViewRange(<<>>)
        /\ Once(<<>>)
    BY DEF Range, ViewRange, Once
  <2>3. /\ \A q \in Questions : reply'[q] = reply[q]
                                \/ (reply[q] = "open" /\ reply'[q] # "unused")
        /\ \A q \in Questions : q \in Range(questions) => reply'[q] # "open"
    BY <2>1, Closes
  <2> QED BY <1>1, <2>1, <2>2, <2>3, WakeKeeps
<1>7. ASSUME NEW as \in {"answered", "dismissed"}, AnswerKey(as)
      PROVE  QueueInv'
  <2> DEFINE rest == RemoveAt(questions, questionView)
  <2>1. /\ Shown # 0 /\ reply' = Closed(reply, {Shown}, as) /\ askSink' = askSink
        /\ Retired(rest, ClampedView(rest, questionView))
    BY <1>7 DEF AnswerKey, QuestionSheetUp
  <2>2. /\ questionView \in 1 .. Len(questions) /\ questionView \in Nat
        /\ Shown = questions[questionView]
    <3>1. questionView <= Len(questions) /\ Shown = questions[questionView]
      BY <2>1 DEF Shown
    <3> QED BY <1>2, <1>3, <3>1 DEF ViewRange
  <2>3. /\ rest \in Seq(Questions) /\ \A x \in Range(rest) : x \in Range(questions)
        /\ \A x \in Range(questions) : x = Shown \/ x \in Range(rest)
        /\ Once(rest)
    BY <1>2, <2>2, Removed
  <2> HIDE DEF rest
  <2>4. ClampedView(rest, questionView) \in ViewRange(rest)
    <3>1. Len(rest) \in Nat /\ (rest # <<>> => Len(rest) >= 1)
      BY <2>3
    <3> QED BY <2>2, <3>1 DEF ClampedView, ViewRange
  <2>5. /\ \A q \in Questions : reply'[q] = reply[q]
                                \/ (reply[q] = "open" /\ reply'[q] # "unused")
        /\ \A q \in Questions : q = Shown => reply'[q] # "open"
    BY <2>1, Closes
  <2> QED BY <1>1, <2>1, <2>3, <2>4, <2>5, WakeKeeps
<1> QED BY <1>4, <1>5, <1>6, <1>7

\* A prompt handed on is still on its way, and one let go of is closed.
LEMMA HandedOn ==
  ASSUME AskInvariant, QueueInv, SheetTypes', PromptsOnce',
         \A q \in Questions : reply'[q] = reply[q] \/ (reply[q] = "open" /\ reply'[q] # "unused"),
         UNCHANGED <<awaiting, requests, response, batch, at, runner, running>>,
         \A q \in Questions : Unoffered(q) => Unoffered(q)',
         \A g \in Runners : \A q \in Questions :
           (Shows(g, q) /\ reply'[q] = "open") => Shows(g, q)'
  PROVE  QueueInv'
<1>1. OfferedKnown'
  <2> SUFFICES ASSUME NEW q \in Questions, reply'[q] = "unused"
               PROVE  Unoffered(q)'
    BY DEF OfferedKnown
  <2>1. reply[q] = "unused"
    OBVIOUS
  <2> QED BY <2>1 DEF QueueInv, OfferedKnown
<1>2. PromptOnItsWay'
  <2> SUFFICES ASSUME NEW g \in Runners, NEW q \in Questions,
                      q \in Range(awaiting'[g]), reply'[q] = "open"
               PROVE  Shows(g, q)'
    BY DEF PromptOnItsWay
  <2>1. q \in Range(awaiting[g]) /\ reply[q] = "open"
    OBVIOUS
  <2> QED BY <2>1 DEF QueueInv, PromptOnItsWay
<1> QED BY <1>1, <1>2, CallStands DEF QueueInv

LEMMA LeaveKeeps ==
  ASSUME AskInvariant, QueueInv, ScreenLeaves
  PROVE  QueueInv'
<1>1. /\ reply' = Closed(reply, Range(askSink), "dropped") /\ askSink' = <<>>
      /\ UNCHANGED <<prompts, questions, questionView>>
      /\ UNCHANGED <<awaiting, requests, response, batch, at, runner, running>>
  BY DEF ScreenLeaves
<1>2. Range(<<>>) = {} /\ Len(<<>>) = 0 /\ <<>> \in Seq(Questions)
  BY DEF Range
<1>3. /\ \A q \in Questions : reply'[q] = reply[q]
                              \/ (reply[q] = "open" /\ reply'[q] # "unused")
      /\ \A q \in Questions : q \in Range(askSink) => reply'[q] # "open"
  BY <1>1, Closes
<1>4. SheetTypes'
  BY <1>1, <1>2 DEF QueueInv, SheetTypes, ViewRange
<1>5. PromptsOnce'
  BY <1>1, <1>2 DEF QueueInv, PromptsOnce, Once, Apart
<1>6. \A q \in Questions : Unoffered(q) => Unoffered(q)'
  BY <1>1, <1>2 DEF Unoffered
<1>7. \A g \in Runners : \A q \in Questions :
        (Shows(g, q) /\ reply'[q] = "open") => Shows(g, q)'
  BY <1>1, <1>3 DEF Shows
<1> QED BY <1>1, <1>3, <1>4, <1>5, <1>6, <1>7, HandedOn

\* What a supervisor does to the prompts of its generation.
LEMMA PromptsOf ==
  ASSUME QueueInv, NEW g \in Runners, NEW s \in Seq(Questions),
         prompts' = [prompts EXCEPT ![g] = s]
  PROVE  /\ prompts' \in [Runners -> Seq(Questions)] /\ prompts'[g] = s
         /\ \A h \in Runners : h # g => prompts'[h] = prompts[h]
<1> DEFINE Pipe == Seq(Questions)
<1>1. prompts \in [Runners -> Pipe] /\ s \in Pipe
  BY DEF QueueInv, SheetTypes
<1> HIDE DEF Pipe
<1>2. /\ prompts' \in [Runners -> Pipe] /\ prompts'[g] = s
      /\ \A h \in Runners : h # g => prompts'[h] = prompts[h]
  BY <1>1
<1> QED BY <1>2 DEF Pipe

LEMMA ForwardKeeps ==
  ASSUME AskInvariant, QueueInv, NEW g \in Runners, Forwards(g)
  PROVE  QueueInv'
<1> DEFINE first == Head(prompts[g])
           rest == Tail(prompts[g])
<1>1. /\ prompts[g] # <<>> /\ askSink' = Append(askSink, first)
      /\ prompts' = [prompts EXCEPT ![g] = rest]
      /\ UNCHANGED <<questions, questionView, reply>>
      /\ UNCHANGED <<awaiting, requests, response, batch, at, runner, running>>
  BY DEF Forwards
<1>2. /\ prompts \in [Runners -> Seq(Questions)] /\ prompts[g] \in Seq(Questions)
      /\ askSink \in Seq(Questions) /\ questions \in Seq(Questions) /\ PromptsOnce
      /\ questionView \in ViewRange(questions)
  BY DEF QueueInv, SheetTypes
<1>3. /\ first \in Questions /\ rest \in Seq(Questions)
      /\ \A e : e \in Range(prompts[g]) <=> e = first \/ e \in Range(rest)
      /\ Once(prompts[g]) => Once(rest) /\ first \notin Range(rest)
  BY <1>1, <1>2, HeadsAndTails
<1> HIDE DEF first, rest
<1>4. /\ prompts' \in [Runners -> Seq(Questions)] /\ prompts'[g] = rest
      /\ \A h \in Runners : h # g => prompts'[h] = prompts[h]
  BY <1>1, <1>3, PromptsOf
<1>5. first \in Range(prompts[g]) /\ Once(prompts[g])
  BY <1>2, <1>3 DEF PromptsOnce
<1>6. /\ first \notin Range(askSink) /\ first \notin Range(questions)
      /\ first \notin Range(rest)
      /\ \A h \in Runners : h # g => first \notin Range(prompts[h])
  BY <1>2, <1>3, <1>5 DEF PromptsOnce, Apart
<1>7. /\ askSink' \in Seq(Questions)
      /\ \A x : x \in Range(askSink') <=> x \in Range(askSink) \/ x = first
      /\ Once(askSink) => Once(askSink')
  <2>1. /\ Append(askSink, first) \in Seq(Questions)
        /\ \A x : x \in Range(Append(askSink, first)) <=> x \in Range(askSink) \/ x = first
        /\ (Once(askSink) /\ first \notin Range(askSink)) => Once(Append(askSink, first))
    BY <1>2, <1>3, Appends
  <2> QED BY <1>1, <1>6, <2>1
<1>8. \A h \in Runners : \A e \in Range(prompts'[h]) :
        e \in Range(prompts[h]) /\ e # first
  BY <1>3, <1>4, <1>6
<1>9. SheetTypes'
  BY <1>1, <1>2, <1>4, <1>7 DEF SheetTypes, ViewRange
<1>10. PromptsOnce'
  <2>1. Once(askSink)' /\ Once(questions)'
    BY <1>1, <1>2, <1>7 DEF PromptsOnce, Once
  <2>2. Apart(askSink, questions)'
    BY <1>1, <1>2, <1>6, <1>7 DEF PromptsOnce, Apart
  <2>3. ASSUME NEW h \in Runners
        PROVE  /\ Once(prompts[h])' /\ Apart(prompts[h], askSink)'
               /\ Apart(prompts[h], questions)'
               /\ \A k \in Runners : k # h => Apart(prompts[h], prompts[k])'
    <3>1. Once(prompts[h])'
      <4>1. CASE h = g
        BY <1>3, <1>4, <1>5, <4>1 DEF Once
      <4>2. CASE h # g
        BY <1>2, <1>4, <4>2 DEF PromptsOnce, Once
      <4> QED BY <4>1, <4>2
    <3>2. Apart(prompts[h], askSink)'
      BY <1>2, <1>7, <1>8 DEF PromptsOnce, Apart
    <3>3. Apart(prompts[h], questions)'
      BY <1>1, <1>2, <1>8 DEF PromptsOnce, Apart
    <3>4. \A k \in Runners : k # h => Apart(prompts[h], prompts[k])'
      BY <1>2, <1>8 DEF PromptsOnce, Apart
    <3> QED BY <3>1, <3>2, <3>3, <3>4
  <2> QED BY <2>1, <2>2, <2>3 DEF PromptsOnce
<1>11. \A q \in Questions : Unoffered(q) => Unoffered(q)'
  <2> SUFFICES ASSUME NEW q \in Questions, Unoffered(q)
               PROVE  Unoffered(q)'
    OBVIOUS
  <2>1. q # first
    BY <1>5 DEF Unoffered
  <2> QED BY <1>1, <1>7, <1>8, <2>1 DEF Unoffered
<1>12. ASSUME NEW h \in Runners, NEW q \in Questions, Shows(h, q)
       PROVE  Shows(h, q)'
  <2>1. CASE q \in Range(askSink) \/ q \in Range(questions)
    BY <1>1, <1>7, <2>1 DEF Shows
  <2>2. CASE q \in Range(prompts[h]) /\ h # g
    BY <1>4, <2>2 DEF Shows
  <2>3. CASE q \in Range(prompts[h]) /\ h = g
    BY <1>3, <1>4, <1>7, <2>3 DEF Shows
  <2> QED BY <1>12, <2>1, <2>2, <2>3 DEF Shows
<1> QED BY <1>1, <1>9, <1>10, <1>11, <1>12, HandedOn

LEMMA SupervisorKeeps ==
  ASSUME AskInvariant, QueueInv, NEW g \in Runners, SupervisorEnds(g)
  PROVE  QueueInv'
<1>1. /\ reply' = Closed(reply, Range(prompts[g]), "dropped")
      /\ prompts' = [prompts EXCEPT ![g] = <<>>]
      /\ UNCHANGED <<askSink, questions, questionView>>
      /\ UNCHANGED <<awaiting, requests, response, batch, at, runner, running>>
  BY DEF SupervisorEnds, AskVarsButBridge
<1>2. Range(<<>>) = {} /\ Len(<<>>) = 0 /\ <<>> \in Seq(Questions)
  BY DEF Range
<1>3. /\ \A q \in Questions : reply'[q] = reply[q]
                              \/ (reply[q] = "open" /\ reply'[q] # "unused")
      /\ \A q \in Questions : q \in Range(prompts[g]) => reply'[q] # "open"
  BY <1>1, Closes
<1>4. /\ prompts' \in [Runners -> Seq(Questions)] /\ prompts'[g] = <<>>
      /\ \A h \in Runners : h # g => prompts'[h] = prompts[h]
  BY <1>1, <1>2, PromptsOf
<1>5. \A h \in Runners : \A e \in Range(prompts'[h]) : e \in Range(prompts[h])
  BY <1>2, <1>4
<1>6. SheetTypes'
  BY <1>1, <1>4 DEF QueueInv, SheetTypes, ViewRange
<1>7. PromptsOnce /\ askSink' = askSink /\ questions' = questions
  BY <1>1 DEF QueueInv
<1>8. PromptsOnce'
  <2>1. Once(askSink)' /\ Once(questions)' /\ Apart(askSink, questions)'
    BY <1>7 DEF PromptsOnce, Once, Apart
  <2>2. ASSUME NEW h \in Runners
        PROVE  /\ Once(prompts[h])' /\ Apart(prompts[h], askSink)'
               /\ Apart(prompts[h], questions)'
               /\ \A k \in Runners : k # h => Apart(prompts[h], prompts[k])'
    <3>1. Once(prompts[h])'
      <4>1. CASE h = g
        BY <1>2, <1>4, <4>1 DEF Once
      <4>2. CASE h # g
        BY <1>4, <1>7, <4>2 DEF PromptsOnce, Once
      <4> QED BY <4>1, <4>2
    <3>2. Apart(prompts[h], askSink)' /\ Apart(prompts[h], questions)'
      BY <1>5, <1>7 DEF PromptsOnce, Apart
    <3>3. \A k \in Runners : k # h => Apart(prompts[h], prompts[k])'
      BY <1>5, <1>7 DEF PromptsOnce, Apart
    <3> QED BY <3>1, <3>2, <3>3
  <2> QED BY <2>1, <2>2 DEF PromptsOnce
<1>9. \A q \in Questions : Unoffered(q) => Unoffered(q)'
  BY <1>1, <1>5 DEF Unoffered
<1>10. ASSUME NEW h \in Runners, NEW q \in Questions, Shows(h, q), reply'[q] = "open"
       PROVE  Shows(h, q)'
  <2>1. CASE h = g /\ q \in Range(prompts[h])
    BY <1>3, <1>10, <2>1
  <2>2. CASE h # g \/ q \notin Range(prompts[h])
    BY <1>4, <1>7, <1>10, <2>2 DEF Shows
  <2> QED BY <2>1, <2>2
<1> QED BY <1>1, <1>3, <1>6, <1>8, <1>9, <1>10, HandedOn

LEMMA ReceiveQueues ==
  ASSUME AskInvariant, QueueInv, NEW g \in Runners, BridgeReceives(g)
  PROVE  QueueInv'
<1> DEFINE new == Head(requests[g])
           later == Tail(requests[g])
           both == prompts[g] \o new
<1>1. /\ awaiting[g] = <<>> /\ requests[g] # <<>>
      /\ reply' = [q \in Questions |-> IF q \in Range(new) THEN "open" ELSE reply[q]]
      /\ awaiting' = [awaiting EXCEPT ![g] = new]
      /\ prompts' = [prompts EXCEPT ![g] = both]
      /\ requests' = [requests EXCEPT ![g] = later]
      /\ UNCHANGED <<running, runner, batch, at, askSink, questions, questionView, response>>
  BY DEF BridgeReceives, AskVarsButBridge
<1>2. /\ requests \in [Runners -> Seq(Seq(Questions))] /\ requests[g] \in Seq(Seq(Questions))
      /\ awaiting \in [Runners -> Seq(Questions)] /\ prompts[g] \in Seq(Questions)
      /\ runner \in Runners
  BY DEF QueueInv, SheetTypes, AskInvariant, AskTypes
<1>3. /\ new \in Seq(Questions) /\ later \in Seq(Seq(Questions))
      /\ Len(requests[g]) \in Nat /\ Len(requests[g]) >= 1
      /\ Len(later) = Len(requests[g]) - 1 /\ new = requests[g][1]
      /\ \A i \in 1 .. Len(later) : later[i] = requests[g][i + 1]
  BY <1>1, <1>2, HeadTailProperties, LenProperties, EmptySeq
<1>4. /\ both \in Seq(Questions)
      /\ \A x : x \in Range(both) <=> x \in Range(prompts[g]) \/ x \in Range(new)
      /\ (Once(prompts[g]) /\ Once(new) /\ Apart(prompts[g], new)) => Once(both)
  BY <1>2, <1>3, Concats
<1> HIDE DEF new, later, both
<1>5. /\ requests'[g] = later /\ \A h \in Runners : h # g => requests'[h] = requests[h]
  <2> DEFINE Pipe == Seq(Seq(Questions))
  <2>1. requests \in [Runners -> Pipe]
    BY <1>2
  <2> HIDE DEF Pipe
  <2> QED BY <1>1, <2>1
<1>6. /\ awaiting'[g] = new /\ \A h \in Runners : h # g => awaiting'[h] = awaiting[h]
  <2> DEFINE Pipe == Seq(Questions)
  <2>1. awaiting \in [Runners -> Pipe]
    BY <1>2
  <2> HIDE DEF Pipe
  <2> QED BY <1>1, <2>1
<1>7. /\ prompts' \in [Runners -> Seq(Questions)] /\ prompts'[g] = both
      /\ \A h \in Runners : h # g => prompts'[h] = prompts[h]
  BY <1>1, <1>4, PromptsOf
<1>8. \A q \in Questions : reply'[q] = IF q \in Range(new) THEN "open" ELSE reply[q]
  BY <1>1
<1>9. /\ 1 \in 1 .. Len(requests[g]) /\ Batch(g, 1) = Range(new)
      /\ Range(new) \subseteq Questions
  BY <1>3, Ranged DEF Batch
<1>10. \A q \in Range(new) : Unoffered(q)
  <2> SUFFICES ASSUME NEW q \in Range(new)
               PROVE  Unoffered(q)
    OBVIOUS
  <2>1. q \in Questions /\ Sent(q)
    BY <1>9 DEF Sent
  <2>2. reply[q] = "unused"
    BY <2>1 DEF AskInvariant, SentUnknown, Unknown
  <2> QED BY <2>1, <2>2 DEF QueueInv, OfferedKnown
<1>11. Once(new)
  BY <1>3, <1>9 DEF QueueInv, BatchesOnce
<1>12. PromptsOnce
  BY DEF QueueInv
<1>13. SheetTypes'
  BY <1>1, <1>7 DEF QueueInv, SheetTypes, ViewRange
<1>14. BatchesOnce'
  <2> SUFFICES ASSUME NEW h \in Runners, NEW i \in 1 .. Len(requests'[h])
               PROVE  Once(requests'[h][i])
    BY DEF BatchesOnce, Once
  <2>1. CASE h = g
    <3>1. i \in 1 .. Len(later) /\ i + 1 \in 1 .. Len(requests[g])
      BY <1>3, <1>5, <2>1
    <3>2. requests'[h][i] = requests[g][i + 1]
      BY <1>3, <1>5, <2>1, <3>1
    <3> QED BY <3>1, <3>2 DEF QueueInv, BatchesOnce
  <2>2. CASE h # g
    BY <1>5, <2>2 DEF QueueInv, BatchesOnce
  <2> QED BY <2>1, <2>2
<1>15. OfferedKnown'
  <2> SUFFICES ASSUME NEW q \in Questions, reply'[q] = "unused"
               PROVE  Unoffered(q)'
    BY DEF OfferedKnown
  <2>1. q \notin Range(new) /\ reply[q] = "unused"
    BY <1>8
  <2>2. Unoffered(q)
    BY <2>1 DEF QueueInv, OfferedKnown
  <2>3. \A h \in Runners : q \notin Range(prompts'[h]) /\ q \notin Range(awaiting'[h])
    <3> SUFFICES ASSUME NEW h \in Runners
                 PROVE  q \notin Range(prompts'[h]) /\ q \notin Range(awaiting'[h])
      OBVIOUS
    <3>1. CASE h = g
      BY <1>4, <1>6, <1>7, <2>1, <2>2, <3>1 DEF Unoffered
    <3>2. CASE h # g
      BY <1>6, <1>7, <2>2, <3>2 DEF Unoffered
    <3> QED BY <3>1, <3>2
  <2> QED BY <1>1, <2>2, <2>3 DEF Unoffered
<1>16. PromptsOnce'
  <2>1. Once(askSink)' /\ Once(questions)' /\ Apart(askSink, questions)'
    BY <1>1, <1>12 DEF PromptsOnce, Once, Apart
  <2>2. ASSUME NEW h \in Runners, NEW e \in Range(prompts'[h])
        PROVE  e \in Range(prompts[h]) \/ (h = g /\ e \in Range(new))
    <3>1. CASE h = g
      BY <1>4, <1>7, <2>2, <3>1
    <3>2. CASE h # g
      BY <1>7, <2>2, <3>2
    <3> QED BY <3>1, <3>2
  <2>3. ASSUME NEW h \in Runners
        PROVE  /\ Once(prompts[h])' /\ Apart(prompts[h], askSink)'
               /\ Apart(prompts[h], questions)'
               /\ \A k \in Runners : k # h => Apart(prompts[h], prompts[k])'
    <3>1. Once(prompts[h])'
      <4>1. CASE h = g
        <5>1. Apart(prompts[g], new)
          BY <1>10 DEF Apart, Unoffered
        <5> QED BY <1>4, <1>7, <1>11, <1>12, <4>1, <5>1 DEF PromptsOnce, Once
      <4>2. CASE h # g
        BY <1>7, <1>12, <4>2 DEF PromptsOnce, Once
      <4> QED BY <4>1, <4>2
    <3>2. Apart(prompts[h], askSink)' /\ Apart(prompts[h], questions)'
      BY <1>1, <1>10, <1>12, <2>2 DEF PromptsOnce, Apart, Unoffered
    <3>3. ASSUME NEW k \in Runners, k # h, NEW e \in Range(prompts'[h])
          PROVE  e \notin Range(prompts'[k])
      <4>1. ~(e \in Range(prompts[h]) /\ e \in Range(prompts[k]))
        BY <1>12, <3>3 DEF PromptsOnce, Apart
      <4>2. e \in Range(new) => e \notin Range(prompts[h]) /\ e \notin Range(prompts[k])
        BY <1>10 DEF Unoffered
      <4> QED BY <2>2, <3>3, <4>1, <4>2
    <3> QED BY <3>1, <3>2, <3>3 DEF Apart
  <2> QED BY <2>1, <2>3 DEF PromptsOnce
<1>17. PromptOnItsWay'
  <2> SUFFICES ASSUME NEW h \in Runners, NEW q \in Questions,
                      q \in Range(awaiting'[h]), reply'[q] = "open"
               PROVE  Shows(h, q)'
    BY DEF PromptOnItsWay
  <2>1. CASE h = g
    BY <1>4, <1>6, <1>7, <2>1 DEF Shows
  <2>2. CASE h # g
    <3>1. q \in Range(awaiting[h])
      BY <1>6, <2>2
    <3>2. q \notin Range(new)
      BY <1>10, <3>1 DEF Unoffered
    <3>3. Shows(h, q)
      BY <1>8, <3>1, <3>2 DEF QueueInv, PromptOnItsWay
    <3> QED BY <1>1, <1>7, <2>2, <3>3 DEF Shows
  <2> QED BY <2>1, <2>2
<1>18. QuestionOnItsWay'
  <2>1. Awaited' = Awaited /\ response' = response /\ runner' = runner
    BY <1>1 DEF Awaited
  <2>2. ASSUME NEW q, Comes(q)
        PROVE  Comes(q)'
    <3>1. CASE runner # g
      <4>1. requests'[runner] = requests[runner] /\ awaiting'[runner] = awaiting[runner]
        BY <1>2, <1>5, <1>6, <3>1
      <4> QED BY <2>1, <2>2, <4>1 DEF Comes, Batch
    <3>2. CASE runner = g /\ q \in Range(awaiting[g])
      BY <1>1, <3>2 DEF Range
    <3>3. ASSUME runner = g, NEW i \in 1 .. Len(requests[g]), q \in Batch(g, i)
          PROVE  Comes(q)'
      <4>1. CASE i = 1
        BY <1>6, <1>9, <2>1, <3>3, <4>1 DEF Comes
      <4>2. CASE i # 1
        <5>1. i - 1 \in 1 .. Len(later) /\ (i - 1) + 1 = i
          BY <1>3, <4>2
        <5>2. requests'[g][i - 1] = requests[g][i]
          BY <1>3, <1>5, <5>1
        <5>3. i - 1 \in 1 .. Len(requests'[runner']) /\ q \in Range(requests'[runner'][i - 1])
          BY <1>5, <2>1, <3>3, <5>1, <5>2 DEF Batch
        <5> QED BY <5>3 DEF Comes, Batch
      <4> QED BY <4>1, <4>2
    <3> QED BY <2>2, <3>1, <3>2, <3>3 DEF Comes
  <2> QED BY <2>1, <2>2 DEF QueueInv, QuestionOnItsWay
<1>19. RestIsQuiet'
  BY <1>1 DEF QueueInv, RestIsQuiet
<1> QED BY <1>13, <1>14, <1>15, <1>16, <1>17, <1>18, <1>19 DEF QueueInv

LEMMA EndQueues ==
  ASSUME AskInvariant, QueueInv, NEW g \in Runners, BridgeEnds(g)
  PROVE  QueueInv'
<1> DEFINE held == UNION {Range(b) : b \in Range(requests[g])}
<1>1. /\ UNCHANGED <<running, runner, batch, at, awaiting, askSink, questions, questionView,
                     prompts, reply>>
      /\ response' = Closed(response, held, "dropped")
      /\ requests' = [requests EXCEPT ![g] = <<>>]
  BY DEF BridgeEnds, AskVarsButBridge
<1>2. /\ requests \in [Runners -> Seq(Seq(Questions))] /\ requests[g] \in Seq(Seq(Questions))
      /\ response \in [Questions -> Responses] /\ runner \in Runners
      /\ batch \in Seq(Questions) /\ at \in Nat \ {0}
  BY DEF AskInvariant, AskTypes
<1>3. \A i \in 1 .. Len(requests[g]) : Batch(g, i) \subseteq held
  <2> SUFFICES ASSUME NEW i \in 1 .. Len(requests[g])
               PROVE  Batch(g, i) \subseteq held
    OBVIOUS
  <2>1. requests[g][i] \in Range(requests[g])
    BY <1>2, Ranged
  <2> QED BY <2>1 DEF Batch
<1> HIDE DEF held
<1>4. /\ Len(requests'[g]) = 0 /\ \A h \in Runners : h # g => requests'[h] = requests[h]
  <2> DEFINE Pipe == Seq(Seq(Questions))
  <2>1. requests \in [Runners -> Pipe]
    BY <1>2
  <2> HIDE DEF Pipe
  <2> QED BY <1>1, <2>1
<1>5. \A q \in Questions : response'[q] = "open" => response[q] = "open" /\ q \notin held
  <2>1. DOMAIN response = Questions
    BY <1>2
  <2> QED BY <1>1, <2>1 DEF Closed
<1>6. BatchesOnce'
  <2> SUFFICES ASSUME NEW h \in Runners, NEW i \in 1 .. Len(requests'[h])
               PROVE  Once(requests'[h][i])
    BY DEF BatchesOnce, Once
  <2>1. h # g
    BY <1>4
  <2> QED BY <1>4, <2>1 DEF QueueInv, BatchesOnce
<1>7. QuestionOnItsWay'
  <2>1. Awaited' = Awaited /\ runner' = runner /\ awaiting' = awaiting
    BY <1>1 DEF Awaited
  <2>2. Awaited \subseteq Questions
    <3>1. \A i \in at .. Len(batch) : i \in 1 .. Len(batch)
      BY <1>2
    <3>2. \A i \in 1 .. Len(batch) : batch[i] \in Questions
      BY <1>2, ElementOfSeq
    <3> QED BY <3>1, <3>2 DEF Awaited
  <2>3. ASSUME NEW q \in Awaited, response'[q] = "open"
        PROVE  Comes(q)'
    <3>1. response[q] = "open" /\ q \notin held
      BY <1>5, <2>2, <2>3
    <3>2. Comes(q)
      BY <3>1 DEF QueueInv, QuestionOnItsWay
    <3>3. CASE q \in Range(awaiting[runner])
      BY <2>1, <3>3 DEF Comes
    <3>4. ASSUME NEW i \in 1 .. Len(requests[runner]), q \in Batch(runner, i)
          PROVE  Comes(q)'
      <4>1. runner # g
        BY <1>3, <3>1, <3>4
      <4>2. requests'[runner] = requests[runner]
        BY <1>2, <1>4, <4>1
      <4> QED BY <2>1, <3>4, <4>2 DEF Comes, Batch
    <3> QED BY <3>2, <3>3, <3>4 DEF Comes
  <2> QED BY <2>1, <2>3 DEF QuestionOnItsWay
<1>8. RestIsQuiet'
  BY <1>1 DEF QueueInv, RestIsQuiet
<1> QED BY <1>1, <1>6, <1>7, <1>8, PipeStands DEF QueueInv

LEMMA AwaitQueues ==
  ASSUME AskInvariant, QueueInv, NEW g \in Runners, BridgeAwaits(g)
  PROVE  QueueInv'
<1> DEFINE first == Head(awaiting[g])
           later == Tail(awaiting[g])
<1>1. /\ awaiting[g] # <<>> /\ awaiting' = [awaiting EXCEPT ![g] = later]
      /\ UNCHANGED <<running, runner, batch, at, askSink, questions, questionView,
                     prompts, requests>>
      /\ \/ /\ reply[first] \in Settled /\ UNCHANGED reply
            /\ response' = Closed(response, {first},
                             IF reply[first] = "answered" THEN "answered" ELSE "dismissed")
         \/ /\ reply[first] = "open" /\ response[first] = "unheard" /\ UNCHANGED response
            /\ reply' = [reply EXCEPT ![first] = "withdrawn"]
  BY DEF BridgeAwaits, AskVarsButBridge
<1>2. /\ awaiting \in [Runners -> Seq(Questions)] /\ awaiting[g] \in Seq(Questions)
      /\ response \in [Questions -> Responses] /\ reply \in [Questions -> ReplyStates]
      /\ runner \in Runners /\ batch \in Seq(Questions) /\ at \in Nat \ {0}
  BY DEF AskInvariant, AskTypes
<1>3. /\ first \in Questions /\ later \in Seq(Questions)
      /\ \A e : e \in Range(awaiting[g]) <=> e = first \/ e \in Range(later)
  BY <1>1, <1>2, HeadsAndTails
<1> HIDE DEF first, later
<1>4. /\ awaiting'[g] = later /\ \A h \in Runners : h # g => awaiting'[h] = awaiting[h]
  <2> DEFINE Pipe == Seq(Questions)
  <2>1. awaiting \in [Runners -> Pipe]
    BY <1>2
  <2> HIDE DEF Pipe
  <2> QED BY <1>1, <2>1
<1>5. \A h \in Runners : \A e \in Range(awaiting'[h]) : e \in Range(awaiting[h])
  BY <1>3, <1>4
<1>6. \A q \in Questions : reply'[q] = reply[q] \/ (reply[q] = "open" /\ reply'[q] = "withdrawn")
  <2>1. DOMAIN reply = Questions
    BY <1>2
  <2> QED BY <1>1, <1>3, <2>1
<1>7. \A q \in Questions : response'[q] = "open" => response[q] = "open" /\ q # first
  <2>1. DOMAIN response = Questions
    BY <1>2
  <2> QED BY <1>1, <1>3, <2>1 DEF Closed
<1>8. SheetTypes' /\ PromptsOnce'
  <2>1. UNCHANGED <<askSink, questions, questionView, prompts>> /\ SheetTypes /\ PromptsOnce
    BY <1>1 DEF QueueInv
  <2> QED BY <2>1 DEF SheetTypes, ViewRange, PromptsOnce, Once, Apart
<1>9. BatchesOnce'
  <2>1. BatchesOnce /\ requests' = requests
    BY <1>1 DEF QueueInv
  <2> QED BY <2>1 DEF BatchesOnce, Once
<1>10. OfferedKnown'
  <2> SUFFICES ASSUME NEW q \in Questions, reply'[q] = "unused"
               PROVE  Unoffered(q)'
    BY DEF OfferedKnown
  <2>1. reply[q] = "unused"
    BY <1>6
  <2>2. Unoffered(q)
    BY <2>1 DEF QueueInv, OfferedKnown
  <2> QED BY <1>1, <1>5, <2>2 DEF Unoffered
<1>11. PromptOnItsWay'
  <2> SUFFICES ASSUME NEW h \in Runners, NEW q \in Questions,
                      q \in Range(awaiting'[h]), reply'[q] = "open"
               PROVE  Shows(h, q)'
    BY DEF PromptOnItsWay
  <2>1. q \in Range(awaiting[h]) /\ reply[q] = "open"
    BY <1>5, <1>6
  <2>2. Shows(h, q)
    BY <2>1 DEF QueueInv, PromptOnItsWay
  <2> QED BY <1>1, <2>2 DEF Shows
<1>12. QuestionOnItsWay'
  <2>1. Awaited' = Awaited /\ runner' = runner /\ requests' = requests
    BY <1>1 DEF Awaited
  <2>2. Awaited \subseteq Questions
    <3>1. \A i \in at .. Len(batch) : i \in 1 .. Len(batch)
      BY <1>2
    <3>2. \A i \in 1 .. Len(batch) : batch[i] \in Questions
      BY <1>2, ElementOfSeq
    <3> QED BY <3>1, <3>2 DEF Awaited
  <2>3. ASSUME NEW q \in Awaited, response'[q] = "open"
        PROVE  Comes(q)'
    <3>1. response[q] = "open" /\ q # first
      BY <1>7, <2>2, <2>3
    <3>2. Comes(q)
      BY <3>1 DEF QueueInv, QuestionOnItsWay
    <3>3. q \in Range(awaiting[runner]) => q \in Range(awaiting'[runner])
      BY <1>2, <1>3, <1>4, <3>1
    <3> QED BY <2>1, <3>2, <3>3 DEF Comes, Batch
  <2> QED BY <2>1, <2>3 DEF QuestionOnItsWay
<1>13. RestIsQuiet'
  BY <1>1 DEF QueueInv, RestIsQuiet
<1> QED BY <1>8, <1>9, <1>10, <1>11, <1>12, <1>13 DEF QueueInv

-----------------------------------------------------------------------------
(* A call's permission. *)

PermitInv ==
  /\ permission \in [Permissions -> {"unused", "asked", "over"}]
  /\ permitSink \in Seq(Permissions) /\ permits \in Seq(Permissions)
  /\ \A p \in Permissions :
       permission[p] = "asked" => p \in Range(permitSink) \/ p \in Range(permits)

LEMMA PermitStep == PermitInv /\ [ApprovalsNext]_approvalVars => PermitInv'
<1> SUFFICES ASSUME PermitInv, [ApprovalsNext]_approvalVars PROVE PermitInv'
  OBVIOUS
<1>1. /\ permission \in [Permissions -> {"unused", "asked", "over"}]
      /\ permitSink \in Seq(Permissions) /\ permits \in Seq(Permissions)
      /\ Range(<<>>) = {} /\ <<>> \in Seq(Permissions)
  BY DEF PermitInv, Range
<1>2. ASSUME NEW p \in Permissions, AsksPermission(p)
      PROVE  PermitInv'
  <2>1. permits' = permits
    BY <1>2 DEF AsksPermission
  <2>2. CASE screen = "up"
    <3>1. permission' = [permission EXCEPT ![p] = "asked"] /\ permitSink' = Append(permitSink, p)
      BY <1>2, <2>2 DEF AsksPermission
    <3>2. /\ permitSink' \in Seq(Permissions)
          /\ \A x : x \in Range(permitSink') <=> x \in Range(permitSink) \/ x = p
      BY <1>1, <3>1, Appends
    <3> QED BY <1>1, <2>1, <3>1, <3>2 DEF PermitInv
  <2>3. CASE screen # "up"
    BY <1>1, <1>2, <2>1, <2>3 DEF AsksPermission, PermitInv
  <2> QED BY <2>2, <2>3
<1>3. CASE RunCancelled
  <2>1. /\ permission' = [p \in Permissions |-> IF permission[p] = "asked" THEN "over"
                                                ELSE permission[p]]
        /\ UNCHANGED <<permitSink, permits>>
    BY <1>3 DEF RunCancelled
  <2> QED BY <1>1, <2>1 DEF PermitInv
<1>4. CASE LandPermissions
  <2>1. /\ permitSink' = <<>> /\ permits' = permits \o permitSink /\ permission' = permission
    BY <1>4 DEF LandPermissions
  <2>2. /\ permits' \in Seq(Permissions)
        /\ \A x : x \in Range(permits') <=> x \in Range(permits) \/ x \in Range(permitSink)
    BY <1>1, <2>1, Concats
  <2> QED BY <1>1, <2>1, <2>2 DEF PermitInv
<1>5. CASE TickWake
  <2>1. CASE running
    BY <1>5, <2>1 DEF TickWake, PermitInv
  <2>2. CASE ~running
    <3>1. /\ permission' = [p \in Permissions |->
                              IF p \in Range(permits) /\ permission[p] = "asked"
                              THEN "over" ELSE permission[p]]
          /\ permits' = <<>> /\ permitSink' = permitSink
      BY <1>5, <2>2 DEF TickWake
    <3> QED BY <1>1, <3>1 DEF PermitInv
  <2> QED BY <2>1, <2>2
<1>6. CASE PermissionKey
  <2>1. /\ permits # <<>> /\ permits' = Tail(permits) /\ permitSink' = permitSink
        /\ permission' = [permission EXCEPT ![Head(permits)] = "over"]
    BY <1>6 DEF PermissionKey
  <2>2. /\ Head(permits) \in Permissions /\ permits' \in Seq(Permissions)
        /\ \A e : e \in Range(permits) <=> e = Head(permits) \/ e \in Range(permits')
    BY <1>1, <2>1, HeadsAndTails
  <2> QED BY <1>1, <2>1, <2>2 DEF PermitInv
<1>7. CASE ScreenLeaves
  <2>1. /\ permission' = [p \in Permissions |->
                            IF p \in Range(permitSink) /\ permission[p] = "asked"
                            THEN "over" ELSE permission[p]]
        /\ permitSink' = <<>> /\ permits' = permits
    BY <1>7 DEF ScreenLeaves
  <2> QED BY <1>1, <2>1 DEF PermitInv
<1>8. CASE UNCHANGED permitVars
  BY <1>8 DEF permitVars, PermitInv
<1>9. CASE (\E as \in {"answered", "dismissed"} : AnswerKey(as))
           \/ (\E forward \in BOOLEAN : WalkKey(forward))
  BY <1>8, <1>9 DEF AnswerKey, WalkKey
<1>10. CASE (\E n \in 1 .. MaxBatch : Asks(n)) \/ (\E g \in Runners : BridgeStep(g))
  BY <1>8, <1>10 DEF Asks, BridgeStep, BridgeReceives, BridgeEnds, BridgeAwaits, Forwards,
                    SupervisorEnds
<1>11. CASE \/ RunStarts \/ Hears \/ RunFinishes \/ RunnerRebuilt \/ LandQuestions
            \/ ApprovalsOver \/ UNCHANGED approvalVars
  BY <1>8, <1>11 DEF RunStarts, Hears, RunFinishes, RunnerRebuilt, LandQuestions, ApprovalsOver,
                    approvalVars
<1> QED BY <1>2, <1>3, <1>4, <1>5, <1>6, <1>7, <1>9, <1>10, <1>11 DEF ApprovalsNext

-----------------------------------------------------------------------------

LEMMA QueueStart == ApprovalsInit => QueueInv /\ PermitInv
<1> SUFFICES ASSUME ApprovalsInit PROVE QueueInv /\ PermitInv
  OBVIOUS
<1>1. /\ batch = <<>> /\ at = 1 /\ running = FALSE
      /\ requests = [g \in Runners |-> <<>>] /\ awaiting = [g \in Runners |-> <<>>]
      /\ prompts = [g \in Runners |-> <<>>]
      /\ askSink = <<>> /\ questions = <<>> /\ questionView = 1
      /\ permission = [p \in Permissions |-> "unused"]
      /\ permitSink = <<>> /\ permits = <<>>
  BY DEF ApprovalsInit
<1>2. Range(<<>>) = {} /\ Len(<<>>) = 0 /\ <<>> \in Seq(Questions) /\ <<>> \in Seq(Permissions)
  BY DEF Range
<1>3. Awaited = {}
  BY <1>1, NothingAwaited
<1>4. SheetTypes
  BY <1>1, <1>2 DEF SheetTypes, ViewRange
<1>5. BatchesOnce
  BY <1>1 DEF BatchesOnce
<1>6. \A g \in Runners : Range(prompts[g]) = {} /\ Range(awaiting[g]) = {} /\ Len(prompts[g]) = 0
  BY <1>1, <1>2
<1>7. Range(askSink) = {} /\ Range(questions) = {} /\ Len(askSink) = 0 /\ Len(questions) = 0
  BY <1>1, <1>2
<1>8. OfferedKnown /\ PromptOnItsWay
  BY <1>6, <1>7 DEF OfferedKnown, Unoffered, PromptOnItsWay
<1>9. PromptsOnce
  BY <1>6, <1>7 DEF PromptsOnce, Once, Apart
<1>10. QuestionOnItsWay /\ RestIsQuiet
  BY <1>1, <1>3 DEF QuestionOnItsWay, RestIsQuiet
<1>11. PermitInv
  BY <1>1, <1>2 DEF PermitInv
<1> QED BY <1>4, <1>5, <1>8, <1>9, <1>10, <1>11 DEF QueueInv

LEMMA QueueStep ==
  AskInvariant /\ QueueInv /\ [ApprovalsNext]_approvalVars => QueueInv'
<1> SUFFICES ASSUME AskInvariant, QueueInv, [ApprovalsNext]_approvalVars PROVE QueueInv'
  OBVIOUS
<1>1. ASSUME NEW n \in 1 .. MaxBatch, Asks(n) PROVE QueueInv'
  BY <1>1, AskQueues
<1>2. ASSUME NEW g \in Runners, BridgeStep(g) PROVE QueueInv'
  BY <1>2, ReceiveQueues, EndQueues, AwaitQueues, ForwardKeeps, SupervisorKeeps DEF BridgeStep
<1>3. CASE \/ LandQuestions \/ LandPermissions \/ TickWake \/ PermissionKey
           \/ (\E as \in {"answered", "dismissed"} : AnswerKey(as))
           \/ (\E forward \in BOOLEAN : WalkKey(forward))
  BY <1>3, SheetKeeps
<1>4. CASE ScreenLeaves
  BY <1>4, LeaveKeeps
<1>5. CASE \/ Hears \/ RunCancelled \/ RunStarts \/ RunFinishes \/ RunnerRebuilt
           \/ (\E p \in Permissions : AsksPermission(p)) \/ UNCHANGED approvalVars
  BY <1>5, RunKeeps
<1> QED BY <1>1, <1>2, <1>3, <1>4, <1>5 DEF ApprovalsNext, ApprovalsOver

\* No wait of a run is for nothing: whatever is cancelled, rebuilt, withdrawn or left,
\* an awaited question or permission is still on its way to the user, with the user or
\* answered (question_bridge.rs, permission_bridge, app.rs).
THEOREM EveryWaitCanEnd == ApprovalsSpec => []WaitsCanEnd
<1>1. ASSUME AskInvariant, QueueInv, PermitInv
      PROVE  WaitsCanEnd
  <2>1. ASSUME NEW q \in Awaited, response[q] = "open"
        PROVE  \/ \E b \in Range(requests[runner]) : q \in Range(b)
               \/ /\ q \in Range(awaiting[runner])
                  /\ reply[q] = "open" =>
                       q \in Range(prompts[runner]) \union Range(askSink) \union Range(questions)
    <3>1. /\ runner \in Runners /\ requests[runner] \in Seq(Seq(Questions))
          /\ awaiting[runner] \in Seq(Questions)
      BY <1>1 DEF AskInvariant, AskTypes
    <3>2. Comes(q)
      BY <1>1, <2>1 DEF QueueInv, QuestionOnItsWay
    <3>3. ASSUME NEW i \in 1 .. Len(requests[runner]), q \in Batch(runner, i)
          PROVE  \E b \in Range(requests[runner]) : q \in Range(b)
      <4>1. requests[runner][i] \in Range(requests[runner])
        BY <3>1, Ranged
      <4> QED BY <3>3, <4>1 DEF Batch
    <3>4. CASE q \in Range(awaiting[runner])
      <4>1. q \in Questions
        BY <3>1, <3>4, Ranged
      <4>2. reply[q] = "open" => Shows(runner, q)
        BY <1>1, <3>1, <3>4, <4>1 DEF QueueInv, PromptOnItsWay
      <4> QED BY <3>4, <4>2 DEF Shows
    <3> QED BY <3>2, <3>3, <3>4 DEF Comes
  <2>2. \A p \in Permissions : permission[p] = "asked" =>
           p \in Range(permitSink) \union Range(permits)
    BY <1>1 DEF PermitInv
  <2> QED BY <2>1, <2>2 DEF WaitsCanEnd
<1> QED BY <1>1, AskStart, AskStep, QueueStart, QueueStep, PermitStep, PTL DEF ApprovalsSpec

\* Under every key press stands the question the user sees: whatever lands, is withdrawn
\* ahead of it or answered, the sheet shows the same question until the user walks on
\* (retire_withdrawn_questions and land_question_requests, app.rs).
THEOREM TheShownOneStays == ApprovalsSpec => TheShownQuestionStays
<1>1. ASSUME AskInvariant, QueueInv, ApprovalsNext,
             Shown \in Range(questions'), ~\E forward \in BOOLEAN : WalkKey(forward)
      PROVE  Shown' = Shown
  <2>1. /\ questions \in Seq(Questions) /\ askSink \in Seq(Questions)
        /\ questionView \in ViewRange(questions)
        /\ Once(questions) /\ Once(askSink) /\ Apart(questions, askSink)
    BY <1>1 DEF QueueInv, SheetTypes, PromptsOnce, Apart
  <2>2. Len(questions) \in Nat /\ (questions = <<>> <=> Len(questions) = 0)
    BY <2>1
  <2>3. \A s \in Seq(Questions) : Range(s) \subseteq Questions
    BY Ranged
  <2>4. 0 \notin Questions
    BY AskBounds DEF Questions
  <2>5. CASE UNCHANGED <<questions, questionView>>
    BY <2>5 DEF Shown
  <2>6. ASSUME NEW qs \in Seq(Questions), NEW view \in ViewRange(qs), Retired(qs, view),
               Once(qs), qs # <<>>, qs[view] = Shown
        PROVE  Shown' = Shown
    <3>1. questionView' <= Len(questions') /\ questions'[questionView'] = qs[view]
      BY <1>1, <2>6, RetiredParts
    <3> QED BY <2>6, <3>1 DEF Shown
  <2>7. ASSUME NEW qs \in Seq(Questions), NEW view \in ViewRange(qs), Retired(qs, view)
        PROVE  Shown \in Range(qs) /\ Shown # 0
    <3>1. Shown \in Range(qs)
      BY <1>1, <2>7, RetiredParts
    <3> QED BY <2>3, <2>4, <3>1
  <2>8. Shown # 0 => /\ questionView \in 1 .. Len(questions) /\ questions # <<>>
                     /\ Shown = questions[questionView]
    <3>1. Shown # 0 => questionView <= Len(questions) /\ Shown = questions[questionView]
      BY DEF Shown
    <3> QED BY <2>1, <2>2, <3>1 DEF ViewRange
  <2>9. CASE LandQuestions
    <3> DEFINE all == questions \o askSink
    <3>1. Retired(all, questionView) /\ askSink # <<>>
      BY <2>9 DEF LandQuestions
    <3>2. /\ all \in Seq(Questions) /\ Len(all) = Len(questions) + Len(askSink)
          /\ Once(all) /\ Len(askSink) \in Nat
          /\ \A i \in 1 .. Len(questions) : all[i] = questions[i]
      BY <2>1, Concats
    <3>3. Len(askSink) # 0
      BY <2>1, <3>1
    <3> HIDE DEF all
    <3>4. all # <<>> /\ Len(all) >= 1
      BY <2>2, <3>2, <3>3
    <3>5. questionView \in ViewRange(all)
      BY <2>1, <2>2, <3>2, <3>4 DEF ViewRange
    <3>6. Shown # 0
      BY <2>7, <3>1, <3>2, <3>5
    <3>7. all[questionView] = Shown
      BY <2>8, <3>2, <3>6
    <3> QED BY <2>6, <3>1, <3>2, <3>4, <3>5, <3>7
  <2>10. CASE LandPermissions \/ PermissionKey \/ (TickWake /\ running)
    <3>1. Retired(questions, questionView)
      BY <2>10 DEF LandPermissions, PermissionKey, TickWake
    <3>2. Shown # 0
      BY <2>1, <2>7, <3>1
    <3> QED BY <2>1, <2>6, <2>8, <3>1, <3>2
  <2>11. CASE TickWake /\ ~running
    <3>1. Retired(<<>>, 1)
      BY <2>11 DEF TickWake
    <3>2. <<>> \in Seq(Questions) /\ 1 \in ViewRange(<<>>) /\ Range(<<>>) = {}
      BY DEF ViewRange, Range
    <3> QED BY <2>7, <3>1, <3>2
  <2>12. ASSUME NEW as \in {"answered", "dismissed"}, AnswerKey(as)
         PROVE  FALSE
    <3> DEFINE rest == RemoveAt(questions, questionView)
    <3>1. Shown # 0 /\ Retired(rest, ClampedView(rest, questionView))
      BY <2>12 DEF AnswerKey, QuestionSheetUp
    <3>2. rest \in Seq(Questions) /\ Shown \notin Range(rest) /\ questionView \in Nat \ {0}
      BY <2>1, <2>8, <3>1, Removed
    <3> HIDE DEF rest
    <3>3. ClampedView(rest, questionView) \in ViewRange(rest)
      <4>1. Len(rest) \in Nat /\ (rest # <<>> => Len(rest) >= 1)
        BY <3>2
      <4> QED BY <3>2, <4>1 DEF ClampedView, ViewRange
    <3> QED BY <2>7, <3>1, <3>2, <3>3
  <2>13. CASE \/ RunStarts \/ (\E n \in 1 .. MaxBatch : Asks(n)) \/ Hears
              \/ (\E p \in Permissions : AsksPermission(p))
              \/ RunFinishes \/ RunCancelled \/ RunnerRebuilt
              \/ (\E g \in Runners : BridgeStep(g)) \/ ScreenLeaves \/ ApprovalsOver
    <3>1. UNCHANGED <<questions, questionView>>
      BY <2>13 DEF RunStarts, Asks, Hears, AskVarsButTool, AsksPermission, RunFinishes,
           RunCancelled, RunnerRebuilt, BridgeStep, BridgeReceives, BridgeEnds, BridgeAwaits,
           Forwards, SupervisorEnds, AskVarsButBridge, ScreenLeaves, ApprovalsOver,
           approvalVars, askVars
    <3> QED BY <2>5, <3>1
  <2> QED BY <1>1, <2>9, <2>10, <2>11, <2>12, <2>13 DEF ApprovalsNext
<1>2. AskInvariant /\ QueueInv /\ [ApprovalsNext]_approvalVars =>
        [(Shown \in Range(questions') /\ ~\E forward \in BOOLEAN : WalkKey(forward))
           => Shown' = Shown]_approvalVars
  BY <1>1
<1> QED BY <1>2, AskStart, AskStep, QueueStart, QueueStep, PTL
        DEF ApprovalsSpec, TheShownQuestionStays

-----------------------------------------------------------------------------
(* The types. *)

PlacesTyped ==
  /\ running \in BOOLEAN /\ asked \in 0 .. MaxQuestions
  /\ over \subseteq Runners /\ ended \subseteq Runners /\ screen \in {"up", "left"}

LEMMA PlacesStep == AskTypes /\ PlacesTyped /\ [ApprovalsNext]_approvalVars => PlacesTyped'
<1> SUFFICES ASSUME AskTypes, PlacesTyped, [ApprovalsNext]_approvalVars PROVE PlacesTyped'
  OBVIOUS
<1> USE DEF PlacesTyped
<1>1. ASSUME NEW n \in 1 .. MaxBatch, Asks(n) PROVE PlacesTyped'
  <2>1. /\ asked' = asked + n /\ asked + n <= MaxQuestions
        /\ UNCHANGED <<running, over, ended, screen>>
    BY <1>1 DEF Asks
  <2>2. asked \in Nat /\ n \in Nat /\ MaxQuestions \in Nat /\ asked + n \in 0 .. MaxQuestions
    <3>1. asked \in Nat /\ n \in Int /\ n >= 1 /\ asked + n <= MaxQuestions
      BY <1>1, <2>1, AskBounds DEF AskTypes
    <3> QED BY <3>1, AskBounds
  <2> QED BY <2>1, <2>2
<1>2. ASSUME NEW g \in Runners, BridgeStep(g) PROVE PlacesTyped'
  BY <1>2 DEF BridgeStep, BridgeReceives, BridgeEnds, BridgeAwaits, Forwards, SupervisorEnds,
     AskVarsButBridge
<1>3. CASE \/ RunStarts \/ Hears \/ RunFinishes \/ RunCancelled \/ RunnerRebuilt \/ ScreenLeaves
           \/ UNCHANGED approvalVars
  BY <1>3 DEF RunStarts, Hears, AskVarsButTool, RunFinishes, RunCancelled, RunnerRebuilt,
     ScreenLeaves, approvalVars, askVars
<1>4. ASSUME NEW p \in Permissions, AsksPermission(p) PROVE PlacesTyped'
  BY <1>4 DEF AsksPermission, askVars
<1>5. ASSUME ScreenOnly PROVE PlacesTyped'
  BY <1>5 DEF ScreenOnly
<1>6. CASE LandQuestions \/ LandPermissions \/ TickWake \/ PermissionKey
  BY <1>5, <1>6 DEF LandQuestions, LandPermissions, TickWake, PermissionKey
<1>7. ASSUME NEW as \in {"answered", "dismissed"}, AnswerKey(as) PROVE PlacesTyped'
  BY <1>5, <1>7 DEF AnswerKey
<1>8. ASSUME NEW forward \in BOOLEAN, WalkKey(forward) PROVE PlacesTyped'
  BY <1>5, <1>8 DEF WalkKey
<1> QED BY <1>1, <1>2, <1>3, <1>4, <1>6, <1>7, <1>8 DEF ApprovalsNext, ApprovalsOver

\* The run, the bridges, the supervisors and the two sheets keep their types, and the view
\* its place on the sheet.
THEOREM ApprovalTypes == ApprovalsSpec => []ApprovalsTypeOK
<1>1. ApprovalsInit => PlacesTyped
  <2> SUFFICES ASSUME ApprovalsInit PROVE PlacesTyped
    OBVIOUS
  <2>1. running = FALSE /\ asked = 0 /\ over = {} /\ ended = {} /\ screen = "up"
    BY DEF ApprovalsInit
  <2>2. 0 \in 0 .. MaxQuestions
    BY AskBounds
  <2> QED BY <2>1, <2>2 DEF PlacesTyped
<1>2. ASSUME AskInvariant, QueueInv, PermitInv, PlacesTyped
      PROVE  ApprovalsTypeOK
  BY <1>2 DEF AskInvariant, AskTypes, QueueInv, SheetTypes, ViewRange, PermitInv, PlacesTyped,
     ApprovalsTypeOK, Reported, Responses, ReplyStates
<1>3. AskInvariant => AskTypes
  BY DEF AskInvariant
<1> QED BY <1>1, <1>2, <1>3, AskStart, AskStep, QueueStart, QueueStep, PermitStep, PlacesStep, PTL
    DEF ApprovalsSpec
=============================================================================
