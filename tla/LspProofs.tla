------------------------------ MODULE LspProofs ------------------------------
(***************************************************************************)
(* For any number of queries, servers, documents and edits: the answer a   *)
(* call reports is the server's answer to its own request, on its own text.*)
(***************************************************************************)
EXTENDS LanguageServer, SequenceTheorems, TLAPS

LEMMA BoundsTyped ==
  /\ MaxQueries \in Nat /\ MaxServers \in Nat /\ MaxEdits \in Nat /\ Documents # {}
  /\ 0 \notin Queries /\ 0 \notin Servers
  /\ 1 \in FileTexts /\ FileTexts \subseteq Nat /\ 0 \notin FileTexts
  /\ \A text \in FileTexts : text <= MaxEdits => text + 1 \in FileTexts
<1>1. MaxQueries \in Nat /\ MaxServers \in Nat /\ MaxEdits \in Nat /\ Documents # {}
  BY QueryBounds
<1> QED BY <1>1 DEF Queries, Servers, FileTexts

LEMMA NoResultTyped ==
  /\ NoResult.doc \in Documents /\ NoResult.text = 0 /\ NoResult.kind = "none"
  /\ NoResult \in [kind : {"none", "answer", "error"}, doc : Documents, text : FileTexts \union {0}]
<1>1. (CHOOSE d \in Documents : TRUE) \in Documents
  BY BoundsTyped
<1> QED BY <1>1 DEF NoResult

LEMMA Appended ==
  ASSUME NEW S, NEW q \in Seq(S), NEW e \in S
  PROVE  /\ Append(q, e) \in Seq(S) /\ Len(Append(q, e)) = Len(q) + 1 /\ Len(q) \in Nat
         /\ \A i \in 1 .. Len(q) + 1 : Append(q, e)[i] = IF i = Len(q) + 1 THEN e ELSE q[i]
OBVIOUS

LEMMA Tailed ==
  ASSUME NEW S, NEW q \in Seq(S), q # <<>>
  PROVE  /\ Len(q) \in Nat \ {0} /\ Head(q) = q[1] /\ Head(q) \in S
         /\ Tail(q) \in Seq(S) /\ Len(Tail(q)) = Len(q) - 1
         /\ \A i \in 1 .. Len(q) - 1 : Tail(q)[i] = q[i + 1]
<1>1. Len(q) \in Nat \ {0} /\ Head(q) = q[1]
  BY EmptySeq
<1> QED BY <1>1, HeadTailProperties

-----------------------------------------------------------------------------
(* The types.                                                              *)

Ats == {"unused", "pool", "done"} \union Handshake \union Holding
Standings == [at : Ats, doc : Documents, client : Servers \union {0},
              text : FileTexts \union {0}, id : RequestIds]
Results == [kind : {"none", "answer", "error"}, doc : Documents, text : FileTexts \union {0}]

\* The variables of the calls and of the pool.
CallTypes ==
  /\ pool \in Servers \union {0} /\ poolHolder \in Queries \union {0}
  /\ server \in [Servers -> {"unborn", "up", "gone"}]
  /\ holder \in [Servers -> Queries \union {0}]
  /\ query \in [Queries -> Standings] /\ result \in [Queries -> Results]

PipeTypes ==
  /\ requestId \in [Servers -> Nat] /\ documents \in [Servers -> SUBSET Documents]
  /\ stdin \in [Servers -> Seq(Messages)] /\ stdout \in [Servers -> Seq(Replies)]
  /\ torn \in [Servers -> SUBSET {"in", "out"}]
  /\ known \in [Servers -> [Documents -> FileTexts \union {0}]]
  /\ working \in [Servers -> SUBSET Replies]

LspTypes == CallTypes /\ PipeTypes /\ disk \in [Documents -> FileTexts]

LEMMA TypesSplit == LspTypes => LspTypeOK
BY DEF LspTypes, LspTypeOK, CallTypes, PipeTypes, Ats, Standings, Results

LEMMA StandingFacts ==
  ASSUME CallTypes, NEW c \in Queries
  PROVE  /\ query[c] \in Standings /\ query[c].at \in Ats /\ query[c].doc \in Documents
         /\ query[c].client \in Servers \union {0} /\ query[c].text \in FileTexts \union {0}
         /\ query[c].id \in Nat
BY DEF CallTypes, Standings, RequestIds

LEMMA BlankTyped ==
  ASSUME NEW at \in Ats
  PROVE  Blank(at) \in Standings /\ Blank(at).at = at /\ Blank(at).client = 0
<1>1. NoResult.doc \in Documents
  BY NoResultTyped
<1> QED BY <1>1 DEF Blank, Standings, RequestIds

LEMMA FailedTyped == Failed \in Results /\ Failed.kind = "error"
BY NoResultTyped DEF Failed, Result, Results

LEMMA GoesTyped ==
  ASSUME CallTypes, NEW c \in Queries, NEW at \in Ats, Goes(c, at)
  PROVE  /\ query' \in [Queries -> Standings]
         /\ query'[c] = [query[c] EXCEPT !.at = at]
         /\ \A d \in Queries \ {c} : query'[d] = query[d]
BY DEF CallTypes, Standings, Goes

\* What a call lets go of: its own locks, and a server it held the last handle of.
LEMMA HandleDroppedTyped ==
  ASSUME CallTypes, NEW c \in Queries, NEW pooled, HandleDropped(c, pooled)
  PROVE  /\ server' \in [Servers -> {"unborn", "up", "gone"}]
         /\ \A s \in Servers : server'[s] = server[s] \/ (server[s] = "up" /\ server'[s] = "gone")
<1>1. query[c].client \in Servers \union {0}
  BY StandingFacts
<1> QED BY <1>1 DEF HandleDropped, CallTypes

LEMMA LetsTyped ==
  ASSUME CallTypes, NEW c \in Queries, Lets(c)
  PROVE  /\ pool' = pool /\ poolHolder' \in Queries \union {0}
         /\ holder' \in [Servers -> Queries \union {0}]
         /\ \A s \in Servers : holder'[s] = IF holder[s] = c THEN 0 ELSE holder[s]
         /\ server' \in [Servers -> {"unborn", "up", "gone"}]
         /\ \A s \in Servers : server'[s] = server[s] \/ (server[s] = "up" /\ server'[s] = "gone")
<1>1. pool' = pool /\ poolHolder' \in Queries \union {0}
  BY DEF Lets, PoolFreed, CallTypes
<1>2. /\ holder' \in [Servers -> Queries \union {0}]
      /\ \A s \in Servers : holder'[s] = IF holder[s] = c THEN 0 ELSE holder[s]
  BY DEF Lets, Unheld, CallTypes
<1> QED BY <1>1, <1>2, HandleDroppedTyped DEF Lets

LEMMA ErrsTyped ==
  ASSUME CallTypes, NEW c \in Queries, Errs(c)
  PROVE  /\ CallTypes' /\ query'[c] = Blank("done") /\ result'[c] = Failed
         /\ \A d \in Queries \ {c} : query'[d] = query[d] /\ result'[d] = result[d]
         /\ pool' = pool
         /\ \A s \in Servers : holder'[s] = IF holder[s] = c THEN 0 ELSE holder[s]
         /\ \A s \in Servers : server'[s] = server[s] \/ (server[s] = "up" /\ server'[s] = "gone")
<1>1. Blank("done") \in Standings /\ Failed \in Results
  BY BlankTyped, FailedTyped DEF Ats
<1>2. /\ query' = [query EXCEPT ![c] = Blank("done")] /\ Lets(c)
      /\ result' = [result EXCEPT ![c] = Failed]
  BY DEF Errs
<1>3. /\ query' \in [Queries -> Standings] /\ result' \in [Queries -> Results]
      /\ query'[c] = Blank("done") /\ result'[c] = Failed
      /\ \A d \in Queries \ {c} : query'[d] = query[d] /\ result'[d] = result[d]
  BY <1>1, <1>2 DEF CallTypes
<1> QED BY <1>2, <1>3, LetsTyped DEF CallTypes

LEMMA TransportFailsTyped ==
  ASSUME CallTypes, NEW c \in Queries, TransportFails(c)
  PROVE  /\ CallTypes' /\ result'[c] = Failed
         /\ \/ query'[c] = Blank("done")
            \/ query'[c] = [query[c] EXCEPT !.at = "evict"] /\ query[c].at \notin Handshake
         /\ \A d \in Queries \ {c} : query'[d] = query[d] /\ result'[d] = result[d]
         /\ pool' = pool
         /\ \A s \in Servers : holder'[s] = IF holder[s] = c THEN 0 ELSE holder[s]
         /\ \A s \in Servers : server'[s] = server[s] \/ (server[s] = "up" /\ server'[s] = "gone")
<1>1. CASE query[c].at \in Handshake
  BY <1>1, ErrsTyped DEF TransportFails
<1>2. CASE query[c].at \notin Handshake
  <2>1. /\ Goes(c, "evict") /\ result' = [result EXCEPT ![c] = Failed] /\ Unheld(c)
        /\ UNCHANGED <<pool, poolHolder, server>>
    BY <1>2 DEF TransportFails
  <2>2. /\ query' \in [Queries -> Standings]
        /\ query'[c] = [query[c] EXCEPT !.at = "evict"]
        /\ \A d \in Queries \ {c} : query'[d] = query[d]
    BY <2>1, GoesTyped DEF Ats, Holding
  <2>3. /\ result' \in [Queries -> Results] /\ result'[c] = Failed
        /\ \A d \in Queries \ {c} : result'[d] = result[d]
    BY <2>1, FailedTyped DEF CallTypes
  <2>4. /\ holder' \in [Servers -> Queries \union {0}]
        /\ \A s \in Servers : holder'[s] = IF holder[s] = c THEN 0 ELSE holder[s]
    BY <2>1 DEF Unheld, CallTypes
  <2> QED BY <1>2, <2>1, <2>2, <2>3, <2>4 DEF CallTypes
<1> QED BY <1>1, <1>2

LEMMA GivenUpTyped ==
  ASSUME CallTypes, PipeTypes, NEW c \in Queries, GivenUp(c)
  PROVE  /\ torn' \in [Servers -> SUBSET {"in", "out"}]
         /\ \A s \in Servers : torn[s] \subseteq torn'[s]
<1> DEFINE s == query[c].client
           pipes == IF query[c].at \in Writing THEN {"in"}
                    ELSE IF query[c].at \in Waiting THEN {"in", "out"} ELSE {}
<1>1. CASE torn' = torn
  BY <1>1 DEF PipeTypes
<1>2. CASE torn' # torn
  <2>1. PICK cut \in SUBSET pipes : torn' = [torn EXCEPT ![s] = @ \union cut]
    BY <1>2 DEF GivenUp
  <2>2. cut \subseteq {"in", "out"} /\ s \in Servers \union {0}
    BY StandingFacts
  <2> HIDE DEF pipes, s
  <2> QED BY <2>1, <2>2 DEF PipeTypes
<1> QED BY <1>1, <1>2

LEMMA WrittenTyped ==
  ASSUME PipeTypes, NEW s \in Servers, NEW frame \in Messages, Written(s, frame)
  PROVE  /\ stdin' \in [Servers -> Seq(Messages)]
         /\ stdin'[s] = IF "in" \in torn[s] THEN stdin[s] ELSE Append(stdin[s], frame)
         /\ \A r \in Servers \ {s} : stdin'[r] = stdin[r]
<1>1. stdin[s] \in Seq(Messages) /\ Append(stdin[s], frame) \in Seq(Messages)
  <2>1. stdin[s] \in Seq(Messages)
    BY DEF PipeTypes
  <2> QED BY <2>1, Appended
<1> DEFINE Pipe == Seq(Messages)
<1>2. stdin \in [Servers -> Pipe] /\ Append(stdin[s], frame) \in Pipe /\ stdin[s] \in Pipe
  BY <1>1 DEF PipeTypes
<1> HIDE DEF Pipe
<1>3. CASE "in" \in torn[s]
  BY <1>2, <1>3 DEF Written, Pipe
<1>4. CASE "in" \notin torn[s]
  <2>1. stdin' = [stdin EXCEPT ![s] = Append(stdin[s], frame)]
    BY <1>4 DEF Written
  <2>2. /\ stdin' \in [Servers -> Pipe] /\ stdin'[s] = Append(stdin[s], frame)
        /\ \A r \in Servers \ {s} : stdin'[r] = stdin[r]
    BY <1>2, <2>1
  <2> QED BY <1>4, <2>2 DEF Pipe
<1> QED BY <1>3, <1>4

\* What the query at its write sends, by where it stands.
LEMMA WritesCases ==
  ASSUME NEW c, Writes(c)
  PROVE  /\ server[query[c].client] = "up"
         /\ UNCHANGED <<disk, server, holder, stdout, torn, known, working, result>>
         /\ \/ /\ query[c].at = "hello" /\ Goes(c, "greeted")
               /\ Written(query[c].client, Message("initialize", 1, query[c].doc, 0))
               /\ UNCHANGED <<pool, poolHolder, requestId, documents>>
            \/ /\ query[c].at = "ready" /\ Goes(c, "reading")
               /\ Written(query[c].client, Message("initialized", 0, query[c].doc, 0))
               /\ pool' = query[c].client /\ poolHolder' = 0
               /\ UNCHANGED <<requestId, documents>>
            \/ /\ query[c].at = "tell"
               /\ Written(query[c].client,
                          Message(IF query[c].doc \in documents[query[c].client]
                                  THEN "change" ELSE "open", 0, query[c].doc, query[c].text))
               /\ documents' = [documents EXCEPT ![query[c].client] = @ \union {query[c].doc}]
               /\ requestId' = [requestId EXCEPT ![query[c].client] = @ + 1]
               /\ query' = [query EXCEPT ![c].at = "ask", ![c].id = requestId[query[c].client]]
               /\ UNCHANGED <<pool, poolHolder>>
            \/ /\ query[c].at = "ask" /\ Goes(c, "wait")
               /\ Written(query[c].client, Message("query", query[c].id, query[c].doc, 0))
               /\ UNCHANGED <<pool, poolHolder, requestId, documents>>
BY DEF Writes, Writing

LEMMA ReadsReplyCases ==
  ASSUME NEW c, ReadsReply(c)
  PROVE  /\ query[c].at \in Waiting
         /\ UNCHANGED <<disk, requestId, documents, stdin, torn, known, working>>
         /\ \/ TransportFails(c) /\ UNCHANGED stdout
            \/ /\ stdout[query[c].client] # <<>>
               /\ stdout' = [stdout EXCEPT ![query[c].client] = Tail(@)]
               /\ \/ TransportFails(c)
                  \/ Errs(c)
                  \/ /\ query[c].at = "greeted" /\ Goes(c, "ready")
                     /\ UNCHANGED <<pool, poolHolder, server, holder, result>>
                  \/ /\ query[c].at = "wait" /\ Head(stdout[query[c].client]).id = query[c].id
                     /\ Answered(c, Head(stdout[query[c].client]))
<1>1. CASE "out" \in torn[query[c].client]
  BY <1>1 DEF ReadsReply
<1>2. CASE "out" \notin torn[query[c].client]
  BY <1>2 DEF ReadsReply, Readable, Accepts, Waiting
<1> QED BY <1>1, <1>2

LEMMA MessageTyped ==
  ASSUME NEW kind \in {"initialize", "initialized", "open", "change", "query"},
         NEW id \in Nat, NEW doc \in Documents, NEW text \in FileTexts \union {0}
  PROVE  /\ Message(kind, id, doc, text) \in Messages
         /\ Message(kind, id, doc, text).kind = kind /\ Message(kind, id, doc, text).id = id
         /\ Message(kind, id, doc, text).doc = doc /\ Message(kind, id, doc, text).text = text
BY DEF Message, Messages, RequestIds

\* The steps of a call that leave the pipes alone, but for tearing them.
LEMMA CallStepTyped ==
  ASSUME LspTypes, NEW c \in Queries,
         \/ FindsClient(c) \/ CannotStart(c) \/ ReadsFile(c) \/ TakesClient(c)
         \/ PipeBreaks(c) \/ TimesOutQuery(c) \/ Evicts(c) \/ DropsQuery(c)
         \/ (\E doc \in Documents : Asked(c, doc))
  PROVE  LspTypes'
<1> CallTypes /\ PipeTypes /\ disk \in [Documents -> FileTexts]
  BY DEF LspTypes
<1> query[c] \in Standings /\ query[c].client \in Servers \union {0} /\ query[c].doc \in Documents
  BY StandingFacts
<1>1. CASE FindsClient(c)
  <2>1. query' = [query EXCEPT ![c] = [query[c] EXCEPT !.at = "reading", !.client = pool]]
    BY <1>1 DEF FindsClient, CallTypes
  <2>2. [query[c] EXCEPT !.at = "reading", !.client = pool] \in Standings
    BY DEF CallTypes, Standings, Ats, Holding
  <2>3. CallTypes'
    BY <1>1, <2>1, <2>2 DEF FindsClient, CallTypes
  <2> QED BY <1>1, <2>3 DEF LspTypes, FindsClient, Pipes, PipeTypes
<1>2. CASE CannotStart(c)
  BY <1>2, ErrsTyped DEF LspTypes, CannotStart, Pipes, PipeTypes
<1>3. CASE ReadsFile(c)
  <2>1. CASE Errs(c)
    BY <1>3, <2>1, ErrsTyped DEF LspTypes, ReadsFile, Pipes, PipeTypes
  <2>2. CASE ~Errs(c)
    <3>1. /\ query' = [query EXCEPT ![c].at = "lock", ![c].text = disk[query[c].doc]]
          /\ UNCHANGED <<pool, poolHolder, server, holder, result>>
      BY <1>3, <2>2 DEF ReadsFile
    <3>2. [query[c] EXCEPT !.at = "lock", !.text = disk[query[c].doc]] \in Standings
      BY DEF Standings, Ats, Holding
    <3>3. query' = [query EXCEPT ![c] = [query[c] EXCEPT !.at = "lock", !.text = disk[query[c].doc]]]
      BY <3>1 DEF CallTypes
    <3>4. CallTypes'
      BY <3>1, <3>2, <3>3 DEF CallTypes
    <3> QED BY <1>3, <3>4 DEF LspTypes, ReadsFile, Pipes, PipeTypes
  <2> QED BY <2>1, <2>2
<1>4. CASE TakesClient(c)
  <2>1. query' \in [Queries -> Standings]
    BY <1>4, GoesTyped DEF TakesClient, Ats, Holding, Exchange
  <2>2. holder' \in [Servers -> Queries \union {0}]
    BY <1>4 DEF TakesClient, CallTypes
  <2> QED BY <1>4, <2>1, <2>2 DEF LspTypes, TakesClient, Pipes, PipeTypes, CallTypes
<1>5. CASE PipeBreaks(c)
  BY <1>5, TransportFailsTyped DEF LspTypes, PipeBreaks, Pipes, PipeTypes
<1>6. CASE TimesOutQuery(c)
  BY <1>6, TransportFailsTyped, GivenUpTyped DEF LspTypes, TimesOutQuery, PipeTypes
<1>7. CASE Evicts(c)
  <2>1. /\ query' = [query EXCEPT ![c] = Blank("done")] /\ HandleDropped(c, pool')
        /\ pool' \in {0, pool} /\ UNCHANGED <<disk, poolHolder, holder, Pipes, result>>
    BY <1>7 DEF Evicts, Evicted
  <2>2. query' \in [Queries -> Standings]
    BY <2>1, BlankTyped DEF CallTypes, Ats
  <2>3. server' \in [Servers -> {"unborn", "up", "gone"}]
    BY <2>1, HandleDroppedTyped
  <2> QED BY <2>1, <2>2, <2>3 DEF LspTypes, Pipes, PipeTypes, CallTypes
<1>8. CASE DropsQuery(c)
  BY <1>8, ErrsTyped, GivenUpTyped DEF LspTypes, DropsQuery, PipeTypes
<1>9. ASSUME NEW doc \in Documents, Asked(c, doc) PROVE LspTypes'
  <2>1. query' = [query EXCEPT ![c] = [query[c] EXCEPT !.at = "pool", !.doc = doc]]
    BY <1>9 DEF Asked, CallTypes
  <2>2. [query[c] EXCEPT !.at = "pool", !.doc = doc] \in Standings
    BY DEF Standings, Ats
  <2>3. CallTypes'
    BY <1>9, <2>1, <2>2 DEF Asked, CallTypes
  <2> QED BY <1>9, <2>3 DEF LspTypes, Asked, Pipes, PipeTypes
<1> QED BY <1>1, <1>2, <1>3, <1>4, <1>5, <1>6, <1>7, <1>8, <1>9

LEMMA StartsServerTyped ==
  ASSUME LspTypes, NEW c \in Queries, NEW s \in Servers,
         /\ server' = [server EXCEPT ![s] = "up"]
         /\ requestId' = [requestId EXCEPT ![s] = 2]
         /\ query' = [query EXCEPT ![c].at = "hello", ![c].client = s, ![c].id = 1]
         /\ poolHolder' = c
         /\ UNCHANGED <<disk, pool, holder, documents, stdin, stdout, torn, known, working, result>>
  PROVE  LspTypes'
<1> CallTypes /\ PipeTypes /\ disk \in [Documents -> FileTexts]
  BY DEF LspTypes
<1>1. query' = [query EXCEPT ![c] = [query[c] EXCEPT !.at = "hello", !.client = s, !.id = 1]]
  BY DEF CallTypes
<1>2. [query[c] EXCEPT !.at = "hello", !.client = s, !.id = 1] \in Standings
  BY StandingFacts DEF Standings, Ats, Handshake, RequestIds
<1>3. CallTypes'
  BY <1>1, <1>2 DEF CallTypes
<1>4. PipeTypes'
  BY DEF PipeTypes
<1> QED BY <1>3, <1>4 DEF LspTypes

-----------------------------------------------------------------------------
(* The invariant, call by call and server by server.                       *)

Told(m, q) == m.kind \in {"open", "change"} /\ m.doc = q.doc /\ m.text = q.text
Tells(m) == m.kind \in {"open", "change"}
Meant(reply, q) == reply.id = q.id => reply.doc = q.doc /\ reply.text = q.text

\* A call that has a client has one that was started; in an exchange it holds
\* its mutex, and before it, while it starts one, nobody else has it.
Placed(c) ==
  /\ query[c].client \in Servers => server[query[c].client] # "unborn"
  /\ query[c].at \in Handshake \union Holding => query[c].client \in Servers
  /\ query[c].at \in {"unused", "pool"} => query[c].client = 0
  /\ query[c].at \in Handshake =>
       /\ query[c].client # pool
       /\ \A d \in Queries \ {c} : query[d].client # query[c].client
  /\ query[c].at \in Exchange => holder[query[c].client] = c
  /\ query[c].at \in Exchange \union {"lock"} => query[c].text # 0
  /\ result[c].kind = "answer" =>
       /\ query[c].at = "done"
       /\ result[c].doc = query[c].doc /\ result[c].text = query[c].text

\* Between its tell and its query a call's text is the last word in the pipe,
\* or what the server has read.
AboutToAsk(c) ==
  LET q == query[c]
      s == q.client
  IN q.at = "ask" =>
       /\ q.id < requestId[s]
       /\ \A i \in 1 .. Len(stdin[s]) : stdin[s][i].id # q.id
       /\ \A reply \in working[s] : reply.id # q.id
       /\ \A i \in 1 .. Len(stdout[s]) : stdout[s][i].id # q.id
       /\ "in" \in torn[s] \/ IF stdin[s] = <<>> THEN known[s][q.doc] = q.text
                              ELSE Told(stdin[s][Len(stdin[s])], q)

\* Behind its text comes its query, and of it come its answers.
HasAsked(c) ==
  LET q == query[c]
      s == q.client
  IN q.at = "wait" =>
       /\ q.id < requestId[s]
       /\ \A i \in 1 .. Len(stdin[s]) : stdin[s][i].id = q.id =>
            /\ stdin[s][i].doc = q.doc
            /\ IF i = 1 THEN known[s][q.doc] = q.text ELSE Told(stdin[s][i - 1], q)
       /\ \A reply \in working[s] : Meant(reply, q)
       /\ \A i \in 1 .. Len(stdout[s]) : Meant(stdout[s][i], q)

\* Every id on the way was given out, and a text for a document is taken: it is
\* opened once and changed afterwards.
Orderly(s) ==
  /\ server[s] # "unborn" => requestId[s] >= 2
  /\ server[s] = "unborn" => /\ stdin[s] = <<>> /\ stdout[s] = <<>> /\ working[s] = {}
                             /\ documents[s] = {}
                             /\ \A doc \in Documents : known[s][doc] = 0
  /\ \A i \in 1 .. Len(stdin[s]) : stdin[s][i].id < requestId[s]
  /\ \A reply \in working[s] : reply.id < requestId[s]
  /\ \A i \in 1 .. Len(stdout[s]) : stdout[s][i].id < requestId[s]
  /\ \A i \in 1 .. Len(stdin[s]) : Tells(stdin[s][i]) =>
       stdin[s][i].text # 0 /\ stdin[s][i].doc \in documents[s]
  /\ \A i \in 1 .. Len(stdin[s]) : stdin[s][i].kind = "open" =>
       /\ known[s][stdin[s][i].doc] = 0
       /\ \A j \in 1 .. i - 1 : stdin[s][j].doc = stdin[s][i].doc => ~Tells(stdin[s][j])
  /\ \A i \in 1 .. Len(stdin[s]) : stdin[s][i].kind = "change" =>
       \/ known[s][stdin[s][i].doc] # 0
       \/ \E j \in 1 .. i - 1 : stdin[s][j].kind = "open" /\ stdin[s][j].doc = stdin[s][i].doc
  /\ \A doc \in Documents \ documents[s] : known[s][doc] = 0
  /\ "in" \in torn[s] \/ \A doc \in documents[s] :
       \/ known[s][doc] # 0
       \/ \E j \in 1 .. Len(stdin[s]) : stdin[s][j].kind = "open" /\ stdin[s][j].doc = doc

LspInvariant ==
  /\ LspTypes
  /\ pool \in Servers => server[pool] # "unborn"
  /\ \A c \in Queries : Placed(c) /\ AboutToAsk(c) /\ HasAsked(c)
  /\ \A s \in Servers : Orderly(s)

-----------------------------------------------------------------------------
(* Steps of a call that write nothing.                                     *)

\* The standings such a step may bring its call to.
NewStanding(c) ==
  \/ query'[c].at \in {"done"} /\ query'[c].client = 0
  \/ query'[c].at = "evict" /\ query[c].at \in Exchange /\ query'[c].client = query[c].client
  \/ query'[c].at = "reading" /\ query'[c].client = pool /\ pool \in Servers
  \/ /\ query'[c].at = "lock" /\ query[c].at = "reading" /\ query'[c].client = query[c].client
     /\ query'[c].text # 0
  \/ query'[c].at = "pool" /\ query[c].at = "unused" /\ query'[c].client = query[c].client
  \/ /\ query'[c].at = "tell" /\ query[c].at = "lock" /\ query'[c].client = query[c].client
     /\ query'[c].text = query[c].text /\ holder'[query[c].client] = c
  \/ query'[c].at = "ready" /\ query[c].at = "greeted" /\ query'[c].client = query[c].client
  \/ /\ query'[c].at = "done" /\ query[c].at = "wait" /\ query'[c].client = query[c].client
     /\ result'[c].doc = query'[c].doc /\ result'[c].text = query'[c].text

\* What the client has read is gone from the pipe.
OutShrinks ==
  \A s \in Servers :
    /\ stdout[s] = <<>> => stdout'[s] = <<>>
    /\ \A i \in 1 .. Len(stdout'[s]) :
         \E j \in 1 .. Len(stdout[s]) : stdout'[s][i] = stdout[s][j]

Moved(c) ==
  /\ query[c].at # "done" /\ NewStanding(c) /\ OutShrinks
  /\ \A d \in Queries \ {c} : query'[d] = query[d] /\ result'[d] = result[d]
  /\ result'[c] = result[c] \/ result'[c] = Failed \/ (query'[c].at = "done" /\ query[c].at = "wait"
       /\ result'[c].doc = query'[c].doc /\ result'[c].text = query'[c].text)
  /\ \A s \in Servers : torn[s] \subseteq torn'[s]
  /\ \A s \in Servers : holder'[s] = holder[s] \/ holder[s] \in {0, c}
  /\ \A s \in Servers : server'[s] = "unborn" <=> server[s] = "unborn"
  /\ pool' = pool \/ pool' = 0

LEMMA CallMoves ==
  ASSUME LspInvariant, NEW c \in Queries,
         \/ FindsClient(c) \/ CannotStart(c) \/ ReadsFile(c) \/ TakesClient(c)
         \/ PipeBreaks(c) \/ TimesOutQuery(c) \/ Evicts(c) \/ DropsQuery(c)
         \/ (\E doc \in Documents : Asked(c, doc))
  PROVE  Moved(c) /\ UNCHANGED <<requestId, documents, stdin, stdout, known, working>>
<1> LspTypes /\ CallTypes /\ PipeTypes /\ disk \in [Documents -> FileTexts]
  BY DEF LspInvariant, LspTypes
<1> query[c] \in Standings /\ query[c].client \in Servers \union {0} /\ query[c].doc \in Documents
  BY StandingFacts
<1>0. Blank("done").at = "done" /\ Blank("done").client = 0
  BY BlankTyped DEF Ats
<1>o. stdout' = stdout => OutShrinks
  BY DEF OutShrinks
<1>1. CASE FindsClient(c)
  <2>1. query'[c].at = "reading" /\ query'[c].client = pool /\ pool \in Servers
    BY <1>1 DEF FindsClient, CallTypes
  <2>2. \A d \in Queries \ {c} : query'[d] = query[d]
    BY <1>1 DEF FindsClient, CallTypes
  <2> QED BY <1>o, <1>1, <2>1, <2>2 DEF FindsClient, Pipes, Moved, NewStanding
<1>2. CASE CannotStart(c)
  BY <1>o, <1>0, <1>2, ErrsTyped DEF CannotStart, Pipes, Moved, NewStanding
<1>3. CASE ReadsFile(c)
  <2>1. CASE Errs(c)
    BY <1>o, <1>0, <1>3, <2>1, ErrsTyped DEF ReadsFile, Pipes, Moved, NewStanding
  <2>2. CASE ~Errs(c)
    <3>1. /\ query' = [query EXCEPT ![c].at = "lock", ![c].text = disk[query[c].doc]]
          /\ UNCHANGED <<pool, poolHolder, server, holder, result>>
      BY <1>3, <2>2 DEF ReadsFile
    <3>2. disk[query[c].doc] # 0
      BY BoundsTyped
    <3>3. /\ query'[c].at = "lock" /\ query'[c].client = query[c].client /\ query'[c].text # 0
          /\ \A d \in Queries \ {c} : query'[d] = query[d]
      BY <3>1, <3>2 DEF CallTypes, Standings
    <3> QED BY <1>o, <1>3, <3>1, <3>3 DEF ReadsFile, Pipes, Moved, NewStanding
  <2> QED BY <2>1, <2>2
<1>4. CASE TakesClient(c)
  <2>1. /\ query'[c] = [query[c] EXCEPT !.at = "tell"]
        /\ \A d \in Queries \ {c} : query'[d] = query[d]
    BY <1>4, GoesTyped DEF TakesClient, Ats, Holding, Exchange
  <2>2. /\ query'[c].at = "tell" /\ query'[c].client = query[c].client
        /\ query'[c].text = query[c].text
    BY <2>1 DEF Standings
  <2>3. query[c].client \in Servers
    BY <1>4 DEF TakesClient, LspInvariant, Placed, Holding
  <2>4. /\ holder'[query[c].client] = c
        /\ \A s \in Servers : holder'[s] = holder[s] \/ holder[s] \in {0, c}
    BY <1>4, <2>3 DEF TakesClient, CallTypes
  <2> QED BY <1>o, <1>4, <2>1, <2>2, <2>4 DEF TakesClient, Pipes, Moved, NewStanding
<1>5. ASSUME TransportFails(c), query[c].at \in Writing \union Waiting,
             UNCHANGED <<requestId, documents, stdin, stdout, known, working>>,
             \A s \in Servers : torn[s] \subseteq torn'[s]
      PROVE  Moved(c)
  <2>1. NewStanding(c)
    <3>1. CASE query'[c] = Blank("done")
      BY <1>0, <3>1 DEF NewStanding
    <3>2. CASE query'[c] = [query[c] EXCEPT !.at = "evict"] /\ query[c].at \notin Handshake
      <4>1. query'[c].at = "evict" /\ query'[c].client = query[c].client
        BY <3>2 DEF Standings
      <4>2. query[c].at \in Exchange
        BY <1>5, <3>2 DEF Writing, Waiting, Handshake, Exchange
      <4> QED BY <4>1, <4>2 DEF NewStanding
    <3> QED BY <1>5, <3>1, <3>2, TransportFailsTyped
  <2> QED BY <1>o, <1>5, <2>1, TransportFailsTyped DEF Moved, Writing, Waiting
<1>6. CASE PipeBreaks(c)
  BY <1>5, <1>6 DEF PipeBreaks, Pipes
<1>7. CASE TimesOutQuery(c)
  BY <1>5, <1>7, GivenUpTyped DEF TimesOutQuery
<1>8. CASE Evicts(c)
  <2>1. /\ query' = [query EXCEPT ![c] = Blank("done")] /\ HandleDropped(c, pool')
        /\ pool' \in {0, pool} /\ UNCHANGED <<disk, poolHolder, holder, Pipes, result>>
    BY <1>8 DEF Evicts, Evicted
  <2>2. query'[c] = Blank("done") /\ \A d \in Queries \ {c} : query'[d] = query[d]
    BY <2>1 DEF CallTypes
  <2> QED BY <1>o, <1>0, <1>8, <2>1, <2>2, HandleDroppedTyped DEF Evicts, Pipes, Moved, NewStanding
<1>9. CASE DropsQuery(c)
  BY <1>o, <1>0, <1>9, ErrsTyped, GivenUpTyped DEF DropsQuery, Moved, NewStanding
<1>10. ASSUME NEW doc \in Documents, Asked(c, doc)
       PROVE  Moved(c) /\ UNCHANGED <<requestId, documents, stdin, stdout, known, working>>
  <2>1. /\ query'[c].at = "pool" /\ query'[c].client = query[c].client
        /\ \A d \in Queries \ {c} : query'[d] = query[d]
    BY <1>10 DEF Asked, CallTypes, Standings
  <2> QED BY <1>o, <1>10, <2>1 DEF Asked, Pipes, Moved, NewStanding
<1> QED BY <1>1, <1>2, <1>3, <1>4, <1>6, <1>7, <1>8, <1>9, <1>10
          DEF PipeBreaks, TimesOutQuery, Pipes

LEMMA MovedKeepsPlaces ==
  ASSUME LspInvariant, LspTypes', NEW c \in Queries, Moved(c)
  PROVE  /\ pool' \in Servers => server'[pool'] # "unborn"
         /\ \A d \in Queries : Placed(d)'
<1> USE DEF Moved
<1>0. 0 \notin Servers /\ 0 \notin Queries
  BY BoundsTyped
<1>1. pool' \in Servers => server'[pool'] # "unborn"
  BY <1>0 DEF LspInvariant
<1>2. \A d \in Queries : query[d].client \in Servers \union {0}
  BY StandingFacts DEF LspInvariant, LspTypes
<1>3. query'[c].client \in {0, query[c].client, pool}
  BY DEF NewStanding
<1>4. ASSUME NEW d \in Queries, d # c PROVE Placed(d)'
  <2>1. query'[d] = query[d] /\ result'[d] = result[d] /\ Placed(d)
    BY <1>4 DEF LspInvariant
  <2>2. query[d].client \in Servers => server'[query[d].client] # "unborn"
    BY <2>1 DEF Placed
  <2>3. ASSUME query[d].at \in Handshake
        PROVE  query[d].client # pool' /\ \A e \in Queries \ {d} : query'[e].client # query[d].client
    <3>1. /\ query[d].client \in Servers /\ query[d].client # pool
          /\ \A e \in Queries \ {d} : query[e].client # query[d].client
      BY <2>1, <2>3 DEF Placed
    <3>2. query'[c].client # query[d].client
      BY <1>0, <1>3, <1>4, <3>1
    <3> QED BY <1>0, <3>1, <3>2
  <2>4. query[d].at \in Exchange => holder'[query[d].client] = d
    <3>1. query[d].at \in Exchange => query[d].client \in Servers /\ holder[query[d].client] = d
      BY <2>1 DEF Placed, Holding
    <3> QED BY <1>0, <1>4, <3>1
  <2> QED BY <2>1, <2>2, <2>3, <2>4 DEF Placed
<1>5. result'[c].kind = "answer" =>
        /\ query'[c].at = "done"
        /\ result'[c].doc = query'[c].doc /\ result'[c].text = query'[c].text
  <2>1. result[c].kind # "answer"
    BY DEF LspInvariant, Placed
  <2> QED BY <2>1, FailedTyped
<1>6. Placed(c)'
  <2> USE <1>0, <1>5 DEF Placed, Handshake, Holding, Exchange
  <2>0. query[c].client \in Servers => server'[query[c].client] # "unborn"
    BY DEF LspInvariant
  <2>1. CASE query'[c].at \in {"done"} /\ query'[c].client = 0
    BY <2>1
  <2>2. CASE query'[c].at = "evict" /\ query[c].at \in Exchange /\ query'[c].client = query[c].client
    <3>1. query[c].client \in Servers
      BY <2>2 DEF LspInvariant
    <3> QED BY <2>0, <2>2, <3>1
  <2>3. CASE query'[c].at = "reading" /\ query'[c].client = pool /\ pool \in Servers
    <3>1. server'[pool] # "unborn"
      BY <2>3 DEF LspInvariant
    <3> QED BY <2>3, <3>1
  <2>4. CASE /\ query'[c].at = "lock" /\ query[c].at = "reading" /\ query'[c].client = query[c].client
             /\ query'[c].text # 0
    <3>1. query[c].client \in Servers
      BY <2>4 DEF LspInvariant
    <3> QED BY <2>0, <2>4, <3>1
  <2>5. CASE query'[c].at = "pool" /\ query[c].at = "unused" /\ query'[c].client = query[c].client
    <3>1. query[c].client = 0
      BY <2>5 DEF LspInvariant
    <3> QED BY <2>5, <3>1
  <2>6. CASE /\ query'[c].at = "tell" /\ query[c].at = "lock" /\ query'[c].client = query[c].client
             /\ query'[c].text = query[c].text /\ holder'[query[c].client] = c
    <3>1. query[c].client \in Servers /\ query[c].text # 0
      BY <2>6 DEF LspInvariant
    <3> QED BY <2>0, <2>6, <3>1
  <2>7. CASE query'[c].at = "ready" /\ query[c].at = "greeted" /\ query'[c].client = query[c].client
    <3>1. /\ query[c].client \in Servers /\ query[c].client # pool
          /\ \A d \in Queries \ {c} : query[d].client # query[c].client
      BY <2>7 DEF LspInvariant
    <3> QED BY <2>0, <2>7, <3>1
  <2>8. CASE query'[c].at = "done" /\ query[c].at = "wait" /\ query'[c].client = query[c].client
    BY <2>0, <2>8
  <2> QED BY <2>1, <2>2, <2>3, <2>4, <2>5, <2>6, <2>7, <2>8 DEF NewStanding
<1> QED BY <1>1, <1>4, <1>6

\* Calls whose standing stays are in their exchange as before, while the pipes
\* stand or tear.
LEMMA PipesStand ==
  ASSUME NEW c \in Queries, query[c].client \in Servers, OutShrinks,
         UNCHANGED <<requestId, documents, stdin, known, working>>,
         \A r \in Servers : torn[r] \subseteq torn'[r],
         query'[c] = query[c]
  PROVE  (AboutToAsk(c) => AboutToAsk(c)') /\ (HasAsked(c) => HasAsked(c)')
<1> DEFINE s == query[c].client
<1>1. \A i \in 1 .. Len(stdout'[s]) :
        \E j \in 1 .. Len(stdout[s]) : stdout'[s][i] = stdout[s][j]
  BY DEF OutShrinks
<1>2. torn[s] \subseteq torn'[s]
  OBVIOUS
<1>3. ASSUME AboutToAsk(c) PROVE AboutToAsk(c)'
  <2>1. query[c].at = "ask" =>
          \A i \in 1 .. Len(stdout'[s]) : stdout'[s][i].id # query[c].id
    BY <1>1, <1>3 DEF AboutToAsk
  <2> QED BY <1>2, <1>3, <2>1 DEF AboutToAsk, Told
<1>4. ASSUME HasAsked(c) PROVE HasAsked(c)'
  <2>1. query[c].at = "wait" => \A i \in 1 .. Len(stdout'[s]) : Meant(stdout'[s][i], query[c])
    BY <1>1, <1>4 DEF HasAsked
  <2> QED BY <1>4, <2>1 DEF HasAsked, Told, Meant
<1> QED BY <1>3, <1>4

LEMMA OrderlyStands ==
  ASSUME NEW s \in Servers, Orderly(s), OutShrinks,
         UNCHANGED <<requestId, documents, stdin, known, working>>,
         torn[s] \subseteq torn'[s], server'[s] = "unborn" <=> server[s] = "unborn"
  PROVE  Orderly(s)'
<1>1. \A i \in 1 .. Len(stdout'[s]) : stdout'[s][i].id < requestId[s]
  BY DEF Orderly, OutShrinks
<1>2. stdout[s] = <<>> => stdout'[s] = <<>>
  BY DEF OutShrinks
<1> QED BY <1>1, <1>2 DEF Orderly, Tells

LEMMA MovedKeeps ==
  ASSUME LspInvariant, LspTypes', NEW c \in Queries, Moved(c),
         UNCHANGED <<requestId, documents, stdin, known, working>>
  PROVE  LspInvariant'
<1>1. ASSUME NEW d \in Queries PROVE AboutToAsk(d)' /\ HasAsked(d)'
  <2>1. CASE d = c
    <3>1. query'[c].at \notin {"ask", "wait"}
      BY DEF Moved, NewStanding
    <3> QED BY <2>1, <3>1 DEF AboutToAsk, HasAsked
  <2>2. CASE d # c
    <3>1. query'[d] = query[d] /\ \A r \in Servers : torn[r] \subseteq torn'[r]
      BY <2>2 DEF Moved
    <3>2. CASE query[d].at \in {"ask", "wait"}
      <4>1. query[d].client \in Servers
        BY <3>2 DEF LspInvariant, Placed, Holding, Exchange
      <4> QED BY <3>1, <4>1, PipesStand DEF LspInvariant, Moved
    <3>3. CASE query[d].at \notin {"ask", "wait"}
      BY <3>1, <3>3 DEF AboutToAsk, HasAsked
    <3> QED BY <3>2, <3>3
  <2> QED BY <2>1, <2>2
<1>2. \A s \in Servers : Orderly(s)'
  BY OrderlyStands DEF LspInvariant, Moved
<1> QED BY <1>1, <1>2, MovedKeepsPlaces DEF LspInvariant

LEMMA ReadsReplyMoves ==
  ASSUME LspInvariant, NEW c \in Queries, ReadsReply(c)
  PROVE  /\ LspTypes' /\ Moved(c)
         /\ UNCHANGED <<requestId, documents, stdin, known, working>>
<1> LspTypes /\ CallTypes /\ PipeTypes /\ disk \in [Documents -> FileTexts]
  BY DEF LspInvariant, LspTypes
<1> DEFINE s == query[c].client
           q == query[c]
<1>1. /\ query[c].at \in Waiting
      /\ UNCHANGED <<disk, requestId, documents, stdin, torn, known, working>>
  BY ReadsReplyCases
<1>2. q \in Standings /\ s \in Servers /\ c \in Queries
  <2>1. s \in Servers
    BY <1>1 DEF Waiting, Handshake, Holding, Exchange, LspInvariant, Placed
  <2> QED BY <2>1, StandingFacts
<1>3. stdout[s] \in Seq(Replies)
  BY <1>2 DEF PipeTypes
<1>4. Blank("done").at = "done" /\ Blank("done").client = 0
  BY BlankTyped DEF Ats
<1>5. \/ stdout' = stdout
      \/ stdout[s] # <<>> /\ stdout' = [stdout EXCEPT ![s] = Tail(@)]
  BY ReadsReplyCases
<1>6. stdout' \in [Servers -> Seq(Replies)] /\ OutShrinks
  <2>1. CASE stdout' = stdout
    BY <2>1 DEF PipeTypes, OutShrinks
  <2>2. CASE stdout[s] # <<>> /\ stdout' = [stdout EXCEPT ![s] = Tail(@)]
    <3> DEFINE Pipe == Seq(Replies)
    <3>1. /\ Tail(stdout[s]) \in Pipe /\ Len(stdout[s]) \in Nat \ {0}
          /\ Len(Tail(stdout[s])) = Len(stdout[s]) - 1
          /\ \A i \in 1 .. Len(stdout[s]) - 1 : Tail(stdout[s])[i] = stdout[s][i + 1]
      BY <1>3, <2>2, Tailed
    <3>2. stdout \in [Servers -> Pipe]
      BY DEF PipeTypes
    <3> HIDE DEF Pipe
    <3>3. /\ stdout' \in [Servers -> Pipe] /\ stdout'[s] = Tail(stdout[s])
          /\ \A r \in Servers \ {s} : stdout'[r] = stdout[r]
      BY <1>2, <2>2, <3>1, <3>2
    <3>4. ASSUME NEW i \in 1 .. Len(stdout'[s])
          PROVE  \E j \in 1 .. Len(stdout[s]) : stdout'[s][i] = stdout[s][j]
      <4>1. i + 1 \in 1 .. Len(stdout[s]) /\ stdout'[s][i] = stdout[s][i + 1]
        BY <3>1, <3>3
      <4> QED BY <4>1
    <3>5. \A r \in Servers \ {s} : \A i \in 1 .. Len(stdout'[r]) :
            \E j \in 1 .. Len(stdout[r]) : stdout'[r][i] = stdout[r][j]
      BY <3>3
    <3> QED BY <2>2, <3>3, <3>4, <3>5 DEF OutShrinks, Pipe
  <2> QED BY <1>5, <2>1, <2>2
<1>7. CallTypes' => LspTypes'
  BY <1>1, <1>6 DEF LspTypes, PipeTypes
<1> HIDE DEF s, q
<1>8. CASE TransportFails(c)
  <2>1. NewStanding(c)
    <3>1. CASE query'[c] = Blank("done")
      BY <1>4, <3>1 DEF NewStanding
    <3>2. CASE query'[c] = [query[c] EXCEPT !.at = "evict"] /\ query[c].at \notin Handshake
      <4>1. query'[c].at = "evict" /\ query'[c].client = query[c].client
        BY <1>2, <3>2 DEF Standings, q
      <4>2. query[c].at \in Exchange
        BY <1>1, <3>2 DEF Waiting, Handshake, Exchange
      <4> QED BY <4>1, <4>2 DEF NewStanding
    <3> QED BY <1>8, <3>1, <3>2, TransportFailsTyped
  <2> QED BY <1>1, <1>6, <1>7, <1>8, <2>1, TransportFailsTyped DEF Moved, Waiting
<1>9. CASE Errs(c)
  BY <1>1, <1>4, <1>6, <1>7, <1>9, ErrsTyped DEF Moved, NewStanding, Waiting
<1>10. CASE /\ query[c].at = "greeted" /\ Goes(c, "ready")
            /\ UNCHANGED <<pool, poolHolder, server, holder, result>>
  <2>1. /\ query' \in [Queries -> Standings]
        /\ query'[c] = [query[c] EXCEPT !.at = "ready"]
        /\ \A d \in Queries \ {c} : query'[d] = query[d]
    BY <1>10, GoesTyped DEF Ats, Handshake
  <2>2. query'[c].at = "ready" /\ query'[c].client = query[c].client
    BY <1>2, <2>1 DEF Standings, q
  <2> QED BY <1>1, <1>6, <1>7, <1>10, <2>1, <2>2 DEF Moved, NewStanding, CallTypes
<1>11. CASE /\ stdout[s] # <<>> /\ query[c].at = "wait" /\ Head(stdout[s]).id = query[c].id
            /\ Answered(c, Head(stdout[s]))
  <2> DEFINE reply == Head(stdout[s])
  <2>1. reply \in Replies /\ reply = stdout[s][1] /\ 1 \in 1 .. Len(stdout[s])
    BY <1>3, <1>11, Tailed
  <2>2. reply.doc = query[c].doc /\ reply.text = query[c].text
    <3>1. HasAsked(c)
      BY DEF LspInvariant
    <3> QED BY <1>11, <2>1, <3>1 DEF HasAsked, Meant, s
  <2>3. reply.doc \in Documents /\ reply.text \in FileTexts \union {0}
    BY <2>1 DEF Replies
  <2> HIDE DEF reply
  <2>4. /\ Goes(c, "done") /\ Lets(c)
        /\ result' = [result EXCEPT ![c] = Result("answer", reply.doc, reply.text)]
    BY <1>11 DEF Answered, reply
  <2>5. /\ query' \in [Queries -> Standings]
        /\ query'[c] = [query[c] EXCEPT !.at = "done"]
        /\ \A d \in Queries \ {c} : query'[d] = query[d]
    BY <2>4, GoesTyped DEF Ats
  <2>6. /\ query'[c].at = "done" /\ query'[c].client = query[c].client
        /\ query'[c].doc = query[c].doc /\ query'[c].text = query[c].text
    BY <1>2, <2>5 DEF Standings, q
  <2>7. Result("answer", reply.doc, reply.text) \in Results
    BY <2>3 DEF Result, Results
  <2>8. /\ result' \in [Queries -> Results] /\ result'[c] = Result("answer", reply.doc, reply.text)
        /\ \A d \in Queries \ {c} : result'[d] = result[d]
    BY <2>4, <2>7 DEF CallTypes
  <2>9. result'[c].doc = query'[c].doc /\ result'[c].text = query'[c].text
    BY <2>2, <2>6, <2>8 DEF Result
  <2>10. CallTypes'
    BY <2>4, <2>5, <2>8, LetsTyped DEF CallTypes
  <2>11. NewStanding(c)
    BY <1>11, <2>6, <2>9 DEF NewStanding
  <2> QED BY <1>1, <1>6, <1>7, <1>11, <2>4, <2>5, <2>6, <2>8, <2>9, <2>10, <2>11, LetsTyped DEF Moved
<1> QED BY <1>1, <1>8, <1>9, <1>10, <1>11, ReadsReplyCases DEF s

-----------------------------------------------------------------------------
(* Steps of the files and of the server.                                   *)

LEMMA PlacesStand ==
  ASSUME LspInvariant, UNCHANGED <<pool, holder, query, result>>,
         \A s \in Servers : server'[s] = "unborn" <=> server[s] = "unborn"
  PROVE  /\ pool' \in Servers => server'[pool'] # "unborn"
         /\ \A d \in Queries : Placed(d)'
BY DEF LspInvariant, Placed

\* A server that ends, or a file edited: no pipe changes.
LEMMA AsideKeeps ==
  ASSUME LspInvariant, LspTypes', UNCHANGED <<pool, holder, Pipes, query, result>>,
         \A s \in Servers : server'[s] = "unborn" <=> server[s] = "unborn"
  PROVE  LspInvariant'
<1>1. \A s \in Servers : Orderly(s)'
  BY DEF LspInvariant, Orderly, Pipes, Tells
<1>2. \A c \in Queries : AboutToAsk(c)' /\ HasAsked(c)'
  BY DEF LspInvariant, AboutToAsk, HasAsked, Pipes, Told, Meant
<1> QED BY <1>1, <1>2, PlacesStand DEF LspInvariant

LEMMA EditsFileKeeps ==
  ASSUME LspInvariant, NEW doc \in Documents, EditsFile(doc)
  PROVE  LspInvariant'
<1>1. disk' \in [Documents -> FileTexts]
  <2>1. disk[doc] \in FileTexts /\ disk[doc] <= MaxEdits
    BY DEF EditsFile, LspInvariant, LspTypes
  <2>2. disk[doc] + 1 \in FileTexts
    BY <2>1, BoundsTyped
  <2> QED BY <2>2 DEF EditsFile, LspInvariant, LspTypes
<1>2. LspTypes'
  BY <1>1 DEF EditsFile, LspInvariant, LspTypes, CallTypes, PipeTypes, Pipes
<1> QED BY <1>2, AsideKeeps DEF EditsFile, Pipes

LEMMA ServerDiesKeeps ==
  ASSUME LspInvariant, NEW s \in Servers, ServerDies(s)
  PROVE  LspInvariant'
<1>1. /\ server' \in [Servers -> {"unborn", "up", "gone"}]
      /\ \A r \in Servers : server'[r] = "unborn" <=> server[r] = "unborn"
  BY DEF ServerDies, LspInvariant, LspTypes, CallTypes
<1>2. LspTypes'
  BY <1>1 DEF ServerDies, LspInvariant, LspTypes, CallTypes, PipeTypes, Pipes
<1> QED BY <1>1, <1>2, AsideKeeps DEF ServerDies, Pipes

LEMMA ServerAnswersKeeps ==
  ASSUME LspInvariant, NEW s \in Servers, ServerAnswers(s)
  PROVE  LspInvariant'
<1> LspTypes /\ CallTypes /\ PipeTypes
  BY DEF LspInvariant, LspTypes
<1>1. PICK reply \in working[s] :
        /\ working' = [working EXCEPT ![s] = @ \ {reply}]
        /\ stdout' = [stdout EXCEPT ![s] = Append(@, reply)]
  BY DEF ServerAnswers
<1>2. /\ server[s] = "up"
      /\ UNCHANGED <<disk, pool, poolHolder, server, holder, requestId, documents, stdin, torn,
                     known, query, result>>
  BY DEF ServerAnswers
<1>3. stdout[s] \in Seq(Replies) /\ reply \in Replies /\ working[s] \in SUBSET Replies
  BY DEF PipeTypes
<1>4. /\ Append(stdout[s], reply) \in Seq(Replies)
      /\ Len(Append(stdout[s], reply)) = Len(stdout[s]) + 1 /\ Len(stdout[s]) \in Nat
      /\ \A i \in 1 .. Len(stdout[s]) + 1 :
           Append(stdout[s], reply)[i] = IF i = Len(stdout[s]) + 1 THEN reply ELSE stdout[s][i]
  BY <1>3, Appended
<1> DEFINE Pipe == Seq(Replies)
<1>5. stdout \in [Servers -> Pipe] /\ Append(stdout[s], reply) \in Pipe
  BY <1>4 DEF PipeTypes
<1> HIDE DEF Pipe
<1>6. /\ stdout' \in [Servers -> Pipe] /\ stdout'[s] = Append(stdout[s], reply)
      /\ \A r \in Servers \ {s} : stdout'[r] = stdout[r]
  BY <1>1, <1>5
<1>7. /\ working' \in [Servers -> SUBSET Replies]
      /\ \A r \in Servers : working'[r] \subseteq working[r]
  BY <1>1 DEF PipeTypes
<1>8. LspTypes'
  BY <1>2, <1>6, <1>7 DEF LspInvariant, LspTypes, CallTypes, PipeTypes, Pipe
<1>9. \A r \in Servers : \A i \in 1 .. Len(stdout'[r]) :
        \/ stdout'[r][i] \in working[r]
        \/ \E j \in 1 .. Len(stdout[r]) : stdout'[r][i] = stdout[r][j]
  <2>1. ASSUME NEW i \in 1 .. Len(stdout'[s])
        PROVE  \/ stdout'[s][i] \in working[s]
               \/ \E j \in 1 .. Len(stdout[s]) : stdout'[s][i] = stdout[s][j]
    <3>1. i \in 1 .. Len(stdout[s]) + 1
      BY <1>4, <1>6
    <3>2. CASE i = Len(stdout[s]) + 1
      BY <1>4, <1>6, <3>1, <3>2
    <3>3. CASE i # Len(stdout[s]) + 1
      <4>1. i \in 1 .. Len(stdout[s])
        BY <1>4, <3>1, <3>3
      <4> QED BY <1>4, <1>6, <3>1, <3>3, <4>1
    <3> QED BY <3>2, <3>3
  <2> QED BY <1>6, <2>1
<1>10. ASSUME NEW r \in Servers PROVE Orderly(r)'
  <2>1. Orderly(r)
    BY DEF LspInvariant
  <2>2. \A i \in 1 .. Len(stdout'[r]) : stdout'[r][i].id < requestId[r]
    BY <1>9, <2>1 DEF Orderly
  <2>3. server[r] = "unborn" => stdout'[r] = stdout[r]
    BY <1>2, <1>6
  <2>4. working[r] = {} => working'[r] = {}
    BY <1>7
  <2>5. \A e \in working'[r] : e.id < requestId[r]
    BY <1>7, <2>1 DEF Orderly
  <2> QED BY <1>2, <2>1, <2>2, <2>3, <2>4, <2>5 DEF Orderly, Tells
<1>11. ASSUME NEW c \in Queries PROVE AboutToAsk(c)' /\ HasAsked(c)'
  <2>0. AboutToAsk(c) /\ HasAsked(c) /\ Placed(c)
    BY DEF LspInvariant
  <2>1. CASE query[c].at \in {"ask", "wait"}
    <3> DEFINE r == query[c].client
    <3>1. r \in Servers
      BY <2>0, <2>1 DEF Placed, Holding, Exchange
    <3>2. /\ \A i \in 1 .. Len(stdout'[r]) :
               \/ stdout'[r][i] \in working[r]
               \/ \E j \in 1 .. Len(stdout[r]) : stdout'[r][i] = stdout[r][j]
          /\ working'[r] \subseteq working[r]
      BY <1>7, <1>9, <3>1
    <3>3. AboutToAsk(c)'
      BY <1>2, <2>0, <3>2 DEF AboutToAsk, Told
    <3>4. HasAsked(c)'
      BY <1>2, <2>0, <3>2 DEF HasAsked, Told, Meant
    <3> QED BY <3>3, <3>4
  <2>2. CASE query[c].at \notin {"ask", "wait"}
    BY <1>2, <2>2 DEF AboutToAsk, HasAsked
  <2> QED BY <2>1, <2>2
<1> QED BY <1>2, <1>8, <1>10, <1>11, PlacesStand DEF LspInvariant

\* What the server takes of a message: every text it is told, for the order of
\* the pipe has each document opened once, and first.
LEMMA ServerReadsFacts ==
  ASSUME LspInvariant, NEW s \in Servers, ServerReads(s)
  PROVE  /\ LspTypes' /\ server[s] = "up"
         /\ UNCHANGED <<disk, pool, poolHolder, server, holder, requestId, documents, stdout, torn,
                        query, result>>
         /\ Len(stdin[s]) \in Nat \ {0} /\ Len(stdin'[s]) = Len(stdin[s]) - 1
         /\ \A i \in 1 .. Len(stdin[s]) - 1 : stdin'[s][i] = stdin[s][i + 1]
         /\ \A i \in 1 .. Len(stdin[s]) : stdin[s][i] \in Messages
         /\ \A r \in Servers \ {s} : /\ stdin'[r] = stdin[r] /\ known'[r] = known[r]
                                     /\ working'[r] = working[r]
         /\ \A doc \in Documents :
              known'[s][doc] = IF Tells(stdin[s][1]) /\ stdin[s][1].doc = doc
                               THEN stdin[s][1].text ELSE known[s][doc]
         /\ \A reply \in working'[s] : reply \in working[s] \/
              /\ reply.id = stdin[s][1].id /\ reply.doc = stdin[s][1].doc
              /\ reply.text = known[s][stdin[s][1].doc]
<1> LspTypes /\ CallTypes /\ PipeTypes
  BY DEF LspInvariant, LspTypes
<1> DEFINE m == Head(stdin[s])
           text == known[s][m.doc]
<1>1. /\ server[s] = "up" /\ stdin[s] # <<>>
      /\ stdin' = [stdin EXCEPT ![s] = Tail(@)]
      /\ known' = IF \/ m.kind = "open" /\ text = 0
                     \/ m.kind = "change" /\ text # 0
                  THEN [known EXCEPT ![s][m.doc] = m.text] ELSE known
      /\ UNCHANGED <<disk, pool, poolHolder, server, holder, requestId, documents, stdout, torn,
                     query, result>>
  BY DEF ServerReads
<1>2. \/ UNCHANGED working
      \/ \E good \in BOOLEAN :
           working' = [working EXCEPT ![s] = @ \union {Reply(m.id, m.doc, text, good)}]
  BY DEF ServerReads
<1>3. stdin[s] \in Seq(Messages)
  BY DEF PipeTypes
<1>4. /\ Len(stdin[s]) \in Nat \ {0} /\ m = stdin[s][1] /\ m \in Messages
      /\ Tail(stdin[s]) \in Seq(Messages) /\ Len(Tail(stdin[s])) = Len(stdin[s]) - 1
      /\ \A i \in 1 .. Len(stdin[s]) - 1 : Tail(stdin[s])[i] = stdin[s][i + 1]
  BY <1>1, <1>3, Tailed
<1>5. \A i \in 1 .. Len(stdin[s]) : stdin[s][i] \in Messages
  BY <1>3
<1> DEFINE Pipe == Seq(Messages)
<1>6. stdin \in [Servers -> Pipe] /\ Tail(stdin[s]) \in Pipe
  BY <1>4 DEF PipeTypes
<1> HIDE DEF Pipe
<1>7. /\ stdin' \in [Servers -> Pipe] /\ stdin'[s] = Tail(stdin[s])
      /\ \A r \in Servers \ {s} : stdin'[r] = stdin[r]
  BY <1>1, <1>6
<1>8. /\ m.doc \in Documents /\ m.text \in FileTexts \union {0} /\ m.id \in Nat
      /\ m.kind \in {"initialize", "initialized", "open", "change", "query"}
  BY <1>4 DEF Messages, RequestIds
<1> HIDE DEF m
<1>9. text \in FileTexts \union {0} /\ known[s] \in [Documents -> FileTexts \union {0}]
  BY <1>8 DEF PipeTypes
<1>10. (m.kind = "open" /\ text = 0) \/ (m.kind = "change" /\ text # 0) <=> Tells(m)
  <2>1. Orderly(s) /\ 1 \in 1 .. Len(stdin[s]) /\ m = stdin[s][1]
    BY <1>4 DEF LspInvariant
  <2>2. m.kind = "open" => text = 0
    BY <2>1 DEF Orderly
  <2>3. m.kind = "change" => text # 0
    <3>1. ~ \E j \in 1 .. 1 - 1 : TRUE
      OBVIOUS
    <3> QED BY <2>1, <3>1 DEF Orderly
  <2> QED BY <2>2, <2>3 DEF Tells
<1>11. known' = IF Tells(m) THEN [known EXCEPT ![s] = [known[s] EXCEPT ![m.doc] = m.text]] ELSE known
  BY <1>1, <1>10
<1>12. /\ known' \in [Servers -> [Documents -> FileTexts \union {0}]]
       /\ \A r \in Servers \ {s} : known'[r] = known[r]
       /\ \A doc \in Documents :
            known'[s][doc] = IF Tells(m) /\ m.doc = doc THEN m.text ELSE known[s][doc]
  <2> DEFINE Texts == [Documents -> FileTexts \union {0}]
  <2>1. [known[s] EXCEPT ![m.doc] = m.text] \in Texts
    BY <1>8, <1>9
  <2>2. known \in [Servers -> Texts]
    BY DEF PipeTypes
  <2>3. CASE Tells(m)
    <3>1. known' = [known EXCEPT ![s] = [known[s] EXCEPT ![m.doc] = m.text]]
      BY <1>11, <2>3
    <3>2. known'[s] = [known[s] EXCEPT ![m.doc] = m.text]
      BY <2>2, <3>1
    <3>3. known' \in [Servers -> Texts] /\ \A r \in Servers \ {s} : known'[r] = known[r]
      <4> HIDE DEF Texts
      <4> QED BY <2>1, <2>2, <3>1
    <3> QED BY <1>8, <1>9, <2>3, <3>2, <3>3
  <2>4. CASE ~Tells(m)
    BY <1>11, <2>2, <2>4
  <2> QED BY <2>3, <2>4
<1>13. /\ working' \in [Servers -> SUBSET Replies]
       /\ \A r \in Servers \ {s} : working'[r] = working[r]
       /\ \A reply \in working'[s] : reply \in working[s] \/
            /\ reply.id = m.id /\ reply.doc = m.doc /\ reply.text = text
  <2>1. CASE UNCHANGED working
    BY <2>1 DEF PipeTypes
  <2>2. CASE ~UNCHANGED working
    <3>1. PICK good \in BOOLEAN :
            working' = [working EXCEPT ![s] = @ \union {Reply(m.id, m.doc, text, good)}]
      BY <1>2, <2>2
    <3>2. /\ Reply(m.id, m.doc, text, good) \in Replies
          /\ Reply(m.id, m.doc, text, good).id = m.id
          /\ Reply(m.id, m.doc, text, good).doc = m.doc
          /\ Reply(m.id, m.doc, text, good).text = text
      BY <1>8, <1>9 DEF Reply, Replies, RequestIds
    <3> QED BY <3>1, <3>2 DEF PipeTypes
  <2> QED BY <2>1, <2>2
<1>14. LspTypes'
  BY <1>1, <1>7, <1>12, <1>13 DEF LspTypes, CallTypes, PipeTypes, Pipe
<1> QED BY <1>1, <1>4, <1>5, <1>7, <1>12, <1>13, <1>14

LEMMA ServerReadsKeepsOrder ==
  ASSUME LspInvariant, NEW s \in Servers, ServerReads(s)
  PROVE  Orderly(s)'
<1> DEFINE n == Len(stdin[s])
           m == stdin[s][1]
<1>0. Orderly(s) /\ LspTypes /\ LspTypes'
  BY ServerReadsFacts DEF LspInvariant
<1>1. /\ server[s] = "up" /\ server' = server /\ requestId' = requestId
      /\ documents' = documents /\ stdout' = stdout /\ torn' = torn
  BY ServerReadsFacts
<1>2. /\ n \in Nat \ {0} /\ Len(stdin'[s]) = n - 1
      /\ \A i \in 1 .. n - 1 : stdin'[s][i] = stdin[s][i + 1]
      /\ \A i \in 1 .. n : stdin[s][i] \in Messages
  BY ServerReadsFacts
<1>3. \A doc \in Documents :
        known'[s][doc] = IF Tells(m) /\ m.doc = doc THEN m.text ELSE known[s][doc]
  BY ServerReadsFacts
<1>4. \A reply \in working'[s] : reply \in working[s] \/ reply.id = m.id
  BY ServerReadsFacts
<1>5. \A i \in 1 .. n - 1 : i + 1 \in 1 .. n
  BY <1>2
<1>6. 1 \in 1 .. n /\ m.doc \in Documents /\ (Tells(m) => m.text # 0 /\ m.doc \in documents[s])
  <2>1. 1 \in 1 .. n
    BY <1>2
  <2> QED BY <1>0, <1>2, <2>1 DEF Orderly, Messages
<1>7. \A i \in 1 .. n : stdin[s][i].doc \in Documents
  BY <1>2 DEF Messages
<1> HIDE DEF n, m
<1>8. \A i \in 1 .. n - 1 :
        /\ stdin'[s][i].id < requestId[s]
        /\ Tells(stdin'[s][i]) => stdin'[s][i].text # 0 /\ stdin'[s][i].doc \in documents[s]
  BY <1>0, <1>2, <1>5 DEF Orderly, n
<1>9. \A reply \in working'[s] : reply.id < requestId[s]
  BY <1>0, <1>4, <1>6 DEF Orderly, m, n
<1>10. ASSUME NEW i \in 1 .. n - 1, stdin'[s][i].kind = "open"
       PROVE  /\ known'[s][stdin'[s][i].doc] = 0
              /\ \A j \in 1 .. i - 1 : stdin'[s][j].doc = stdin'[s][i].doc => ~Tells(stdin'[s][j])
  <2>1. i + 1 \in 1 .. n /\ stdin'[s][i] = stdin[s][i + 1] /\ i \in Nat
    BY <1>2, <1>5
  <2>2. /\ known[s][stdin[s][i + 1].doc] = 0
        /\ \A j \in 1 .. (i + 1) - 1 :
             stdin[s][j].doc = stdin[s][i + 1].doc => ~Tells(stdin[s][j])
    BY <1>0, <1>10, <2>1 DEF Orderly, n
  <2>3. 1 \in 1 .. (i + 1) - 1
    BY <2>1
  <2>4. m.doc = stdin[s][i + 1].doc => ~Tells(m)
    BY <2>2, <2>3 DEF m
  <2>5. known'[s][stdin[s][i + 1].doc] = 0
    BY <1>3, <1>7, <2>1, <2>2, <2>4
  <2>6. \A j \in 1 .. i - 1 : j + 1 \in 1 .. (i + 1) - 1 /\ stdin'[s][j] = stdin[s][j + 1]
    BY <1>2, <2>1
  <2> QED BY <2>1, <2>2, <2>5, <2>6
<1>11. \A doc \in Documents : known[s][doc] # 0 => known'[s][doc] # 0
  BY <1>3, <1>6
<1>12. ASSUME NEW j \in 1 .. n, stdin[s][j].kind = "open"
       PROVE  \/ known'[s][stdin[s][j].doc] # 0
              \/ j - 1 \in 1 .. n - 1 /\ stdin'[s][j - 1] = stdin[s][j]
  <2>1. CASE j = 1
    <3>1. Tells(m)
      BY <1>12, <2>1 DEF Tells, m
    <3> QED BY <1>3, <1>6, <2>1, <3>1 DEF m
  <2>2. CASE j # 1
    <3>1. j - 1 \in 1 .. n - 1 /\ (j - 1) + 1 = j
      BY <1>2, <2>2
    <3> QED BY <1>2, <3>1
  <2> QED BY <2>1, <2>2
<1>13. ASSUME NEW i \in 1 .. n - 1, stdin'[s][i].kind = "change"
       PROVE  \/ known'[s][stdin'[s][i].doc] # 0
              \/ \E j \in 1 .. i - 1 : stdin'[s][j].kind = "open" /\ stdin'[s][j].doc = stdin'[s][i].doc
  <2>1. i + 1 \in 1 .. n /\ stdin'[s][i] = stdin[s][i + 1] /\ i \in Nat
    BY <1>2, <1>5
  <2>2. \/ known[s][stdin[s][i + 1].doc] # 0
        \/ \E j \in 1 .. (i + 1) - 1 :
             stdin[s][j].kind = "open" /\ stdin[s][j].doc = stdin[s][i + 1].doc
    BY <1>0, <1>13, <2>1 DEF Orderly, n
  <2>3. CASE known[s][stdin[s][i + 1].doc] # 0
    BY <1>7, <1>11, <2>1, <2>3
  <2>4. CASE known[s][stdin[s][i + 1].doc] = 0
    <3>1. PICK j \in 1 .. (i + 1) - 1 :
            stdin[s][j].kind = "open" /\ stdin[s][j].doc = stdin[s][i + 1].doc
      BY <2>2, <2>4
    <3>2. j \in 1 .. n /\ (j - 1 \in 1 .. n - 1 => j - 1 \in 1 .. i - 1)
      BY <1>2, <2>1
    <3> QED BY <1>12, <2>1, <3>1, <3>2
  <2> QED BY <2>3, <2>4
<1>14. \A doc \in Documents \ documents[s] : known'[s][doc] = 0
  BY <1>0, <1>3, <1>6 DEF Orderly
<1>15. "in" \in torn[s] \/ \A doc \in documents[s] :
         \/ known'[s][doc] # 0
         \/ \E j \in 1 .. n - 1 : stdin'[s][j].kind = "open" /\ stdin'[s][j].doc = doc
  <2> SUFFICES ASSUME "in" \notin torn[s], NEW doc \in documents[s], known'[s][doc] = 0
               PROVE  \E j \in 1 .. n - 1 : stdin'[s][j].kind = "open" /\ stdin'[s][j].doc = doc
    OBVIOUS
  <2>1. doc \in Documents
    BY <1>0 DEF LspTypes, PipeTypes
  <2>2. known[s][doc] = 0
    BY <1>11, <2>1
  <2>3. PICK j \in 1 .. n : stdin[s][j].kind = "open" /\ stdin[s][j].doc = doc
    BY <1>0, <2>2 DEF Orderly, n
  <2> QED BY <1>12, <2>3
<1> QED BY <1>0, <1>1, <1>2, <1>8, <1>9, <1>10, <1>13, <1>14, <1>15 DEF Orderly

LEMMA ServerReadsKeepsCall ==
  ASSUME LspInvariant, NEW s \in Servers, ServerReads(s), NEW c \in Queries,
         query[c].client = s
  PROVE  AboutToAsk(c)' /\ HasAsked(c)'
<1> DEFINE n == Len(stdin[s])
           m == stdin[s][1]
           q == query[c]
<1>0. Orderly(s) /\ LspTypes /\ AboutToAsk(c) /\ HasAsked(c)
  BY DEF LspInvariant
<1>1. /\ query' = query /\ requestId' = requestId /\ stdout' = stdout /\ torn' = torn
  BY ServerReadsFacts
<1>2. /\ n \in Nat \ {0} /\ Len(stdin'[s]) = n - 1
      /\ \A i \in 1 .. n - 1 : stdin'[s][i] = stdin[s][i + 1]
  BY ServerReadsFacts
<1>3. \A doc \in Documents :
        known'[s][doc] = IF Tells(m) /\ m.doc = doc THEN m.text ELSE known[s][doc]
  BY ServerReadsFacts
<1>4. \A reply \in working'[s] : reply \in working[s] \/
        /\ reply.id = m.id /\ reply.doc = m.doc /\ reply.text = known[s][m.doc]
  BY ServerReadsFacts
<1>5. 1 \in 1 .. n /\ q.doc \in Documents /\ \A i \in 1 .. n - 1 : i + 1 \in 1 .. n
  BY <1>0, <1>2, StandingFacts DEF LspTypes
<1>6. Told(m, q) => known'[s][q.doc] = q.text
  BY <1>3, <1>5 DEF Told, Tells
<1> HIDE DEF n, m
<1>7. AboutToAsk(c)'
  <2> SUFFICES ASSUME q.at = "ask" PROVE AboutToAsk(c)'
    BY <1>1 DEF AboutToAsk
  <2>1. /\ q.id < requestId[s]
        /\ \A i \in 1 .. n : stdin[s][i].id # q.id
        /\ \A reply \in working[s] : reply.id # q.id
        /\ \A i \in 1 .. Len(stdout[s]) : stdout[s][i].id # q.id
        /\ "in" \in torn[s] \/ IF stdin[s] = <<>> THEN known[s][q.doc] = q.text
                               ELSE Told(stdin[s][n], q)
    BY <1>0 DEF AboutToAsk, n
  <2>2. \A i \in 1 .. n - 1 : stdin'[s][i].id # q.id
    BY <1>2, <1>5, <2>1
  <2>3. \A reply \in working'[s] : reply.id # q.id
    BY <1>4, <1>5, <2>1 DEF m
  <2>4. stdin[s] # <<>>
    BY <1>2 DEF n
  <2>5. CASE n = 1
    <3>1. stdin'[s] = <<>> /\ ("in" \in torn[s] \/ known'[s][q.doc] = q.text)
      <4>1. stdin'[s] = <<>>
        <5>1. stdin'[s] \in Seq(Messages) /\ Len(stdin'[s]) = 0
          BY <1>2, <2>5, ServerReadsFacts DEF LspTypes, PipeTypes
        <5> QED BY <5>1
      <4> QED BY <1>6, <2>1, <2>4, <2>5, <4>1 DEF m
    <3> QED BY <1>1, <1>2, <2>1, <2>2, <2>3, <3>1 DEF AboutToAsk
  <2>6. CASE n # 1
    <3>1. n - 1 \in 1 .. n - 1 /\ (n - 1) + 1 = n
      BY <1>2, <2>6
    <3>2. stdin'[s][n - 1] = stdin[s][n] /\ stdin'[s] # <<>>
      <4>1. Len(stdin'[s]) # 0
        BY <1>2, <3>1
      <4> QED BY <1>2, <3>1, <4>1
    <3>3. "in" \in torn[s] \/ Told(stdin'[s][n - 1], q)
      BY <2>1, <2>4, <3>2
    <3> QED BY <1>1, <1>2, <2>1, <2>2, <2>3, <3>2, <3>3 DEF AboutToAsk, Told
  <2> QED BY <2>5, <2>6
<1>8. HasAsked(c)'
  <2> SUFFICES ASSUME q.at = "wait" PROVE HasAsked(c)'
    BY <1>1 DEF HasAsked
  <2>1. /\ q.id < requestId[s]
        /\ \A i \in 1 .. n : stdin[s][i].id = q.id =>
             /\ stdin[s][i].doc = q.doc
             /\ IF i = 1 THEN known[s][q.doc] = q.text ELSE Told(stdin[s][i - 1], q)
        /\ \A reply \in working[s] : Meant(reply, q)
        /\ \A i \in 1 .. Len(stdout[s]) : Meant(stdout[s][i], q)
    BY <1>0 DEF HasAsked, n
  <2>2. ASSUME NEW i \in 1 .. n - 1, stdin'[s][i].id = q.id
        PROVE  /\ stdin'[s][i].doc = q.doc
               /\ IF i = 1 THEN known'[s][q.doc] = q.text ELSE Told(stdin'[s][i - 1], q)
    <3>1. /\ i + 1 \in 1 .. n /\ stdin'[s][i] = stdin[s][i + 1] /\ i + 1 # 1 /\ (i + 1) - 1 = i
      BY <1>2, <1>5
    <3>2. stdin[s][i + 1].doc = q.doc /\ Told(stdin[s][i], q)
      BY <2>1, <2>2, <3>1
    <3>3. i = 1 => known'[s][q.doc] = q.text
      BY <1>6, <3>2 DEF m
    <3>4. i # 1 => stdin'[s][i - 1] = stdin[s][i]
      <4>1. i # 1 => i - 1 \in 1 .. n - 1 /\ (i - 1) + 1 = i
        BY <1>2
      <4> QED BY <1>2, <4>1
    <3> QED BY <3>1, <3>2, <3>3, <3>4
  <2>3. \A reply \in working'[s] : Meant(reply, q)
    <3>1. m.id = q.id => m.doc = q.doc /\ known[s][q.doc] = q.text
      BY <1>5, <2>1 DEF m
    <3> QED BY <1>4, <2>1, <3>1 DEF Meant
  <2> QED BY <1>1, <1>2, <2>1, <2>2, <2>3 DEF HasAsked, Told, Meant
<1> QED BY <1>7, <1>8

LEMMA ServerReadsKeeps ==
  ASSUME LspInvariant, NEW s \in Servers, ServerReads(s)
  PROVE  LspInvariant'
<1>1. /\ LspTypes' /\ UNCHANGED <<pool, server, holder, requestId, documents, stdout, torn, query, result>>
      /\ \A r \in Servers \ {s} : /\ stdin'[r] = stdin[r] /\ known'[r] = known[r]
                                  /\ working'[r] = working[r]
  BY ServerReadsFacts
<1>2. ASSUME NEW r \in Servers PROVE Orderly(r)'
  <2>1. CASE r # s
    <3>1. stdin'[r] = stdin[r] /\ known'[r] = known[r] /\ working'[r] = working[r]
      BY <1>1, <2>1
    <3>2. UNCHANGED <<server, requestId, documents, stdout, torn>> /\ Orderly(r)
      BY <1>1 DEF LspInvariant
    <3> QED BY <3>1, <3>2 DEF Orderly, Tells
  <2> QED BY <2>1, ServerReadsKeepsOrder
<1>3. ASSUME NEW c \in Queries PROVE AboutToAsk(c)' /\ HasAsked(c)'
  <2>1. CASE query[c].client # s /\ query[c].at \in {"ask", "wait"}
    <3>1. query[c].client \in Servers
      BY <2>1 DEF LspInvariant, Placed, Holding, Exchange
    <3> QED BY <1>1, <2>1, <3>1 DEF LspInvariant, AboutToAsk, HasAsked, Told, Meant
  <2>2. CASE query[c].at \notin {"ask", "wait"}
    BY <1>1, <2>2 DEF AboutToAsk, HasAsked
  <2> QED BY <2>1, <2>2, ServerReadsKeepsCall
<1> QED BY <1>1, <1>2, <1>3, PlacesStand DEF LspInvariant

-----------------------------------------------------------------------------
(* The start of a server, and the steps that write to one.                 *)

LEMMA StartsServerKeeps ==
  ASSUME LspInvariant, NEW c \in Queries, StartsServer(c)
  PROVE  LspInvariant'
<1> LspTypes /\ CallTypes /\ PipeTypes
  BY DEF LspInvariant, LspTypes
<1>1. PICK s \in Servers :
        /\ server[s] = "unborn"
        /\ server' = [server EXCEPT ![s] = "up"]
        /\ requestId' = [requestId EXCEPT ![s] = 2]
        /\ query' = [query EXCEPT ![c].at = "hello", ![c].client = s, ![c].id = 1]
  BY DEF StartsServer
<1>2. /\ query[c].at = "pool" /\ pool = 0 /\ poolHolder' = c
      /\ UNCHANGED <<disk, pool, holder, documents, stdin, stdout, torn, known, working, result>>
  BY DEF StartsServer
<1>3. LspTypes'
  BY <1>1, <1>2, StartsServerTyped
<1>4. /\ server'[s] = "up" /\ requestId'[s] = 2
      /\ \A r \in Servers \ {s} : server'[r] = server[r] /\ requestId'[r] = requestId[r]
  BY <1>1 DEF CallTypes, PipeTypes
<1>5. /\ query'[c].at = "hello" /\ query'[c].client = s /\ query'[c].doc = query[c].doc
      /\ \A d \in Queries \ {c} : query'[d] = query[d]
  BY <1>1 DEF CallTypes, Standings
<1>6. 0 \notin Servers
  BY BoundsTyped
<1>7. \A d \in Queries : query[d].client # s
  BY <1>1 DEF LspInvariant, Placed
<1>8. result[c].kind # "answer"
  BY <1>2 DEF LspInvariant, Placed
<1>9. ASSUME NEW d \in Queries PROVE Placed(d)'
  <2>1. CASE d = c
    BY <1>2, <1>4, <1>5, <1>6, <1>7, <1>8, <2>1
       DEF Placed, Handshake, Holding, Exchange
  <2>2. CASE d # c
    <3>1. Placed(d) /\ query'[d] = query[d]
      BY <1>5, <2>2 DEF LspInvariant
    <3>2. query[d].client \in Servers => server'[query[d].client] # "unborn"
      BY <1>4, <3>1 DEF Placed
    <3>3. query[d].at \in Handshake =>
            /\ query[d].client # pool
            /\ \A e \in Queries \ {d} : query'[e].client # query[d].client
      BY <1>5, <1>7, <3>1 DEF Placed
    <3> QED BY <1>2, <3>1, <3>2, <3>3 DEF Placed
  <2> QED BY <2>1, <2>2
<1>10. ASSUME NEW d \in Queries PROVE AboutToAsk(d)' /\ HasAsked(d)'
  <2>1. CASE query'[d].at \notin {"ask", "wait"}
    BY <2>1 DEF AboutToAsk, HasAsked
  <2>2. CASE query'[d].at \in {"ask", "wait"}
    <3>1. query'[d] = query[d]
      BY <1>5, <2>2
    <3>2. query[d].client \in Servers \ {s}
      BY <1>7, <2>2, <3>1 DEF LspInvariant, Placed, Holding, Exchange
    <3>3. requestId'[query[d].client] = requestId[query[d].client]
      BY <1>4, <3>2
    <3> QED BY <1>2, <3>1, <3>3 DEF LspInvariant, AboutToAsk, HasAsked, Told, Meant
  <2> QED BY <2>1, <2>2
<1>11. ASSUME NEW r \in Servers PROVE Orderly(r)'
  <2>1. CASE r = s
    <3>1. /\ stdin[s] = <<>> /\ stdout[s] = <<>> /\ working[s] = {} /\ documents[s] = {}
          /\ \A doc \in Documents : known[s][doc] = 0
      BY <1>1 DEF LspInvariant, Orderly
    <3>2. stdin'[s] = <<>> /\ stdout'[s] = <<>> /\ working'[s] = {} /\ documents'[s] = {}
          /\ \A doc \in Documents : known'[s][doc] = 0
      BY <1>2, <3>1
    <3>3. \A i \in 1 .. Len(<<>>) : FALSE
      OBVIOUS
    <3> QED BY <1>4, <2>1, <3>2, <3>3 DEF Orderly
  <2>2. CASE r # s
    <3>1. server'[r] = server[r] /\ requestId'[r] = requestId[r] /\ Orderly(r)
      BY <1>4, <2>2 DEF LspInvariant
    <3> QED BY <1>2, <3>1 DEF Orderly, Tells
  <2> QED BY <2>1, <2>2
<1> QED BY <1>2, <1>3, <1>6, <1>9, <1>10, <1>11 DEF LspInvariant

\* Whoever writes to a client has it alone.
LEMMA WritesAlone ==
  ASSUME LspInvariant, NEW c \in Queries, query[c].at \in Writing,
         NEW d \in Queries, d # c, query[d].at \in Exchange
  PROVE  query[d].client # query[c].client
<1>1. Placed(c) /\ Placed(d)
  BY DEF LspInvariant
<1> QED BY <1>1 DEF Placed, Writing, Handshake, Exchange

\* What a write leaves of the calls and the other servers' pipes.
LEMMA WriteKeepsOthers ==
  ASSUME LspInvariant, NEW c \in Queries, query[c].at \in Writing,
         UNCHANGED <<stdout, torn, known, working>>,
         \A d \in Queries \ {c} : query'[d] = query[d],
         \A r \in Servers \ {query[c].client} :
           /\ stdin'[r] = stdin[r] /\ requestId'[r] = requestId[r] /\ documents'[r] = documents[r]
           /\ server'[r] = server[r]
  PROVE  /\ \A d \in Queries \ {c} : AboutToAsk(d)' /\ HasAsked(d)'
         /\ \A r \in Servers \ {query[c].client} : Orderly(r)'
<1>1. ASSUME NEW d \in Queries \ {c} PROVE AboutToAsk(d)' /\ HasAsked(d)'
  <2>1. CASE query[d].at \notin {"ask", "wait"}
    <3>1. query'[d] = query[d]
      OBVIOUS
    <3> QED BY <2>1, <3>1 DEF AboutToAsk, HasAsked
  <2>2. CASE query[d].at \in {"ask", "wait"}
    <3>1. query[d].client \in Servers \ {query[c].client}
      BY <2>2, WritesAlone DEF LspInvariant, Placed, Holding, Exchange
    <3>2. /\ stdin'[query[d].client] = stdin[query[d].client]
          /\ requestId'[query[d].client] = requestId[query[d].client]
      BY <3>1
    <3>3. query'[d] = query[d] /\ AboutToAsk(d) /\ HasAsked(d)
      BY DEF LspInvariant
    <3>4. AboutToAsk(d)'
      BY <3>2, <3>3 DEF AboutToAsk, Told
    <3>5. HasAsked(d)'
      BY <3>2, <3>3 DEF HasAsked, Told, Meant
    <3> QED BY <3>4, <3>5
  <2> QED BY <2>1, <2>2
<1>2. ASSUME NEW r \in Servers \ {query[c].client} PROVE Orderly(r)'
  <2>1. Orderly(r)
    BY DEF LspInvariant
  <2>2. /\ stdin'[r] = stdin[r] /\ requestId'[r] = requestId[r] /\ documents'[r] = documents[r]
        /\ server'[r] = server[r]
    OBVIOUS
  <2> QED BY <2>1, <2>2 DEF Orderly, Tells
<1> QED BY <1>1, <1>2

\* A message that tells no text, under an id given out, keeps the order.
LEMMA SaidKeepsOrder ==
  ASSUME LspInvariant, NEW s \in Servers, NEW frame \in Messages, Written(s, frame),
         ~Tells(frame), frame.id < requestId[s], server[s] = "up", server' = server,
         UNCHANGED <<requestId, documents, stdout, torn, known, working>>
  PROVE  Orderly(s)'
<1>1. PipeTypes /\ Orderly(s) /\ stdin[s] \in Seq(Messages)
  BY DEF LspInvariant, LspTypes, PipeTypes
<1>2. CASE "in" \in torn[s]
  <2>1. stdin'[s] = stdin[s]
    BY <1>1, <1>2, WrittenTyped
  <2> QED BY <1>1, <2>1 DEF Orderly, Tells
<1>3. CASE "in" \notin torn[s]
  <2> DEFINE n == Len(stdin[s])
  <2>1. stdin'[s] = Append(stdin[s], frame)
    BY <1>1, <1>3, WrittenTyped
  <2>2. /\ Len(stdin'[s]) = n + 1 /\ n \in Nat
        /\ \A i \in 1 .. n + 1 : stdin'[s][i] = IF i = n + 1 THEN frame ELSE stdin[s][i]
    BY <1>1, <2>1, Appended
  <2> HIDE DEF n
  <2>3. /\ \A i \in 1 .. n : i \in 1 .. n + 1 /\ stdin'[s][i] = stdin[s][i]
        /\ \A i \in 1 .. n + 1 : i # n + 1 => i \in 1 .. n
        /\ stdin'[s][n + 1] = frame
    BY <2>2
  <2>4. \A i \in 1 .. n + 1 : stdin'[s][i].id < requestId[s]
    BY <1>1, <2>3 DEF Orderly, n
  <2>5. \A i \in 1 .. n + 1 : Tells(stdin'[s][i]) => i \in 1 .. n
    BY <2>3
  <2>6. \A i \in 1 .. n + 1 : stdin'[s][i].kind \in {"open", "change"} => i \in 1 .. n
    BY <2>5 DEF Tells
  <2>7. \A i \in 1 .. n : \A j \in 1 .. i - 1 : j \in 1 .. n
    BY <2>2
  <2>8. \A i \in 1 .. n + 1 : Tells(stdin'[s][i]) =>
          stdin'[s][i].text # 0 /\ stdin'[s][i].doc \in documents[s]
    BY <1>1, <2>3, <2>5 DEF Orderly, n
  <2>9. \A i \in 1 .. n + 1 : stdin'[s][i].kind = "open" =>
          /\ known[s][stdin'[s][i].doc] = 0
          /\ \A j \in 1 .. i - 1 : stdin'[s][j].doc = stdin'[s][i].doc => ~Tells(stdin'[s][j])
    BY <1>1, <2>3, <2>6, <2>7 DEF Orderly, n
  <2>10. \A i \in 1 .. n + 1 : stdin'[s][i].kind = "change" =>
           \/ known[s][stdin'[s][i].doc] # 0
           \/ \E j \in 1 .. i - 1 : stdin'[s][j].kind = "open" /\ stdin'[s][j].doc = stdin'[s][i].doc
    <3> SUFFICES ASSUME NEW i \in 1 .. n + 1, stdin'[s][i].kind = "change",
                        known[s][stdin'[s][i].doc] = 0
                 PROVE  \E j \in 1 .. i - 1 :
                          stdin'[s][j].kind = "open" /\ stdin'[s][j].doc = stdin'[s][i].doc
      OBVIOUS
    <3>1. i \in 1 .. n /\ stdin'[s][i] = stdin[s][i]
      BY <2>3, <2>6
    <3>2. PICK j \in 1 .. i - 1 : stdin[s][j].kind = "open" /\ stdin[s][j].doc = stdin[s][i].doc
      BY <1>1, <3>1 DEF Orderly, n
    <3>3. stdin'[s][j] = stdin[s][j]
      BY <2>3, <2>7, <3>1
    <3> QED BY <3>1, <3>2, <3>3
  <2>11. \A doc \in documents[s] :
           \/ known[s][doc] # 0
           \/ \E j \in 1 .. n + 1 : stdin'[s][j].kind = "open" /\ stdin'[s][j].doc = doc
    BY <1>1, <1>3, <2>3 DEF Orderly, n
  <2> QED BY <1>1, <2>2, <2>4, <2>8, <2>9, <2>10, <2>11 DEF Orderly
<1> QED BY <1>2, <1>3

LEMMA WritesFacts ==
  ASSUME LspInvariant, NEW c \in Queries, Writes(c)
  PROVE  /\ query[c].at \in Writing /\ query[c] \in Standings /\ query[c].client \in Servers
         /\ server[query[c].client] = "up" /\ requestId[query[c].client] \in Nat
         /\ requestId[query[c].client] >= 2 /\ Orderly(query[c].client)
<1>1. query[c].at \in Writing /\ server[query[c].client] = "up"
  BY DEF Writes
<1>2. query[c] \in Standings /\ query[c].client \in Servers
  BY <1>1, StandingFacts
     DEF Writing, Handshake, Holding, Exchange, LspInvariant, LspTypes, Placed
<1> QED BY <1>1, <1>2 DEF LspInvariant, LspTypes, PipeTypes, Orderly

LEMMA WritesTyped ==
  ASSUME LspInvariant, NEW c \in Queries, Writes(c)
  PROVE  /\ LspTypes' /\ query'[c].client = query[c].client
         /\ query'[c].doc = query[c].doc /\ query'[c].text = query[c].text
         /\ \A d \in Queries \ {c} : query'[d] = query[d]
<1> LspTypes /\ CallTypes /\ PipeTypes
  BY DEF LspInvariant, LspTypes
<1> DEFINE s == query[c].client
<1>1. /\ query[c] \in Standings /\ s \in Servers /\ requestId[s] \in Nat
      /\ query[c].doc \in Documents /\ query[c].text \in FileTexts \union {0} /\ query[c].id \in Nat
  BY WritesFacts, StandingFacts
<1>2. UNCHANGED <<disk, server, holder, stdout, torn, known, working, result>>
  BY WritesCases
<1> HIDE DEF s
<1>3. ASSUME NEW at \in Ats, Goes(c, at)
      PROVE  /\ query' \in [Queries -> Standings] /\ query'[c].client = query[c].client
             /\ query'[c].doc = query[c].doc /\ query'[c].text = query[c].text
             /\ \A d \in Queries \ {c} : query'[d] = query[d]
  <2>1. /\ query' \in [Queries -> Standings] /\ query'[c] = [query[c] EXCEPT !.at = at]
        /\ \A d \in Queries \ {c} : query'[d] = query[d]
    BY <1>3, GoesTyped
  <2> QED BY <1>1, <2>1 DEF Standings
<1>4. ASSUME NEW frame \in Messages, Written(s, frame) PROVE stdin' \in [Servers -> Seq(Messages)]
  BY <1>1, <1>4, WrittenTyped
<1>5. CASE /\ query[c].at = "hello" /\ Goes(c, "greeted")
           /\ Written(s, Message("initialize", 1, query[c].doc, 0))
           /\ UNCHANGED <<pool, poolHolder, requestId, documents>>
  <2>1. Message("initialize", 1, query[c].doc, 0) \in Messages /\ "greeted" \in Ats
    BY <1>1, MessageTyped DEF Ats, Handshake
  <2> QED BY <1>2, <1>3, <1>4, <1>5, <2>1 DEF LspTypes, CallTypes, PipeTypes
<1>6. CASE /\ query[c].at = "ready" /\ Goes(c, "reading")
           /\ Written(s, Message("initialized", 0, query[c].doc, 0))
           /\ pool' = s /\ poolHolder' = 0
           /\ UNCHANGED <<requestId, documents>>
  <2>1. Message("initialized", 0, query[c].doc, 0) \in Messages /\ "reading" \in Ats
    BY <1>1, MessageTyped DEF Ats, Holding
  <2> QED BY <1>1, <1>2, <1>3, <1>4, <1>6, <2>1 DEF LspTypes, CallTypes, PipeTypes
<1>7. CASE /\ query[c].at = "tell"
           /\ Written(s, Message(IF query[c].doc \in documents[s] THEN "change" ELSE "open", 0,
                                 query[c].doc, query[c].text))
           /\ documents' = [documents EXCEPT ![s] = @ \union {query[c].doc}]
           /\ requestId' = [requestId EXCEPT ![s] = @ + 1]
           /\ query' = [query EXCEPT ![c].at = "ask", ![c].id = requestId[s]]
           /\ UNCHANGED <<pool, poolHolder>>
  <2>1. Message(IF query[c].doc \in documents[s] THEN "change" ELSE "open", 0,
                query[c].doc, query[c].text) \in Messages
    BY <1>1, MessageTyped
  <2>2. stdin' \in [Servers -> Seq(Messages)]
    BY <1>4, <1>7, <2>1
  <2>3. documents' \in [Servers -> SUBSET Documents] /\ requestId' \in [Servers -> Nat]
    BY <1>1, <1>7 DEF PipeTypes
  <2>4. query' = [query EXCEPT ![c] = [query[c] EXCEPT !.at = "ask", !.id = requestId[s]]]
    BY <1>7 DEF CallTypes
  <2>5. [query[c] EXCEPT !.at = "ask", !.id = requestId[s]] \in Standings
    BY <1>1 DEF Standings, Ats, Holding, Exchange, RequestIds
  <2>6. /\ query' \in [Queries -> Standings]
        /\ query'[c] = [query[c] EXCEPT !.at = "ask", !.id = requestId[s]]
        /\ \A d \in Queries \ {c} : query'[d] = query[d]
    BY <2>4, <2>5 DEF CallTypes
  <2>7. /\ query'[c].client = query[c].client
        /\ query'[c].doc = query[c].doc /\ query'[c].text = query[c].text
    BY <1>1, <2>6 DEF Standings
  <2> QED BY <1>2, <1>7, <2>2, <2>3, <2>6, <2>7 DEF LspTypes, CallTypes, PipeTypes
<1>8. CASE /\ query[c].at = "ask" /\ Goes(c, "wait")
           /\ Written(s, Message("query", query[c].id, query[c].doc, 0))
           /\ UNCHANGED <<pool, poolHolder, requestId, documents>>
  <2>1. Message("query", query[c].id, query[c].doc, 0) \in Messages /\ "wait" \in Ats
    BY <1>1, MessageTyped DEF Ats, Holding, Exchange
  <2> QED BY <1>2, <1>3, <1>4, <1>8, <2>1 DEF LspTypes, CallTypes, PipeTypes
<1> QED BY <1>5, <1>6, <1>7, <1>8, WritesCases DEF s

LEMMA WritesPlaced ==
  ASSUME LspInvariant, NEW c \in Queries, Writes(c)
  PROVE  /\ pool' \in Servers => server'[pool'] # "unborn"
         /\ \A d \in Queries : Placed(d)'
<1> DEFINE s == query[c].client
<1>0. 0 \notin Servers
  BY BoundsTyped
<1>1. /\ query[c].at \in Writing /\ s \in Servers /\ server[s] = "up" /\ Placed(c)
  BY WritesFacts DEF LspInvariant
<1>2. /\ server' = server /\ holder' = holder /\ result' = result
      /\ query'[c].client = s /\ query'[c].doc = query[c].doc /\ query'[c].text = query[c].text
      /\ \A d \in Queries \ {c} : query'[d] = query[d]
  BY WritesCases, WritesTyped
<1>3. /\ query'[c] \in Standings
      /\ \/ query[c].at = "hello" /\ query'[c].at = "greeted" /\ pool' = pool
         \/ query[c].at = "ready" /\ query'[c].at = "reading" /\ pool' = s
         \/ query[c].at = "tell" /\ query'[c].at = "ask" /\ pool' = pool
         \/ query[c].at = "ask" /\ query'[c].at = "wait" /\ pool' = pool
  <2>1. query' \in [Queries -> Standings]
    BY WritesTyped DEF LspTypes, CallTypes
  <2>2. ASSUME NEW at, Goes(c, at) PROVE query'[c].at = at
    BY <2>2, WritesFacts DEF Goes, LspInvariant, LspTypes, CallTypes, Standings
  <2>3. query' = [query EXCEPT ![c].at = "ask", ![c].id = requestId[s]] => query'[c].at = "ask"
    BY WritesFacts DEF LspInvariant, LspTypes, CallTypes, Standings
  <2> QED BY <2>1, <2>2, <2>3, WritesCases
<1> HIDE DEF s
<1>4. pool' \in Servers => server'[pool'] # "unborn"
  BY <1>1, <1>2, <1>3 DEF LspInvariant
<1>5. result[c].kind # "answer"
  BY <1>1 DEF Placed, Writing
<1>6. Placed(c)'
  <2> USE <1>1, <1>2, <1>4, <1>5 DEF Placed, Handshake, Holding, Exchange
  <2>1. CASE query[c].at = "hello" /\ query'[c].at = "greeted" /\ pool' = pool
    BY <2>1 DEF s
  <2>2. CASE query[c].at = "ready" /\ query'[c].at = "reading" /\ pool' = s
    BY <2>2
  <2>3. CASE query[c].at = "tell" /\ query'[c].at = "ask" /\ pool' = pool
    BY <2>3 DEF s
  <2>4. CASE query[c].at = "ask" /\ query'[c].at = "wait" /\ pool' = pool
    BY <2>4 DEF s
  <2> QED BY <1>3, <2>1, <2>2, <2>3, <2>4
<1>7. ASSUME NEW d \in Queries \ {c} PROVE Placed(d)'
  <2>1. query'[d] = query[d] /\ Placed(d)
    BY <1>2 DEF LspInvariant
  <2>2. query[d].at \in Handshake =>
          /\ query[d].client # s
          /\ query[d].client # pool
          /\ \A e \in Queries \ {d} : query[e].client # query[d].client
    BY <2>1 DEF Placed, s
  <2>3. query[d].at \in Handshake =>
          /\ query[d].client # pool'
          /\ \A e \in Queries \ {d} : query'[e].client # query[d].client
    BY <1>2, <1>3, <2>2
  <2> QED BY <1>2, <2>1, <2>3 DEF Placed
<1> QED BY <1>4, <1>6, <1>7

\* A text is told: as an opening the first time, as a change afterwards.
LEMMA TellKeepsOrder ==
  ASSUME LspInvariant, NEW s \in Servers, NEW frame \in Messages, Written(s, frame),
         frame.kind = IF frame.doc \in documents[s] THEN "change" ELSE "open",
         frame.id = 0, frame.text # 0,
         documents' = [documents EXCEPT ![s] = @ \union {frame.doc}],
         requestId' = [requestId EXCEPT ![s] = @ + 1],
         server[s] = "up", UNCHANGED <<server, stdout, torn, known, working>>
  PROVE  Orderly(s)'
<1>1. /\ PipeTypes /\ Orderly(s) /\ stdin[s] \in Seq(Messages) /\ requestId[s] \in Nat
      /\ requestId[s] >= 2
  BY DEF LspInvariant, LspTypes, PipeTypes, Orderly
<1>2. documents'[s] = documents[s] \union {frame.doc} /\ requestId'[s] = requestId[s] + 1
  BY <1>1 DEF PipeTypes
<1>3. Tells(frame)
  BY DEF Tells
<1>4. ASSUME NEW k \in Nat, k < requestId[s] PROVE k < requestId'[s]
  BY <1>1, <1>2, <1>4
<1>5. /\ \A reply \in working[s] : reply.id \in Nat
      /\ \A i \in 1 .. Len(stdout[s]) : stdout[s][i].id \in Nat
      /\ \A i \in 1 .. Len(stdin[s]) : stdin[s][i].id \in Nat
  <2>1. /\ working[s] \subseteq Replies /\ stdout[s] \in Seq(Replies)
        /\ \A reply \in Replies : reply.id \in Nat
        /\ \A m \in Messages : m.id \in Nat
    BY <1>1 DEF PipeTypes, Replies, Messages, RequestIds
  <2>2. \A i \in 1 .. Len(stdout[s]) : stdout[s][i] \in Replies
    BY <2>1
  <2>3. \A i \in 1 .. Len(stdin[s]) : stdin[s][i] \in Messages
    BY <1>1
  <2> QED BY <2>1, <2>2, <2>3
<1>6. /\ \A reply \in working[s] : reply.id < requestId'[s]
      /\ \A i \in 1 .. Len(stdout[s]) : stdout[s][i].id < requestId'[s]
      /\ \A i \in 1 .. Len(stdin[s]) : stdin[s][i].id < requestId'[s]
      /\ requestId'[s] >= 2
  BY <1>1, <1>2, <1>4, <1>5 DEF Orderly
<1>7. CASE "in" \in torn[s]
  <2>1. stdin'[s] = stdin[s]
    BY <1>1, <1>7, WrittenTyped
  <2>2. \A doc \in Documents \ documents'[s] : known[s][doc] = 0
    BY <1>1, <1>2 DEF Orderly
  <2>3. \A i \in 1 .. Len(stdin[s]) : Tells(stdin[s][i]) =>
          stdin[s][i].text # 0 /\ stdin[s][i].doc \in documents'[s]
    BY <1>1, <1>2 DEF Orderly
  <2> QED BY <1>1, <1>6, <1>7, <2>1, <2>2, <2>3 DEF Orderly, Tells
<1>8. CASE "in" \notin torn[s]
  <2> DEFINE n == Len(stdin[s])
  <2>1. stdin'[s] = Append(stdin[s], frame)
    BY <1>1, <1>8, WrittenTyped
  <2>2. /\ Len(stdin'[s]) = n + 1 /\ n \in Nat
        /\ \A i \in 1 .. n + 1 : stdin'[s][i] = IF i = n + 1 THEN frame ELSE stdin[s][i]
    BY <1>1, <2>1, Appended
  <2>0. /\ \A i \in 1 .. n : Tells(stdin[s][i]) => stdin[s][i].text # 0 /\ stdin[s][i].doc \in documents[s]
        /\ \A i \in 1 .. n : stdin[s][i].kind = "open" =>
             /\ known[s][stdin[s][i].doc] = 0
             /\ \A j \in 1 .. i - 1 : stdin[s][j].doc = stdin[s][i].doc => ~Tells(stdin[s][j])
        /\ \A i \in 1 .. n : stdin[s][i].kind = "change" =>
             \/ known[s][stdin[s][i].doc] # 0
             \/ \E j \in 1 .. i - 1 : stdin[s][j].kind = "open" /\ stdin[s][j].doc = stdin[s][i].doc
        /\ \A doc \in documents[s] :
             \/ known[s][doc] # 0
             \/ \E j \in 1 .. n : stdin[s][j].kind = "open" /\ stdin[s][j].doc = doc
        /\ \A doc \in Documents \ documents[s] : known[s][doc] = 0
        /\ \A i \in 1 .. n : stdin[s][i].id < requestId'[s]
    BY <1>1, <1>6, <1>8 DEF Orderly
  <2> HIDE DEF n
  <2>3. /\ \A i \in 1 .. n : i \in 1 .. n + 1 /\ stdin'[s][i] = stdin[s][i]
        /\ \A i \in 1 .. n + 1 : i # n + 1 => i \in 1 .. n
        /\ stdin'[s][n + 1] = frame /\ n + 1 \in 1 .. n + 1
        /\ 1 .. (n + 1) - 1 = 1 .. n
        /\ \A i \in 1 .. n : \A j \in 1 .. i - 1 : j \in 1 .. n
    BY <2>2
  <2>4. \A i \in 1 .. n + 1 : stdin'[s][i].id < requestId'[s]
    <3>1. 0 < requestId'[s]
      BY <1>1, <1>2
    <3> QED BY <2>0, <2>3, <3>1
  <2>5. \A i \in 1 .. n + 1 : Tells(stdin'[s][i]) =>
          stdin'[s][i].text # 0 /\ stdin'[s][i].doc \in documents'[s]
    BY <1>2, <2>0, <2>3
  <2>6. ASSUME NEW i \in 1 .. n + 1, stdin'[s][i].kind = "open"
        PROVE  /\ known[s][stdin'[s][i].doc] = 0
               /\ \A j \in 1 .. i - 1 : stdin'[s][j].doc = stdin'[s][i].doc => ~Tells(stdin'[s][j])
    <3>1. CASE i = n + 1
      <4>1. frame.doc \notin documents[s] /\ frame.doc \in Documents
        BY <2>3, <2>6, <3>1 DEF Messages
      <4>2. \A j \in 1 .. n : stdin'[s][j].doc = frame.doc => ~Tells(stdin'[s][j])
        BY <2>0, <2>3, <4>1
      <4> QED BY <2>0, <2>3, <3>1, <4>1, <4>2
    <3>2. CASE i # n + 1
      BY <2>0, <2>3, <2>6, <3>2
    <3> QED BY <3>1, <3>2
  <2>7. ASSUME NEW i \in 1 .. n + 1, stdin'[s][i].kind = "change"
        PROVE  \/ known[s][stdin'[s][i].doc] # 0
               \/ \E j \in 1 .. i - 1 : stdin'[s][j].kind = "open" /\ stdin'[s][j].doc = stdin'[s][i].doc
    <3>1. CASE i = n + 1
      <4>1. frame.doc \in documents[s]
        BY <2>3, <2>7, <3>1
      <4>2. CASE known[s][frame.doc] # 0
        BY <2>3, <3>1, <4>2
      <4>3. CASE known[s][frame.doc] = 0
        <5>1. PICK j \in 1 .. n : stdin[s][j].kind = "open" /\ stdin[s][j].doc = frame.doc
          BY <2>0, <4>1, <4>3
        <5>2. j \in 1 .. i - 1 /\ stdin'[s][j] = stdin[s][j]
          BY <2>3, <3>1
        <5> QED BY <2>3, <3>1, <5>1, <5>2
      <4> QED BY <4>2, <4>3
    <3>2. CASE i # n + 1
      <4>1. i \in 1 .. n /\ stdin'[s][i] = stdin[s][i]
        BY <2>3, <3>2
      <4>2. CASE known[s][stdin[s][i].doc] # 0
        BY <4>1, <4>2
      <4>3. CASE known[s][stdin[s][i].doc] = 0
        <5>1. PICK j \in 1 .. i - 1 : stdin[s][j].kind = "open" /\ stdin[s][j].doc = stdin[s][i].doc
          BY <2>0, <2>7, <4>1, <4>3
        <5>2. stdin'[s][j] = stdin[s][j]
          BY <2>3, <4>1
        <5> QED BY <4>1, <5>1, <5>2
      <4> QED BY <4>2, <4>3
    <3> QED BY <3>1, <3>2
  <2>8. ASSUME NEW doc \in documents'[s]
        PROVE  \/ known[s][doc] # 0
               \/ \E j \in 1 .. n + 1 : stdin'[s][j].kind = "open" /\ stdin'[s][j].doc = doc
    <3>1. CASE doc \in documents[s]
      BY <2>0, <2>3, <3>1
    <3>2. CASE doc \notin documents[s]
      <4>1. doc = frame.doc /\ frame.kind = "open"
        BY <1>2, <3>2
      <4> QED BY <2>3, <4>1
    <3> QED BY <3>1, <3>2
  <2>9. \A doc \in Documents \ documents'[s] : known[s][doc] = 0
    BY <1>2, <2>0
  <2>10. /\ \A i \in 1 .. n + 1 : stdin'[s][i].kind = "open" =>
              /\ known[s][stdin'[s][i].doc] = 0
              /\ \A j \in 1 .. i - 1 : stdin'[s][j].doc = stdin'[s][i].doc => ~Tells(stdin'[s][j])
         /\ \A i \in 1 .. n + 1 : stdin'[s][i].kind = "change" =>
              \/ known[s][stdin'[s][i].doc] # 0
              \/ \E j \in 1 .. i - 1 : stdin'[s][j].kind = "open" /\ stdin'[s][j].doc = stdin'[s][i].doc
    BY <2>6, <2>7
  <2>11. \A doc \in documents'[s] :
           \/ known[s][doc] # 0
           \/ \E j \in 1 .. n + 1 : stdin'[s][j].kind = "open" /\ stdin'[s][j].doc = doc
    BY <2>8
  <2>12. /\ Len(stdin'[s]) = n + 1 /\ server'[s] = "up" /\ stdout' = stdout /\ torn' = torn
         /\ known' = known /\ working' = working
    BY <2>2
  <2> QED BY <1>6, <2>4, <2>5, <2>9, <2>10, <2>11, <2>12 DEF Orderly, Tells
<1> QED BY <1>7, <1>8

\* After its text a call's query is next.
LEMMA TellReadies ==
  ASSUME LspInvariant, NEW c \in Queries, query[c].client \in Servers, query[c].at = "tell",
         NEW frame \in Messages, Written(query[c].client, frame), Told(frame, query[c]), frame.id = 0,
         requestId' = [requestId EXCEPT ![query[c].client] = @ + 1],
         query'[c].at = "ask", query'[c].id = requestId[query[c].client],
         query'[c].client = query[c].client,
         query'[c].doc = query[c].doc, query'[c].text = query[c].text,
         server[query[c].client] = "up", UNCHANGED <<stdout, torn, known, working>>
  PROVE  AboutToAsk(c)'
<1> DEFINE s == query[c].client
           k == requestId[s]
<1>1. /\ PipeTypes /\ Orderly(s) /\ stdin[s] \in Seq(Messages) /\ k \in Nat /\ k >= 2
  <2>1. PipeTypes /\ Orderly(s)
    BY DEF LspInvariant, LspTypes
  <2> DEFINE Pipe == Seq(Messages)
  <2>2. /\ stdin \in [Servers -> Pipe]
        /\ requestId \in [Servers -> Nat]
    BY <2>1 DEF PipeTypes
  <2> HIDE DEF Pipe
  <2>3. stdin[s] \in Pipe /\ requestId[s] \in Nat
    BY <2>2
  <2>4. server[s] # "unborn" => requestId[s] >= 2
    BY <2>1 DEF Orderly
  <2> QED BY <2>1, <2>3, <2>4 DEF Pipe
<1>2. requestId'[s] = k + 1
  BY <1>1 DEF PipeTypes
<1> HIDE DEF s, k
<1>3. /\ \A i \in 1 .. Len(stdin[s]) : stdin[s][i].id < k /\ stdin[s][i].id \in Nat
      /\ \A reply \in working[s] : reply.id < k /\ reply.id \in Nat
      /\ \A i \in 1 .. Len(stdout[s]) : stdout[s][i].id < k /\ stdout[s][i].id \in Nat
  <2>1. /\ working[s] \subseteq Replies /\ stdout[s] \in Seq(Replies)
        /\ \A reply \in Replies : reply.id \in Nat
        /\ \A m \in Messages : m.id \in Nat
    BY <1>1 DEF PipeTypes, Replies, Messages, RequestIds, s
  <2>2. \A i \in 1 .. Len(stdout[s]) : stdout[s][i] \in Replies
    BY <2>1
  <2>3. \A i \in 1 .. Len(stdin[s]) : stdin[s][i] \in Messages
    BY <1>1
  <2> QED BY <1>1, <2>1, <2>2, <2>3 DEF Orderly, k
<1>4. /\ \A i \in 1 .. Len(stdin[s]) : stdin[s][i].id # k
      /\ \A reply \in working[s] : reply.id # k
      /\ \A i \in 1 .. Len(stdout[s]) : stdout[s][i].id # k
      /\ k < k + 1 /\ k # 0
  BY <1>1, <1>3
<1>5. CASE "in" \in torn[s]
  <2>1. stdin'[s] = stdin[s]
    BY <1>1, <1>5, WrittenTyped DEF s
  <2> QED BY <1>2, <1>4, <1>5, <2>1 DEF AboutToAsk, s, k
<1>6. CASE "in" \notin torn[s]
  <2> DEFINE n == Len(stdin[s])
  <2>1. stdin'[s] = Append(stdin[s], frame)
    BY <1>1, <1>6, WrittenTyped DEF s
  <2>2. /\ Len(stdin'[s]) = n + 1 /\ n \in Nat
        /\ \A i \in 1 .. n + 1 : stdin'[s][i] = IF i = n + 1 THEN frame ELSE stdin[s][i]
    BY <1>1, <2>1, Appended
  <2>3. stdin'[s] # <<>> /\ stdin'[s][n + 1] = frame
    <3>1. Len(stdin'[s]) # 0 /\ n + 1 \in 1 .. n + 1
      BY <2>2
    <3> QED BY <2>2, <3>1
  <2>4. \A i \in 1 .. n + 1 : stdin'[s][i].id # k
    <3>1. \A i \in 1 .. n + 1 : i # n + 1 => i \in 1 .. n
      BY <2>2
    <3> QED BY <1>4, <2>2, <3>1
  <2>5. Told(stdin'[s][n + 1], query'[c])
    BY <2>3 DEF Told
  <2> HIDE DEF n
  <2> QED BY <1>2, <1>4, <2>2, <2>3, <2>4, <2>5 DEF AboutToAsk, Told, s, k
<1> QED BY <1>5, <1>6

\* And its query comes behind its text.
LEMMA AskFollows ==
  ASSUME LspInvariant, NEW c \in Queries, query[c].client \in Servers, query[c].at = "ask",
         NEW frame \in Messages, Written(query[c].client, frame),
         frame.id = query[c].id, frame.doc = query[c].doc,
         query'[c].id = query[c].id, query'[c].client = query[c].client,
         query'[c].doc = query[c].doc, query'[c].text = query[c].text,
         UNCHANGED <<requestId, stdout, known, working>>
  PROVE  HasAsked(c)'
<1> DEFINE s == query[c].client
           q == query[c]
<1>1. /\ PipeTypes /\ AboutToAsk(c) /\ stdin[s] \in Seq(Messages)
  BY DEF LspInvariant, LspTypes, PipeTypes
<1>2. /\ q.id < requestId[s]
      /\ \A i \in 1 .. Len(stdin[s]) : stdin[s][i].id # q.id
      /\ \A reply \in working[s] : reply.id # q.id
      /\ \A i \in 1 .. Len(stdout[s]) : stdout[s][i].id # q.id
      /\ "in" \in torn[s] \/ IF stdin[s] = <<>> THEN known[s][q.doc] = q.text
                             ELSE Told(stdin[s][Len(stdin[s])], q)
  BY <1>1 DEF AboutToAsk
<1>3. ASSUME NEW i \in 1 .. Len(stdin'[s]), stdin'[s][i].id = q.id
      PROVE  /\ stdin'[s][i].doc = q.doc
             /\ IF i = 1 THEN known[s][q.doc] = q.text ELSE Told(stdin'[s][i - 1], q)
  <2> DEFINE n == Len(stdin[s])
  <2>0. "in" \notin torn[s] /\ stdin'[s] = Append(stdin[s], frame)
    BY <1>1, <1>2, <1>3, WrittenTyped
  <2>1. /\ Len(stdin'[s]) = n + 1 /\ n \in Nat
        /\ \A j \in 1 .. n + 1 : stdin'[s][j] = IF j = n + 1 THEN frame ELSE stdin[s][j]
    BY <1>1, <2>0, Appended
  <2>2. i = n + 1
    <3>1. i \in 1 .. n + 1 /\ (i # n + 1 => i \in 1 .. n)
      BY <2>1
    <3> QED BY <1>2, <1>3, <2>1, <3>1
  <2>3. stdin'[s][i].doc = q.doc
    BY <2>1, <2>2
  <2>4. CASE n = 0
    <3>1. stdin[s] = <<>> /\ i = 1
      BY <1>1, <2>2, <2>4
    <3> QED BY <1>2, <2>0, <2>3, <3>1
  <2>5. CASE n # 0
    <3>1. stdin[s] # <<>> /\ i # 1 /\ i - 1 = n /\ n \in 1 .. n + 1 /\ n # n + 1
      BY <1>1, <2>1, <2>2, <2>5
    <3>2. stdin'[s][i - 1] = stdin[s][n]
      BY <2>1, <3>1
    <3> QED BY <1>2, <2>0, <2>3, <3>1, <3>2
  <2> QED BY <2>4, <2>5
<1> HIDE DEF s, q
<1>4. /\ query'[c].client = s /\ query'[c].id = q.id
      /\ query'[c].doc = q.doc /\ query'[c].text = q.text
  BY DEF s, q
<1>5. \A i \in 1 .. Len(stdin'[s]) : stdin'[s][i].id = query'[c].id =>
        /\ stdin'[s][i].doc = query'[c].doc
        /\ IF i = 1 THEN known'[s][query'[c].doc] = query'[c].text
                    ELSE Told(stdin'[s][i - 1], query'[c])
  BY <1>3, <1>4 DEF Told
<1>6. /\ \A reply \in working'[s] : Meant(reply, query'[c])
      /\ \A i \in 1 .. Len(stdout'[s]) : Meant(stdout'[s][i], query'[c])
  BY <1>2, <1>4 DEF Meant
<1>7. query'[c].id < requestId'[s]
  BY <1>2, <1>4
<1> QED BY <1>4, <1>5, <1>6, <1>7 DEF HasAsked, Told, Meant

LEMMA WritesKeeps ==
  ASSUME LspInvariant, NEW c \in Queries, Writes(c)
  PROVE  LspInvariant'
<1>0. PICK s \in Servers : s = query[c].client
  BY WritesFacts
<1>1. /\ query[c].at \in Writing /\ query[c] \in Standings /\ s \in Servers
      /\ server[s] = "up" /\ requestId[s] \in Nat /\ requestId[s] >= 2
      /\ Placed(c) /\ AboutToAsk(c) /\ query \in [Queries -> Standings] /\ PipeTypes
      /\ query[c].doc \in Documents /\ query[c].text \in FileTexts \union {0} /\ query[c].id \in Nat
  BY <1>0, WritesFacts, StandingFacts DEF LspInvariant, LspTypes, CallTypes
<1>2. UNCHANGED <<disk, server, holder, stdout, torn, known, working, result>>
  BY WritesCases
<1>3. /\ LspTypes' /\ query'[c].client = s
      /\ query'[c].doc = query[c].doc /\ query'[c].text = query[c].text
      /\ \A d \in Queries \ {c} : query'[d] = query[d]
  BY <1>0, WritesTyped
<1>4. ASSUME NEW at, Goes(c, at)
      PROVE  query'[c].at = at /\ query'[c].id = query[c].id
  BY <1>1, <1>4 DEF Goes, Standings
<1>5. ASSUME NEW frame \in Messages, Written(s, frame)
      PROVE  \A r \in Servers \ {s} : stdin'[r] = stdin[r]
  BY <1>1, <1>5, WrittenTyped
<1>6. ASSUME NEW frame \in Messages, Written(s, frame), Orderly(s)',
             AboutToAsk(c)', HasAsked(c)',
             \A r \in Servers \ {s} : requestId'[r] = requestId[r] /\ documents'[r] = documents[r]
      PROVE  LspInvariant'
  <2>1. \A r \in Servers \ {s} :
          /\ stdin'[r] = stdin[r] /\ requestId'[r] = requestId[r] /\ documents'[r] = documents[r]
          /\ server'[r] = server[r]
    BY <1>2, <1>5, <1>6
  <2>2. /\ \A d \in Queries \ {c} : AboutToAsk(d)' /\ HasAsked(d)'
        /\ \A r \in Servers \ {s} : Orderly(r)'
    BY <1>0, <1>1, <1>2, <1>3, <2>1, WriteKeepsOthers
  <2> QED BY <1>3, <1>6, <2>2, WritesPlaced DEF LspInvariant
<1>7. CASE /\ query[c].at = "hello" /\ Goes(c, "greeted")
           /\ Written(s, Message("initialize", 1, query[c].doc, 0))
           /\ UNCHANGED <<pool, poolHolder, requestId, documents>>
  <2> DEFINE frame == Message("initialize", 1, query[c].doc, 0)
  <2>0. 1 \in Nat
    OBVIOUS
  <2>1. frame \in Messages /\ frame.kind = "initialize" /\ frame.id = 1 /\ Written(s, frame)
    BY <1>1, <1>7, <2>0, MessageTyped
  <2> HIDE DEF frame
  <2>2. Orderly(s)'
    BY <1>1, <1>2, <1>7, <2>1, SaidKeepsOrder DEF Tells
  <2>3. AboutToAsk(c)' /\ HasAsked(c)'
    BY <1>4, <1>7 DEF AboutToAsk, HasAsked
  <2> QED BY <1>6, <1>7, <2>1, <2>2, <2>3
<1>8. CASE /\ query[c].at = "ready" /\ Goes(c, "reading")
           /\ Written(s, Message("initialized", 0, query[c].doc, 0))
           /\ UNCHANGED <<requestId, documents>>
  <2> DEFINE frame == Message("initialized", 0, query[c].doc, 0)
  <2>1. frame \in Messages /\ frame.kind = "initialized" /\ frame.id = 0 /\ Written(s, frame)
    BY <1>1, <1>8, MessageTyped
  <2> HIDE DEF frame
  <2>2. Orderly(s)'
    BY <1>1, <1>2, <1>8, <2>1, SaidKeepsOrder DEF Tells
  <2>3. AboutToAsk(c)' /\ HasAsked(c)'
    BY <1>4, <1>8 DEF AboutToAsk, HasAsked
  <2> QED BY <1>6, <1>8, <2>1, <2>2, <2>3
<1>9. CASE /\ query[c].at = "tell"
           /\ Written(s, Message(IF query[c].doc \in documents[s] THEN "change" ELSE "open", 0,
                                 query[c].doc, query[c].text))
           /\ documents' = [documents EXCEPT ![s] = @ \union {query[c].doc}]
           /\ requestId' = [requestId EXCEPT ![s] = @ + 1]
           /\ query' = [query EXCEPT ![c].at = "ask", ![c].id = requestId[s]]
  <2> DEFINE kind == IF query[c].doc \in documents[s] THEN "change" ELSE "open"
             frame == Message(kind, 0, query[c].doc, query[c].text)
  <2>1. /\ frame \in Messages /\ frame.kind = kind /\ frame.id = 0 /\ Written(s, frame)
        /\ frame.doc = query[c].doc /\ frame.text = query[c].text
    BY <1>1, <1>9, MessageTyped
  <2>2. frame.kind = IF frame.doc \in documents[s] THEN "change" ELSE "open"
    BY <2>1
  <2>3. frame.text # 0
    BY <1>1, <1>9, <2>1 DEF Placed, Exchange
  <2>4. Told(frame, query[c])
    BY <2>1 DEF Told
  <2> HIDE DEF frame, kind
  <2>5. documents' = [documents EXCEPT ![s] = @ \union {frame.doc}]
    BY <1>9, <2>1
  <2>6. Orderly(s)'
    BY <1>1, <1>2, <1>9, <2>1, <2>2, <2>3, <2>5, TellKeepsOrder
  <2>7. query'[c].at = "ask" /\ query'[c].id = requestId[s]
    BY <1>1, <1>9 DEF Standings
  <2>8. AboutToAsk(c)'
    BY <1>0, <1>1, <1>2, <1>3, <1>9, <2>1, <2>4, <2>7, TellReadies
  <2>9. HasAsked(c)'
    BY <2>7 DEF HasAsked
  <2>10. \A r \in Servers \ {s} : requestId'[r] = requestId[r] /\ documents'[r] = documents[r]
    BY <1>1, <1>9 DEF PipeTypes
  <2> QED BY <1>6, <2>1, <2>6, <2>8, <2>9, <2>10
<1>10. CASE /\ query[c].at = "ask" /\ Goes(c, "wait")
            /\ Written(s, Message("query", query[c].id, query[c].doc, 0))
            /\ UNCHANGED <<pool, poolHolder, requestId, documents>>
  <2> DEFINE frame == Message("query", query[c].id, query[c].doc, 0)
  <2>1. /\ frame \in Messages /\ frame.kind = "query" /\ frame.id = query[c].id
        /\ frame.doc = query[c].doc /\ Written(s, frame)
    BY <1>1, <1>10, MessageTyped
  <2> HIDE DEF frame
  <2>2. frame.id < requestId[s]
    BY <1>0, <1>1, <1>10, <2>1 DEF AboutToAsk
  <2>3. Orderly(s)'
    BY <1>1, <1>2, <1>10, <2>1, <2>2, SaidKeepsOrder DEF Tells
  <2>4. query'[c].at = "wait" /\ query'[c].id = query[c].id
    BY <1>4, <1>10
  <2>5. AboutToAsk(c)'
    BY <2>4 DEF AboutToAsk
  <2>6. HasAsked(c)'
    BY <1>0, <1>1, <1>2, <1>3, <1>10, <2>1, <2>4, AskFollows
  <2> QED BY <1>6, <1>10, <2>1, <2>3, <2>5, <2>6
<1> QED BY <1>0, <1>7, <1>8, <1>9, <1>10, WritesCases

-----------------------------------------------------------------------------
(* The invariant holds, and with it the property.                          *)

LEMMA InitInvariant == LspInit => LspInvariant
<1> SUFFICES ASSUME LspInit PROVE LspInvariant
  OBVIOUS
<1>0. 0 \notin Servers /\ 0 \notin Queries /\ 1 \in FileTexts
  BY BoundsTyped
<1>1. Blank("unused") \in Standings /\ Blank("unused").at = "unused" /\ Blank("unused").client = 0
  BY BlankTyped DEF Ats
<1>2. NoResult \in Results /\ NoResult.kind = "none"
  BY NoResultTyped DEF Results
<1>3. /\ <<>> \in Seq(Messages) /\ <<>> \in Seq(Replies) /\ Len(<<>>) = 0
      /\ \A i \in 1 .. Len(<<>>) : FALSE
  OBVIOUS
<1>4. CallTypes
  BY <1>1, <1>2 DEF LspInit, CallTypes
<1>5. PipeTypes
  <2> DEFINE In == Seq(Messages)
             Out == Seq(Replies)
  <2>1. <<>> \in In /\ <<>> \in Out
    BY <1>3
  <2> HIDE DEF In, Out
  <2>2. stdin \in [Servers -> In] /\ stdout \in [Servers -> Out]
    BY <2>1 DEF LspInit
  <2>3. /\ requestId \in [Servers -> Nat] /\ documents \in [Servers -> SUBSET Documents]
        /\ torn \in [Servers -> SUBSET {"in", "out"}]
        /\ known \in [Servers -> [Documents -> FileTexts \union {0}]]
        /\ working \in [Servers -> SUBSET Replies]
    BY DEF LspInit
  <2> QED BY <2>2, <2>3 DEF PipeTypes, In, Out
<1>6. disk \in [Documents -> FileTexts]
  BY <1>0 DEF LspInit
<1>7. \A c \in Queries : query[c] = Blank("unused") /\ result[c] = NoResult
  BY DEF LspInit
<1>8. \A c \in Queries : Placed(c) /\ AboutToAsk(c) /\ HasAsked(c)
  BY <1>0, <1>1, <1>2, <1>7 DEF Placed, AboutToAsk, HasAsked, Handshake, Holding, Exchange
<1>9. ASSUME NEW s \in Servers PROVE Orderly(s)
  <2>1. /\ server[s] = "unborn" /\ requestId[s] = 1 /\ documents[s] = {} /\ stdin[s] = <<>>
        /\ stdout[s] = <<>> /\ working[s] = {} /\ \A doc \in Documents : known[s][doc] = 0
    BY DEF LspInit
  <2> QED BY <1>3, <2>1 DEF Orderly
<1>10. pool = 0
  BY DEF LspInit
<1> QED BY <1>0, <1>4, <1>5, <1>6, <1>8, <1>9, <1>10 DEF LspInvariant, LspTypes

LEMMA LspStep == LspInvariant /\ [LspNext]_lspVars => LspInvariant'
<1> SUFFICES ASSUME LspInvariant, [LspNext]_lspVars PROVE LspInvariant'
  OBVIOUS
<1>1. ASSUME NEW c \in Queries,
             \/ FindsClient(c) \/ CannotStart(c) \/ ReadsFile(c) \/ TakesClient(c)
             \/ PipeBreaks(c) \/ TimesOutQuery(c) \/ Evicts(c) \/ DropsQuery(c)
             \/ (\E doc \in Documents : Asked(c, doc))
      PROVE  LspInvariant'
  <2>1. LspTypes'
    BY <1>1, CallStepTyped DEF LspInvariant
  <2>2. Moved(c) /\ UNCHANGED <<requestId, documents, stdin, stdout, known, working>>
    BY <1>1, CallMoves
  <2> QED BY <2>1, <2>2, MovedKeeps
<1>2. ASSUME NEW c \in Queries, ReadsReply(c) PROVE LspInvariant'
  BY <1>2, ReadsReplyMoves, MovedKeeps
<1>3. ASSUME NEW c \in Queries, StartsServer(c) PROVE LspInvariant'
  BY <1>3, StartsServerKeeps
<1>4. ASSUME NEW c \in Queries, Writes(c) PROVE LspInvariant'
  BY <1>4, WritesKeeps
<1>5. ASSUME NEW doc \in Documents, EditsFile(doc) PROVE LspInvariant'
  BY <1>5, EditsFileKeeps
<1>6. ASSUME NEW s \in Servers, ServerReads(s) \/ ServerAnswers(s) \/ ServerDies(s)
      PROVE  LspInvariant'
  BY <1>6, ServerReadsKeeps, ServerAnswersKeeps, ServerDiesKeeps
<1>7. CASE UNCHANGED lspVars
  <2>1. UNCHANGED <<pool, holder, Pipes, query, result, server>> /\ LspTypes'
    BY <1>7 DEF lspVars, Pipes, LspInvariant, LspTypes, CallTypes, PipeTypes
  <2> QED BY <2>1, AsideKeeps
<1> QED BY <1>1, <1>2, <1>3, <1>4, <1>5, <1>6, <1>7 DEF LspNext, QueryStep, QueriesOver

LEMMA InvariantHolds == LspSpec => []LspInvariant
BY InitInvariant, LspStep, PTL DEF LspSpec

\* The type invariant of the language server's module.
THEOREM LspTypesHold == LspSpec => []LspTypeOK
<1>1. LspInvariant => LspTypeOK
  BY TypesSplit DEF LspInvariant
<1> QED BY <1>1, InvariantHolds, PTL

\* With any number of calls, servers, documents and edits, and wherever calls
\* are dropped, time out or lose their server, an answer reported is the answer
\* to the call's own request on the text the call read (lsp/client.rs's ids,
\* lsp_tool.rs's order of reading, publishing and asking).
THEOREM EachHearsItsOwn == LspSpec => []AnswersAreOnesOwn
<1>1. LspInvariant => AnswersAreOnesOwn
  BY DEF LspInvariant, Placed, AnswersAreOnesOwn
<1> QED BY <1>1, InvariantHolds, PTL
=============================================================================
