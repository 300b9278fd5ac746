---------------------------- MODULE LanguageServer ----------------------------
(***************************************************************************)
(* Queries to the language server of one project root: the tool's call     *)
(* (lsp_tool.rs), the pool that holds the root's client (lsp/pool.rs), the *)
(* client's exchanges over the server's pipes (lsp/client.rs), and the     *)
(* server (external).  Calls run side by side, and any of them may be      *)
(* dropped where it awaits.                                                *)
(***************************************************************************)
EXTENDS Integers, Sequences

CONSTANTS
  Documents,    \* the files asked about
  MaxQueries,   \* how many calls of the tool there are (bound)
  MaxServers,   \* how many servers are started (bound)
  MaxEdits      \* how often a file is edited (bound)

ASSUME QueryBounds == /\ MaxQueries \in Nat /\ MaxServers \in Nat /\ MaxEdits \in Nat
                      /\ Documents # {}

VARIABLES
  disk,         \* the files' texts, numbered
  pool,         \* the client pooled for the root, 0 when there is none
  poolHolder,   \* the call that holds the pool's mutex
  server,       \* the process of each client
  holder,       \* the call that holds a client's mutex
  requestId,    \* LspClient.request_id
  documents,    \* LspClient.documents: the documents published
  stdin,        \* what is written and not yet read by the server
  stdout,       \* what the server wrote and the client has not read
  torn,         \* the pipes in which a frame was left half written or half read
  known,        \* the texts the server works on, 0 for a document not opened
  working,      \* the answers the server is about to give
  query,        \* a call: where it stands, its document, client, text and id
  result        \* what a call came to
lspVars == <<disk, pool, poolHolder, server, holder, requestId, documents, stdin, stdout, torn,
             known, working, query, result>>

Queries == 1 .. MaxQueries
Servers == 1 .. MaxServers
FileTexts == 1 .. MaxEdits + 1
RequestIds == Nat
Handshake == {"hello", "greeted", "ready"}
Writing == {"hello", "ready", "tell", "ask"}
Waiting == {"greeted", "wait"}
Exchange == {"tell", "ask", "wait"}
Holding == {"reading", "lock", "evict"} \union Exchange
Message(kind, id, doc, text) == [kind |-> kind, id |-> id, doc |-> doc, text |-> text]
Messages == [kind : {"initialize", "initialized", "open", "change", "query"}, id : RequestIds,
           doc : Documents, text : FileTexts \union {0}]
Reply(id, doc, text, good) == [id |-> id, doc |-> doc, text |-> text, good |-> good]
Replies == [id : RequestIds, doc : Documents, text : FileTexts \union {0}, good : BOOLEAN]
NoResult == [doc |-> CHOOSE d \in Documents : TRUE, text |-> 0, kind |-> "none"]
Blank(at) == [at |-> at, doc |-> NoResult.doc, client |-> 0, text |-> 0, id |-> 0]
Result(kind, doc, text) == [kind |-> kind, doc |-> doc, text |-> text]

LspTypeOK ==
  /\ disk \in [Documents -> FileTexts]
  /\ pool \in Servers \union {0} /\ poolHolder \in Queries \union {0}
  /\ server \in [Servers -> {"unborn", "up", "gone"}]
  /\ holder \in [Servers -> Queries \union {0}]
  /\ requestId \in [Servers -> Nat]
  /\ documents \in [Servers -> SUBSET Documents]
  /\ stdin \in [Servers -> Seq(Messages)] /\ stdout \in [Servers -> Seq(Replies)]
  /\ torn \in [Servers -> SUBSET {"in", "out"}]
  /\ known \in [Servers -> [Documents -> FileTexts \union {0}]]
  /\ working \in [Servers -> SUBSET Replies]
  /\ query \in [Queries -> [at : {"unused", "pool", "done"} \union Handshake \union Holding,
                            doc : Documents, client : Servers \union {0},
                            text : FileTexts \union {0}, id : RequestIds]]
  /\ result \in [Queries -> [kind : {"none", "answer", "error"},
                             doc : Documents, text : FileTexts \union {0}]]

LspInit ==
  /\ disk = [d \in Documents |-> 1] /\ pool = 0 /\ poolHolder = 0
  /\ server = [s \in Servers |-> "unborn"] /\ holder = [s \in Servers |-> 0]
  /\ requestId = [s \in Servers |-> 1] /\ documents = [s \in Servers |-> {}]
  /\ stdin = [s \in Servers |-> <<>>] /\ stdout = [s \in Servers |-> <<>>]
  /\ torn = [s \in Servers |-> {}] /\ known = [s \in Servers |-> [d \in Documents |-> 0]]
  /\ working = [s \in Servers |-> {}]
  /\ query = [c \in Queries |-> Blank("unused")]
  /\ result = [c \in Queries |-> NoResult]

Pipes == <<requestId, documents, stdin, stdout, torn, known, working>>

-----------------------------------------------------------------------------
(* The handles of a client. *)

Holders(s) == {c \in Queries : query[c].client = s /\ query[c].at \in Holding}

\* Drop for LspClient, when the call's was the last handle.
HandleDropped(c, pooled) ==
  LET s == query[c].client
  IN server' = IF /\ s # 0 /\ server[s] = "up" /\ pooled # s
                  /\ Holders(s) \subseteq {c}
               THEN [server EXCEPT ![s] = "gone"] ELSE server

Unheld(c) == holder' = [s \in Servers |-> IF holder[s] = c THEN 0 ELSE holder[s]]
PoolFreed(c) == poolHolder' = IF poolHolder = c THEN 0 ELSE poolHolder

Goes(c, at) == query' = [query EXCEPT ![c].at = at]

\* The call is over, whatever it holds goes.
Lets(c) == Unheld(c) /\ PoolFreed(c) /\ HandleDropped(c, pool) /\ UNCHANGED pool

Answered(c, reply) ==
  /\ Goes(c, "done") /\ Lets(c)
  /\ result' = [result EXCEPT ![c] = Result("answer", reply.doc, reply.text)]

Failed == Result("error", NoResult.doc, 0)
Errs(c) ==
  /\ query' = [query EXCEPT ![c] = Blank("done")] /\ Lets(c)
  /\ result' = [result EXCEPT ![c] = Failed]

-----------------------------------------------------------------------------
(* The call up to its exchange. *)

\* call_inner's checks pass, and it asks for the pool's mutex.
Asked(c, doc) ==
  /\ query[c].at = "unused" /\ \A b \in Queries : b < c => query[b].at # "unused"
  /\ query' = [query EXCEPT ![c].at = "pool", ![c].doc = doc]
  /\ UNCHANGED <<disk, pool, poolHolder, server, holder, Pipes, result>>

\* get_or_spawn finds a client,
FindsClient(c) ==
  /\ query[c].at = "pool" /\ poolHolder = 0 /\ pool # 0
  /\ query' = [query EXCEPT ![c].at = "reading", ![c].client = pool]
  /\ UNCHANGED <<disk, pool, poolHolder, server, holder, Pipes, result>>

\* or starts one, with the mutex held through the handshake,
StartsServer(c) ==
  /\ query[c].at = "pool" /\ poolHolder = 0 /\ pool = 0
  /\ \E s \in Servers :
       /\ server[s] = "unborn" /\ \A r \in Servers : r < s => server[r] # "unborn"
       /\ server' = [server EXCEPT ![s] = "up"]
       /\ requestId' = [requestId EXCEPT ![s] = 2]
       /\ query' = [query EXCEPT ![c].at = "hello", ![c].client = s, ![c].id = 1]
  /\ poolHolder' = c
  /\ UNCHANGED <<disk, pool, holder, documents, stdin, stdout, torn, known, working, result>>

\* or cannot.
CannotStart(c) ==
  /\ query[c].at = "pool" /\ poolHolder = 0 /\ pool = 0
  /\ Errs(c)
  /\ UNCHANGED <<disk, Pipes>>

\* The text is read before the client's mutex is asked for.
ReadsFile(c) ==
  /\ query[c].at = "reading"
  /\ \/ /\ query' = [query EXCEPT ![c].at = "lock", ![c].text = disk[query[c].doc]]
        /\ UNCHANGED <<pool, poolHolder, server, holder, result>>
     \/ Errs(c)
  /\ UNCHANGED <<disk, Pipes>>

TakesClient(c) ==
  /\ query[c].at = "lock" /\ holder[query[c].client] = 0
  /\ holder' = [holder EXCEPT ![query[c].client] = c]
  /\ Goes(c, "tell")
  /\ UNCHANGED <<disk, pool, poolHolder, server, Pipes, result>>

-----------------------------------------------------------------------------
(* The exchange. *)

\* write_framed; behind a torn frame nothing is read as what it is.
Written(s, frame) ==
  stdin' = IF "in" \in torn[s] THEN stdin ELSE [stdin EXCEPT ![s] = Append(@, frame)]

\* open_document, then the request's id is taken; send_request; initialize.
Writes(c) ==
  LET q == query[c]
      s == q.client
  IN /\ q.at \in Writing /\ server[s] = "up"
     /\ CASE q.at = "hello" ->
               /\ Written(s, Message("initialize", 1, q.doc, 0)) /\ Goes(c, "greeted")
               /\ UNCHANGED <<pool, poolHolder, requestId, documents>>
          [] q.at = "ready" ->
               /\ Written(s, Message("initialized", 0, q.doc, 0)) /\ Goes(c, "reading")
               /\ pool' = s /\ poolHolder' = 0
               /\ UNCHANGED <<requestId, documents>>
          [] q.at = "tell" ->
               /\ Written(s, Message(IF q.doc \in documents[s] THEN "change" ELSE "open", 0,
                                   q.doc, q.text))
               /\ documents' = [documents EXCEPT ![s] = @ \union {q.doc}]
               /\ requestId' = [requestId EXCEPT ![s] = @ + 1]
               /\ query' = [query EXCEPT ![c].at = "ask", ![c].id = requestId[s]]
               /\ UNCHANGED <<pool, poolHolder>>
          [] q.at = "ask" ->
               /\ Written(s, Message("query", q.id, q.doc, 0)) /\ Goes(c, "wait")
               /\ UNCHANGED <<pool, poolHolder, requestId, documents>>
     /\ UNCHANGED <<disk, server, holder, stdout, torn, known, working, result>>

\* RequestError::Transport: a client that was being started is dropped, a
\* pooled one is to be evicted.
TransportFails(c) ==
  IF query[c].at \in Handshake
  THEN Errs(c)
  ELSE /\ Goes(c, "evict") /\ result' = [result EXCEPT ![c] = Failed] /\ Unheld(c)
       /\ UNCHANGED <<pool, poolHolder, server>>

\* The other end is gone: the write fails, or the read meets the end.
PipeBreaks(c) ==
  LET s == query[c].client
  IN /\ query[c].at \in Writing \union Waiting /\ server[s] = "gone"
     /\ query[c].at \in Waiting => stdout[s] = <<>>
     /\ TransportFails(c)
     /\ UNCHANGED <<disk, Pipes>>

\* A frame is read whole, or what is left of one is refused.
Readable(s) == stdout[s] # <<>> \/ ("out" \in torn[s] /\ server[s] = "up")

\* read_response, and what send_request makes of it (mutant: ids are not compared.)
AcceptsAny(c, reply) == reply.id \in RequestIds
Accepts(c, reply) == reply.id = query[c].id

ReadsReply(c) ==
  LET s == query[c].client
      reply == Head(stdout[s])
  IN /\ query[c].at \in Waiting /\ Readable(s)
     /\ IF "out" \in torn[s]
        THEN TransportFails(c) /\ UNCHANGED stdout
        ELSE /\ stdout' = [stdout EXCEPT ![s] = Tail(@)]
             /\ CASE ~Accepts(c, reply) -> TransportFails(c)
                  [] Accepts(c, reply) /\ query[c].at = "greeted" ->
                       IF reply.good
                       THEN Goes(c, "ready")
                            /\ UNCHANGED <<pool, poolHolder, server, holder, result>>
                       ELSE Errs(c)
                  [] Accepts(c, reply) /\ query[c].at = "wait" ->
                       IF reply.good
                       THEN Answered(c, reply)
                       ELSE Errs(c)
     /\ UNCHANGED <<disk, requestId, documents, stdin, torn, known, working>>

\* A pending write or read is given up midway, or between two frames; a wait
\* also writes, to decline the server's own requests.
GivenUp(c) ==
  LET s == query[c].client
      pipes == IF query[c].at \in Writing THEN {"in"}
               ELSE IF query[c].at \in Waiting THEN {"in", "out"} ELSE {}
  IN IF pipes = {} \/ query[c].at \in Handshake THEN torn' = torn
     ELSE \E cut \in SUBSET pipes : torn' = [torn EXCEPT ![s] = @ \union cut]

\* (Mutant: a notification's write has no budget.)
TimesOutReplies(c) ==
  /\ query[c].at \in (Writing \union Waiting) \ {"ready", "tell"}
  /\ query[c].at \in Waiting => ~Readable(query[c].client)
  /\ GivenUp(c) /\ TransportFails(c)
  /\ UNCHANGED <<disk, requestId, documents, stdin, stdout, known, working>>

\* The request's budget is over; the exchange is polled before the clock.
TimesOutQuery(c) ==
  /\ query[c].at \in Writing \union Waiting
  /\ query[c].at \in Waiting => ~Readable(query[c].client)
  /\ GivenUp(c) /\ TransportFails(c)
  /\ UNCHANGED <<disk, requestId, documents, stdin, stdout, known, working>>

\* evict: only the very client the exchange failed on.
Evicted(s) == IF pool = s THEN 0 ELSE pool

Evicts(c) ==
  /\ query[c].at = "evict" /\ poolHolder = 0
  /\ pool' = Evicted(query[c].client)
  /\ query' = [query EXCEPT ![c] = Blank("done")] /\ HandleDropped(c, pool')
  /\ UNCHANGED <<disk, poolHolder, holder, Pipes, result>>

\* The run is cancelled: the call is dropped where it awaits.
DropsQuery(c) ==
  /\ query[c].at \notin {"unused", "done"}
  /\ GivenUp(c) /\ Errs(c)
  /\ UNCHANGED <<disk, requestId, documents, stdin, stdout, known, working>>

-----------------------------------------------------------------------------
(* The files and the server. *)

EditsFile(doc) ==
  /\ disk[doc] <= MaxEdits /\ disk' = [disk EXCEPT ![doc] = @ + 1]
  /\ UNCHANGED <<pool, poolHolder, server, holder, Pipes, query, result>>

ServerReads(s) ==
  LET m == Head(stdin[s])
      text == known[s][m.doc]
  IN /\ server[s] = "up" /\ stdin[s] # <<>>
     /\ stdin' = [stdin EXCEPT ![s] = Tail(@)]
     /\ known' = IF \/ m.kind = "open" /\ text = 0
                    \/ m.kind = "change" /\ text # 0
                 THEN [known EXCEPT ![s][m.doc] = m.text] ELSE known
     /\ IF m.kind \in {"initialize", "query"}
        THEN \E good \in BOOLEAN :
               working' = [working EXCEPT ![s] = @ \union {Reply(m.id, m.doc, text, good)}]
        ELSE UNCHANGED working
     /\ UNCHANGED <<disk, pool, poolHolder, server, holder, requestId, documents, stdout, torn,
                    query, result>>

\* It answers in the order it likes.
ServerAnswers(s) ==
  /\ server[s] = "up"
  /\ \E reply \in working[s] :
       /\ working' = [working EXCEPT ![s] = @ \ {reply}]
       /\ stdout' = [stdout EXCEPT ![s] = Append(@, reply)]
  /\ UNCHANGED <<disk, pool, poolHolder, server, holder, requestId, documents, stdin, torn,
                 known, query, result>>

ServerDies(s) ==
  /\ server[s] = "up" /\ server' = [server EXCEPT ![s] = "gone"]
  /\ UNCHANGED <<disk, pool, poolHolder, holder, Pipes, query, result>>

QueriesOver == (\A c \in Queries : query[c].at = "done") /\ UNCHANGED lspVars

QueryStep(c) ==
  \/ FindsClient(c) \/ StartsServer(c) \/ CannotStart(c) \/ ReadsFile(c) \/ TakesClient(c)
  \/ PipeBreaks(c) \/ ReadsReply(c) \/ TimesOutQuery(c) \/ Evicts(c)

LspNext ==
  \/ \E c \in Queries : QueryStep(c) \/ Writes(c) \/ DropsQuery(c) \/ (\E doc \in Documents : Asked(c, doc))
  \/ (\E doc \in Documents : EditsFile(doc))
  \/ (\E s \in Servers : ServerReads(s) \/ ServerAnswers(s) \/ ServerDies(s))
  \/ QueriesOver

\* The runtime polls a call that can go on, and the clock comes; the server
\* owes nothing, not even room in its pipe for a write.
LspFairness == \A c \in Queries : WF_lspVars(QueryStep(c))

LspSpec == LspInit /\ [][LspNext]_lspVars /\ LspFairness

-----------------------------------------------------------------------------
(* Properties. *)

\* What a call reports is the server's answer to its own request, on the text
\* the call itself read and turned its position by: never the late answer to
\* a call that was dropped or timed out, never another call's text, also when
\* calls run side by side and the file changes between them.
AnswersAreOnesOwn ==
  \A c \in Queries : result[c].kind = "answer" =>
                       result[c].doc = query[c].doc /\ result[c].text = query[c].text

\* Every call ends: a server that is silent, dead or out of step with its pipes
\* costs one budget per wait, and no call behind it waits for ever.
Idle(c) == query[c].at \in {"unused", "done"}
QueriesEnd == (\E c \in Queries : ~Idle(c)) ~> (\A c \in Queries : Idle(c))
=============================================================================
