---------------------------- MODULE PromptQueue ----------------------------
(***************************************************************************)
(* The queue of waiting prompts (crates/dch-tui/src/queue.rs), as pure     *)
(* operators.  A queue is the sequence of its entries, oldest first; an    *)
(* entry is a record [id, text].  The id counter travels beside it, so     *)
(* that Push takes the id it gives out.                                    *)
(***************************************************************************)
EXTENDS Integers, SequencesExt

\* QueuedPrompt.
Entry(id, text) == [id |-> id, text |-> text]

\* Whether some entry holds id.
Waits(q, id) == \E i \in DOMAIN q : q[i].id = id

\* index_of: the position of id, for an id that waits.
IndexOf(q, id) == CHOOSE i \in DOMAIN q : q[i].id = id

TextOf(q, id) == q[IndexOf(q, id)].text

\* push: behind everything that waits.
Push(q, id, text) == Append(q, Entry(id, text))

\* remove: by id; a late id changes nothing.
RemoveId(q, id) == IF Waits(q, id) THEN RemoveAt(q, IndexOf(q, id)) ELSE q

\* replace: the words of id, in its place.
ReplaceId(q, id, text) == [i \in DOMAIN q |-> IF q[i].id = id THEN Entry(id, text) ELSE q[i]]

IdsOf(q) == {q[i].id : i \in DOMAIN q}
TextsOf(q) == {q[i].text : i \in DOMAIN q}

\* Submission order is send order and no id names two prompts.
Ascending(q) == \A i, j \in DOMAIN q : i < j => q[i].id < q[j].id
=============================================================================
