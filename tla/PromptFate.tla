----------------------------- MODULE PromptFate -----------------------------
(***************************************************************************)
(* What the session promises of the words a user commits: each of them is  *)
(* sent to the agent, let go by the user, or shown as unsent when the      *)
(* session ends; one of the three, for good, and none is forgotten.        *)
(***************************************************************************)
CONSTANT Wordings
VARIABLES committed, sent, letGo, unsent, over

fateVars == <<committed, sent, letGo, unsent, over>>

Waiting == committed \ (sent \cup letGo \cup unsent)

FateInit == committed = {} /\ sent = {} /\ letGo = {} /\ unsent = {} /\ over = FALSE

\* The user commits a wording, and may let go of those it stands in for.
Commit ==
  /\ \E w \in Wordings \ committed : committed' = committed \cup {w}
  /\ \E old \in SUBSET Waiting : letGo' = letGo \cup old
  /\ UNCHANGED <<sent, unsent, over>>

Send ==
  /\ \E w \in Waiting : sent' = sent \cup {w}
  /\ UNCHANGED <<committed, letGo, unsent, over>>

LetGo ==
  /\ \E old \in SUBSET Waiting : letGo' = letGo \cup old
  /\ UNCHANGED <<committed, sent, unsent, over>>

ShowUnsent ==
  /\ \E left \in SUBSET Waiting : unsent' = unsent \cup left
  /\ UNCHANGED <<committed, sent, letGo, over>>

\* The end shows whatever still waits.
End ==
  /\ unsent' = unsent \cup Waiting /\ over' = TRUE
  /\ UNCHANGED <<committed, sent, letGo>>

FateNext == ~over /\ (Commit \/ Send \/ LetGo \/ ShowUnsent \/ End)

FateSpec == FateInit /\ [][FateNext]_fateVars

\* No wording waits for ever.
EveryWordingSettles == \A w \in Wordings : w \in committed ~> w \notin Waiting
=============================================================================
