----------------------------- MODULE PromptDocs -----------------------------
(***************************************************************************)
(* What the repository's docs and comments say of the session and the code *)
(* does not keep.  Each property is checked by a run that expects TLC to   *)
(* refute it; README.md tells the stories.                                 *)
(***************************************************************************)
EXTENDS PromptSession

\* "the driver's claim and the panel's drop can both arrive late and still be
\* right about which prompt they mean" (queue.rs, on addressing prompts by id):
\* a drop confirmed takes the prompt its ask was raised on.
DropMeansItsPrompt ==
  [][ConfirmDrop /\ queued' # queued => ~Waits(queued', asked) /\ Waits(queued, asked)]_vars

\* "Every correction still buffered at the exit drain is collected here rather
\* than dropped with the channel" (rescue_stranded_corrections).
CorrectionsSurviveTheExit ==
  [][DriverAborted => CorrectedTexts(Pending) \subseteq {row.text : row \in landed'}]_vars
=============================================================================
