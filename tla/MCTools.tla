------------------------------- MODULE MCTools -------------------------------
(***************************************************************************)
(* The components around a run, checked side by side.  They share no       *)
(* state, so that a behaviour of all of them is one behaviour of each: the *)
(* run explores each component by itself, the one the scene names.         *)
(***************************************************************************)
EXTENDS BackgroundJobs, Approvals, HeadlessRun, StandingPlan, PlanNudge, LanguageServer

VARIABLE scene

Scenes == {"jobs", "approvals", "headless", "plan", "nudge", "lsp"}

\* What stands still in a scene: everything but the component it is about.
Only(name) ==
  /\ scene = name /\ UNCHANGED scene
  /\ (name = "jobs" \/ UNCHANGED jobsVars)
  /\ (name = "approvals" \/ UNCHANGED approvalVars)
  /\ (name = "headless" \/ UNCHANGED headlessVars)
  /\ (name = "plan" \/ UNCHANGED planVars)
  /\ (name = "nudge" \/ UNCHANGED nudgeVars)
  /\ (name = "lsp" \/ UNCHANGED lspVars)

ToolsInit ==
  /\ scene \in Scenes
  /\ JobsInit /\ ApprovalsInit /\ HeadlessInit /\ PlanInit /\ NudgeInit /\ LspInit
  /\ (marker = "stale" => scene = "headless")

ToolsNext ==
  \/ Only("jobs") /\ JobsNext
  \/ Only("approvals") /\ ApprovalsNext
  \/ Only("headless") /\ HeadlessNext
  \/ Only("plan") /\ PlanNext
  \/ Only("nudge") /\ NudgeNext
  \/ Only("lsp") /\ LspNext

ToolsSpec ==
  /\ ToolsInit
  /\ [][ToolsNext]_<<scene, jobsVars, approvalVars, headlessVars, planVars, nudgeVars, lspVars>>
  /\ ApprovalsFairness /\ HeadlessFairness /\ LspFairness

\* The values of the scene's variables have their types.
ToolsTypeOK ==
  CASE scene = "jobs" -> JobsTypeOK
    [] scene = "approvals" -> ApprovalsTypeOK
    [] scene = "headless" -> HeadlessTypeOK
    [] scene = "plan" -> PlanTypeOK
    [] scene = "nudge" -> NudgeTypeOK
    [] scene = "lsp" -> LspTypeOK
=============================================================================
