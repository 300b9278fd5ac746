----------------------------- MODULE ToolsProofs -----------------------------
(***************************************************************************)
(* The components around a run, together.  First the headless run itself:  *)
(* for any number of interrupts, with failing writes or without, the       *)
(* marker tells the exit, and what the run recorded stays.  Then the       *)
(* composition: every behaviour of the components side by side is, seen by *)
(* one of them, a behaviour of that one, so that what the other modules    *)
(* prove of each holds of them all.                                        *)
(***************************************************************************)
EXTENDS MCTools, JobsProofs, LspProofs, PlanProofs, ApprovalsProofs, TLAPS

LEMMA ExitCodes ==
  /\ DOMAIN ExitCode = Outcomes \union {"construction failure", "startup cancel", "forced cancel"}
  /\ \A o \in DOMAIN ExitCode : ExitCode[o] \in {0, 1, 2, 130}
  /\ ExitCode["construction failure"] = 1
  /\ ExitCode["startup cancel"] = 130 /\ ExitCode["forced cancel"] = 130
BY DEF ExitCode, Outcomes

\* Every step keeps the types: one step per action.
LEMMA HeadlessTypeStep ==
  ASSUME HeadlessTypeOK, [HeadlessNext]_headlessVars
  PROVE  HeadlessTypeOK'
<1> USE HeadlessBounds DEF HeadlessTypeOK
<1>1. ASSUME NEW s \in Signals, Press(s) PROVE HeadlessTypeOK'
  BY <1>1 DEF Press, Signals
<1>2. CASE Broadcast
  BY <1>2 DEF Broadcast, Hearing, BridgeTasks
<1>3. CASE WindowPasses
  BY <1>3 DEF WindowPasses
<1>4. CASE StartupStops
  BY <1>4 DEF StartupStops, BridgeTask, BridgeTasks
<1>5. CASE StartupInterrupted
  BY <1>5, ExitCodes DEF StartupInterrupted, WriteMarker, Ends
<1>6. CASE BridgeStops
  BY <1>6 DEF BridgeStops, BridgeTask, BridgeTasks
<1>7. ASSUME NEW s \in Signals, BridgeCancels(s) PROVE HeadlessTypeOK'
  BY <1>7 DEF BridgeCancels, BridgeTasks
<1>8. ASSUME NEW s \in Signals, BridgeForces(s) PROVE HeadlessTypeOK'
  BY <1>8, ExitCodes DEF BridgeForces, WriteMarker, Ends
<1>9. CASE BridgeRearms
  BY <1>9 DEF BridgeRearms
<1>10. CASE ClearsStale
  BY <1>10 DEF ClearsStale
<1>11. CASE CannotClear
  BY <1>11, ExitCodes DEF CannotClear, BridgeTasks
<1>12. CASE ConstructionFails
  BY <1>12, ExitCodes DEF ConstructionFails, FailsConstruction, WriteMarker, BridgeTasks
<1>13. CASE RunConstructed
  BY <1>13 DEF RunConstructed, BridgeTask, BridgeTasks
<1>14. CASE FailureReturns
  BY <1>14 DEF FailureReturns, Ends
<1>15. CASE RunBegins
  BY <1>15 DEF RunBegins
<1>16. ASSUME NEW outcome \in Outcomes, RunResolves(outcome) PROVE HeadlessTypeOK'
  <2>1. /\ marker' \in DOMAIN ExitCode \union {"none", "stale"}
        /\ trouble' \subseteq {"clear", "overwrite", "marker", "machine", "display"}
        /\ code' \in {0, 1, 2, 130}
    BY <1>16, ExitCodes DEF RunResolves
  <2>2. saves' \subseteq {"machine", "display"}
    BY <1>16 DEF RunResolves, SavesTranscript
  <2>3. bridge' \in BridgeTasks
    BY <1>16 DEF RunResolves, BridgeTasks
  <2> QED BY <1>16, <2>1, <2>2, <2>3 DEF RunResolves
<1>17. CASE RunReturns
  BY <1>17 DEF RunReturns, Ends
<1>18. CASE UNCHANGED headlessVars
  BY <1>18 DEF headlessVars
<1> QED BY <1>1, <1>2, <1>3, <1>4, <1>5, <1>6, <1>7, <1>8, <1>9, <1>10, <1>11, <1>12, <1>13,
           <1>14, <1>15, <1>16, <1>17, <1>18 DEF HeadlessNext, HeadlessOver

\* The types hold in every state of a headless run (headless.rs, signals.rs).
THEOREM HeadlessTypes == HeadlessSpec => []HeadlessTypeOK
<1>1. HeadlessInit => HeadlessTypeOK
  <2> SUFFICES ASSUME HeadlessInit PROVE HeadlessTypeOK
    OBVIOUS
  <2>1. startup \in BridgeTasks /\ bridge \in BridgeTasks
    BY DEF HeadlessInit, BridgeTask, BridgeTasks
  <2>2. presses \in 0 .. MaxPresses /\ pending \subseteq Signals
    BY HeadlessBounds DEF HeadlessInit
  <2> QED BY <2>1, <2>2 DEF HeadlessInit, HeadlessTypeOK
<1> QED BY <1>1, HeadlessTypeStep, PTL DEF HeadlessSpec

-----------------------------------------------------------------------------
(* Who may still end the process, stage by stage.                          *)

ToldOutcome(outcomeCode) ==
  \/ marker \in DOMAIN ExitCode /\ ExitCode[marker] = outcomeCode
  \/ "marker" \in trouble

\* The construction bridge is over when the run begins; what is recorded is
\* recorded with the stop of the run's bridge, so that no interrupt is heard
\* after it; from a failed construction and from a recorded run on, the marker
\* tells the code.
ExitSettled ==
  /\ stage \in {"running", "stopping"} => startup.state = "over"
  /\ recorded => stage \in {"stopping"} \union Ends
  /\ stage = "stopping" => bridge.stop \/ bridge.state = "over"
  /\ stage \in {"failed", "stopping"} => ToldOutcome(code)
  /\ stage \in {"entered", "constructing", "failed"} => bridge.state = "none"
  /\ MarkerTellsTheExit

LEMMA SettledStep ==
  ASSUME HeadlessTypeOK, ExitSettled, [HeadlessNext]_headlessVars
  PROVE  ExitSettled' /\ (recorded => marker' = marker /\ code' = code /\ saves' = saves)
<1> DEFINE Kept == recorded => marker' = marker /\ code' = code /\ saves' = saves
<1> USE ExitCodes DEF ExitSettled, ToldOutcome, MarkerTellsTheExit, Alive, Ends, Polled
<1>1. ASSUME NEW s \in Signals, Press(s) PROVE ExitSettled' /\ Kept
  BY <1>1 DEF Press
<1>2. CASE Broadcast
  <2>1. /\ startup'.state = startup.state
        /\ bridge'.state = bridge.state /\ bridge'.stop = bridge.stop
    BY <1>2 DEF Broadcast, Hearing, HeadlessTypeOK, BridgeTasks
  <2> QED BY <1>2, <2>1 DEF Broadcast
<1>3. CASE WindowPasses
  BY <1>3 DEF WindowPasses
<1>4. CASE StartupStops
  BY <1>4 DEF StartupStops, BridgeTask
<1>5. CASE StartupInterrupted
  BY <1>5 DEF StartupInterrupted, WriteMarker
<1>6. CASE BridgeStops
  BY <1>6 DEF BridgeStops, BridgeTask
<1>7. ASSUME NEW s \in Signals, BridgeCancels(s) PROVE ExitSettled' /\ Kept
  <2>1. bridge'.state = bridge.state /\ bridge'.stop = bridge.stop
    BY <1>7 DEF BridgeCancels, HeadlessTypeOK, BridgeTasks
  <2> QED BY <1>7, <2>1 DEF BridgeCancels
<1>8. ASSUME NEW s \in Signals, BridgeForces(s) PROVE ExitSettled' /\ Kept
  <2>1. ~recorded
    BY <1>8 DEF BridgeForces, BridgeHears
  <2>2. WriteMarker("forced cancel")
    BY <1>8, <2>1 DEF BridgeForces
  <2> QED BY <1>8, <2>1, <2>2 DEF BridgeForces, BridgeHears, WriteMarker
<1>9. CASE BridgeRearms
  BY <1>9 DEF BridgeRearms
<1>10. CASE ClearsStale
  BY <1>10 DEF ClearsStale
<1>11. CASE CannotClear
  <2>1. PICK lost \in SUBSET {"overwrite", "marker"} :
          /\ trouble' = trouble \union {"clear"} \union lost
          /\ marker' = IF lost = {"overwrite", "marker"} THEN marker ELSE "construction failure"
    BY <1>11 DEF CannotClear
  <2>2. ToldOutcome(code)'
    <3>1. CASE "marker" \in lost
      BY <2>1, <3>1
    <3>2. CASE "marker" \notin lost
      <4>1. marker' = "construction failure"
        BY <2>1, <3>2
      <4> QED BY <1>11, <4>1 DEF CannotClear
    <3> QED BY <3>1, <3>2
  <2>3. stage = "entered" /\ bridge' = bridge /\ stage' = "failed" /\ recorded' = recorded /\ ~recorded
    BY <1>11 DEF CannotClear
  <2> QED BY <2>2, <2>3
<1>12. CASE ConstructionFails
  BY <1>12 DEF ConstructionFails, FailsConstruction, WriteMarker
<1>13. CASE RunConstructed
  BY <1>13 DEF RunConstructed
<1>14. CASE FailureReturns
  BY <1>14 DEF FailureReturns
<1>15. CASE RunBegins
  BY <1>15 DEF RunBegins
<1>16. ASSUME NEW outcome \in Outcomes, RunResolves(outcome) PROVE ExitSettled' /\ Kept
  <2>1. bridge'.stop
    BY <1>16 DEF RunResolves, HeadlessTypeOK, BridgeTasks
  <2>2. ToldOutcome(code)'
    BY <1>16 DEF RunResolves
  <2> QED BY <1>16, <2>1, <2>2 DEF RunResolves
<1>17. CASE RunReturns
  BY <1>17 DEF RunReturns
<1>18. CASE UNCHANGED headlessVars
  BY <1>18 DEF headlessVars
<1> QED BY <1>1, <1>2, <1>3, <1>4, <1>5, <1>6, <1>7, <1>8, <1>9, <1>10, <1>11, <1>12, <1>13,
           <1>14, <1>15, <1>16, <1>17, <1>18 DEF HeadlessNext, HeadlessOver

LEMMA SettledHolds == HeadlessSpec => []ExitSettled
<1>1. HeadlessInit => ExitSettled
  BY DEF HeadlessInit, ExitSettled, BridgeTask, MarkerTellsTheExit, Alive, Ends, ToldOutcome
<1> QED BY <1>1, HeadlessTypes, SettledStep, PTL DEF HeadlessSpec

\* However the process ends, the done-file agrees with the exit code, unless a
\* write of the marker failed.
THEOREM TheMarkerTellsTheExit == HeadlessSpec => []MarkerTellsTheExit
<1>1. ExitSettled => MarkerTellsTheExit
  BY DEF ExitSettled
<1> QED BY <1>1, SettledHolds, PTL

\* No interrupt, however late, replaces a recorded outcome.
THEOREM TheOutcomeStands == HeadlessSpec => OutcomeStands
<1>1. HeadlessTypeOK /\ ExitSettled /\ [HeadlessNext]_headlessVars
        => [recorded => marker' = marker /\ code' = code /\ saves' = saves]_headlessVars
  BY SettledStep
<1> QED BY <1>1, HeadlessTypes, SettledHolds, PTL DEF HeadlessSpec, OutcomeStands

-----------------------------------------------------------------------------
(* The components side by side.  A step of one leaves the others' state    *)
(* alone: there is nothing they share.                                     *)

toolsVars == <<scene, jobsVars, approvalVars, headlessVars, planVars, nudgeVars, lspVars>>

LEMMA StepsApart ==
  ASSUME [ToolsNext]_toolsVars
  PROVE  /\ [JobsNext]_jobsVars
         /\ [ApprovalsNext]_approvalVars
         /\ [HeadlessNext]_headlessVars
         /\ [PlanNext]_planVars
         /\ [NudgeNext]_nudgeVars
         /\ [LspNext]_lspVars
<1>1. CASE UNCHANGED toolsVars
  BY <1>1 DEF toolsVars
<1>2. CASE Only("jobs") /\ JobsNext
  BY <1>2 DEF Only
<1>3. CASE Only("approvals") /\ ApprovalsNext
  BY <1>3 DEF Only
<1>4. CASE Only("headless") /\ HeadlessNext
  BY <1>4 DEF Only
<1>5. CASE Only("plan") /\ PlanNext
  BY <1>5 DEF Only
<1>6. CASE Only("nudge") /\ NudgeNext
  BY <1>6 DEF Only
<1>7. CASE Only("lsp") /\ LspNext
  BY <1>7 DEF Only
<1> QED BY <1>1, <1>2, <1>3, <1>4, <1>5, <1>6, <1>7 DEF ToolsNext

\* Each component, in whatever company, behaves by its own specification: the
\* jobs, the questions, the headless process, the plan, the reminders and the
\* language server of one program (main.rs, tui.rs) do not disturb one another.
THEOREM EachByItself ==
  ToolsSpec => /\ JobsSpec /\ ApprovalsSpec /\ HeadlessSpec
               /\ PlanSpec /\ NudgeSpec /\ LspSpec
<1>1. ToolsInit => /\ JobsInit /\ ApprovalsInit /\ HeadlessInit
                   /\ PlanInit /\ NudgeInit /\ LspInit
  BY DEF ToolsInit
<1>2. [ToolsNext]_<<scene, jobsVars, approvalVars, headlessVars, planVars, nudgeVars, lspVars>>
        => /\ [JobsNext]_jobsVars /\ [ApprovalsNext]_approvalVars
           /\ [HeadlessNext]_headlessVars /\ [PlanNext]_planVars
           /\ [NudgeNext]_nudgeVars /\ [LspNext]_lspVars
  BY StepsApart DEF toolsVars
<1> QED BY <1>1, <1>2, PTL
        DEF ToolsSpec, JobsSpec, ApprovalsSpec, HeadlessSpec, PlanSpec, NudgeSpec, LspSpec

\* The types hold in every state of every scene.
THEOREM ToolsTypes == ToolsSpec => []ToolsTypeOK
<1>1. ASSUME JobsTypeOK, ApprovalsTypeOK, HeadlessTypeOK, PlanTypeOK, NudgeTypeOK, LspTypeOK,
             scene \in Scenes
      PROVE  ToolsTypeOK
  <2> USE <1>1
  <2>1. CASE scene = "jobs"
    BY <2>1 DEF ToolsTypeOK
  <2>2. CASE scene = "approvals"
    BY <2>2 DEF ToolsTypeOK
  <2>3. CASE scene = "headless"
    BY <2>3 DEF ToolsTypeOK
  <2>4. CASE scene = "plan"
    BY <2>4 DEF ToolsTypeOK
  <2>5. CASE scene = "nudge"
    BY <2>5 DEF ToolsTypeOK
  <2>6. CASE scene = "lsp"
    BY <2>6 DEF ToolsTypeOK
  <2> QED BY <2>1, <2>2, <2>3, <2>4, <2>5, <2>6 DEF Scenes
<1>2. ToolsSpec => [](scene \in Scenes)
  <2>1. ToolsInit => scene \in Scenes
    BY DEF ToolsInit
  <2>2. scene \in Scenes
          /\ [ToolsNext]_<<scene, jobsVars, approvalVars, headlessVars, planVars, nudgeVars, lspVars>>
          => (scene \in Scenes)'
    BY DEF ToolsNext, Only
  <2> QED BY <2>1, <2>2, PTL DEF ToolsSpec
<1> QED BY <1>1, <1>2, EachByItself, JobTypes, ApprovalTypes, HeadlessTypes, PlanTypes,
           ReminderTypes, LspTypesHold, PTL

\* The properties proved of each component hold of the components together:
\* nothing one of them does disturbs what another promises.
THEOREM TheToolsKeepTheirPromises ==
  ToolsSpec => /\ [](/\ PollsTellTheJob /\ ReportsAreTrue /\ WaitsCanEnd
                    /\ MarkerTellsTheExit /\ SectionTellsThePlan
                    /\ RemindersKeepTheirPace /\ AnswersAreOnesOwn)
               /\ EvictedOnlyForNewer /\ GuardsKillWhatIsCut
               /\ TheShownQuestionStays /\ OutcomeStands
               /\ PlanMovesByRungs /\ SwitchKeepsTheWork
BY EachByItself, ThePollsTellTheJob, TheReportsAreTrue, EveryWaitCanEnd, TheMarkerTellsTheExit,
   TheSectionTells, RemindersPace, EachHearsItsOwn, EvictionsMakeRoom, TheGuardsKill,
   TheShownOneStays, TheOutcomeStands, ThePlanMovesByRungs, TheSwitchKeepsTheWork, PTL
=============================================================================
