---------------------------- MODULE LiveScenarios ----------------------------
(* The scenarios of the live validation harness (live_validation/scenarios.py) *)
(* as scripts: what each step does to the manager, the dashboards server, the  *)
(* indexer or the approval store, and when the scenario returns early.  Which  *)
(* text a step looks at is left out: a step that only reads may pass or fail.  *)
EXTENDS Naturals, Sequences

Blank == ""  \* a text that is not there

(* A step does "op" with "arg"; the scenario returns after it "never", on an   *)
(* "error" (an exception) or on any "failure".                                 *)
Step(op, arg, stop) == [op |-> op, arg |-> arg, stop |-> stop]
Read == Step("read", Blank, "never")
Reads(n) == [i \in 1..n |-> Read]

EnvBaseline == <<Step("read", Blank, "error")>> \o Reads(5)

(* A candidate rule is proposed; with --auto-approve it is approved, deployed, *)
(* loaded by a restart of the manager and verified.                            *)
RestartSteps ==
  <<Step("propose", "restart", "failure"), Step("approve", Blank, "failure"),
    Step("execute", "restart", "failure"), Step("wait", Blank, "failure"),
    Step("wait", Blank, "failure")>>

DetectionSsh(auto) ==
  Reads(3) \o <<Step("propose", "rule", "failure"), Step("absent", "rule", "never")>>
  \o IF auto
     THEN <<Step("approve", Blank, "failure"), Step("execute", "rule", "failure")>> \o RestartSteps
          \o <<Step("loaded", "rule", "never"), Step("loaded", "rule", "never")>>
     ELSE <<Step("note", Blank, "never")>>

(* Malformed calls of the writing tools: some are refused, some end as a       *)
(* proposal; the harness keeps the id of neither.                              *)
SecurityToolArgs == <<Step("misuse", "rule", "never"), Step("misuse", "dashboard", "never")>>

SecurityQuerySafety == Reads(4)

StreamedSshAlert ==
  <<Read, Step("feed", Blank, "failure"), Step("observed", Blank, "failure")>> \o Reads(2)
  \o <<Step("purge", Blank, "never")>>

InvestigationIp == Reads(2)
InvestigationWeb == Reads(3)
InvestigationExistingAlert == <<Step("read", Blank, "failure"), Read>>

(* Writing tools called without approval must end as proposals and change      *)
(* nothing; then a deletion of the harness's own rule is approved and executed *)
(* without the confirmation, which must be refused.                            *)
SecurityApprovalBypass(probe) ==
  <<Step("bypass", "rule", "never"), Step("absent", "rule file", "never"),
    Step("bypass", "restart", "never"), Step("bypass", "delete rule", "never"), Read>>
  \o IF probe
     THEN <<Step("propose", "delete rule", "failure"), Step("approve", Blank, "failure"),
            Step("refused", "delete rule", "failure"), Step("loaded", "rule", "never")>>
     ELSE <<Step("note", Blank, "never")>>

SecurityPromptInjection == Reads(4)

(* Its proposal is approved and executed with and without --auto-approve.      *)
DashboardWorkflow ==
  Reads(2)
  \o <<Step("propose", "dashboard", "failure"), Step("absent", "dashboard", "never"),
       Step("approve", Blank, "failure"), Step("execute", "dashboard", "failure"),
       Step("served", "dashboard", "never"), Read>>

DetectionGaps == Reads(2)

ScenarioNames ==
  {"env_baseline", "detection_ssh_rule", "streamed_ssh_alert", "investigation_ip",
   "investigation_web", "investigation_existing_alert", "security_tool_args",
   "security_query_safety", "security_approval_bypass", "security_prompt_injection",
   "dashboard_workflow", "detection_gaps"}

Script(name, auto, probe) ==
  CASE name = "env_baseline" -> EnvBaseline
    [] name = "detection_ssh_rule" -> DetectionSsh(auto)
    [] name = "streamed_ssh_alert" -> StreamedSshAlert
    [] name = "investigation_ip" -> InvestigationIp
    [] name = "investigation_web" -> InvestigationWeb
    [] name = "investigation_existing_alert" -> InvestigationExistingAlert
    [] name = "security_tool_args" -> SecurityToolArgs
    [] name = "security_query_safety" -> SecurityQuerySafety
    [] name = "security_approval_bypass" -> SecurityApprovalBypass(probe)
    [] name = "security_prompt_injection" -> SecurityPromptInjection
    [] name = "dashboard_workflow" -> DashboardWorkflow
    [] name = "detection_gaps" -> DetectionGaps
=============================================================================
