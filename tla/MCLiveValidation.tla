---------------------------- MODULE MCLiveValidation ----------------------------
(* Instances of LiveValidation for TLC: the scenarios in the harness's own     *)
(* order, and the command lines that differ.                                   *)
EXTENDS LiveValidation

AllNames ==
  <<"env_baseline", "detection_ssh_rule", "streamed_ssh_alert", "investigation_ip",
    "investigation_web", "investigation_existing_alert", "security_tool_args",
    "security_query_safety", "security_approval_bypass", "security_prompt_injection",
    "dashboard_workflow", "detection_gaps">>

Line(auto, confirm, setup, cleanup, reset) ==
  [auto |-> auto, confirm |-> confirm, setup |-> setup, cleanup |-> cleanup, reset |-> reset]

CommandLines ==
  {Line(TRUE, TRUE, TRUE, TRUE, FALSE), Line(TRUE, TRUE, FALSE, FALSE, FALSE),
   Line(FALSE, FALSE, FALSE, TRUE, TRUE), Line(FALSE, TRUE, TRUE, TRUE, FALSE)}
=============================================================================
