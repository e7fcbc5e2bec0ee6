---------------------------- MODULE Permissions ----------------------------
(***************************************************************************)
(* permissions.py: the permission level an action really needs, whatever   *)
(* its caller claimed, and whether an approved proposal needs an explicit  *)
(* confirmation before it may run.                                         *)
(*                                                                         *)
(* An action is abstracted to the class of its lower-cased name, decided   *)
(* in the order in which the code tests it:                                *)
(*   "empty"      the empty name;                                          *)
(*   "listed"     a name of CONFIRM_REQUIRED_ACTIONS (all of them also     *)
(*                carry a high-risk prefix);                               *)
(*   "high_risk"  any other name with a prefix of HIGH_RISK_ACTIONS;       *)
(*   "write"      a prefix of _WRITE_PREFIXES;                             *)
(*   "read"       a prefix of _READ_PREFIXES;                              *)
(*   "other"      everything else, such as propose_action's free text.     *)
(***************************************************************************)
EXTENDS Naturals

ActionClass == {"empty", "listed", "high_risk", "write", "read", "other"}

Level == {"read", "propose", "execute"}

IsHighRisk(a) == a \in {"listed", "high_risk"}

\* Variant: only the exact names of CONFIRM_REQUIRED_ACTIONS are escalated.
EffectiveLevelListedOnly(a, claimed) ==
    IF a \in {"empty", "listed"} THEN "execute" ELSE claimed

EffectiveLevel(a, claimed) ==
    IF a = "empty" \/ IsHighRisk(a) \/ claimed = "execute" THEN "execute"
    ELSE IF a = "read" /\ claimed = "read" THEN "read"
    ELSE "propose"

\* Variant: the level stored in the record is not consulted.
NeedsConfirmationByName(a, level) == a = "listed"

NeedsConfirmation(a, level) == level = "execute" \/ a = "listed"

=============================================================================
