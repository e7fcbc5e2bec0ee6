---------------------- MODULE ApprovalCenterRefinement ----------------------
(***************************************************************************)
(* The Approval Center, without the live-validation harness, implements    *)
(* OneShotGrant.                                                           *)
(***************************************************************************)
EXTENDS ApprovalCenter

\* Where a proposal of a given status stands as a grant.
PhaseOf(status) ==
    CASE status = "absent" -> "none"
      [] status = "pending" -> "asked"
      [] status = "approved" -> "granted"
      [] status = "executing" -> "in_use"
      [] status \in {"executed", "failed"} -> "spent"
      [] status \in {"rejected", "expired", "cancelled"} -> "void"

GrantPhase == [p \in Proposal |-> PhaseOf(store[p].status)]

Promise == INSTANCE OneShotGrant
               WITH Grant <- Proposal, phase <- GrantPhase, effects <- writes

\* The store, the executor and their races together behave like one-shot
\* grants: every step of theirs is a step of OneShotGrant or invisible there.
ImplementsOneShotGrant == Promise!Spec

=============================================================================
