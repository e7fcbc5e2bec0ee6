-------------------------- MODULE MCApprovalCenter --------------------------
(***************************************************************************)
(* Small instances of ApprovalCenter for TLC.                              *)
(***************************************************************************)
EXTENDS ApprovalCenterRefinement

CONSTANTS p1, p2, e1, e2, h1

OneProposal == {p1}
TwoProposals == {p1, p2}
OneRequest == {e1}
TwoRequests == {e1, e2}
OneHarness == {h1}

\* alice and bob hold tokens; bob may also act on the CLI under his name.
TokenUsers == {"alice", "bob"}
CliUsers == {"bob"}
NoOne == {}
FormNames == {"dashboard-user"}

PlainOnly == {"write"}
PlainAndRisky == {"write", "high_risk"}

=============================================================================
