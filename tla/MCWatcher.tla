------------------------------ MODULE MCWatcher ------------------------------
(***************************************************************************)
(* Small instances of Watcher for TLC.                                     *)
(***************************************************************************)
EXTENDS Watcher

CONSTANTS w1, w2, r1, r2

TwoPids == {w1, w2}
OneRequest == {r1}
TwoRequests == {r1, r2}

\* Two agents with directories of their own, and the legacy one.
NamedAgents == {"siem-1", "siem-2"}
OneNamed == {"siem-1"}
WithDefault == {"default", "siem-1"}

=============================================================================
