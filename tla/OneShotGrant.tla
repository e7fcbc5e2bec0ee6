---------------------------- MODULE OneShotGrant ----------------------------
(***************************************************************************)
(* What the Approval Center promises, without votes, clocks, requests or   *)
(* files: a proposal is a permission that is asked for, granted at most    *)
(* once, revocable until somebody starts to use it, and good for one use   *)
(* whose effect takes place at most once.                                  *)
(***************************************************************************)
EXTENDS Naturals

CONSTANT Grant

VARIABLES
    phase,   \* where each grant stands
    effects  \* how often its effect took place

vars == <<phase, effects>>

Phase == {"none", "asked", "granted", "in_use", "spent", "void"}

TypeOK ==
    /\ phase \in [Grant -> Phase]
    /\ effects \in [Grant -> 0..1]

Init ==
    /\ phase = [g \in Grant |-> "none"]
    /\ effects = [g \in Grant |-> 0]

Move(g, from, to) ==
    /\ phase[g] = from
    /\ phase' = [phase EXCEPT ![g] = to]

Ask(g) == Move(g, "none", "asked") /\ UNCHANGED effects

Allow(g) == Move(g, "asked", "granted") /\ UNCHANGED effects

\* Any number of unused grants lapse or are withdrawn together.
Void(S) ==
    /\ \A g \in S : phase[g] \in {"asked", "granted"}
    /\ phase' = [g \in Grant |-> IF g \in S THEN "void" ELSE phase[g]]
    /\ UNCHANGED effects

Use(g) == Move(g, "granted", "in_use") /\ UNCHANGED effects

TakeEffect(g) ==
    /\ phase[g] = "in_use"
    /\ effects[g] = 0
    /\ effects' = [effects EXCEPT ![g] = 1]
    /\ UNCHANGED phase

Settle(g) == Move(g, "in_use", "spent") /\ UNCHANGED effects

Next ==
    \/ \E g \in Grant : Ask(g) \/ Allow(g) \/ Use(g) \/ TakeEffect(g) \/ Settle(g)
    \/ \E S \in SUBSET Grant : Void(S)

Spec == Init /\ [][Next]_vars

=============================================================================
