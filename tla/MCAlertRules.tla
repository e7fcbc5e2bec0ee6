---------------------------- MODULE MCAlertRules ----------------------------
(* Instances of AlertRules: two writers, two sources, and definitions that    *)
(* exercise the threshold, the watchlist and both kinds of refused payload.   *)
EXTENDS AlertRules, TLC

CONSTANTS p1, p2

Rule(n, sevs, t, th, f) ==
  [name |-> n, sevs |-> sevs, table |-> t, threshold |-> th, enabled |-> TRUE, fault |-> f]

AnySev  == Rule("brute force", {"low", "high"}, NoTable, TRUE, "none")
HighSev == Rule("brute force", {"high"}, NoTable, TRUE, "none")
Listed  == Rule("watchlist", {"low", "high"}, "bad ips", TRUE, "none")
Off     == [AnySev EXCEPT !.enabled = FALSE]
Unnamed == Rule("", {"low"}, NoTable, FALSE, "rule_error")
BadWindow == Rule("soon", {"low"}, NoTable, TRUE, "value_error")

OneSource == {[src |-> "ip1", sev |-> "low"]}
TwoSevs   == {[src |-> "ip1", sev |-> "low"], [src |-> "ip1", sev |-> "high"]}

ImportBatches == {<<Unnamed, AnySev, Listed>>, <<AnySev, BadWindow, Listed>>}

Writers == Permutations({p1, p2})
(* Operations on different files commute: what can meet on a file is combined. *)
OpMixes == {{"evaluate", "crash"}, {"evaluate", "update", "delete"},
            {"import", "delete", "create", "crash"}, {"evaluate", "upsert", "remove"},
            {"upsert", "remove", "crash"}, {"connect", "disconnect", "crash"}}

SeedFiles == {{}, {[id |-> "r1", def |-> AnySev]}, {[id |-> "r1", def |-> Listed]}}

RuleDefs == {AnySev, HighSev, Listed, Off, Unnamed, BadWindow}
=============================================================================
