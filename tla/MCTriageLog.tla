----------------------------- MODULE MCTriageLog -----------------------------
(* Instances of LogViews, chosen at the start.  Deep: one alert, with room for *)
(* retries, a fallback, web searches and two turns.  Routed: one alert twice,  *)
(* as a connector without a cursor returns it, for the memory of families that *)
(* failed.  Grouped: three alerts for the cases.  Filed: two alerts, the       *)
(* rotations and the reviews of their entries.                                 *)
EXTENDS LogViews

Deep == [turns |-> 2, retries429 |-> 1, retries5xx |-> 1, fallback |-> TRUE, web |-> TRUE,
         polled |-> <<"a1">>, seconds |-> 0, reviews |-> 0]
Grouped == [turns |-> 1, retries429 |-> 0, retries5xx |-> 0, fallback |-> FALSE, web |-> FALSE,
            polled |-> <<"a1", "a2", "a3">>, seconds |-> 0, reviews |-> 0]
Filed == [Grouped EXCEPT !.polled = <<"a1", "a2">>, !.seconds = 1, !.reviews = 2]
Routed == [Grouped EXCEPT !.fallback = TRUE, !.polled = <<"a1", "a1">>]
Starts == {Deep, Routed, Grouped, Filed}

(* a1 and a2 share a host, a1 and a3 a user. *)
Hosts == [a1 |-> "h1", a2 |-> "h1", a3 |-> "h2"]
Users == [a1 |-> "u1", a2 |-> "", a3 |-> "u1"]
=============================================================================
