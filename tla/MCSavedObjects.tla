---------------------------- MODULE MCSavedObjects ----------------------------
(* Instances of SavedObjects for TLC: runs of the tools on two servers with a  *)
(* visualization, a dashboard and a pattern.  One has the alerts pattern and   *)
(* a visualization that renders; on the other the visualization refers to a    *)
(* pattern that is gone, and the list of fields of the one pattern that is     *)
(* there lags the index.                                                       *)
EXTENDS SavedObjects

AllTools == {"design", "threat", "assemble", "visual", "update", "delete"}
Designs == {"design"}
Assemblies == {"assemble"}

Base == <<"volume">>
FixedPlan == <<"volume", "ip", "level">>
Extras == <<"level">>
Threats == <<"volume", "cve">>

SomePicks == {<<>>, <<"ip", "geo">>}
SomeFilters == {{}, {"geo"}, {"ip", "geo"}}
SomeAggs == {<<Agg(Blank, "count", Blank), Agg(Blank, "terms", "ip")>>, <<Agg("1", "count", Blank), Agg("1", Blank, "ip")>>}

Old == 2 :> Visualization("old", <<Agg("1", "count", Blank)>>, {}, 1, None)
       @@ 3 :> Dashboard("own", <<2>>, None)

Servers == {1 :> Pattern("alerts", FALSE, {}, None) @@ Old,
            4 :> Pattern("wazuh", TRUE, {"ip"}, None) @@ Old}
=============================================================================
