---------------------------- MODULE DashboardPlans ----------------------------
(* What goes into a dashboard: the panels and filters a plan keeps            *)
(* (tools/dashboard/planner.py, engine.py), and the visualization saved for a  *)
(* panel with the checks that tell whether it renders (osd_objects.py).        *)
EXTENDS Naturals, SequencesExt

CONSTANTS
  Schema,      \* the fields of the alerts index
  BasePanels,  \* the volume and trend panels every plan starts with
  Preset,      \* the panels of the fixed plan, in order
  Optional,    \* those of them that need their field in the schema
  Fallback,    \* the panels added to a plan that is too short
  MinPanels,   \* how many panels a plan needs to stand
  MaxPanels    \* and how many it may have

Blank == ""  \* a text that is not there

(* A panel is named by the field it breaks alerts down by; a base panel has no *)
(* field of the schema.                                                        *)
Cut(s) == SubSeq(s, 1, IF Len(s) < MaxPanels THEN Len(s) ELSE MaxPanels)

PanelPlan == Cut(SelectSeq(Preset, LAMBDA p : p \notin Optional \/ p \in Schema))

(* The model's filters and panels whose field the index does not have are      *)
(* dropped; a plan that lost all the filters it asked for is no plan.          *)
PlanFilters(asked) == asked \cap Schema
Plannable(asked) == asked = {} \/ PlanFilters(asked) # {}

Additions(panels, picks) ==
  SelectSeq(picks, LAMBDA p : p \in Schema /\ p \notin ToSet(panels))

PlanPanels(picks) ==
  LET picked == BasePanels \o Additions(BasePanels, picks)
  IN  Cut(IF Len(picked) < MinPanels THEN picked \o Additions(picked, Fallback) ELSE picked)

-----------------------------------------------------------------------------
(* An aggregation has an id, "" while it has none, a type and a field.         *)
Agg(id, type, field) == [id |-> id, type |-> type, field |-> field]

PanelAggs(panel) ==
  IF panel \in ToSet(BasePanels) THEN <<Agg("1", "count", Blank)>>
  ELSE <<Agg("1", "count", Blank), Agg("2", "terms", panel)>>

(* Only a missing id is filled in, from the position.                          *)
NormalizeAggs(aggs) ==
  [i \in 1..Len(aggs) |->
     [aggs[i] EXCEPT !.id = IF @ = Blank THEN "nth " \o ToString(i) ELSE @]]

AggFields(aggs) == {aggs[i].field : i \in 1..Len(aggs)} \ {Blank}

(* The defects of aggregations: a type left out, an id used twice, a field the *)
(* index pattern does not have, where it has a list of its fields.             *)
AggsRender(aggs) ==
  /\ \A i \in 1..Len(aggs) : aggs[i].type # Blank
  /\ \A i, k \in 1..Len(aggs) : i # k => aggs[i].id # aggs[k].id

FieldsKnown(aggs, pattern) == pattern.listed => AggFields(aggs) \subseteq pattern.fields

-----------------------------------------------------------------------------
(* The saved objects.  A visualization refers to one index pattern and a       *)
(* dashboard to the visualization of each panel, by id.                        *)
(* Every clause of a plan's filter, of whatever kind, becomes one filter.      *)
Filters(scope) == scope

Visualization(name, aggs, scope, pattern, by) ==
  [kind |-> "visualization", title |-> name, aggs |-> NormalizeAggs(aggs),
   scope |-> Filters(scope), refs |-> <<pattern>>, by |-> by]

BuildPanels(ids) == ids

Dashboard(title, ids, by) ==
  [kind |-> "dashboard", title |-> title, aggs |-> <<>>, scope |-> {},
   refs |-> BuildPanels(ids), by |-> by]

Pattern(title, listed, fields, by) ==
  [kind |-> "index-pattern", title |-> title, listed |-> listed, fields |-> fields, by |-> by]

ValidateVisualization(v) == v.refs # <<>> /\ AggsRender(v.aggs)
ValidateDashboard(d) == d.refs # <<>>
=============================================================================
