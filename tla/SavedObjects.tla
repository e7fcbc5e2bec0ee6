----------------------------- MODULE SavedObjects -----------------------------
(* The dashboard tools (tools/dashboard): each reads saved objects of the      *)
(* dashboards server, proposes a change and, run again with the approval, does *)
(* the same reading again and writes the objects one request at a time.  The   *)
(* server checks nothing that one object says of another.                      *)
EXTENDS DashboardPlans, FiniteSets, FiniteSetsExt

CONSTANTS
  Job,          \* calls of the tools, each with the proposal it makes
  Tool,         \* the tools they call
  Title,        \* the titles asked for, equal when normalized
  Picks,        \* the panels a planning model may pick
  Asked,        \* the filters it may ask for
  VisStates,    \* the aggregations a call may bring
  ThreatPanels, \* the panels of the threat dashboard
  FirstObjects, \* what the server may start with
  Page,         \* the most dashboards a listing returns
  MaxFaults,    \* bounds the requests that fail
  MaxRemovals   \* bounds what the operator removes in the server's own interface

VARIABLES
  objects,  \* the saved objects, by id
  lastId,   \* the last id the server gave
  job,      \* where each call is
  faults,   \* requests that failed
  removed,  \* objects the operator removed
  touched   \* dashboards a tool deleted or gave other panels

objectVars == <<objects, lastId, job, faults, removed, touched>>

None == 0
Convention == 1   \* the id the alerts pattern has by convention

ASSUME JobAssumption == None \notin Job

ASSUME ToolAssumption ==
  Tool \subseteq {"design", "threat", "assemble", "visual", "update", "delete"}

(* No tool made what the server starts with.  Nothing says that it renders:    *)
(* visualizations of an earlier engine, or made by hand, may be broken in the  *)
(* ways osd_objects.py lists, and may refer to patterns that are gone.         *)
ASSUME FirstObjectsAssumption ==
  \A first \in FirstObjects :
    /\ DOMAIN first \subseteq Nat \ {None}
    /\ \E last \in DOMAIN first : \A id \in DOMAIN first : id <= last
    /\ \A id \in DOMAIN first :
         /\ {"kind", "title", "by"} \subseteq DOMAIN first[id] /\ first[id].by = None
         /\ first[id].kind \in {"index-pattern", "visualization", "dashboard"}
         /\ first[id].kind = "dashboard" => "refs" \in DOMAIN first[id]

NewJob ==
  [tool |-> Blank, pc |-> "idle", approved |-> FALSE, title |-> Blank, intent |-> FALSE,
   plan |-> <<>>, scope |-> {}, shown |-> <<>>, aggs |-> <<>>, pattern |-> None,
   ids |-> <<>>, target |-> None, dash |-> None, seen |-> {}, blind |-> FALSE,
   issues |-> FALSE, result |-> Blank]

Exists(id, kind) == id \in DOMAIN objects /\ objects[id].kind = kind
Ids(kind) == {id \in DOMAIN objects : objects[id].kind = kind}
Titled(kind, title) == {id \in Ids(kind) : objects[id].title = title}

Resolves(vis) ==
  /\ Exists(vis, "visualization")
  /\ \A i \in 1..Len(objects[vis].refs) : Exists(objects[vis].refs[i], "index-pattern")

Init ==
  /\ objects \in FirstObjects
  /\ lastId = Max(DOMAIN objects)
  /\ job = [j \in Job |-> NewJob]
  /\ faults = 0
  /\ removed = {}
  /\ touched = {}

-----------------------------------------------------------------------------
(* A request is answered, refused, or carried out although its answer is lost; *)
(* the last two are one ToolError to the tool.  A reading request fails        *)
(* without effect.                                                             *)
Answered == faults' = faults
Fails == faults < MaxFaults /\ faults' = faults + 1

Keep == UNCHANGED <<objects, lastId, removed, touched>>
Write == UNCHANGED <<removed, touched>>

Goes(j, pc) == job' = [job EXCEPT ![j].pc = pc]
Ended(j, result) == [job[j] EXCEPT !.pc = "done", !.result = result]
Ends(j, result) == job' = [job EXCEPT ![j] = Ended(j, result)]

Stored(object) ==
  /\ objects' = [id \in DOMAIN objects \cup {lastId + 1} |->
                    IF id = lastId + 1 THEN object ELSE objects[id]]
  /\ lastId' = lastId + 1

NotStored == UNCHANGED <<objects, lastId>>

(* A run that fails on the way reports so, whatever it has created by then.    *)
OnErrorPartlyDone(j) == IF job[j].ids = <<>> THEN "failed" ELSE "executed_with_issues"

OnError(j) == "failed"

(* A request that creates an object: what the call does with the id it got,    *)
(* or that it fails, whether or not the object is there now.                   *)
Creates(j, object, next) ==
  \/ Answered /\ Stored(object) /\ job' = [job EXCEPT ![j] = next]
  \/ Fails /\ (Stored(object) \/ NotStored) /\ Ends(j, OnError(j))

At(j, pc) == job[j].pc = pc

-----------------------------------------------------------------------------
(* The run of a tool up to the proposal, and again for the execution.          *)
FirstStep(tool) ==
  CASE tool \in {"design", "threat", "assemble"} -> "title"
    [] tool = "visual" -> "bind"
    [] tool = "update" -> "resolve"
    [] tool = "delete" -> "submit"

Ask(j) ==
  /\ At(j, "idle")
  /\ \E tool \in Tool, title \in Title \cup {Blank}, intent \in BOOLEAN, aggs \in VisStates,
        id \in 1..lastId, target \in Ids("dashboard") \cup {None} :
       /\ (intent => tool = "design")
       /\ (title = Blank => tool = "update")
       /\ (tool # "visual" => aggs = CHOOSE a \in VisStates : TRUE)
       /\ (tool \notin {"assemble", "update"} => id = Convention)
       /\ (tool \in {"update", "delete"} <=> target # None)
       /\ job' = [job EXCEPT ![j] = [NewJob EXCEPT
            !.tool = tool, !.pc = FirstStep(tool), !.title = title, !.intent = intent,
            !.aggs = aggs, !.ids = IF tool \in {"assemble", "update"} THEN <<id>> ELSE <<>>,
            !.target = target]]
  /\ UNCHANGED faults /\ Keep

(* duplicate_veto, which stands down when an approved proposal is run.         *)
DuplicateAmongMany(listed, title) ==
  Cardinality(listed) > 1 /\ \E id \in listed : objects[id].title = title

Duplicate(listed, title) == \E id \in listed : objects[id].title = title

StandsDownBefore(j) == ~job[j].approved

StandsDown(j) == job[j].approved

AfterTitle(j) ==
  CASE job[j].tool = "design" -> "plan"
    [] job[j].tool = "threat" -> "bind"
    [] job[j].tool = "assemble" -> "resolve"

CheckTitle(j) ==
  /\ At(j, "title") /\ Keep
  /\ \/ StandsDown(j) /\ Goes(j, AfterTitle(j)) /\ Answered
     \/ /\ ~StandsDown(j) /\ Fails
        /\ job' = [job EXCEPT ![j].pc = AfterTitle(j), ![j].blind = TRUE]
     \/ /\ ~StandsDown(j) /\ Answered
        /\ \E listed \in SUBSET Ids("dashboard") :
             /\ Cardinality(listed) = Min({Page, Cardinality(Ids("dashboard"))})
             /\ job' = [job EXCEPT ![j] =
                  IF Duplicate(listed, job[j].title) THEN Ended(j, "vetoed")
                  ELSE [@ EXCEPT !.pc = AfterTitle(j), !.seen = Ids("dashboard"),
                                 !.blind = listed # Ids("dashboard")]]

(* The schema is read first.  A request with an intent is then planned by the  *)
(* model, each time it is run; one without takes the fixed plan.               *)
Plan(j) ==
  /\ At(j, "plan") /\ Keep
  /\ \/ Fails /\ Ends(j, "failed")
     \/ ~job[j].intent /\ Answered
        /\ job' = [job EXCEPT ![j].pc = "bind", ![j].plan = PanelPlan]
     \/ /\ job[j].intent /\ Answered
        /\ \E picks \in Picks, asked \in Asked :
             job' = [job EXCEPT ![j] =
               IF Plannable(asked)
               THEN [@ EXCEPT !.pc = "bind", !.plan = PlanPanels(picks),
                              !.scope = PlanFilters(asked)]
               ELSE Ended(j, "failed")]

(* The index pattern: the first on the server's list with "alerts" in its id   *)
(* or title, which the combined pattern of the threat dashboard has too, else  *)
(* the first that is otherwise Wazuh's.  The order of the list is the          *)
(* server's.  A design falls back to the id by convention; a single            *)
(* visualization needs a pattern that is there.                                *)
PatternsTitled(titles) == {id \in Ids("index-pattern") : objects[id].title \in titles}

FindIndexPattern(found) ==
  LET alerts == PatternsTitled({"alerts", "threat"})
      listed == IF alerts # {} THEN alerts ELSE PatternsTitled({"wazuh"})
  IN  IF found /\ listed # {} THEN listed ELSE {None}

Bind(j) ==
  /\ At(j, "bind") /\ Keep /\ job[j].tool # "threat"
  /\ \E found \in BOOLEAN : \E id \in FindIndexPattern(found) :
       /\ IF found THEN Answered ELSE Fails
       /\ IF job[j].tool = "design"
          THEN job' = [job EXCEPT ![j].pc = "submit",
                                  ![j].pattern = IF id = None THEN Convention ELSE id]
          ELSE IF id = None THEN Ends(j, "failed")
          ELSE job' = [job EXCEPT ![j].pc = "submit", ![j].pattern = id]

(* ensure_index_pattern: listed, and created when it is not there.  The        *)
(* references take its id.                                                     *)
ThreatReference(id) == id

EnsureIndexPattern(j) ==
  /\ At(j, "bind") /\ Keep /\ job[j].tool = "threat"
  /\ \/ Fails /\ Ends(j, "failed")
     \/ /\ Answered /\ Titled("index-pattern", "threat") = {}
        /\ Goes(j, "make pattern")
     \/ /\ Answered
        /\ \E id \in Titled("index-pattern", "threat") :
             job' = [job EXCEPT ![j].pc = "submit", ![j].plan = ThreatPanels,
                                ![j].pattern = ThreatReference(id)]

MakePattern(j) ==
  /\ At(j, "make pattern") /\ Write
  /\ Creates(j, Pattern("threat", FALSE, {}, j),
             [job[j] EXCEPT !.pc = "submit", !.plan = ThreatPanels,
                            !.pattern = ThreatReference(lastId + 1)])

(* _require_visualizations, and for an update the dashboard itself.            *)
FoundOfAnyKind(id) == id \in DOMAIN objects

Found(id) == Exists(id, "visualization")

TitleOf(j) == IF job[j].title = Blank THEN objects[job[j].target].title ELSE job[j].title

Resolve(j) ==
  /\ At(j, "resolve") /\ Keep
  /\ \/ Fails /\ Ends(j, "failed")
     \/ /\ Answered
        /\ IF /\ \A i \in 1..Len(job[j].ids) : Found(job[j].ids[i])
              /\ (job[j].tool = "update" => Exists(job[j].target, "dashboard"))
           THEN job' = [job EXCEPT ![j].pc = "submit", ![j].title = TitleOf(j)]
           ELSE Ends(j, "failed")

(* approve_or_raise: without an approval the run ends in a proposal.           *)
FirstWrite(tool) ==
  CASE tool = "design" -> "check" [] tool \in {"threat", "visual"} -> "visualizations"
    [] tool = "assemble" -> "dashboard" [] tool = "update" -> "put" [] tool = "delete" -> "delete"

Submit(j) ==
  /\ At(j, "submit")
  /\ job' = [job EXCEPT ![j] =
       IF @.approved THEN [@ EXCEPT !.pc = FirstWrite(job[j].tool)]
       ELSE [@ EXCEPT !.pc = "pending", !.shown = job[j].plan]]
  /\ UNCHANGED faults /\ Keep

Decide(j) ==
  /\ At(j, "pending")
  /\ \/ Ends(j, "rejected")
     \/ job' = [job EXCEPT ![j].approved = TRUE, ![j].pc = FirstStep(job[j].tool)]
  /\ UNCHANGED faults /\ Keep

-----------------------------------------------------------------------------
(* The execution.                                                              *)
AggsOf(j, panel) == IF job[j].tool = "visual" THEN job[j].aggs ELSE PanelAggs(panel)
Panels(j) == IF job[j].tool = "visual" THEN <<"own">> ELSE job[j].plan

CheckPattern(j) ==
  /\ At(j, "check") /\ Keep
  /\ \/ Fails /\ Ends(j, "failed")
     \/ /\ Answered
        /\ IF /\ Exists(job[j].pattern, "index-pattern")
              /\ \A i \in 1..Len(job[j].plan) :
                   FieldsKnown(PanelAggs(job[j].plan[i]), objects[job[j].pattern])
           THEN Goes(j, "visualizations")
           ELSE Ends(j, "failed")

(* The visualizations are created in the order of the panels, and the ids the  *)
(* server gave them become the panels of the dashboard.                        *)
CreatedKeepingDesignIds(j) ==
  LET made == [job[j] EXCEPT !.ids = Append(@, Len(@) + 1)]
  IN  IF Len(made.ids) < Len(Panels(j)) THEN made
      ELSE IF made.tool = "visual" THEN [made EXCEPT !.pc = "done", !.result = "executed"]
      ELSE [made EXCEPT !.pc = "dashboard"]

Created(j) ==
  LET made == [job[j] EXCEPT !.ids = Append(@, lastId + 1)]
  IN  IF Len(made.ids) < Len(Panels(j)) THEN made
      ELSE IF made.tool = "visual" THEN [made EXCEPT !.pc = "done", !.result = "executed"]
      ELSE [made EXCEPT !.pc = "dashboard"]

CreateVisualization(j) ==
  /\ At(j, "visualizations") /\ Write
  /\ LET panel == Panels(j)[Len(job[j].ids) + 1]
     IN  Creates(j, Visualization(panel, AggsOf(j, panel), job[j].scope, job[j].pattern, j),
                 Created(j))

AfterDashboard(j) ==
  IF job[j].tool = "assemble" THEN [Ended(j, "executed") EXCEPT !.dash = lastId + 1]
  ELSE [job[j] EXCEPT !.pc = "read back", !.dash = lastId + 1]

CreateDashboard(j) ==
  /\ At(j, "dashboard") /\ Write
  /\ Creates(j, Dashboard(job[j].title, job[j].ids, j), AfterDashboard(j))

Verdict(issues) == IF issues THEN "executed_with_issues" ELSE "executed"

(* The dashboard is read back, and for the threat dashboard each visualization *)
(* and the pattern it refers to; what fails is an issue and no error.          *)
ReadBack(j) ==
  /\ At(j, "read back") /\ Keep
  /\ \E ok \in BOOLEAN :
       LET issues == ~(ok /\ Exists(job[j].dash, "dashboard")
                          /\ ValidateDashboard(objects[job[j].dash]))
       IN  /\ IF ok THEN Answered ELSE Fails
           /\ IF job[j].tool = "threat"
              THEN job' = [job EXCEPT ![j].pc = "references", ![j].issues = issues]
              ELSE Ends(j, Verdict(issues))

UnresolvedDataRefs(j) ==
  /\ At(j, "references") /\ Keep
  /\ \E ok \in BOOLEAN :
       LET issues == job[j].issues \/ ~ok \/ \E i \in 1..Len(job[j].ids) : ~Resolves(job[j].ids[i])
       IN  (IF ok THEN Answered ELSE Fails) /\ Ends(j, Verdict(issues))

(* A dashboard that went away since is not there to be changed.                *)
Touch(j) == touched' = touched \cup {job[j].target}

Refused(j) == Answered /\ Ends(j, "failed") /\ UNCHANGED <<objects, touched>>

PutDashboard(j) ==
  LET put == /\ objects' = [objects EXCEPT ![job[j].target] =
                              [@ EXCEPT !.title = job[j].title, !.refs = job[j].ids]]
             /\ Touch(j)
  IN  /\ At(j, "put") /\ UNCHANGED <<lastId, removed>>
      /\ \/ ~Exists(job[j].target, "dashboard") /\ Refused(j)
         \/ Exists(job[j].target, "dashboard") /\ Answered /\ put /\ Ends(j, "executed")
         \/ /\ Exists(job[j].target, "dashboard") /\ Fails /\ Ends(j, "failed")
            /\ (put \/ UNCHANGED <<objects, touched>>)

(* Only the dashboard goes; its visualizations stay.                           *)
GoneWithPanels(id) == {id} \cup ToSet(objects[id].refs)

Gone(id) == {id}

Without(ids) == [id \in DOMAIN objects \ ids |-> objects[id]]

DeleteDashboard(j) ==
  LET delete == objects' = Without(Gone(job[j].target)) /\ Touch(j)
  IN  /\ At(j, "delete") /\ UNCHANGED <<lastId, removed>>
      /\ \/ ~Exists(job[j].target, "dashboard") /\ Refused(j)
         \/ Exists(job[j].target, "dashboard") /\ Answered /\ delete /\ Ends(j, "executed")
         \/ /\ Exists(job[j].target, "dashboard") /\ Fails /\ Ends(j, "failed")
            /\ (delete \/ UNCHANGED <<objects, touched>>)

(* The operator removes an object in the server's own interface.               *)
RemoveByHand ==
  /\ Cardinality(removed) < MaxRemovals
  /\ \E id \in DOMAIN objects :
       /\ objects' = Without({id})
       /\ removed' = removed \cup {id}
       /\ touched' = IF objects[id].kind = "dashboard" THEN touched \cup {id} ELSE touched
  /\ UNCHANGED <<lastId, job, faults>>

Step(j) ==
  \/ Ask(j) \/ CheckTitle(j) \/ Plan(j) \/ Bind(j) \/ EnsureIndexPattern(j) \/ MakePattern(j)
  \/ Resolve(j) \/ Submit(j) \/ Decide(j) \/ CheckPattern(j) \/ CreateVisualization(j)
  \/ CreateDashboard(j) \/ ReadBack(j) \/ UnresolvedDataRefs(j) \/ PutDashboard(j)
  \/ DeleteDashboard(j)

Next == RemoveByHand \/ \E j \in Job : Step(j)

ObjectsSpec == Init /\ [][Next]_objectVars

-----------------------------------------------------------------------------
(* VerifyWazuhDashboard: what it finds broken in a dashboard.                  *)
Renders(id) ==
  /\ ValidateDashboard(objects[id])
  /\ \A i \in 1..Len(objects[id].refs) :
       LET vis == objects[id].refs[i] IN Resolves(vis) /\ ValidateVisualization(objects[vis])

(* As long as the operator removes nothing by hand, a dashboard that a tool    *)
(* created or gave its panels shows visualizations that are there, and those   *)
(* that a tool made render, for every order of runs that design, assemble,     *)
(* change and delete dashboards sharing visualizations.  Nothing is said of    *)
(* what a visualization made elsewhere looks like (dashboards.py,              *)
(* _require_visualizations), nor of one whose aggregations came with a call of *)
(* create_wazuh_visualization, which are saved unchecked (visualizations.py).  *)
Unchecked(vis) == objects[vis].by # None /\ job[objects[vis].by].tool = "visual"

ToolBuilt(id) == objects[id].by # None \/ id \in touched

BuiltDashboardsRender ==
  removed = {} =>
    \A id \in Ids("dashboard") :
      ToolBuilt(id) =>
        /\ ValidateDashboard(objects[id])
        /\ \A i \in 1..Len(objects[id].refs) :
             LET vis == objects[id].refs[i]
             IN  /\ Exists(vis, "visualization")
                 /\ \/ objects[vis].by = None \/ Unchecked(vis)
                    \/ Resolves(vis) /\ ValidateVisualization(objects[vis])

(* "Create/Update write RENDERABLE objects" (dashboards.py:5-7): every such    *)
(* dashboard renders as a whole.                                               *)
CreatedDashboardsRender ==
  removed = {} => \A id \in Ids("dashboard") : ToolBuilt(id) => Renders(id)

(* A visualization on no dashboard is explained: its run is still at work, or  *)
(* has reported a failure, or was to create just that, or a dashboard was      *)
(* deleted or given other panels.  A run that reports a dashboard leaves       *)
(* nothing else behind (engine.py).                                            *)
OrphansAreExplained ==
  \A vis \in Ids("visualization") :
    \/ objects[vis].by = None
    \/ \E id \in Ids("dashboard") : vis \in ToSet(objects[id].refs)
    \/ LET by == job[objects[vis].by]
       IN  by.pc # "done" \/ by.result = "failed" \/ by.tool = "visual" \/ by.dash \in touched

(* Two dashboards of the same title come from runs of which neither could see  *)
(* the dashboard of the other when it was proposed, unless a listing failed or *)
(* was cut, or an update renamed one (preview.py, duplicate_veto); and no      *)
(* approved proposal is lost to the veto.                                      *)
TwinsOverlapped ==
  /\ \A j \in Job : job[j].result = "vetoed" => ~job[j].approved
  /\ \A a, b \in Job :
       ( /\ a # b /\ {job[a].dash, job[b].dash} \subseteq DOMAIN objects \ touched
         /\ objects[job[a].dash].title = objects[job[b].dash].title )
       => (job[a].blind \/ job[b].dash \notin job[a].seen)

(* What the approver was shown is what an execution builds: "executes          *)
(* deterministically" (engine.py).                                             *)
BuiltAsApproved ==
  \A j \in Job : job[j].result = "executed" => job[j].plan = job[j].shown
=============================================================================
