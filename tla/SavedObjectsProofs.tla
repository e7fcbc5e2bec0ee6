-------------------------- MODULE SavedObjectsProofs --------------------------
(* Proofs about SavedObjects: dashboards that render, visualizations left on   *)
(* no dashboard, and dashboards of the same title.                             *)
EXTENDS SavedObjects, SequenceTheorems, TLAPS

Fields ==
  {"tool", "pc", "approved", "title", "intent", "plan", "scope", "shown", "aggs", "pattern",
   "ids", "target", "dash", "seen", "blind", "issues", "result"}

Planners == {"design", "threat", "assemble"}
Showing == {"assemble", "update"}
Before == {"idle", "title", "plan", "bind", "make pattern", "submit", "pending", "check"}
Built == {"read back", "references", "done"}

(* A call: which of its fields are in use at which step. *)
Placed(r) ==
  /\ DOMAIN r = Fields /\ r.ids \in Seq(Nat)
  /\ r.tool \in Planners \cup {Blank, "visual", "update", "delete"}
  /\ r.pc = "idle" <=> r.tool = Blank
  /\ r.pc = "title" => r.tool \in Planners
  /\ r.pc \in {"plan", "check"} => r.tool = "design"
  /\ r.pc = "bind" => r.tool \in {"design", "threat", "visual"}
  /\ r.pc \in {"make pattern", "references"} => r.tool = "threat"
  /\ r.pc = "resolve" => r.tool \in Showing
  /\ r.pc = "visualizations" => r.tool \in {"design", "threat", "visual"}
  /\ r.pc = "dashboard" => r.tool \in Planners /\ r.ids # <<>>
  /\ r.pc = "read back" => r.tool \in {"design", "threat"}
  /\ r.pc = "put" => r.tool = "update"
  /\ r.pc = "delete" => r.tool = "delete"
  /\ r.pc # "done" => r.result = Blank
  /\ r.result = "vetoed" => ~r.approved
  /\ r.tool \notin Planners => r.seen = {}
  /\ r.tool = "assemble" => r.title # Blank
  /\ r.tool \in Showing => r.ids # <<>>
  /\ r.tool \notin Showing /\ r.pc \in Before => r.ids = <<>>
  /\ r.dash # None => r.pc \in Built

Places == DOMAIN job = Job /\ \A j \in Job : Placed(job[j])

(* The objects. *)
Shaped ==
  /\ lastId \in Nat /\ DOMAIN objects \subseteq 1..lastId
  /\ \A id \in DOMAIN objects :
       /\ {"kind", "title", "by"} \subseteq DOMAIN objects[id]
       /\ objects[id].by \in Job \cup {None}
       /\ objects[id].kind = "dashboard" => "refs" \in DOMAIN objects[id]

(* What a step of a call leaves as it was in that call. *)
Moves(r, s) ==
  /\ r.pc = "idle" => s.seen = {} /\ s.dash = None /\ s.tool # Blank
  /\ r.pc # "idle" => s.tool = r.tool
  /\ r.pc \notin {"idle", "resolve"} => s.title = r.title
  /\ r.pc = "resolve" => s.title = r.title \/ r.tool = "update"
  /\ r.pc \notin {"idle", "title"} => s.seen = r.seen /\ s.blind = r.blind
  /\ r.pc \notin {"idle", "visualizations"} => s.ids = r.ids
  /\ r.pc # "dashboard" => s.dash = r.dash
  /\ r.pc \notin {"idle", "bind", "make pattern"} => s.pattern = r.pattern
  /\ s.pc = "submit" /\ s.tool \in Showing => r.pc = "resolve"
  /\ s.pc = "submit" /\ s.tool = "threat" => r.pc \in {"bind", "make pattern"}
  /\ s.pc = "visualizations" => r.pc \in {"submit", "check", "visualizations"}
  /\ s.pc = "visualizations" /\ s.tool = "design" => r.pc # "submit"
  /\ s.pc = "dashboard" => r.pc \in {"submit", "visualizations"}
  /\ s.pc = "put" => r.pc = "submit"

NewCall(tool, title, intent, aggs, id, target) ==
  [NewJob EXCEPT
     !.tool = tool, !.pc = FirstStep(tool), !.title = title, !.intent = intent,
     !.aggs = aggs, !.ids = IF tool \in {"assemble", "update"} THEN <<id>> ELSE <<>>,
     !.target = target]

LEMMA BlankIsNoName ==
  Blank \notin {"design", "threat", "assemble", "visual", "update", "delete",
               "failed", "rejected", "vetoed", "executed", "executed_with_issues"}
BY Zenon DEF Blank

LEMMA FirstSteps ==
  /\ \A tool \in Planners : FirstStep(tool) = "title"
  /\ FirstStep("visual") = "bind" /\ FirstStep("update") = "resolve" /\ FirstStep("delete") = "submit"
BY Zenon DEF FirstStep, Planners

LEMMA NewIsPlaced == Placed(NewJob)
BY BlankIsNoName DEF NewJob, Placed, Fields, Planners, Showing, Before, Built, None

Same(r, s, but) == DOMAIN s = Fields /\ \A f \in Fields \ but : s[f] = r[f]

LEMMA EndIsPlaced ==
  ASSUME NEW j, Placed(job[j]), job[j].pc # "idle", NEW result, result = "vetoed" => ~job[j].approved
  PROVE  Placed(Ended(j, result)) /\ Moves(job[j], Ended(j, result))
<1> DEFINE r == job[j]
           s == Ended(j, result)
<1>1. Same(r, s, {"pc", "result"}) /\ s.pc = "done" /\ s.result = result
  BY DEF Same, Fields, Ended, Placed
<1> HIDE DEF s
<1>2. /\ s.tool = r.tool /\ s.title = r.title /\ s.seen = r.seen /\ s.blind = r.blind
      /\ s.ids = r.ids /\ s.dash = r.dash /\ s.pattern = r.pattern /\ s.approved = r.approved
      /\ DOMAIN s = Fields
  BY <1>1 DEF Same, Fields
<1>3. Moves(r, s)
  BY <1>1, <1>2 DEF Moves
<1>4. Placed(s)
  BY <1>1, <1>2 DEF Placed, Before, Built
<1> QED
  BY <1>3, <1>4 DEF s

LEMMA AfterTitles ==
  ASSUME NEW j
  PROVE  /\ job[j].tool = "design" => AfterTitle(j) = "plan"
         /\ job[j].tool = "threat" => AfterTitle(j) = "bind"
         /\ job[j].tool = "assemble" => AfterTitle(j) = "resolve"
BY Zenon DEF AfterTitle

LEMMA FirstWrites ==
  /\ FirstWrite("design") = "check" /\ FirstWrite("threat") = "visualizations"
  /\ FirstWrite("visual") = "visualizations" /\ FirstWrite("assemble") = "dashboard"
  /\ FirstWrite("update") = "put" /\ FirstWrite("delete") = "delete"
BY Zenon DEF FirstWrite

LEMMA TitleKept == \A j \in Job : TitleOf(j) = job[j].title \/ job[j].title = Blank
BY DEF TitleOf

LEMMA MoveIsPlaced ==
  ASSUME Places, Shaped, NEW j \in Job, Step(j)
  PROVE  /\ DOMAIN job' = Job /\ \A k \in Job \ {j} : job'[k] = job[k]
         /\ Placed(job'[j]) /\ Moves(job[j], job'[j])
<1> DEFINE r == job[j]
           Good(s) == Placed(s) /\ Moves(r, s)
<1>1. Placed(r) /\ DOMAIN job = Job
  BY DEF Places
<1>2. ASSUME NEW s, job' = [job EXCEPT ![j] = s], Good(s)
      PROVE  /\ DOMAIN job' = Job /\ \A k \in Job \ {j} : job'[k] = job[k]
             /\ Placed(job'[j]) /\ Moves(job[j], job'[j])
  BY <1>1, <1>2
<1>3. CASE Ask(j)
  <2>0. PICK tool \in Tool, title \in Title \cup {Blank}, intent \in BOOLEAN, aggs \in VisStates,
             id \in 1..lastId, target \in Ids("dashboard") \cup {None} :
          /\ (intent => tool = "design")
          /\ (title = Blank => tool = "update")
          /\ (tool # "visual" => aggs = CHOOSE a \in VisStates : TRUE)
          /\ (tool \notin {"assemble", "update"} => id = Convention)
          /\ (tool \in {"update", "delete"} <=> target # None)
          /\ job' = [job EXCEPT ![j] = NewCall(tool, title, intent, aggs, id, target)]
    BY <1>3, Zenon DEF Ask, NewCall
  <2>1. id \in 1..lastId /\ tool \in Tool /\ (title = Blank => tool = "update")
    BY <2>0, Zenon
  <2> DEFINE s == NewCall(tool, title, intent, aggs, id, target)
  <2>2. tool \in {"design", "threat", "assemble", "visual", "update", "delete"}
    BY <2>1, ToolAssumption
  <2>3. /\ DOMAIN s = Fields /\ s.tool = tool /\ s.pc = FirstStep(tool) /\ s.title = title
        /\ s.ids = (IF tool \in {"assemble", "update"} THEN <<id>> ELSE <<>>) /\ s.result = Blank /\ s.seen = {}
        /\ s.dash = None
    BY DEF NewCall, NewJob, Fields
  <2>4. s.ids \in Seq(Nat) /\ (tool \in Showing => s.ids # <<>>) /\ (tool \notin Showing => s.ids = <<>>)
    <3>1. id \in Nat
      BY <2>1 DEF Shaped
    <3>2. <<id>> \in Seq(Nat) /\ <<id>> # <<>>
      BY <3>1
    <3> QED
      BY <2>3, <3>2 DEF Showing
  <2> HIDE DEF s
  <2>5. r.pc = "idle"
    BY <1>3 DEF Ask, At
  <2>6. Moves(r, s)
    BY <1>1, <2>2, <2>3, <2>5, FirstSteps, BlankIsNoName DEF Moves, Placed, Built, Showing, Planners
  <2>7. Placed(s)
    BY <2>1, <2>2, <2>3, <2>4, FirstSteps, BlankIsNoName DEF Placed, Planners, Showing, Before, Built
  <2> QED
    BY <1>2, <2>0, <2>6, <2>7, Zenon DEF s
<1> DEFINE s == job'[j]
           Kept == DOMAIN job' = Job /\ \A k \in Job \ {j} : job'[k] = job[k]
<1>4. ASSUME NEW result, result = "vetoed" => ~r.approved, Ends(j, result), r.pc # "idle"
      PROVE  Kept /\ Good(s)
  <2>1. Good(Ended(j, result))
    BY <1>1, <1>4, EndIsPlaced
  <2> QED
    BY <1>2, <1>4, <2>1 DEF Ends
<1>5. CASE CheckTitle(j)
  <2>1. r.pc = "title" /\ r.tool \in Planners /\ ~(r.pc = "idle")
    BY <1>1, <1>5 DEF CheckTitle, At, Placed
  <2>2. CASE ~StandsDown(j) /\ Ends(j, "vetoed")
    BY <1>4, <2>1, <2>2 DEF StandsDown
  <2>3. CASE Kept /\ Same(r, s, {"pc", "blind", "seen"}) /\ s.pc = AfterTitle(j)
    <3>1. Good(s)
      BY <1>1, <2>1, <2>3, AfterTitles DEF Same, Placed, Moves, Planners, Showing, Before, Built, Fields
    <3> QED
      BY <2>3, <3>1
  <2> QED
    BY <1>1, <1>5, <2>2, <2>3 DEF CheckTitle, Goes, Ends, Same, Fields, Placed
<1>6. CASE Plan(j)
  <2>1. r.pc = "plan"
    BY <1>6 DEF Plan, At
  <2>2. CASE Ends(j, "failed")
    BY <1>4, <2>1, <2>2
  <2>3. CASE Kept /\ Same(r, s, {"pc", "plan", "scope"}) /\ s.pc = "bind"
    <3>1. Good(s)
      BY <1>1, <2>1, <2>3 DEF Same, Placed, Moves, Planners, Showing, Before, Built, Fields
    <3> QED
      BY <2>3, <3>1
  <2> QED
    <3>1. CASE job' = [job EXCEPT ![j].pc = "bind", ![j].plan = PanelPlan]
      BY <1>1, <2>3, <3>1 DEF Same, Fields, Placed
    <3>2. ASSUME NEW picks, NEW asked,
                 job' = [job EXCEPT ![j] = [@ EXCEPT !.pc = "bind", !.plan = PlanPanels(picks),
                                                     !.scope = PlanFilters(asked)]]
          PROVE  Kept /\ Good(s)
      BY <1>1, <2>3, <3>2 DEF Same, Fields, Placed
    <3> QED
      BY <1>6, <2>2, <3>1, <3>2 DEF Plan, Ends
<1>7. CASE Bind(j)
  <2>1. r.pc = "bind"
    BY <1>1, <1>7 DEF Bind, At, Placed
  <2>2. CASE Ends(j, "failed")
    BY <1>4, <2>1, <2>2, BlankIsNoName DEF OnError, Verdict, Refused
  <2>3. CASE Kept /\ Same(r, s, {"pc", "pattern"}) /\ s.pc = "submit"
    <3>1. Good(s)
      BY <1>1, <2>1, <2>3 DEF Same, Placed, Moves, Planners, Showing, Before, Built, Fields
    <3> QED
      BY <2>3, <3>1
  <2> QED
    BY <1>1, <1>7, <2>2, <2>3 DEF Bind, Ends, Same, Fields, Placed
<1>8. CASE EnsureIndexPattern(j)
  <2>1. r.pc = "bind" /\ r.tool = "threat"
    BY <1>1, <1>8 DEF EnsureIndexPattern, At, Placed
  <2>2. CASE Ends(j, "failed")
    BY <1>4, <2>1, <2>2, BlankIsNoName DEF OnError, Verdict, Refused
  <2>3. CASE Kept /\ Same(r, s, {"pc", "plan", "pattern"}) /\ s.pc \in {"submit", "make pattern"}
    <3>1. Good(s)
      BY <1>1, <2>1, <2>3 DEF Same, Placed, Moves, Planners, Showing, Before, Built, Fields
    <3> QED
      BY <2>3, <3>1
  <2> QED
    BY <1>1, <1>8, <2>2, <2>3 DEF EnsureIndexPattern, Goes, Ends, Same, Fields, Placed
<1>9. CASE MakePattern(j)
  <2>1. r.pc = "make pattern"
    BY <1>1, <1>9 DEF MakePattern, At, Placed
  <2>2. CASE Ends(j, OnError(j))
    BY <1>4, <2>1, <2>2, BlankIsNoName DEF OnError, Verdict, Refused
  <2>3. CASE Kept /\ Same(r, s, {"pc", "plan", "pattern"}) /\ s.pc = "submit"
    <3>1. Good(s)
      BY <1>1, <2>1, <2>3 DEF Same, Placed, Moves, Planners, Showing, Before, Built, Fields
    <3> QED
      BY <2>3, <3>1
  <2> QED
    BY <1>1, <1>9, <2>2, <2>3 DEF MakePattern, Creates, Same, Fields, Placed
<1>10. CASE Resolve(j)
  <2>1. r.pc = "resolve" /\ r.tool \in Showing
    BY <1>1, <1>10 DEF Resolve, At, Placed
  <2>2. CASE Ends(j, "failed")
    BY <1>4, <2>1, <2>2, BlankIsNoName DEF OnError, Verdict, Refused
  <2>3. CASE Kept /\ Same(r, s, {"pc", "title"}) /\ s.pc = "submit" /\ s.title = TitleOf(j)
    <3>1. Good(s)
      BY <1>1, <2>1, <2>3, TitleKept DEF Same, Placed, Moves, Planners, Showing, Before, Built, Fields
    <3> QED
      BY <2>3, <3>1
  <2> QED
    BY <1>1, <1>10, <2>2, <2>3 DEF Resolve, Ends, Same, Fields, Placed
<1>11. CASE Submit(j)
  <2>1. r.pc = "submit"
    BY <1>1, <1>11 DEF Submit, At, Placed
  <2>3. CASE Kept /\ Same(r, s, {"pc", "shown"}) /\ s.pc = (IF r.approved THEN FirstWrite(r.tool) ELSE "pending")
    <3>1. Good(s)
      BY <1>1, <2>1, <2>3, FirstWrites DEF Same, Placed, Moves, Planners, Showing, Before, Built, Fields
    <3> QED
      BY <2>3, <3>1
  <2> QED
    BY <1>1, <1>11, <2>3 DEF Submit, At, Same, Fields, Placed
<1>12. CASE Decide(j)
  <2>1. r.pc = "pending"
    BY <1>1, <1>12 DEF Decide, At, Placed
  <2>2. CASE Ends(j, "rejected")
    BY <1>4, <2>1, <2>2, BlankIsNoName DEF OnError, Verdict, Refused
  <2>3. CASE Kept /\ Same(r, s, {"pc", "approved"}) /\ s.pc = FirstStep(r.tool)
    <3>1. Good(s)
      BY <1>1, <2>1, <2>3, FirstSteps, BlankIsNoName DEF Same, Placed, Moves, Planners, Showing, Before, Built, Fields
    <3> QED
      BY <2>3, <3>1
  <2> QED
    BY <1>1, <1>12, <2>2, <2>3 DEF Decide, Ends, Same, Fields, Placed
<1>13. CASE CheckPattern(j)
  <2>1. r.pc = "check"
    BY <1>1, <1>13 DEF CheckPattern, At, Placed
  <2>2. CASE Ends(j, "failed")
    BY <1>4, <2>1, <2>2, BlankIsNoName DEF OnError, Verdict, Refused
  <2>3. CASE Kept /\ Same(r, s, {"pc"}) /\ s.pc = "visualizations"
    <3>1. Good(s)
      BY <1>1, <2>1, <2>3 DEF Same, Placed, Moves, Planners, Showing, Before, Built, Fields
    <3> QED
      BY <2>3, <3>1
  <2> QED
    BY <1>1, <1>13, <2>2, <2>3 DEF CheckPattern, Goes, Same, Fields, Placed
<1>14. CASE CreateVisualization(j)
  <2>1. r.pc = "visualizations" /\ r.tool \in {"design", "threat", "visual"}
    BY <1>1, <1>14 DEF CreateVisualization, At, Placed
  <2>2. CASE Ends(j, OnError(j))
    BY <1>4, <2>1, <2>2, BlankIsNoName DEF OnError
  <2>3. CASE job' = [job EXCEPT ![j] = Created(j)]
    <3> DEFINE made == [r EXCEPT !.ids = Append(@, lastId + 1)]
    <3>1. Same(r, made, {"ids"}) /\ made.ids = Append(r.ids, lastId + 1)
      BY <1>1 DEF Same, Placed, Fields
    <3>2. made.ids \in Seq(Nat) /\ made.ids # <<>>
      <4>0. lastId + 1 \in Nat
        BY DEF Shaped
      <4>1. r.ids \in Seq(Nat) /\ lastId + 1 \in Nat
        BY <1>1, <4>0 DEF Placed
      <4>2. /\ Append(r.ids, lastId + 1) \in Seq(Nat)
            /\ Len(Append(r.ids, lastId + 1)) = Len(r.ids) + 1 /\ Len(r.ids) \in Nat
        BY <4>1, AppendProperties
      <4>3. Append(r.ids, lastId + 1) # <<>>
        <5>1. \A n \in Nat : n + 1 # 0
          OBVIOUS
        <5>2. Len(<<>>) = 0
          OBVIOUS
        <5> QED
          BY <4>2, <5>1, <5>2, Zenon
      <4> QED
        BY <3>1, <4>2, <4>3
    <3>3. \/ s = made
          \/ s = [made EXCEPT !.pc = "done", !.result = "executed"]
          \/ made.tool # "visual" /\ s = [made EXCEPT !.pc = "dashboard"]
      BY <1>1, <2>3 DEF Created
    <3> HIDE DEF made
    <3>4. /\ Same(r, s, {"ids", "pc", "result"}) /\ s.ids \in Seq(Nat) /\ s.ids # <<>>
          /\ \/ s.pc = r.pc /\ s.result = r.result
             \/ s.pc = "done" /\ s.result = "executed"
             \/ s.pc = "dashboard" /\ r.tool # "visual" /\ s.result = r.result
      BY <3>1, <3>2, <3>3 DEF Same, Fields
    <3> HIDE DEF s
    <3>5. Good(s)
      BY <1>1, <2>1, <3>4 DEF Same, Placed, Moves, Planners, Showing, Before, Built, Fields
    <3>6. Kept
      BY <1>1, <2>3
    <3> QED
      BY <3>5, <3>6 DEF s
  <2> QED
    BY <1>14, <2>2, <2>3 DEF CreateVisualization, Creates
<1>15. CASE CreateDashboard(j)
  <2>1. r.pc = "dashboard"
    BY <1>1, <1>15 DEF CreateDashboard, At, Placed
  <2>2. CASE Ends(j, OnError(j))
    BY <1>4, <2>1, <2>2, BlankIsNoName DEF OnError, Verdict, Refused
  <2>3. CASE Kept /\ Same(r, s, {"pc", "dash", "result"}) /\ (IF r.tool = "assemble" THEN s.pc = "done" /\ s.result = "executed"
                ELSE s.pc = "read back" /\ s.result = r.result)
    <3>1. Good(s)
      BY <1>1, <2>1, <2>3 DEF Same, Placed, Moves, Planners, Showing, Before, Built, Fields
    <3> QED
      BY <2>3, <3>1
  <2> QED
    BY <1>1, <1>15, <2>2, <2>3 DEF CreateDashboard, Creates, AfterDashboard, Ended, Same, Fields, Placed
<1>16. CASE ReadBack(j)
  <2>1. r.pc = "read back"
    BY <1>1, <1>16 DEF ReadBack, At, Placed
  <2>2. CASE \E issues : Ends(j, Verdict(issues))
    BY <1>4, <2>1, <2>2, BlankIsNoName DEF OnError, Verdict, Refused
  <2>3. CASE Kept /\ Same(r, s, {"pc", "issues"}) /\ r.tool = "threat" /\ s.pc = "references"
    <3>1. Good(s)
      BY <1>1, <2>1, <2>3 DEF Same, Placed, Moves, Planners, Showing, Before, Built, Fields
    <3> QED
      BY <2>3, <3>1
  <2> QED
    BY <1>1, <1>16, <2>2, <2>3 DEF ReadBack, At, Same, Fields, Placed
<1>17. CASE UnresolvedDataRefs(j)
  <2>1. r.pc # "idle"
    BY <1>17 DEF UnresolvedDataRefs, At
  <2>2. \E issues : Ends(j, Verdict(issues))
    BY <1>17 DEF UnresolvedDataRefs, Refused
  <2> QED
    BY <1>4, <2>1, <2>2, BlankIsNoName DEF Verdict
<1>18. CASE PutDashboard(j)
  <2>1. r.pc # "idle"
    BY <1>18 DEF PutDashboard, At
  <2>2. Ends(j, "failed") \/ Ends(j, "executed")
    BY <1>18 DEF PutDashboard, Refused
  <2> QED
    BY <1>4, <2>1, <2>2, BlankIsNoName DEF Verdict
<1>19. CASE DeleteDashboard(j)
  <2>1. r.pc # "idle"
    BY <1>19 DEF DeleteDashboard, At
  <2>2. Ends(j, "failed") \/ Ends(j, "executed")
    BY <1>19 DEF DeleteDashboard, Refused
  <2> QED
    BY <1>4, <2>1, <2>2, BlankIsNoName DEF Verdict
<1> QED
  BY <1>3, <1>5, <1>6, <1>7, <1>8, <1>9, <1>10, <1>11, <1>12, <1>13, <1>14, <1>15, <1>16, <1>17,
     <1>18, <1>19 DEF Step

LEMMA StepIsOpen == \A j \in Job : Step(j) => job[j].pc # "done"
BY DEF Step, Ask, CheckTitle, Plan, Bind, EnsureIndexPattern, MakePattern, Resolve, Submit, Decide,
   CheckPattern, CreateVisualization, CreateDashboard, ReadBack, UnresolvedDataRefs, PutDashboard,
   DeleteDashboard, At

-----------------------------------------------------------------------------
(* How the objects change. *)
Gives(object) == Stored(object) /\ Write
Put(id, title, refs) ==
  /\ Exists(id, "dashboard") /\ UNCHANGED <<lastId, removed>> /\ touched' = touched \cup {id}
  /\ objects' = [objects EXCEPT ![id] = [@ EXCEPT !.title = title, !.refs = refs]]
Drop(id) ==
  /\ Exists(id, "dashboard") /\ UNCHANGED <<lastId, removed>> /\ touched' = touched \cup {id}
  /\ objects' = Without({id})

LEMMA ObjectsMove ==
  ASSUME NEW j \in Job, Step(j)
  PROVE  \/ Keep
         \/ job[j].pc = "make pattern" /\ Gives(Pattern("threat", FALSE, {}, j))
         \/ /\ job[j].pc = "visualizations"
            /\ \E panel : Gives(Visualization(panel, AggsOf(j, panel), job[j].scope, job[j].pattern, j))
         \/ job[j].pc = "dashboard" /\ Gives(Dashboard(job[j].title, job[j].ids, j))
         \/ job[j].pc = "put" /\ Put(job[j].target, job[j].title, job[j].ids)
         \/ job[j].pc = "delete" /\ Drop(job[j].target)
<1>1. CASE MakePattern(j)
  BY <1>1 DEF MakePattern, At, Creates, Gives, Keep, NotStored, Write
<1>2. CASE CreateVisualization(j)
  BY <1>2 DEF CreateVisualization, At, Creates, Gives, Keep, NotStored, Write
<1>3. CASE CreateDashboard(j)
  BY <1>3 DEF CreateDashboard, At, Creates, Gives, Keep, NotStored, Write
<1>4. CASE PutDashboard(j)
  BY <1>4, Zenon DEF PutDashboard, At, Put, Refused, Keep, Touch
<1>5. CASE DeleteDashboard(j)
  BY <1>5, Zenon DEF DeleteDashboard, At, Drop, Refused, Keep, Touch, Gone
<1> QED
  BY <1>1, <1>2, <1>3, <1>4, <1>5 DEF Step, Ask, CheckTitle, Plan, Bind, EnsureIndexPattern, Resolve,
     Submit, Decide, CheckPattern, ReadBack, UnresolvedDataRefs

(* An object stays what it is, except for the dashboards that are touched. *)
Evolves ==
  /\ lastId' \in Nat /\ lastId <= lastId' /\ touched \subseteq touched'
  /\ removed' = {} => removed = {}
  /\ \A id \in DOMAIN objects' : id \in DOMAIN objects \/ id = lastId + 1
  /\ \A id \in DOMAIN objects \cap DOMAIN objects' :
       \/ objects'[id] = objects[id]
       \/ /\ objects[id].kind = "dashboard" /\ objects'[id].kind = "dashboard"
          /\ id \in touched'
  /\ \A id \in DOMAIN objects \ DOMAIN objects' :
       IF objects[id].kind = "dashboard" THEN id \in touched' ELSE removed' # {}

LEMMA Given ==
  ASSUME Shaped, NEW object, Gives(object)
  PROVE  /\ lastId' = lastId + 1 /\ lastId + 1 \notin DOMAIN objects /\ lastId + 1 \in Nat
         /\ DOMAIN objects' = DOMAIN objects \cup {lastId + 1} /\ objects'[lastId + 1] = object
         /\ \A id \in DOMAIN objects : objects'[id] = objects[id]
         /\ UNCHANGED <<removed, touched>>
BY DEF Shaped, Gives, Stored, Write

LEMMA GivenEvolves ==
  ASSUME Shaped, NEW object, Gives(object),
         {"kind", "title", "by"} \subseteq DOMAIN object, object.by \in Job \cup {None},
         object.kind = "dashboard" => "refs" \in DOMAIN object
  PROVE  Evolves /\ Shaped'
<1>1. Evolves
  BY Given DEF Evolves, Shaped
<1>2. lastId' \in Nat /\ DOMAIN objects' \subseteq 1..lastId'
  BY Given DEF Shaped
<1> QED
  BY <1>1, <1>2, Given DEF Shaped

LEMMA PutEvolves ==
  ASSUME Shaped, NEW id, NEW title, NEW refs, Put(id, title, refs)
  PROVE  /\ Evolves /\ Shaped'
         /\ DOMAIN objects' = DOMAIN objects /\ id \in DOMAIN objects
         /\ objects'[id].refs = refs /\ objects'[id].kind = "dashboard"
         /\ \A k \in DOMAIN objects \ {id} : objects'[k] = objects[k]
<1>1. /\ id \in DOMAIN objects /\ objects[id].kind = "dashboard"
      /\ {"kind", "title", "by", "refs"} \subseteq DOMAIN objects[id]
      /\ objects[id].by \in Job \cup {None}
  BY DEF Put, Exists, Shaped
<1>2. /\ DOMAIN objects' = DOMAIN objects /\ \A k \in DOMAIN objects \ {id} : objects'[k] = objects[k]
      /\ objects'[id] = [[objects[id] EXCEPT !.title = title] EXCEPT !.refs = refs]
  BY <1>1 DEF Put
<1>3. /\ DOMAIN objects'[id] = DOMAIN objects[id] /\ objects'[id].kind = "dashboard"
      /\ objects'[id].by = objects[id].by /\ objects'[id].refs = refs
  BY <1>1, <1>2
<1>4. UNCHANGED <<lastId, removed>> /\ touched' = touched \cup {id}
  BY DEF Put
<1>5. Evolves
  <2>1. lastId \in Nat /\ lastId' = lastId /\ touched \subseteq touched' /\ id \in touched'
    BY <1>4 DEF Shaped
  <2>2. \A k \in DOMAIN objects :
          \/ objects'[k] = objects[k]
          \/ objects[k].kind = "dashboard" /\ objects'[k].kind = "dashboard" /\ k \in touched'
    BY <1>1, <1>2, <1>3, <2>1
  <2> QED
    BY <1>2, <1>4, <2>1, <2>2 DEF Evolves
<1>6. Shaped'
  BY <1>1, <1>2, <1>3, <1>4 DEF Shaped
<1> QED
  BY <1>1, <1>2, <1>3, <1>5, <1>6

LEMMA DropEvolves ==
  ASSUME Shaped, NEW id, Drop(id)
  PROVE  /\ Evolves /\ Shaped' /\ DOMAIN objects' = DOMAIN objects \ {id}
         /\ \A k \in DOMAIN objects' : objects'[k] = objects[k]
BY DEF Drop, Without, Evolves, Shaped, Exists

LEMMA RemoveEvolves ==
  ASSUME Shaped, RemoveByHand
  PROVE  Evolves /\ Shaped' /\ removed' # {} /\ job' = job /\ DOMAIN objects' \subseteq DOMAIN objects
BY DEF RemoveByHand, Without, Evolves, Shaped, Exists

LEMMA KeepEvolves ==
  ASSUME Shaped, Keep
  PROVE  Evolves /\ Shaped'
BY DEF Keep, Evolves, Shaped

LEMMA StepEvolves ==
  ASSUME Shaped, NEW j \in Job, Step(j)
  PROVE  Evolves /\ Shaped'
<1>1. ASSUME NEW panel, NEW aggs, NEW scope, NEW pattern,
             Gives(Visualization(panel, aggs, scope, pattern, j))
      PROVE  Evolves /\ Shaped'
  <2> DEFINE object == Visualization(panel, aggs, scope, pattern, j)
  <2>1. /\ {"kind", "title", "by"} \subseteq DOMAIN object /\ object.by \in Job \cup {None}
        /\ object.kind # "dashboard"
    BY DEF Visualization
  <2> HIDE DEF object
  <2> QED
    BY <1>1, <2>1, GivenEvolves DEF object
<1>2. ASSUME NEW title, NEW ids, Gives(Dashboard(title, ids, j))
      PROVE  Evolves /\ Shaped'
  <2> DEFINE object == Dashboard(title, ids, j)
  <2>1. {"kind", "title", "by", "refs"} \subseteq DOMAIN object /\ object.by \in Job \cup {None}
    BY DEF Dashboard
  <2> HIDE DEF object
  <2> QED
    BY <1>2, <2>1, GivenEvolves DEF object
<1>3. ASSUME Gives(Pattern("threat", FALSE, {}, j))
      PROVE  Evolves /\ Shaped'
  <2> DEFINE object == Pattern("threat", FALSE, {}, j)
  <2>1. /\ {"kind", "title", "by"} \subseteq DOMAIN object /\ object.by \in Job \cup {None}
        /\ object.kind # "dashboard"
    BY DEF Pattern
  <2> HIDE DEF object
  <2> QED
    BY <1>3, <2>1, GivenEvolves DEF object
<1> QED
  BY <1>1, <1>2, <1>3, ObjectsMove, PutEvolves, DropEvolves, KeepEvolves

-----------------------------------------------------------------------------
(* The inductive invariant, call by call.  What a call has seen before it was  *)
(* proposed bears other titles as long as nobody touches it; ...               *)
SeenInv(j) ==
  /\ job[j].seen \subseteq 1..lastId
  /\ ~job[j].blind =>
       \A id \in job[j].seen \cap DOMAIN objects :
         id \in touched \/ objects[id].title # job[j].title

(* ... the dashboard it created is as it made it until somebody touches it;    *)
DashInv(j) ==
  LET dash == job[j].dash IN
  dash # None =>
    /\ dash \in 1..lastId
    /\ dash \in touched \/ /\ dash \in DOMAIN objects /\ objects[dash].kind = "dashboard"
                           /\ objects[dash].title = job[j].title
                           /\ objects[dash].refs = job[j].ids

(* every visualization it created is one of those it works on;                 *)
OwnInv(j) ==
  \A vis \in DOMAIN objects :
    ( /\ objects[vis].kind = "visualization" /\ objects[vis].by = j
      /\ job[j].tool # "visual" /\ job[j].result # "failed" )
    => /\ vis \in ToSet(job[j].ids)
       /\ job[j].pc \in {"visualizations", "dashboard"} \/ job[j].dash # None

(* and what it refers to is there.                                             *)
ReadyInv(j) ==
  removed = {} =>
    /\ job[j].pc \in {"submit", "visualizations", "dashboard", "put"} =>
         \A i \in 1..Len(job[j].ids) : Exists(job[j].ids[i], "visualization")
    /\ job[j].tool = "threat" /\ job[j].pc \in {"submit", "visualizations"} =>
         Exists(job[j].pattern, "index-pattern")
    /\ job[j].tool = "design" /\ job[j].pc = "visualizations" =>
         Exists(job[j].pattern, "index-pattern")

(* What the tools made is sound: a visualization unless its aggregations came  *)
(* with a call, a dashboard as far as a tool gave it its panels.               *)
SoundVisualization(id) ==
  \/ objects[id].by = None \/ Unchecked(id)
  \/ /\ ValidateVisualization(objects[id])
     /\ \A i \in 1..Len(objects[id].refs) : Exists(objects[id].refs[i], "index-pattern")

SoundDashboard(id) ==
  ToolBuilt(id) =>
    /\ ValidateDashboard(objects[id])
    /\ \A i \in 1..Len(objects[id].refs) : Exists(objects[id].refs[i], "visualization")

SoundInv ==
  removed = {} =>
    \A id \in DOMAIN objects :
      /\ objects[id].kind = "visualization" => SoundVisualization(id)
      /\ objects[id].kind = "dashboard" => SoundDashboard(id)

JobInv == \A j \in Job : SeenInv(j) /\ DashInv(j) /\ OwnInv(j) /\ ReadyInv(j)

ObjectsInv == Places /\ Shaped /\ JobInv /\ SoundInv

-----------------------------------------------------------------------------
(* What goes on of its own accord, for every call that does not move. *)
LEMMA Persists ==
  ASSUME Shaped, Evolves, removed' = {}, NEW id, NEW kind \in {"visualization", "index-pattern"},
         Exists(id, kind)
  PROVE  removed = {} /\ Exists(id, kind)' /\ objects'[id] = objects[id]
BY DEF Evolves, Exists

LEMMA SeenStays ==
  ASSUME Shaped, Evolves, NEW k \in Job, SeenInv(k),
         job'[k].seen = job[k].seen, job'[k].blind = job[k].blind,
         job'[k].title = job[k].title \/ job[k].seen = {}
  PROVE  SeenInv(k)'
<1>1. job'[k].seen \subseteq 1..lastId'
  BY DEF SeenInv, Evolves, Shaped
<1>2. ASSUME ~job'[k].blind, NEW id \in job'[k].seen \cap DOMAIN objects', id \notin touched'
      PROVE  objects'[id].title # job'[k].title
  <2>1. id \in 1..lastId
    BY <1>2 DEF SeenInv
  <2>2. id \in DOMAIN objects /\ objects'[id] = objects[id] /\ id \notin touched
    BY <1>2, <2>1 DEF Evolves, Shaped
  <2> QED
    BY <1>2, <2>2 DEF SeenInv
<1> QED
  BY <1>1, <1>2 DEF SeenInv

LEMMA DashStays ==
  ASSUME Shaped, Evolves, NEW k \in Job, DashInv(k), job'[k].dash = job[k].dash,
         job[k].dash # None => job'[k].title = job[k].title /\ job'[k].ids = job[k].ids
  PROVE  DashInv(k)'
<1> DEFINE dash == job[k].dash
<1> SUFFICES ASSUME dash # None
             PROVE  /\ dash \in 1..lastId'
                    /\ dash \in touched' \/ /\ dash \in DOMAIN objects' /\ objects'[dash].kind = "dashboard"
                                            /\ objects'[dash].title = job'[k].title
                                            /\ objects'[dash].refs = job'[k].ids
  BY DEF DashInv
<1>1. dash \in 1..lastId'
  BY DEF DashInv, Evolves, Shaped
<1>2. CASE dash \in touched
  BY <1>1, <1>2 DEF Evolves
<1>3. CASE dash \notin touched
  <2>1. /\ dash \in DOMAIN objects /\ objects[dash].kind = "dashboard"
        /\ objects[dash].title = job[k].title /\ objects[dash].refs = job[k].ids
    BY <1>3 DEF DashInv
  <2>2. CASE dash \notin DOMAIN objects'
    BY <1>1, <2>1, <2>2 DEF Evolves
  <2>3. CASE dash \in DOMAIN objects'
    BY <1>1, <2>1, <2>3 DEF Evolves
  <2> QED
    BY <2>2, <2>3
<1> QED
  BY <1>2, <1>3

LEMMA OwnStays ==
  ASSUME Shaped, Evolves, NEW k \in Job, OwnInv(k),
         \A id \in DOMAIN objects' \ DOMAIN objects :
           objects'[id].by # k \/ objects'[id].kind # "visualization",
         job'[k].tool = job[k].tool, job'[k].ids = job[k].ids, job'[k].dash = job[k].dash,
         job[k].result = "failed" => job'[k].result = "failed",
         job[k].pc \in {"visualizations", "dashboard"} => job'[k].pc = job[k].pc
  PROVE  OwnInv(k)'
<1> SUFFICES ASSUME NEW vis \in DOMAIN objects', objects'[vis].kind = "visualization",
                    objects'[vis].by = k, job'[k].tool # "visual", job'[k].result # "failed"
             PROVE  /\ vis \in ToSet(job'[k].ids)
                    /\ job'[k].pc \in {"visualizations", "dashboard"} \/ job'[k].dash # None
  BY DEF OwnInv
<1>1. vis \in DOMAIN objects /\ objects'[vis] = objects[vis]
  BY DEF Evolves
<1> QED
  BY <1>1 DEF OwnInv

LEMMA ReadyStays ==
  ASSUME Shaped, Evolves, NEW k \in Job, ReadyInv(k), job'[k] = job[k]
  PROVE  ReadyInv(k)'
<1> SUFFICES ASSUME removed' = {} PROVE ReadyInv(k)'
  BY DEF ReadyInv
<1>1. removed = {}
  BY DEF Evolves
<1> QED
  BY <1>1, Persists DEF ReadyInv

-----------------------------------------------------------------------------
(* The call that moves. *)
LEMMA WhichStep ==
  ASSUME NEW j \in Job, Step(j)
  PROVE  /\ job[j].pc = "title" => CheckTitle(j)
         /\ job[j].pc = "bind" => Bind(j) \/ EnsureIndexPattern(j)
         /\ job[j].pc = "make pattern" => MakePattern(j)
         /\ job[j].pc = "resolve" => Resolve(j)
         /\ job[j].pc = "check" => CheckPattern(j)
         /\ job[j].pc = "visualizations" => CreateVisualization(j)
         /\ job[j].pc = "dashboard" => CreateDashboard(j)
BY DEF Step, Ask, CheckTitle, Plan, Bind, EnsureIndexPattern, MakePattern, Resolve, Submit, Decide,
   CheckPattern, CreateVisualization, CreateDashboard, ReadBack, UnresolvedDataRefs, PutDashboard,
   DeleteDashboard, At

LEMMA SeenIsKept ==
  ASSUME ObjectsInv, NEW j \in Job, Step(j)
  PROVE  SeenInv(j)'
<1> DEFINE r == job[j]
           s == job'[j]
<1>1. Placed(r) /\ Placed(s) /\ Moves(r, s) /\ Shaped /\ SeenInv(j) /\ Evolves /\ DOMAIN job = Job
  BY MoveIsPlaced, StepEvolves DEF ObjectsInv, JobInv, Places
<1>2. CASE s.seen = {}
  BY <1>2 DEF SeenInv
<1>3. CASE r.pc = "idle"
  BY <1>1, <1>2, <1>3 DEF Moves
<1>4. CASE r.pc = "title"
  <2>1. CheckTitle(j)
    BY <1>4, WhichStep
  <2>2. Keep
    BY <2>1 DEF CheckTitle
  <2>3. s.title = r.title
    BY <1>1, <1>4 DEF Moves
  <2>4. CASE s.seen = r.seen /\ s.blind = r.blind
    BY <1>1, <2>3, <2>4, SeenStays
  <2>5. CASE s.blind /\ s.seen = r.seen
    BY <1>1, <2>2, <2>5 DEF SeenInv, Keep
  <2>6. ASSUME NEW listed, ~Duplicate(listed, r.title), s.seen = Ids("dashboard"),
               s.blind = (listed # Ids("dashboard"))
        PROVE  SeenInv(j)'
    <3>1. Ids("dashboard") \subseteq 1..lastId' /\ UNCHANGED <<objects, touched>>
      BY <1>1, <2>2 DEF Ids, Shaped, Keep
    <3>2. ~s.blind => \A id \in s.seen : objects[id].title # s.title
      BY <2>3, <2>6 DEF Duplicate
    <3> QED
      BY <2>6, <3>1, <3>2 DEF SeenInv
  <2>7. \/ s.seen = r.seen /\ s.blind = r.blind
        \/ s.blind /\ s.seen = r.seen
        \/ \E listed : /\ ~Duplicate(listed, r.title) /\ s.seen = Ids("dashboard")
                       /\ s.blind = (listed # Ids("dashboard"))
    <3>1. CASE Goes(j, AfterTitle(j)) \/ job' = [job EXCEPT ![j] = Ended(j, "vetoed")]
      BY <1>1, <3>1 DEF Goes, Ended, Placed, Fields
    <3>2. CASE job' = [job EXCEPT ![j].pc = AfterTitle(j), ![j].blind = TRUE]
      BY <1>1, <3>2 DEF Placed, Fields
    <3>3. ASSUME NEW listed, ~Duplicate(listed, r.title),
                 job' = [job EXCEPT ![j] =
                           [@ EXCEPT !.pc = AfterTitle(j), !.seen = Ids("dashboard"),
                                     !.blind = listed # Ids("dashboard")]]
          PROVE  s.seen = Ids("dashboard") /\ s.blind = (listed # Ids("dashboard"))
      BY <1>1, <3>3 DEF Placed, Fields
    <3> QED
      BY <2>1, <3>1, <3>2, <3>3 DEF CheckTitle
  <2> QED
    BY <2>4, <2>5, <2>6, <2>7
<1>5. CASE r.pc \notin {"idle", "title"}
  <2>1. s.seen = r.seen /\ s.blind = r.blind /\ (s.title = r.title \/ r.tool = "update")
    BY <1>1, <1>5 DEF Moves
  <2>2. r.tool = "update" => r.seen = {}
    BY <1>1 DEF Placed, Planners
  <2> QED
    BY <1>1, <2>1, <2>2, SeenStays
<1> QED
  BY <1>3, <1>4, <1>5

(* A dashboard, once asked for, is stored or not, and known to the call only   *)
(* with the answer.                                                            *)
LEMMA DashboardCreated ==
  ASSUME ObjectsInv, NEW j \in Job, CreateDashboard(j)
  PROVE  \/ job'[j].dash = job[j].dash /\ job'[j].result = "failed"
         \/ job'[j].dash = lastId + 1 /\ Gives(Dashboard(job[j].title, job[j].ids, j))
<1>1. Placed(job[j]) /\ DOMAIN job = Job
  BY DEF ObjectsInv, Places
<1>2. CASE Ends(j, OnError(j))
  BY <1>1, <1>2 DEF Ends, Ended, OnError, Placed, Fields
<1>4. \/ Ends(j, OnError(j))
      \/ job' = [job EXCEPT ![j] = AfterDashboard(j)] /\ Gives(Dashboard(job[j].title, job[j].ids, j))
  BY DEF CreateDashboard, Creates, Gives
<1>5. job' = [job EXCEPT ![j] = AfterDashboard(j)] => job'[j].dash = lastId + 1
  BY <1>1 DEF AfterDashboard, Ended, Placed, Fields
<1> QED
  BY <1>2, <1>4, <1>5

LEMMA DashIsKept ==
  ASSUME ObjectsInv, NEW j \in Job, Step(j)
  PROVE  DashInv(j)'
<1> DEFINE r == job[j]
           s == job'[j]
<1>1. Placed(r) /\ Placed(s) /\ Moves(r, s) /\ Shaped /\ DashInv(j) /\ Evolves
  BY MoveIsPlaced, StepEvolves DEF ObjectsInv, JobInv, Places
<1>2. CASE s.dash = r.dash
  <2>1. r.dash # None => r.pc \in Built /\ s.title = r.title /\ s.ids = r.ids
    BY <1>1 DEF Placed, Moves, Built
  <2> QED
    BY <1>1, <1>2, <2>1, DashStays
<1>3. CASE r.pc = "dashboard" /\ s.dash # r.dash
  <2>1. s.dash = lastId + 1 /\ Gives(Dashboard(r.title, r.ids, j))
    BY <1>3, WhichStep, DashboardCreated
  <2>2. s.title = r.title /\ s.ids = r.ids
    BY <1>1, <1>3 DEF Moves
  <2> DEFINE object == Dashboard(r.title, r.ids, j)
  <2>3. object.kind = "dashboard" /\ object.title = r.title /\ object.refs = r.ids
    BY DEF Dashboard, BuildPanels
  <2> HIDE DEF object
  <2>4. /\ lastId' = lastId + 1 /\ lastId + 1 \in Nat /\ lastId \in Nat
        /\ lastId + 1 \in DOMAIN objects' /\ objects'[lastId + 1] = object
    BY <1>1, <2>1, Given DEF object, Shaped
  <2> QED
    BY <2>1, <2>2, <2>3, <2>4 DEF DashInv
<1>4. CASE r.pc = "idle"
  <2>1. s.dash = None
    BY <1>1, <1>4 DEF Moves
  <2> QED
    BY <2>1 DEF DashInv
<1> QED
  BY <1>1, <1>2, <1>3, <1>4 DEF Moves

LEMMA VisualizationCreated ==
  ASSUME ObjectsInv, NEW j \in Job, CreateVisualization(j)
  PROVE  \/ job'[j].result = "failed" /\ job'[j].ids = job[j].ids
         \/ /\ job'[j].ids = Append(job[j].ids, lastId + 1)
            /\ \E panel : Gives(Visualization(panel, AggsOf(j, panel), job[j].scope, job[j].pattern, j))
<1>1. Placed(job[j]) /\ DOMAIN job = Job
  BY DEF ObjectsInv, Places
<1>2. CASE Ends(j, OnError(j))
  BY <1>1, <1>2 DEF Ends, Ended, OnError, Placed, Fields
<1>3. job' = [job EXCEPT ![j] = Created(j)] => job'[j].ids = Append(job[j].ids, lastId + 1)
  <2> DEFINE made == [job[j] EXCEPT !.ids = Append(@, lastId + 1)]
  <2>1. DOMAIN made = Fields /\ made.ids = Append(job[j].ids, lastId + 1)
    BY <1>1 DEF Placed, Fields
  <2>2. \/ Created(j) = made
        \/ Created(j) = [made EXCEPT !.pc = "done", !.result = "executed"]
        \/ Created(j) = [made EXCEPT !.pc = "dashboard"]
    BY DEF Created
  <2> HIDE DEF made
  <2>3. Created(j).ids = made.ids
    BY <2>1, <2>2 DEF Fields
  <2> QED
    BY <1>1, <2>1, <2>3
<1>4. \/ Ends(j, OnError(j))
      \/ /\ job' = [job EXCEPT ![j] = Created(j)]
         /\ \E panel : Gives(Visualization(panel, AggsOf(j, panel), job[j].scope, job[j].pattern, j))
  BY DEF CreateVisualization, Creates, Gives
<1> QED
  BY <1>2, <1>3, <1>4

LEMMA StillCreating ==
  ASSUME ObjectsInv, NEW j \in Job, CreateVisualization(j), job'[j].result # "failed"
  PROVE  job'[j].tool = "visual" \/ job'[j].pc \in {"visualizations", "dashboard"}
<1>1. Placed(job[j]) /\ DOMAIN job = Job /\ job[j].pc = "visualizations"
  BY DEF ObjectsInv, Places, CreateVisualization, At
<1>2. Ends(j, OnError(j)) => job'[j].result = "failed"
  BY <1>1 DEF Ends, Ended, OnError, Placed, Fields
<1>3. job' = [job EXCEPT ![j] = Created(j)]
  BY <1>2 DEF CreateVisualization, Creates
<1> DEFINE made == [job[j] EXCEPT !.ids = Append(@, lastId + 1)]
<1>4. DOMAIN made = Fields /\ made.pc = "visualizations" /\ made.tool = job[j].tool
  BY <1>1 DEF Placed, Fields
<1>5. \/ Created(j) = made
      \/ Created(j) = [made EXCEPT !.pc = "done", !.result = "executed"] /\ made.tool = "visual"
      \/ Created(j) = [made EXCEPT !.pc = "dashboard"]
  BY DEF Created
<1> HIDE DEF made
<1> QED
  BY <1>1, <1>3, <1>4, <1>5 DEF Fields

LEMMA Appended ==
  ASSUME NEW s \in Seq(Nat), NEW e \in Nat
  PROVE  /\ ToSet(Append(s, e)) = ToSet(s) \cup {e}
         /\ Len(s) \in Nat /\ Len(Append(s, e)) = Len(s) + 1
         /\ \A i \in 1..(Len(s) + 1) : Append(s, e)[i] = (IF i = Len(s) + 1 THEN e ELSE s[i])
<1>1. /\ Len(s) \in Nat /\ Len(Append(s, e)) = Len(s) + 1 /\ Append(s, e)[Len(s) + 1] = e
      /\ \A i \in 1..Len(s) : Append(s, e)[i] = s[i]
      /\ DOMAIN s = 1..Len(s) /\ DOMAIN Append(s, e) = 1..(Len(s) + 1)
  BY AppendProperties
<1>2. \A i \in 1..(Len(s) + 1) : i = Len(s) + 1 \/ i \in 1..Len(s)
  BY <1>1
<1> QED
  BY <1>1, <1>2 DEF ToSet

LEMMA OwnIsKept ==
  ASSUME ObjectsInv, NEW j \in Job, Step(j)
  PROVE  OwnInv(j)'
<1> DEFINE r == job[j]
           s == job'[j]
<1>1. Placed(r) /\ Placed(s) /\ Moves(r, s) /\ Shaped /\ OwnInv(j) /\ Evolves /\ r.ids \in Seq(Nat)
  BY MoveIsPlaced, StepEvolves DEF ObjectsInv, JobInv, Places, Placed
<1>2. r.pc # "done" /\ r.result = Blank /\ r.result # "failed"
  BY <1>1, StepIsOpen, BlankIsNoName DEF Placed
<1>3. CASE s.result = "failed"
  BY <1>3 DEF OwnInv
<1>4. CASE r.pc = "idle"
  <2>1. Keep
    BY <1>4, ObjectsMove
  <2>2. r.tool # "visual" /\ r.dash = None
    BY <1>1, <1>4, BlankIsNoName DEF Placed, Built
  <2>3. \A vis \in DOMAIN objects : objects[vis].kind = "visualization" => objects[vis].by # j
    BY <1>1, <1>2, <1>4, <2>2 DEF OwnInv
  <2> QED
    BY <2>1, <2>3 DEF OwnInv, Keep
<1>5. CASE r.pc = "visualizations" /\ s.result # "failed"
  <2>1. PICK panel : /\ s.ids = Append(r.ids, lastId + 1)
                     /\ Gives(Visualization(panel, AggsOf(j, panel), r.scope, r.pattern, j))
    BY <1>5, WhichStep, VisualizationCreated
  <2>2. /\ DOMAIN objects' = DOMAIN objects \cup {lastId + 1} /\ lastId + 1 \in Nat
        /\ \A id \in DOMAIN objects : objects'[id] = objects[id]
    BY <1>1, <2>1, Given
  <2>3. ToSet(s.ids) = ToSet(r.ids) \cup {lastId + 1}
    BY <1>1, <2>1, <2>2, Appended
  <2>4. s.tool = r.tool /\ s.dash = r.dash
    BY <1>1, <1>5 DEF Moves
  <2>5. r.dash = None
    BY <1>1, <1>5 DEF Placed, Built
  <2>6. s.tool = "visual" \/ s.pc \in {"visualizations", "dashboard"}
    BY <1>1, <1>5, WhichStep, StillCreating
  <2> QED
    BY <1>1, <1>2, <1>5, <2>2, <2>3, <2>4, <2>6 DEF OwnInv
<1>6. CASE r.pc = "dashboard" /\ s.result # "failed"
  <2>1. s.dash = lastId + 1 /\ Gives(Dashboard(r.title, r.ids, j))
    BY <1>6, WhichStep, DashboardCreated
  <2>2. s.tool = r.tool /\ s.ids = r.ids
    BY <1>1, <1>6 DEF Moves
  <2> DEFINE object == Dashboard(r.title, r.ids, j)
  <2>3. object.kind # "visualization"
    BY DEF Dashboard
  <2> HIDE DEF object
  <2>4. /\ DOMAIN objects' = DOMAIN objects \cup {lastId + 1} /\ objects'[lastId + 1] = object
        /\ \A id \in DOMAIN objects : objects'[id] = objects[id] /\ lastId \in Nat
    BY <1>1, <2>1, Given DEF object, Shaped
  <2>5. lastId + 1 # None
    BY <1>1 DEF Shaped, None
  <2> QED
    BY <1>1, <1>2, <1>6, <2>1, <2>2, <2>3, <2>4, <2>5 DEF OwnInv
<1>7. CASE r.pc \notin {"idle", "visualizations", "dashboard"}
  <2>1. s.tool = r.tool /\ s.ids = r.ids /\ s.dash = r.dash
    BY <1>1, <1>7 DEF Moves
  <2>2. \A id \in DOMAIN objects' \ DOMAIN objects : objects'[id].kind # "visualization"
    <3>1. CASE Gives(Pattern("threat", FALSE, {}, j))
      <4>1. objects'[lastId + 1] = Pattern("threat", FALSE, {}, j)
            /\ DOMAIN objects' = DOMAIN objects \cup {lastId + 1}
        BY <1>1, <3>1, Given
      <4>2. Pattern("threat", FALSE, {}, j).kind # "visualization"
        BY DEF Pattern
      <4> QED
        BY <4>1, <4>2
    <3>2. CASE DOMAIN objects' \subseteq DOMAIN objects
      BY <3>2
    <3> QED
      BY <1>1, <1>7, <3>1, <3>2, ObjectsMove, PutEvolves, DropEvolves DEF Keep
  <2> QED
    BY <1>1, <1>2, <1>7, <2>1, <2>2, OwnStays
<1> QED
  BY <1>3, <1>4, <1>5, <1>6, <1>7

(* What a call found before it went on. *)
LEMMA FoundFirst ==
  ASSUME ObjectsInv, NEW j \in Job
  PROVE  /\ Resolve(j) /\ job'[j].pc = "submit" =>
              \A i \in 1..Len(job[j].ids) : Exists(job[j].ids[i], "visualization")
         /\ CheckPattern(j) /\ job'[j].pc = "visualizations" => Exists(job[j].pattern, "index-pattern")
         /\ EnsureIndexPattern(j) /\ job'[j].pc = "submit" => Exists(job'[j].pattern, "index-pattern")
         /\ MakePattern(j) /\ job'[j].pc = "submit" =>
              job'[j].pattern = lastId + 1 /\ Gives(Pattern("threat", FALSE, {}, j))
<1>1. Placed(job[j]) /\ DOMAIN job = Job
  BY DEF ObjectsInv, Places
<1>2. ASSUME NEW result, Ends(j, result)
      PROVE  job'[j].pc = "done"
  BY <1>1, <1>2 DEF Ends, Ended, Placed, Fields
<1>3. ASSUME Resolve(j), job'[j].pc = "submit"
      PROVE  \A i \in 1..Len(job[j].ids) : Exists(job[j].ids[i], "visualization")
  BY <1>2, <1>3 DEF Resolve, Found
<1>4. ASSUME CheckPattern(j), job'[j].pc = "visualizations"
      PROVE  Exists(job[j].pattern, "index-pattern")
  BY <1>2, <1>4 DEF CheckPattern
<1>5. ASSUME EnsureIndexPattern(j), job'[j].pc = "submit"
      PROVE  Exists(job'[j].pattern, "index-pattern")
  <2>1. Goes(j, "make pattern") => job'[j].pc = "make pattern"
    BY <1>1 DEF Goes, Placed, Fields
  <2>2. PICK id \in Titled("index-pattern", "threat") :
               job' = [job EXCEPT ![j].pc = "submit", ![j].plan = ThreatPanels,
                                  ![j].pattern = ThreatReference(id)]
    BY <1>2, <1>5, <2>1 DEF EnsureIndexPattern
  <2>3. job'[j].pattern = id
    BY <1>1, <2>2 DEF ThreatReference, Placed, Fields
  <2>4. Exists(id, "index-pattern")
    BY <2>2 DEF Titled, Ids, Exists
  <2> QED
    BY <2>3, <2>4
<1>6. ASSUME MakePattern(j), job'[j].pc = "submit"
      PROVE  job'[j].pattern = lastId + 1 /\ Gives(Pattern("threat", FALSE, {}, j))
  <2>1. /\ job' = [job EXCEPT ![j] = [job[j] EXCEPT !.pc = "submit", !.plan = ThreatPanels,
                                                    !.pattern = ThreatReference(lastId + 1)]]
        /\ Gives(Pattern("threat", FALSE, {}, j))
    BY <1>2, <1>6 DEF MakePattern, Creates, Gives
  <2> QED
    BY <1>1, <2>1 DEF ThreatReference, Placed, Fields
<1> QED
  BY <1>3, <1>4, <1>5, <1>6

ExistsNext(id, kind) == id \in DOMAIN objects' /\ objects'[id].kind = kind

LEMMA ReadyIsKept ==
  ASSUME ObjectsInv, NEW j \in Job, Step(j)
  PROVE  ReadyInv(j)'
<1> DEFINE r == job[j]
           s == job'[j]
           There == \A i \in 1..Len(s.ids) : ExistsNext(s.ids[i], "visualization")
           Bound == ExistsNext(s.pattern, "index-pattern")
<1>1. Placed(r) /\ Placed(s) /\ Moves(r, s) /\ Shaped /\ Evolves /\ r.ids \in Seq(Nat)
  BY MoveIsPlaced, StepEvolves DEF ObjectsInv, Places, Placed
<1> SUFFICES ASSUME removed' = {} PROVE ReadyInv(j)'
  BY DEF ReadyInv
<1>2. removed = {} /\ ReadyInv(j)
  BY <1>1 DEF Evolves, ObjectsInv, JobInv
<1>3. \A id : \A kind \in {"visualization", "index-pattern"} : Exists(id, kind) => ExistsNext(id, kind)
  <2>1. ASSUME NEW id, NEW kind \in {"visualization", "index-pattern"}, Exists(id, kind)
        PROVE  ExistsNext(id, kind)
    <3>1. Exists(id, kind)'
      BY <1>1, <2>1, Persists
    <3> QED
      BY <3>1 DEF Exists, ExistsNext
  <2> QED
    BY <2>1
<1>4. CASE s.pc = "submit"
  <2>1. There
    <3>1. CASE s.tool \in Showing
      <4>1. r.pc = "resolve" /\ s.ids = r.ids
        BY <1>1, <1>4, <3>1 DEF Moves
      <4> QED
        BY <1>3, <1>4, <4>1, WhichStep, FoundFirst
    <3>2. CASE s.tool \notin Showing
      <4>1. s.ids = <<>>
        BY <1>1, <1>4, <3>2 DEF Placed, Before
      <4> QED
        BY <4>1
    <3> QED
      BY <3>1, <3>2
  <2>2. s.tool = "threat" => Bound
    <3> SUFFICES ASSUME s.tool = "threat" PROVE Bound
      OBVIOUS
    <3>1. CASE r.pc = "bind"
      <4>1. r.tool = "threat"
        BY <1>1, <3>1 DEF Moves
      <4>2. EnsureIndexPattern(j)
        BY <3>1, <4>1, WhichStep DEF Bind
      <4> QED
        BY <1>3, <1>4, <4>2, FoundFirst
    <3>2. CASE r.pc = "make pattern"
      <4>1. s.pattern = lastId + 1 /\ Gives(Pattern("threat", FALSE, {}, j))
        BY <1>4, <3>2, WhichStep, FoundFirst
      <4>2. objects'[lastId + 1] = Pattern("threat", FALSE, {}, j) /\ lastId + 1 \in DOMAIN objects'
        BY <1>1, <4>1, Given
      <4>3. Pattern("threat", FALSE, {}, j).kind = "index-pattern"
        BY DEF Pattern
      <4> QED
        BY <4>1, <4>2, <4>3 DEF ExistsNext
    <3> QED
      BY <1>1, <1>4, <3>1, <3>2 DEF Moves
  <2> QED
    BY <1>4, <2>1, <2>2 DEF ReadyInv, Exists, ExistsNext
<1>5. CASE r.pc = "submit" /\ s.pc \in {"visualizations", "dashboard", "put"}
  <2>1. /\ s.ids = r.ids /\ s.pattern = r.pattern /\ s.tool = r.tool
        /\ ~(s.pc = "visualizations" /\ s.tool = "design")
    BY <1>1, <1>5 DEF Moves
  <2> QED
    BY <1>2, <1>3, <1>5, <2>1 DEF ReadyInv, Exists, ExistsNext
<1>6. CASE r.pc = "check" /\ s.pc = "visualizations"
  <2>1. s.ids = r.ids /\ s.pattern = r.pattern /\ r.ids = <<>> /\ s.tool = r.tool /\ r.tool = "design"
    BY <1>1, <1>6 DEF Moves, Placed, Before, Showing
  <2>2. Bound
    BY <1>3, <1>6, <2>1, WhichStep, FoundFirst
  <2>3. There
    BY <2>1
  <2> QED
    BY <1>6, <2>1, <2>2, <2>3 DEF ReadyInv, Exists, ExistsNext
<1>7. CASE r.pc = "visualizations" /\ s.pc \in {"visualizations", "dashboard"}
  <2>1. s.pattern = r.pattern /\ s.tool = r.tool
    BY <1>1, <1>7 DEF Moves
  <2>2. s.result # "failed"
    BY <1>1, <1>7, BlankIsNoName DEF Placed
  <2>3. PICK panel : /\ s.ids = Append(r.ids, lastId + 1)
                     /\ Gives(Visualization(panel, AggsOf(j, panel), r.scope, r.pattern, j))
    BY <1>7, <2>2, WhichStep, VisualizationCreated
  <2> DEFINE object == Visualization(panel, AggsOf(j, panel), r.scope, r.pattern, j)
  <2>4. object.kind = "visualization"
    BY DEF Visualization
  <2> HIDE DEF object
  <2>5. ExistsNext(lastId + 1, "visualization") /\ lastId + 1 \in Nat
    BY <1>1, <2>3, <2>4, Given DEF object, ExistsNext
  <2>6. There
    BY <1>1, <1>2, <1>3, <1>7, <2>3, <2>5, Appended DEF ReadyInv
  <2>7. Bound \/ s.tool \notin {"threat", "design"}
    BY <1>2, <1>3, <1>7, <2>1 DEF ReadyInv
  <2> QED
    BY <1>7, <2>6, <2>7 DEF ReadyInv, Exists, ExistsNext
<1>8. CASE s.pc \notin {"submit", "visualizations", "dashboard", "put"}
  BY <1>8 DEF ReadyInv
<1> QED
  BY <1>1, <1>4, <1>5, <1>6, <1>7, <1>8 DEF Moves

-----------------------------------------------------------------------------
(* The other calls, and the operator. *)
LEMMA OthersAreKept ==
  ASSUME ObjectsInv, Evolves, NEW k \in Job, job'[k] = job[k],
         \A id \in DOMAIN objects' \ DOMAIN objects : objects'[id].by # k
  PROVE  SeenInv(k)' /\ DashInv(k)' /\ OwnInv(k)' /\ ReadyInv(k)'
<1>1. Shaped /\ SeenInv(k) /\ DashInv(k) /\ OwnInv(k) /\ ReadyInv(k)
  BY DEF ObjectsInv, JobInv
<1>2. SeenInv(k)'
  BY <1>1, SeenStays
<1>3. DashInv(k)'
  BY <1>1, DashStays
<1>4. OwnInv(k)'
  BY <1>1, OwnStays
<1>5. ReadyInv(k)'
  BY <1>1, ReadyStays
<1> QED
  BY <1>2, <1>3, <1>4, <1>5

LEMMA NewIsOwn ==
  ASSUME Shaped, NEW j \in Job, Step(j), NEW id \in DOMAIN objects' \ DOMAIN objects
  PROVE  objects'[id].by = j
<1>1. ASSUME NEW object, Gives(object), object.by = j
      PROVE  objects'[id].by = j
  BY <1>1, Given
<1>2. \A panel, aggs, scope, pattern : Visualization(panel, aggs, scope, pattern, j).by = j
  BY DEF Visualization
<1>3. \A title, ids : Dashboard(title, ids, j).by = j
  BY DEF Dashboard
<1>4. Pattern("threat", FALSE, {}, j).by = j
  BY DEF Pattern
<1>5. CASE job[j].pc = "visualizations" /\
           \E panel : Gives(Visualization(panel, AggsOf(j, panel), job[j].scope, job[j].pattern, j))
  <2>1. PICK panel : Gives(Visualization(panel, AggsOf(j, panel), job[j].scope, job[j].pattern, j))
    BY <1>5
  <2> DEFINE object == Visualization(panel, AggsOf(j, panel), job[j].scope, job[j].pattern, j)
  <2>2. object.by = j
    BY <1>2
  <2> HIDE DEF object
  <2> QED
    BY <1>1, <2>1, <2>2 DEF object
<1>6. CASE Gives(Dashboard(job[j].title, job[j].ids, j))
  BY <1>1, <1>3, <1>6
<1>7. CASE Gives(Pattern("threat", FALSE, {}, j))
  BY <1>1, <1>4, <1>7
<1> QED
  BY <1>5, <1>6, <1>7, ObjectsMove, PutEvolves, DropEvolves DEF Keep

(* What a tool creates renders. *)
LEMMA PanelAggsRender == \A panel : AggsRender(NormalizeAggs(PanelAggs(panel)))
<1>0. "1" # Blank /\ "2" # Blank /\ "count" # Blank /\ "terms" # Blank
  BY Zenon DEF Blank
<1> SUFFICES ASSUME NEW panel PROVE AggsRender(NormalizeAggs(PanelAggs(panel)))
  OBVIOUS
<1> DEFINE aggs == PanelAggs(panel)
           all == NormalizeAggs(aggs)
<1>1. /\ Len(aggs) \in 1..2 /\ DOMAIN aggs = 1..Len(aggs)
      /\ aggs[1] = Agg("1", "count", Blank) /\ (Len(aggs) = 2 => aggs[2] = Agg("2", "terms", panel))
  <2> DEFINE a == Agg("1", "count", Blank)
             b == Agg("2", "terms", panel)
  <2>1. aggs = <<a>> \/ aggs = <<a, b>>
    BY Zenon DEF PanelAggs
  <2> HIDE DEF a, b, aggs
  <2>2. Len(aggs) \in 1..2 /\ DOMAIN aggs = 1..Len(aggs) /\ aggs[1] = a /\ (Len(aggs) = 2 => aggs[2] = b)
    <3>1. CASE aggs = <<a>>
      <4>1. Len(aggs) = 1 /\ DOMAIN aggs = 1..1 /\ aggs[1] = a
        BY <3>1
      <4>2. 1 \in 1..2 /\ 1 # 2
        OBVIOUS
      <4> QED
        BY <4>1, <4>2, Zenon
    <3>2. CASE aggs = <<a, b>>
      <4>1. Len(aggs) = 2 /\ DOMAIN aggs = 1..2 /\ aggs[1] = a /\ aggs[2] = b
        BY <3>2
      <4>2. 2 \in 1..2
        OBVIOUS
      <4> QED
        BY <4>1, <4>2, Zenon
    <3> QED
      BY <2>1, <3>1, <3>2
  <2> QED
    BY <2>2 DEF a, b
<1> HIDE DEF aggs
<1>2. ASSUME NEW i \in 1..Len(aggs), aggs[i].id # Blank, DOMAIN aggs[i] = {"id", "type", "field"}
      PROVE  all[i].id = aggs[i].id /\ all[i].type = aggs[i].type
  BY <1>2, Zenon DEF NormalizeAggs
<1>3. Len(all) = Len(aggs)
  BY <1>1 DEF NormalizeAggs
<1> HIDE DEF all
<1>4. /\ aggs[1].id = "1" /\ aggs[1].type = "count" /\ DOMAIN aggs[1] = {"id", "type", "field"}
      /\ Len(aggs) = 2 => /\ aggs[2].id = "2" /\ aggs[2].type = "terms"
                          /\ DOMAIN aggs[2] = {"id", "type", "field"}
  BY <1>1 DEF Agg
<1>5. all[1].id = "1" /\ all[1].type = "count"
  BY <1>0, <1>1, <1>2, <1>4
<1>6. Len(aggs) = 2 => all[2].id = "2" /\ all[2].type = "terms"
  BY <1>0, <1>1, <1>2, <1>4
<1>7. Len(aggs) = 1 \/ Len(aggs) = 2
  BY <1>1
<1>8. AggsRender(all)
  BY <1>0, <1>3, <1>5, <1>6, <1>7 DEF AggsRender
<1> QED
  BY <1>8 DEF all, aggs

-----------------------------------------------------------------------------
(* What is saved stays sound. *)
SoundNext(id, object) ==
  /\ object.kind = "visualization" =>
       \/ object.by = None
       \/ object.by # None /\ job'[object.by].tool = "visual"
       \/ /\ ValidateVisualization(object)
          /\ \A i \in 1..Len(object.refs) : ExistsNext(object.refs[i], "index-pattern")
  /\ object.kind = "dashboard" /\ (object.by # None \/ id \in touched') =>
       /\ ValidateDashboard(object)
       /\ \A i \in 1..Len(object.refs) : ExistsNext(object.refs[i], "visualization")

LEMMA SoundlyNext ==
  (\A id \in DOMAIN objects' : SoundNext(id, objects'[id])) => SoundInv'
BY Zenon DEF SoundNext, SoundInv, SoundVisualization, SoundDashboard, ToolBuilt, Unchecked, ExistsNext, Exists,
   ValidateVisualization, ValidateDashboard

LEMMA ExistsStays ==
  ASSUME Shaped, Evolves, removed' = {}, NEW id, NEW kind \in {"visualization", "index-pattern"},
         Exists(id, kind)
  PROVE  ExistsNext(id, kind)
<1>1. Exists(id, kind)'
  BY Persists
<1> QED
  BY <1>1 DEF Exists, ExistsNext

LEMMA SoundStays ==
  ASSUME Shaped, Evolves, SoundInv, removed' = {}, NEW id \in DOMAIN objects,
         id \in touched' => id \in touched,
         \A k \in Job : job[k].tool = "visual" => job'[k].tool = "visual"
  PROVE  SoundNext(id, objects[id])
<1> DEFINE object == objects[id]
<1>1. removed = {} /\ object.by \in Job \cup {None}
  BY DEF Evolves, Shaped
<1>2. /\ object.kind = "visualization" => SoundVisualization(id)
      /\ object.kind = "dashboard" => SoundDashboard(id)
  BY <1>1 DEF SoundInv
<1>3. CASE object.kind = "visualization"
  BY <1>1, <1>2, <1>3, ExistsStays DEF SoundNext, SoundVisualization, Unchecked
<1>4. CASE object.kind = "dashboard"
  <2>1. CASE ToolBuilt(id)
    BY <1>2, <1>4, <2>1, ExistsStays DEF SoundNext, SoundDashboard
  <2>2. CASE ~ToolBuilt(id) /\ id \notin touched'
    BY <1>4, <2>2 DEF SoundNext, ToolBuilt
  <2> QED
    BY <1>4, <2>1, <2>2 DEF SoundNext, ToolBuilt
<1> QED
  BY <1>3, <1>4 DEF SoundNext

LEMMA VisualizationIsSound ==
  ASSUME ObjectsInv, NEW j \in Job, Step(j), removed' = {}, job[j].pc = "visualizations", NEW panel,
         NEW id
  PROVE  SoundNext(id, Visualization(panel, AggsOf(j, panel), job[j].scope, job[j].pattern, j))
<1> DEFINE object == Visualization(panel, AggsOf(j, panel), job[j].scope, job[j].pattern, j)
<1>1. /\ object.kind = "visualization" /\ object.by = j /\ object.refs = <<job[j].pattern>>
      /\ object.aggs = NormalizeAggs(AggsOf(j, panel))
  BY DEF Visualization
<1> HIDE DEF object
<1>2. /\ Placed(job[j]) /\ Moves(job[j], job'[j]) /\ Shaped /\ Evolves /\ ReadyInv(j) /\ j # None
  BY MoveIsPlaced, StepEvolves, JobAssumption DEF ObjectsInv, JobInv, Places
<1>3. removed = {} /\ job'[j].tool = job[j].tool /\ job[j].tool \in {"design", "threat", "visual"}
  BY <1>2 DEF Evolves, Moves, Placed
<1>4. CASE job[j].tool = "visual"
  BY <1>1, <1>2, <1>3, <1>4 DEF SoundNext, object
<1>5. CASE job[j].tool # "visual"
  <2>1. AggsRender(object.aggs)
    BY <1>1, <1>5, PanelAggsRender, Zenon DEF AggsOf
  <2>2. ExistsNext(job[j].pattern, "index-pattern")
    BY <1>2, <1>3, <1>5, ExistsStays DEF ReadyInv
  <2>3. object.refs # <<>> /\ \A i \in 1..Len(object.refs) : object.refs[i] = job[j].pattern
    BY <1>1
  <2> QED
    BY <1>1, <2>1, <2>2, <2>3 DEF SoundNext, ValidateVisualization, object
<1> QED
  BY <1>4, <1>5

LEMMA DashboardIsSound ==
  ASSUME ObjectsInv, NEW j \in Job, Step(j), removed' = {}, job[j].pc \in {"dashboard", "put"},
         NEW id, NEW object, object.kind = "dashboard", object.refs = job[j].ids
  PROVE  SoundNext(id, object)
<1>1. Placed(job[j]) /\ Shaped /\ Evolves /\ ReadyInv(j)
  BY StepEvolves DEF ObjectsInv, JobInv, Places
<1>2. removed = {} /\ job[j].ids # <<>>
  BY <1>1 DEF Evolves, Placed, Showing
<1>3. \A i \in 1..Len(job[j].ids) : ExistsNext(job[j].ids[i], "visualization")
  BY <1>1, <1>2, ExistsStays DEF ReadyInv
<1> QED
  BY <1>2, <1>3 DEF SoundNext, ValidateDashboard

LEMMA SoundIsKept ==
  ASSUME ObjectsInv, NEW j \in Job, Step(j)
  PROVE  SoundInv'
<1> SUFFICES ASSUME removed' = {} PROVE SoundInv'
  BY DEF SoundInv
<1>1. Shaped /\ Evolves /\ SoundInv
  BY StepEvolves DEF ObjectsInv
<1>2. \A k \in Job : job[k].tool = "visual" => job'[k].tool = "visual"
  <2>1. \A k \in Job \ {j} : job'[k] = job[k]
    BY MoveIsPlaced DEF ObjectsInv
  <2>2. Placed(job[j]) /\ Moves(job[j], job'[j])
    BY MoveIsPlaced DEF ObjectsInv, Places
  <2>3. job[j].tool = "visual" => job[j].pc # "idle"
    BY <2>2, BlankIsNoName DEF Placed
  <2> QED
    BY <2>1, <2>2, <2>3 DEF Moves
<1>3. ASSUME NEW id \in DOMAIN objects, objects'[id] = objects[id], id \in touched' => id \in touched
      PROVE  SoundNext(id, objects'[id])
  <2>1. SoundNext(id, objects[id])
    BY <1>1, <1>2, <1>3, SoundStays
  <2> QED
    BY <1>3, <2>1
<1>4. ASSUME NEW object, Gives(object), SoundNext(lastId + 1, object)
      PROVE  SoundInv'
  <2>1. /\ DOMAIN objects' = DOMAIN objects \cup {lastId + 1} /\ objects'[lastId + 1] = object
        /\ \A id \in DOMAIN objects : objects'[id] = objects[id]
        /\ touched' = touched
    BY <1>1, <1>4, Given
  <2>2. \A id \in DOMAIN objects : SoundNext(id, objects'[id])
    BY <1>3, <2>1
  <2>3. \A id \in DOMAIN objects' : SoundNext(id, objects'[id])
    BY <1>4, <2>1, <2>2
  <2> QED
    BY <2>3, SoundlyNext
<1>5. CASE Keep \/ Drop(job[j].target)
  <2>1. \A id \in DOMAIN objects' : /\ id \in DOMAIN objects /\ objects'[id] = objects[id]
                                    /\ id \in touched' => id \in touched
    <3>1. CASE Keep
      BY <3>1 DEF Keep
    <3>2. CASE Drop(job[j].target)
      <4>1. touched' = touched \cup {job[j].target}
        BY <3>2 DEF Drop
      <4> QED
        BY <1>1, <3>2, <4>1, DropEvolves
    <3> QED
      BY <1>5, <3>1, <3>2
  <2>2. ASSUME NEW id \in DOMAIN objects'
        PROVE  SoundNext(id, objects'[id])
    <3>1. id \in DOMAIN objects /\ objects'[id] = objects[id] /\ (id \in touched' => id \in touched)
      BY <2>1, <2>2
    <3> QED
      BY <1>3, <3>1
  <2> QED
    BY <2>2, SoundlyNext
<1>6. CASE Gives(Pattern("threat", FALSE, {}, j))
  <2>1. SoundNext(lastId + 1, Pattern("threat", FALSE, {}, j))
    <3>1. Pattern("threat", FALSE, {}, j).kind = "index-pattern"
      BY DEF Pattern
    <3> QED
      BY <3>1 DEF SoundNext
  <2> QED
    BY <1>4, <1>6, <2>1
<1>7. CASE job[j].pc = "visualizations" /\
           \E panel : Gives(Visualization(panel, AggsOf(j, panel), job[j].scope, job[j].pattern, j))
  BY <1>4, <1>7, VisualizationIsSound
<1>8. CASE job[j].pc = "dashboard" /\ Gives(Dashboard(job[j].title, job[j].ids, j))
  <2> DEFINE object == Dashboard(job[j].title, job[j].ids, j)
  <2>1. object.kind = "dashboard" /\ object.refs = job[j].ids
    BY DEF Dashboard, BuildPanels
  <2>2. SoundNext(lastId + 1, object)
    BY <1>8, <2>1, DashboardIsSound
  <2> QED
    BY <1>4, <1>8, <2>2
<1>9. CASE job[j].pc = "put" /\ Put(job[j].target, job[j].title, job[j].ids)
  <2> DEFINE id == job[j].target
  <2>1. /\ DOMAIN objects' = DOMAIN objects /\ id \in DOMAIN objects
        /\ objects'[id].refs = job[j].ids /\ objects'[id].kind = "dashboard"
        /\ \A k \in DOMAIN objects \ {id} : objects'[k] = objects[k]
    BY <1>1, <1>9, PutEvolves
  <2>2. touched' = touched \cup {id}
    BY <1>9 DEF Put
  <2>3. SoundNext(id, objects'[id])
    BY <1>9, <2>1, DashboardIsSound
  <2>4. \A k \in DOMAIN objects' : SoundNext(k, objects'[k])
    BY <1>3, <2>1, <2>2, <2>3
  <2> QED
    BY <2>4, SoundlyNext
<1> QED
  BY <1>5, <1>6, <1>7, <1>8, <1>9, ObjectsMove

-----------------------------------------------------------------------------
LEMMA ObjectsInvIsKept ==
  ASSUME ObjectsInv, [Next]_objectVars
  PROVE  ObjectsInv'
<1>1. Places /\ Shaped /\ JobInv /\ SoundInv
  BY DEF ObjectsInv
<1>2. ASSUME NEW j \in Job, Step(j)
      PROVE  ObjectsInv'
  <2>1. /\ DOMAIN job' = Job /\ Placed(job'[j])
        /\ \A k \in Job \ {j} : job'[k] = job[k]
    BY <1>1, <1>2, MoveIsPlaced
  <2>2. Evolves /\ Shaped'
    BY <1>1, <1>2, StepEvolves
  <2>3. Places'
    BY <1>1, <2>1 DEF Places
  <2>4. JobInv'
    <3>1. SeenInv(j)' /\ DashInv(j)' /\ OwnInv(j)' /\ ReadyInv(j)'
      BY <1>2, SeenIsKept, DashIsKept, OwnIsKept, ReadyIsKept
    <3>2. ASSUME NEW k \in Job \ {j}
          PROVE  SeenInv(k)' /\ DashInv(k)' /\ OwnInv(k)' /\ ReadyInv(k)'
      <4>1. \A id \in DOMAIN objects' \ DOMAIN objects : objects'[id].by # k
        BY <1>1, <1>2, NewIsOwn
      <4> QED
        BY <2>1, <2>2, <4>1, OthersAreKept
    <3> QED
      BY <3>1, <3>2 DEF JobInv
  <2>5. SoundInv'
    BY <1>2, SoundIsKept
  <2> QED
    BY <2>2, <2>3, <2>4, <2>5 DEF ObjectsInv
<1>3. CASE RemoveByHand
  <2>1. Evolves /\ Shaped' /\ removed' # {} /\ job' = job /\ DOMAIN objects' \subseteq DOMAIN objects
    BY <1>1, <1>3, RemoveEvolves
  <2>2. JobInv'
    BY <2>1, OthersAreKept DEF JobInv
  <2> QED
    BY <1>1, <2>1, <2>2 DEF ObjectsInv, Places, SoundInv
<1>4. CASE UNCHANGED objectVars
  <2>1. Evolves /\ Shaped' /\ UNCHANGED <<objects, job, removed, touched>>
    BY <1>1, <1>4, KeepEvolves DEF objectVars, Keep
  <2>2. JobInv'
    BY <2>1, OthersAreKept DEF JobInv
  <2>3. SoundInv'
    BY <1>1, <2>1 DEF SoundInv, SoundVisualization, SoundDashboard, ToolBuilt, Unchecked, Exists
  <2> QED
    BY <1>1, <2>1, <2>2, <2>3 DEF ObjectsInv, Places
<1> QED
  BY <1>2, <1>3, <1>4 DEF Next

LEMMA LastIsMax ==
  ASSUME NEW S, NEW last \in S, \A id \in S : last >= id
  PROVE  Max(S) \in S /\ \A id \in S : Max(S) >= id
BY Zenon DEF Max

LEMMA ObjectsInvHoldsFirst ==
  ASSUME Init
  PROVE  ObjectsInv
<1>1. /\ objects \in FirstObjects /\ lastId = Max(DOMAIN objects) /\ job = [j \in Job |-> NewJob]
      /\ removed = {} /\ touched = {}
  BY DEF Init
<1>2. DOMAIN objects \subseteq Nat \ {None}
  BY <1>1, FirstObjectsAssumption
<1>3. lastId \in DOMAIN objects /\ \A id \in DOMAIN objects : id <= lastId
  <2>1. PICK last \in DOMAIN objects : \A id \in DOMAIN objects : id <= last
    BY <1>1, FirstObjectsAssumption
  <2>2. \A id \in DOMAIN objects : last >= id
    BY <2>1
  <2>3. Max(DOMAIN objects) \in DOMAIN objects /\ \A id \in DOMAIN objects : Max(DOMAIN objects) >= id
    BY <2>2, LastIsMax
  <2> QED
    BY <1>1, <1>2, <2>3
<1>4. \A id \in DOMAIN objects :
        /\ {"kind", "title", "by"} \subseteq DOMAIN objects[id] /\ objects[id].by = None
        /\ objects[id].kind = "dashboard" => "refs" \in DOMAIN objects[id]
  BY <1>1, FirstObjectsAssumption
<1>5. Shaped
  BY <1>2, <1>3, <1>4 DEF Shaped, None
<1>6. Places
  BY <1>1, NewIsPlaced DEF Places
<1>7. ASSUME NEW j \in Job
      PROVE  SeenInv(j) /\ DashInv(j) /\ OwnInv(j) /\ ReadyInv(j)
  <2>1. job[j].seen = {} /\ job[j].dash = None /\ job[j].pc = "idle" /\ job[j].tool = Blank
    BY <1>1 DEF NewJob
  <2>2. SeenInv(j) /\ DashInv(j)
    BY <2>1 DEF SeenInv, DashInv
  <2>3. OwnInv(j)
    BY <1>4, JobAssumption DEF OwnInv
  <2>4. ReadyInv(j)
    BY <2>1 DEF ReadyInv
  <2> QED
    BY <2>2, <2>3, <2>4
<1>8. SoundInv
  BY <1>1, <1>4 DEF SoundInv, SoundVisualization, SoundDashboard, ToolBuilt
<1> QED
  BY <1>5, <1>6, <1>7, <1>8 DEF ObjectsInv, JobInv

LEMMA ObjectsInvHolds == ObjectsSpec => []ObjectsInv
BY ObjectsInvHoldsFirst, ObjectsInvIsKept, PTL DEF ObjectsSpec

(* For every number of calls, tools, titles and objects of the server: two     *)
(* dashboards of the same title come from calls of which neither could see     *)
(* the dashboard of the other when it was proposed, unless a listing failed    *)
(* or was cut, or somebody changed one of them; and no approved proposal is    *)
(* lost to the veto (preview.py, duplicate_veto).                              *)
THEOREM TwinsOverlap == ObjectsSpec => []TwinsOverlapped
<1>1. ASSUME ObjectsInv PROVE TwinsOverlapped
  <2>1. ASSUME NEW j \in Job, job[j].result = "vetoed" PROVE ~job[j].approved
    BY <1>1, <2>1 DEF ObjectsInv, Places, Placed
  <2>2. ASSUME NEW a \in Job, NEW b \in Job,
               {job[a].dash, job[b].dash} \subseteq DOMAIN objects \ touched,
               objects[job[a].dash].title = objects[job[b].dash].title,
               ~job[a].blind, job[b].dash \in job[a].seen
        PROVE  FALSE
    <3>1. objects[job[b].dash].title # job[a].title
      BY <1>1, <2>2 DEF ObjectsInv, JobInv, SeenInv
    <3>2. job[a].dash # None
      BY <1>1, <2>2 DEF ObjectsInv, Shaped, None
    <3>3. objects[job[a].dash].title = job[a].title
      BY <1>1, <2>2, <3>2 DEF ObjectsInv, JobInv, DashInv
    <3> QED
      BY <2>2, <3>1, <3>3
  <2> QED
    BY <2>1, <2>2 DEF TwinsOverlapped
<1> QED
  BY <1>1, ObjectsInvHolds, PTL

(* A visualization on no dashboard is explained, whatever is assembled,        *)
(* changed, deleted and removed meanwhile: a run that reports a dashboard      *)
(* leaves nothing else behind (engine.py).                                     *)
THEOREM OrphansHaveReasons == ObjectsSpec => []OrphansAreExplained
<1>1. ASSUME ObjectsInv PROVE OrphansAreExplained
  <2> SUFFICES ASSUME NEW vis \in DOMAIN objects, objects[vis].kind = "visualization",
                      objects[vis].by # None, job[objects[vis].by].pc = "done",
                      job[objects[vis].by].result # "failed", job[objects[vis].by].tool # "visual",
                      job[objects[vis].by].dash \notin touched
               PROVE  \E id \in Ids("dashboard") : vis \in ToSet(objects[id].refs)
    BY DEF OrphansAreExplained, Ids
  <2>1. PICK j \in Job : j = objects[vis].by
    BY <1>1 DEF ObjectsInv, Shaped
  <2>2. vis \in ToSet(job[j].ids) /\ job[j].dash # None
    BY <1>1, <2>1 DEF ObjectsInv, JobInv, OwnInv
  <2>3. /\ job[j].dash \in DOMAIN objects /\ objects[job[j].dash].kind = "dashboard"
        /\ objects[job[j].dash].refs = job[j].ids
    BY <1>1, <2>1, <2>2 DEF ObjectsInv, JobInv, DashInv
  <2> QED
    BY <2>2, <2>3 DEF Ids
<1> QED
  BY <1>1, ObjectsInvHolds, PTL

(* As long as the operator removes nothing by hand, a dashboard that a tool    *)
(* created or gave its panels shows visualizations that are there, and those   *)
(* that the tools made and checked render, whatever else the server started    *)
(* with and for every interleaving of the tools' requests, failed ones and     *)
(* lost answers included (dashboards.py, engine.py).                           *)
THEOREM DashboardsRender == ObjectsSpec => []BuiltDashboardsRender
<1>1. ASSUME ObjectsInv PROVE BuiltDashboardsRender
  <2> SUFFICES ASSUME removed = {}, NEW id \in DOMAIN objects, objects[id].kind = "dashboard",
                      ToolBuilt(id)
               PROVE  /\ ValidateDashboard(objects[id])
                      /\ \A i \in 1..Len(objects[id].refs) :
                           LET vis == objects[id].refs[i]
                           IN  /\ Exists(vis, "visualization")
                               /\ \/ objects[vis].by = None \/ Unchecked(vis)
                                  \/ Resolves(vis) /\ ValidateVisualization(objects[vis])
    BY DEF BuiltDashboardsRender, Ids
  <2>1. /\ ValidateDashboard(objects[id])
        /\ \A i \in 1..Len(objects[id].refs) : Exists(objects[id].refs[i], "visualization")
    BY <1>1 DEF ObjectsInv, SoundInv, SoundDashboard
  <2>2. ASSUME NEW vis, Exists(vis, "visualization"), objects[vis].by # None, ~Unchecked(vis)
        PROVE  Resolves(vis) /\ ValidateVisualization(objects[vis])
    <3>1. SoundVisualization(vis)
      BY <1>1, <2>2 DEF ObjectsInv, SoundInv, Exists
    <3> QED
      BY <2>2, <3>1 DEF SoundVisualization, Resolves
  <2> QED
    BY <2>1, <2>2
<1> QED
  BY <1>1, ObjectsInvHolds, PTL
=============================================================================
