---------------------------- MODULE LiveValidation ----------------------------
(* One run of the live validation harness (live_validation/cli.py, env.py,     *)
(* evidence.py, cleanup.py): preflight, the syslog listener, the scenarios one *)
(* after the other with a crash of one not ending the run, the cleanup and the *)
(* verdict.  The manager loads its rules file when it restarts; requests fail, *)
(* with or without effect, and the operator works in the same approval store.  *)
EXTENDS LiveScenarios, FiniteSets

CONSTANTS
  Names,       \* the scenarios asked for, in order
  Args,        \* the command lines: [auto, confirm, setup, cleanup, reset]
  Events,      \* how many syslog events a scenario feeds
  MaxFaults,   \* bounds what goes wrong
  MaxHuman     \* bounds the proposals the operator rejects

VARIABLES
  args,       \* the command line
  phase,      \* where main() is
  at,         \* the scenario, by its place in Names
  script,     \* the steps it still has to take
  rows,       \* its evidence so far: "none", "pass" or "fail"
  log,        \* the evidence kept, per scenario and for the cleanup
  manager,    \* [file, loaded, ready]: the harness's rule on the manager
  server,     \* the harness's dashboard and its visualizations, if there
  listener,   \* whether ossec.conf has the UDP 514 block
  alerts,     \* [sent, indexed]: the marked events under way and stored
  proposals,  \* the approval store: sequence of [what, status, tracked]
  current,    \* the proposal the harness is working on
  created,    \* what the harness remembers having created
  result,     \* the verdict
  faults, human

ASSUME NamesAssumption == Names \in Seq(ScenarioNames)

ASSUME ArgsAssumption ==
  Args \subseteq [auto : BOOLEAN, confirm : BOOLEAN, setup : BOOLEAN, cleanup : BOOLEAN,
                 reset : BOOLEAN]

envVars == <<manager, server, listener, alerts>>
liveVars == <<args, phase, at, script, rows, log, envVars, proposals, current, created, result,
              faults, human>>

Init ==
  /\ args \in Args
  /\ phase = "preflight" /\ at = 0 /\ script = <<>> /\ rows = "none"
  /\ log = [s \in {Names[i] : i \in 1..Len(Names)} \cup {"cleanup"} |-> "none"]
  /\ manager = [file |-> FALSE, loaded |-> FALSE, ready |-> TRUE]
  /\ server = {}
  /\ listener \in BOOLEAN
  /\ alerts = [sent |-> 0, indexed |-> 0]
  /\ proposals = <<>> /\ current = 0
  /\ created = {}
  /\ result = Blank /\ faults = 0 /\ human = 0

-----------------------------------------------------------------------------
(* evidence.py: a scenario that failed once has failed.                        *)
Worse(status, passed) == IF passed /\ status # "fail" THEN "pass" ELSE "fail"

AllPass == \A s \in DOMAIN log : log[s] # "fail"

Fault == faults < MaxFaults /\ faults' = faults + 1
Fine == faults' = faults

(* main() up to the first scenario: a failed preflight, or a manager that is   *)
(* not back after the listener was set up, ends the run.                       *)
Preflight ==
  /\ phase = "preflight"
  /\ \/ Fault /\ phase' = "done" /\ result' = "refused" /\ UNCHANGED <<listener, manager>>
     \/ /\ Fine /\ phase' = "scenarios" /\ UNCHANGED result
        /\ listener' = (listener \/ args.setup)
        /\ manager' = IF args.setup THEN [manager EXCEPT !.loaded = manager.file] ELSE manager
  /\ UNCHANGED <<args, at, script, rows, log, server, alerts, proposals, current, created, human>>

(* A scenario asked for a second time adds to the evidence it has.             *)
NextScenario ==
  /\ phase = "scenarios" /\ script = <<>> /\ at < Len(Names)
  /\ at' = at + 1
  /\ script' = Script(Names[at + 1], args.auto, "rule" \in created)
  /\ rows' = log[Names[at + 1]]
  /\ UNCHANGED <<args, phase, log, envVars, proposals, current, created, result, faults, human>>

(* A step writes its evidence; the scenario goes on or returns, and its rows   *)
(* are kept when it is over.                                                   *)
Over(passed, outcome) ==
  LET stop == Head(script).stop
  IN  \/ Len(script) = 1
      \/ outcome = "error" /\ stop \in {"error", "failure"}
      \/ ~passed /\ stop = "failure"

Writes(passed, outcome) ==
  /\ rows' = Worse(rows, passed)
  /\ script' = IF Over(passed, outcome) THEN <<>> ELSE Tail(script)
  /\ log' = IF Over(passed, outcome) THEN [log EXCEPT ![Names[at]] = rows'] ELSE log

Running(op) == phase = "scenarios" /\ script # <<>> /\ Head(script).op = op
Arg == Head(script).arg
Rest == UNCHANGED <<args, phase, at, result, human>>

(* What a reading step sees, unless its request fails.                         *)
Sees ==
  CASE Head(script).op \in {"read", "note"} -> TRUE
    [] Head(script).op = "absent" /\ Arg = "rule" -> ~manager.loaded
    [] Head(script).op = "absent" /\ Arg = "rule file" -> ~manager.file \/ "rule" \in created
    [] Head(script).op = "absent" /\ Arg = "dashboard" -> "dashboard" \notin server
    [] Head(script).op = "loaded" -> manager.loaded
    [] Head(script).op = "served" -> "dashboard" \in server

Look ==
  /\ \E op \in {"read", "note", "absent", "loaded", "served"} : Running(op)
  /\ \/ Fine /\ Writes(Sees, Blank)
     \/ Fault /\ Head(script).op # "note" /\ \E outcome \in {Blank, "error"} : Writes(FALSE, outcome)
  /\ Rest /\ UNCHANGED <<envVars, proposals, current, created>>

(* An exception no step of the scenario catches: its rows are gone and one     *)
(* error row is written for it.                                                *)
CrashRowDropped == "none"

CrashRow == "fail"

Crash ==
  /\ Running("read") /\ Fault
  /\ script' = <<>> /\ rows' = "none"
  /\ log' = [log EXCEPT ![Names[at]] = CrashRow]
  /\ Rest /\ UNCHANGED <<envVars, proposals, current, created>>

-----------------------------------------------------------------------------
(* env.propose, approve and execute_approved.                                  *)
Proposed(what, tracked) ==
  /\ proposals' = Append(proposals, [what |-> what, status |-> "pending", tracked |-> tracked])
  /\ current' = Len(proposals) + 1

Proposable(what) == what = "delete rule" => manager.file

NotProposed == proposals' = proposals /\ current' = 0

Propose ==
  /\ Running("propose")
  /\ \/ Fine /\ Proposable(Arg) /\ Proposed(Arg, TRUE) /\ Writes(TRUE, Blank)
     \/ Fine /\ ~Proposable(Arg) /\ NotProposed /\ Writes(FALSE, Blank)
     \/ Fault /\ NotProposed /\ Writes(FALSE, "error")
  /\ Rest /\ UNCHANGED <<envVars, created>>

(* Calls that are meant to fail.  Malformed ones are refused, whatever the     *)
(* reason; a well-formed one ends as a proposal, which is not remembered.      *)
Misuse ==
  /\ \/ /\ Running("misuse") \/ Running("bypass")
        /\ Proposed(Arg, FALSE) /\ Writes(TRUE, Blank) /\ Fine
     \/ Running("misuse") /\ NotProposed /\ Writes(TRUE, Blank) /\ Fine
     \/ Running("bypass") /\ NotProposed /\ Writes(FALSE, Blank) /\ Fault
  /\ Rest /\ UNCHANGED <<envVars, created>>

Approvable == current # 0 /\ proposals[current].status = "pending"

ApproveStep ==
  /\ Running("approve")
  /\ IF Approvable
     THEN proposals' = [proposals EXCEPT ![current].status = "approved"] /\ Writes(TRUE, Blank)
     ELSE UNCHANGED proposals /\ Writes(FALSE, "error")
  /\ Fine /\ Rest /\ UNCHANGED <<envVars, current, created>>

(* What an executed proposal does.  The harness does not claim it: it stays    *)
(* approved.                                                                   *)
NeedsConfirm(what) == what \in {"restart", "delete rule", "delete dashboard"}

Executable(confirm) ==
  /\ current # 0 /\ proposals[current].status = "approved"
  /\ (NeedsConfirm(proposals[current].what) => confirm)

Effect(what) ==
  /\ manager' = CASE what = "rule" -> [manager EXCEPT !.file = TRUE]
                  [] what = "delete rule" -> [manager EXCEPT !.file = FALSE]
                  [] what = "restart" -> [manager EXCEPT !.loaded = manager.file, !.ready = FALSE]
                  [] OTHER -> manager
  /\ server' = CASE what = "dashboard" -> server \cup {"dashboard", "visualizations"}
                 [] what = "delete dashboard" -> server \ {"dashboard"}
                 [] OTHER -> server
  /\ UNCHANGED <<listener, alerts>>

RememberedRules(what) == created \cup ({what} \cap {"rule"})

Remembered(what) == created \cup ({what} \cap {"rule", "dashboard"})

Confirmed == args.confirm \/ args.auto

Execute ==
  /\ Running("execute")
  /\ \/ /\ Fine /\ Executable(Confirmed) /\ Effect(Arg) /\ Writes(TRUE, Blank)
        /\ created' = Remembered(Arg)
     \/ Fine /\ ~Executable(Confirmed) /\ UNCHANGED <<envVars, created>> /\ Writes(FALSE, Blank)
     \/ /\ Fault /\ Executable(Confirmed) /\ Writes(FALSE, Blank) /\ UNCHANGED created
        /\ (Effect(Arg) \/ UNCHANGED envVars)
  /\ Rest /\ UNCHANGED <<proposals, current>>

(* The probe of the confirmation: the execution must not come through.         *)
ExecuteUnconfirmed ==
  /\ Running("refused")
  /\ IF Executable(FALSE) THEN Effect(Arg) /\ Writes(FALSE, Blank)
     ELSE UNCHANGED envVars /\ Writes(TRUE, Blank)
  /\ Fine /\ Rest /\ UNCHANGED <<proposals, current, created>>

(* wait_for_manager, wait_for_logtest, within their time.                      *)
Wait ==
  /\ Running("wait")
  /\ \/ Fine /\ manager' = [manager EXCEPT !.ready = TRUE] /\ Writes(TRUE, Blank)
     \/ Fault /\ UNCHANGED manager /\ Writes(FALSE, Blank)
  /\ Rest /\ UNCHANGED <<server, listener, alerts, proposals, current, created>>

(* The streamed events: sent as datagrams, indexed one by one in their time,   *)
(* and what is indexed is deleted by the marker they carry.                    *)
Feed ==
  /\ Running("feed")
  /\ \/ /\ Fine /\ Writes(TRUE, Blank)
        /\ alerts' = [alerts EXCEPT !.sent = IF listener /\ manager.ready THEN Events ELSE 0]
     \/ Fault /\ UNCHANGED alerts /\ Writes(FALSE, "error")
  /\ Rest /\ UNCHANGED <<manager, server, listener, proposals, current, created>>

Index ==
  /\ alerts.sent > 0
  /\ alerts' = [sent |-> alerts.sent - 1, indexed |-> alerts.indexed + 1]
  /\ UNCHANGED <<args, phase, at, script, rows, log, manager, server, listener, proposals,
                 current, created, result, faults, human>>

Observe ==
  /\ Running("observed")
  /\ \/ Fine /\ alerts.indexed > 0 /\ Writes(TRUE, Blank)
     \/ Fine /\ alerts.indexed = 0 /\ alerts.sent = 0 /\ Writes(FALSE, Blank)
     \/ Fault /\ alerts.indexed = 0 /\ Writes(FALSE, Blank)
  /\ Rest /\ UNCHANGED <<envVars, proposals, current, created>>

Purge ==
  /\ Running("purge")
  /\ \/ Fine /\ alerts' = [alerts EXCEPT !.indexed = 0] /\ Writes(TRUE, Blank)
     \/ Fault /\ UNCHANGED alerts /\ Writes(FALSE, "error")
  /\ Rest /\ UNCHANGED <<manager, server, listener, proposals, current, created>>

-----------------------------------------------------------------------------
(* The cleanup, in its order.  A proposal of the cleanup is made, approved and *)
(* executed in one go; what goes wrong is a failed row and the next artifact's *)
(* turn comes.                                                                 *)
CleanupRow(passed) == log' = [log EXCEPT !["cleanup"] = Worse(@, passed)]
Cleaning(step) == phase = step
CleanRest == UNCHANGED <<args, at, script, rows, result, human>>

StartCleanup ==
  /\ phase = "scenarios" /\ script = <<>> /\ at = Len(Names)
  /\ phase' = IF args.cleanup THEN "leftovers" ELSE "verdict"
  /\ UNCHANGED <<args, at, script, rows, log, envVars, proposals, current, created, result,
                 faults, human>>

RejectLeftovers ==
  /\ Cleaning("leftovers") /\ phase' = "clean dashboards"
  /\ proposals' = [i \in 1..Len(proposals) |->
       IF proposals[i].tracked /\ proposals[i].status = "pending"
       THEN [proposals[i] EXCEPT !.status = "rejected"] ELSE proposals[i]]
  /\ Fine /\ CleanRest /\ UNCHANGED <<log, envVars, current, created>>

(* One approved and confirmed execution of the cleanup.                        *)
Carried(what) ==
  /\ proposals' = Append(proposals, [what |-> what, status |-> "approved", tracked |-> TRUE])
  /\ current' = Len(proposals) + 1

CarriesOut(what) ==
  \/ Fine /\ Proposable(what) /\ Carried(what) /\ Effect(what) /\ CleanupRow(TRUE)
  \/ Fine /\ ~Proposable(what) /\ UNCHANGED <<proposals, current, envVars>> /\ CleanupRow(FALSE)
  \/ /\ Fault /\ CleanupRow(FALSE)
     /\ \/ UNCHANGED <<proposals, current, envVars>>
        \/ Carried(what) /\ UNCHANGED envVars
        \/ Carried(what) /\ Proposable(what) /\ Effect(what)

LeavesAlone(passed) == Fine /\ CleanupRow(passed) /\ UNCHANGED <<proposals, current, envVars>>

CleanupDashboards ==
  /\ Cleaning("clean dashboards") /\ phase' = "clean rules"
  /\ IF "dashboard" \in created /\ args.auto THEN CarriesOut("delete dashboard")
     ELSE LeavesAlone(TRUE)
  /\ CleanRest /\ UNCHANGED created

(* A rule the manager has not loaded counts as gone already; one that is there *)
(* or cannot be asked for is deleted.  The restart follows when one is gone.   *)
CleanupRules ==
  /\ Cleaning("clean rules")
  /\ \/ "rule" \notin created /\ LeavesAlone(TRUE) /\ phase' = "clean listener"
     \/ /\ "rule" \in created /\ ~manager.loaded /\ LeavesAlone(TRUE)
        /\ phase' = "clean restart"
     \/ /\ "rule" \in created /\ manager.loaded /\ ~args.auto /\ LeavesAlone(TRUE)
        /\ phase' = "clean listener"
     \/ /\ "rule" \in created /\ manager.loaded /\ args.auto /\ CarriesOut("delete rule")
        /\ phase' = IF faults' = faults /\ Proposable("delete rule") THEN "clean restart"
                    ELSE "clean listener"
     \/ /\ "rule" \in created /\ args.auto /\ Proposable("delete rule") /\ Fault
        /\ Carried("delete rule") /\ Effect("delete rule") /\ CleanupRow(TRUE)
        /\ phase' = "clean restart"
  /\ CleanRest /\ UNCHANGED created

CleanupRestart ==
  /\ Cleaning("clean restart") /\ phase' = "clean listener"
  /\ CarriesOut("restart")
  /\ CleanRest /\ UNCHANGED created

CleanupSyslogListener ==
  /\ Cleaning("clean listener") /\ phase' = "reset"
  /\ \/ ~listener /\ Fine /\ CleanupRow(TRUE) /\ UNCHANGED <<listener, manager>>
     \/ /\ listener /\ Fine /\ CleanupRow(TRUE) /\ listener' = FALSE
        /\ manager' = [manager EXCEPT !.loaded = manager.file, !.ready = TRUE]
     \/ /\ listener /\ Fault /\ CleanupRow(FALSE) /\ listener' \in BOOLEAN /\ UNCHANGED manager
  /\ CleanRest /\ UNCHANGED <<server, alerts, proposals, current, created>>

(* The approval store is put back to the snapshot of before, whoever wrote     *)
(* what into it since.                                                         *)
ResetStores ==
  /\ Cleaning("reset") /\ phase' = "verdict"
  /\ proposals' = IF args.reset THEN <<>> ELSE proposals
  /\ current' = 0
  /\ Fine /\ CleanRest /\ UNCHANGED <<log, envVars, created>>

Verdict ==
  /\ phase = "verdict"
  /\ phase' = "done"
  /\ result' = IF AllPass THEN "pass" ELSE "fail"
  /\ UNCHANGED <<args, at, script, rows, log, envVars, proposals, current, created, faults, human>>

(* The operator rejects a pending proposal in the Approval Center.             *)
OperatorRejects ==
  /\ human < MaxHuman /\ human' = human + 1
  /\ \E i \in 1..Len(proposals) :
       /\ proposals[i].status = "pending"
       /\ proposals' = [proposals EXCEPT ![i].status = "rejected"]
  /\ UNCHANGED <<args, phase, at, script, rows, log, envVars, current, created, result, faults>>

Harness ==
  \/ Preflight \/ NextScenario \/ Look \/ Crash \/ Propose \/ Misuse \/ ApproveStep \/ Execute
  \/ ExecuteUnconfirmed \/ Wait \/ Feed \/ Observe \/ Purge \/ StartCleanup \/ RejectLeftovers
  \/ CleanupDashboards \/ CleanupRules \/ CleanupRestart \/ CleanupSyslogListener \/ ResetStores
  \/ Verdict

Next == Harness \/ Index \/ OperatorRejects

LiveSpec == Init /\ [][Next]_liveVars

-----------------------------------------------------------------------------
(* "ALL SCENARIOS PASS" is earned: each scenario asked for has evidence and    *)
(* none failed, and where the rule was to be deployed and was not cleaned up   *)
(* again, the manager has it in its file and has loaded it (evidence.py,       *)
(* cli.py, scenarios.py).                                                      *)
PassIsEarned ==
  result = "pass" =>
    /\ \A i \in 1..Len(Names) : log[Names[i]] = "pass"
    /\ ( (args.auto /\ ~args.cleanup /\ "detection_ssh_rule" \in DOMAIN log)
         => (manager.file /\ manager.loaded) )

(* When nothing goes wrong and nobody interferes, a run with --auto-approve    *)
(* and --cleanup leaves neither its rule, in the file or loaded, nor its       *)
(* dashboard nor the listener behind (cleanup.py).  The visualizations of the  *)
(* dashboard stay.                                                             *)
CalmRunLeavesNothing ==
  (phase = "done" /\ args.auto /\ args.cleanup /\ faults = 0 /\ human = 0) =>
    ~manager.file /\ ~manager.loaded /\ "dashboard" \notin server /\ ~listener

(* "Without this flag workflows stop at the approval gate" (cli.py).           *)
GateWithoutAutoApprove == ~args.auto => server = {} /\ ~manager.file

=============================================================================
