------------------------------- MODULE Watcher -------------------------------
(***************************************************************************)
(* The overnight watchers: run.py (the watcher process), agent_control.py  *)
(* (heartbeats, stop files, process discovery) and the agent-control       *)
(* routes of dashboard.py (start, stop, kill).                             *)
(*                                                                         *)
(* A watcher and a dashboard request share two files per agent and know    *)
(* each other by process id only.  A request is a process of several       *)
(* steps, as the dashboard serves its requests in threads: what it read    *)
(* may be stale when it acts on it.                                        *)
(*                                                                         *)
(* write_heartbeat is one step here.                                       *)
(* Messages, logs and timestamps are left out.                             *)
(***************************************************************************)
EXTENDS Naturals, FiniteSets

CONSTANTS
    Agent,         \* sanitized agent ids
    DefaultAgent,  \* the id "default", with the legacy files
    Pid,           \* process ids
    Request,       \* dashboard requests that may be in flight together
    ManualStart,   \* may an operator run "python run.py --agent-id <id>"?
    Reuse,         \* what a dead watcher's pid may go to: another "watcher", a "stranger"
    ExitAfter,     \* --exit-after; 0 = watch for ever
    MaxBatch       \* bound on the alerts of one poll

ASSUME FlagAssumption == ManualStart \in BOOLEAN

ASSUME ReuseAssumption == Reuse \subseteq {"watcher", "stranger"}

ASSUME BoundAssumption == ExitAfter \in Nat /\ MaxBatch \in Nat

VARIABLES
    proc,      \* the process behind each pid
    stopFile,  \* does the agent's stop file exist?
    hb,        \* the agent's heartbeat file: status and pid
    req,       \* the dashboard requests in flight
    told,      \* history: a stop was served and the agent not started since
    had        \* history: the agents whose watchers have had each pid

vars == <<proc, stopFile, hb, req, told, had>>

NoPid == "none"
NoAgent == "nobody"

ASSUME PidAssumption == NoPid \notin Pid

\* Cycles are counted up to the first one beyond --exit-after.
CycleCap == ExitAfter + 1

NoProcess == [kind |-> "unused", agent |-> NoAgent, argv |-> "static",
              pc |-> "boot", cycle |-> 0, left |-> 0]

NoRequest == [pc |-> "idle", op |-> "start", agent |-> NoAgent, pids |-> {}]

Watches(p, a) == proc[p].kind = "watcher" /\ proc[p].agent = a

TypeOK ==
    /\ proc \in [Pid -> [kind : {"unused", "watcher", "dead", "stranger"},
                         agent : Agent \cup {NoAgent}, argv : {"static", "agent-id"},
                         pc : {"boot", "ready", "top", "polled", "beat",
                               "sleep", "closing"},
                         cycle : 0..CycleCap, left : 0..MaxBatch]]
    /\ stopFile \in [Agent -> BOOLEAN]
    /\ hb \in [Agent -> [status : {"none", "starting", "running", "stopped"},
                         pid : Pid \cup {NoPid}]]
    /\ req \in [Request -> [pc : {"idle", "spawn", "announce", "signal",
                                  "touch", "mark"},
                            op : {"start", "term", "kill"},
                            agent : Agent \cup {NoAgent}, pids : SUBSET Pid]]
    /\ told \in [Agent -> BOOLEAN]
    /\ had \in [Pid -> SUBSET Agent]
    /\ \A p \in Pid : proc[p].kind = "watcher" => proc[p].agent \in Agent
    /\ \A r \in Request : req[r].pc # "idle" => req[r].agent \in Agent

Init ==
    /\ proc = [p \in Pid |-> NoProcess]
    /\ stopFile = [a \in Agent |-> FALSE]
    /\ hb = [a \in Agent |-> [status |-> "none", pid |-> NoPid]]
    /\ req = [r \in Request |-> NoRequest]
    /\ told = [a \in Agent |-> FALSE]
    /\ had = [p \in Pid |-> {}]

-----------------------------------------------------------------------------
(***************************************************************************)
(* The watcher process: run.py                                             *)
(***************************************************************************)

\* A watcher at this place of the program.
At(p, pc) == proc[p].kind = "watcher" /\ proc[p].pc = pc

Goto(p, pc) == proc' = [proc EXCEPT ![p].pc = pc]

\* Variant: an idle watcher ignores the stop file.
StopRequestedInBatch(p) == proc[p].left > 0 /\ stopFile[proc[p].agent]

StopRequested(p) == stopFile[proc[p].agent]

\* run_watch deletes the stop file and installs the signal handlers.
Boot(p) ==
    /\ At(p, "boot")
    /\ stopFile' = [stopFile EXCEPT ![proc[p].agent] = FALSE]
    /\ Goto(p, "ready")
    /\ UNCHANGED <<hb, req, told, had>>

\* The initial heartbeat; then the first cycle.
FirstBeat(p) ==
    /\ At(p, "ready")
    /\ hb' = [hb EXCEPT ![proc[p].agent] = [status |-> "starting", pid |-> p]]
    /\ proc' = [proc EXCEPT ![p].pc = "top", ![p].cycle = 1]
    /\ UNCHANGED <<stopFile, req, told, had>>

\* The stop file is looked at first in every cycle, then the alerts are
\* pulled; a failed pull counts as none.
Poll(p) ==
    /\ At(p, "top")
    /\ IF StopRequested(p)
       THEN Goto(p, "closing")
       ELSE \E n \in 0..MaxBatch :
                proc' = [proc EXCEPT ![p].pc = "polled", ![p].left = n]
    /\ UNCHANGED <<stopFile, hb, req, told, had>>

Beat(p) == hb' = [hb EXCEPT ![proc[p].agent] = [status |-> "running", pid |-> p]]

\* A poll without alerts: --exit-after is not looked at.
Idle(p) ==
    /\ At(p, "polled")
    /\ proc[p].left = 0
    /\ IF StopRequested(p)
       THEN Goto(p, "closing") /\ UNCHANGED hb
       ELSE Goto(p, "sleep") /\ Beat(p)
    /\ UNCHANGED <<stopFile, req, told, had>>

\* One alert of the batch: triaged and logged, or failed and skipped.
Triage(p) ==
    /\ At(p, "polled")
    /\ proc[p].left > 0
    /\ IF StopRequested(p)
       THEN Goto(p, "closing")
       ELSE proc' = [proc EXCEPT ![p].left = @ - 1,
                                 ![p].pc = IF proc[p].left = 1 THEN "beat" ELSE @]
    /\ UNCHANGED <<stopFile, hb, req, told, had>>

\* The heartbeat after a batch, and the check of --exit-after.
BatchDone(p) ==
    /\ At(p, "beat")
    /\ Beat(p)
    /\ Goto(p, IF ExitAfter > 0 /\ proc[p].cycle >= ExitAfter
               THEN "closing" ELSE "sleep")
    /\ UNCHANGED <<stopFile, req, told, had>>

\* An exception inside the cycle: caught, no heartbeat, next cycle.
CycleFails(p) ==
    /\ At(p, "polled") \/ At(p, "beat")
    /\ proc' = [proc EXCEPT ![p].pc = "sleep", ![p].left = 0]
    /\ UNCHANGED <<stopFile, hb, req, told, had>>

Wake(p) ==
    /\ At(p, "sleep")
    /\ proc' = [proc EXCEPT ![p].pc = "top",
                            ![p].cycle = IF @ < CycleCap THEN @ + 1 ELSE @]
    /\ UNCHANGED <<stopFile, hb, req, told, had>>

\* mark_stopped keeps the pid of the earlier heartbeat, whoever wrote it.
MarkStopped(a) == hb' = [hb EXCEPT ![a].status = "stopped"]

\* An exited process or a zombie: nothing of it is visible any more.
Corpse == [NoProcess EXCEPT !.kind = "dead"]

\* mark_stopped and exit 0: after a stop file, --exit-after or a signal.
Close(p) ==
    /\ At(p, "closing")
    /\ MarkStopped(proc[p].agent)
    /\ proc' = [proc EXCEPT ![p] = Corpse]
    /\ UNCHANGED <<stopFile, req, told, had>>

-----------------------------------------------------------------------------
(***************************************************************************)
(* The dashboard: start, stop and kill                                     *)
(***************************************************************************)

Alive(p) == p \in Pid /\ proc[p].kind \in {"watcher", "stranger"}

\* Variant: a watcher that has not finished its first cycle does not count.
RunningNotStarting(a) == Alive(hb[a].pid) /\ hb[a].status = "running"

\* status(): a live pid that does not say running or starting counts as
\* running while its heartbeat is young; a start may then go either way.
Running(a) == Alive(hb[a].pid) /\ hb[a].status \in {"running", "starting"}

Serve(r, pc) == req' = [req EXCEPT ![r].pc = pc]

\* /api/agents/start refuses when the agent is running.
CheckStart(r, a) ==
    /\ req[r].pc = "idle"
    /\ ~Running(a)
    /\ req' = [req EXCEPT ![r] = [pc |-> "spawn", op |-> "start", agent |-> a,
                                  pids |-> {}]]
    /\ UNCHANGED <<proc, stopFile, hb, told, had>>

\* The legacy route /api/agent/start does not ask.
LegacyStart(r) ==
    /\ DefaultAgent \in Agent
    /\ req[r].pc = "idle"
    /\ req' = [req EXCEPT ![r] = [pc |-> "spawn", op |-> "start",
                                  agent |-> DefaultAgent, pids |-> {}]]
    /\ UNCHANGED <<proc, stopFile, hb, told, had>>

\* Variant: the agent id does not reach the environment of the process.
NewWatcherUnnamed(a, argv) ==
    [kind |-> "watcher", agent |-> "default", argv |-> argv,
     pc |-> "boot", cycle |-> 0, left |-> 0]

NewWatcher(a, argv) == [kind |-> "watcher", agent |-> a, argv |-> argv,
                           pc |-> "boot", cycle |-> 0, left |-> 0]

\* A dead child keeps its pid while the start that spawned it holds its Popen.
Reaped(p) ==
    /\ proc[p].kind = "dead"
    /\ \A r \in Request : req[r].pc = "announce" => p \notin req[r].pids

\* The operating system may hand out this pid.
Free(p) == proc[p].kind = "unused" \/ ("watcher" \in Reuse /\ Reaped(p))

\* _spawn_agent: the stop file goes, the process starts with a static argv.
Spawn(r, p) ==
    LET a == req[r].agent
    IN  /\ req[r].pc = "spawn"
        /\ Free(p)
        /\ proc' = [proc EXCEPT ![p] = NewWatcher(a, "static")]
        /\ had' = [had EXCEPT ![p] = @ \cup {a}]
        /\ stopFile' = [stopFile EXCEPT ![a] = FALSE]
        /\ told' = [told EXCEPT ![a] = FALSE]
        /\ req' = [req EXCEPT ![r].pc = "announce", ![r].pids = {p}]
        /\ UNCHANGED hb

Announced(r) == [status |-> "starting", pid |-> CHOOSE p \in req[r].pids : TRUE]

\* ... and its "starting" heartbeat, which may come after the watcher's own.
Announce(r) ==
    /\ req[r].pc = "announce"
    /\ hb' = [hb EXCEPT ![req[r].agent] = Announced(r)]
    /\ req' = [req EXCEPT ![r] = NoRequest]
    /\ UNCHANGED <<proc, stopFile, told, had>>

\* find_watcher_pids: run.py processes with this --agent-id; those without
\* the flag count as the default agent's.
FindWatcherPids(a) ==
    {p \in Pid : /\ proc[p].kind = "watcher"
                 /\ IF proc[p].argv = "agent-id" THEN proc[p].agent = a ELSE a = DefaultAgent}

\* Variant: every watcher process found is taken.
TargetsAny(a) == {p \in Pid : proc[p].kind = "watcher"}

\* _signal_agent trusts the heartbeat pid only if discovery found nothing.
Targets(a) ==
    IF FindWatcherPids(a) # {} THEN FindWatcherPids(a) ELSE {hb[a].pid} \cap Pid

\* Stop (SIGTERM) and kill (SIGKILL): first the pids are collected.
FindTargets(r, a, op) ==
    /\ req[r].pc = "idle"
    /\ req' = [req EXCEPT ![r] = [pc |-> "signal", op |-> op, agent |-> a,
                                  pids |-> Targets(a)]]
    /\ UNCHANGED <<proc, stopFile, hb, told, had>>

\* Variant: a watcher that is still starting ignores SIGTERM.
StruckOnceReady(q, op) ==
    IF q.kind = "watcher" /\ op = "term"
    THEN IF q.pc = "boot" THEN q ELSE [q EXCEPT !.pc = "closing"]
    ELSE IF q.kind \in {"watcher", "stranger"} THEN Corpse ELSE q

\* SIGTERM is handled once run_watch has installed the handlers; before
\* that, and in another program, it ends the process.
Struck(q, op) ==
    IF q.kind = "watcher" /\ op = "term" /\ q.pc # "boot"
    THEN [q EXCEPT !.pc = "closing"]
    ELSE IF q.kind \in {"watcher", "stranger"} THEN Corpse ELSE q

SignalTargets(r) ==
    /\ req[r].pc = "signal"
    /\ proc' = [p \in Pid |-> IF p \in req[r].pids THEN Struck(proc[p], req[r].op)
                              ELSE proc[p]]
    /\ Serve(r, "touch")
    /\ UNCHANGED <<stopFile, hb, told, had>>

\* The stop file is dropped last; a kill still has to mark the heartbeat.
TouchStopFile(r) ==
    LET a == req[r].agent
    IN  /\ req[r].pc = "touch"
        /\ stopFile' = [stopFile EXCEPT ![a] = TRUE]
        /\ told' = [told EXCEPT ![a] = TRUE]
        /\ req' = IF req[r].op = "kill" THEN [req EXCEPT ![r].pc = "mark"]
                  ELSE [req EXCEPT ![r] = NoRequest]
        /\ UNCHANGED <<proc, hb, had>>

MarkKilled(r) ==
    /\ req[r].pc = "mark"
    /\ MarkStopped(req[r].agent)
    /\ req' = [req EXCEPT ![r] = NoRequest]
    /\ UNCHANGED <<proc, stopFile, told, had>>

-----------------------------------------------------------------------------
(***************************************************************************)
(* The environment                                                         *)
(***************************************************************************)

\* An operator starts a watcher by hand; the default one without the flag.
Launch(p, a, argv) ==
    /\ ManualStart
    /\ Free(p)
    /\ argv = "static" => a = DefaultAgent
    /\ proc' = [proc EXCEPT ![p] = NewWatcher(a, argv)]
    /\ had' = [had EXCEPT ![p] = @ \cup {a}]
    /\ told' = [told EXCEPT ![a] = FALSE]
    /\ UNCHANGED <<stopFile, hb, req>>

\* A watcher dies without a word (killed from outside, out of memory).
Crash(p) ==
    /\ proc[p].kind = "watcher"
    /\ proc' = [proc EXCEPT ![p] = Corpse]
    /\ UNCHANGED <<stopFile, hb, req, told, had>>

\* The pid of a dead watcher is given to an unrelated process.
Recycle(p) ==
    /\ "stranger" \in Reuse
    /\ Reaped(p)
    /\ proc' = [proc EXCEPT ![p].kind = "stranger"]
    /\ UNCHANGED <<stopFile, hb, req, told, had>>

-----------------------------------------------------------------------------
WatcherStep(p) ==
    \/ Boot(p) \/ FirstBeat(p) \/ Poll(p) \/ Idle(p) \/ Triage(p)
    \/ BatchDone(p) \/ Wake(p) \/ Close(p)

RequestStep(r) ==
    \/ \E p \in Pid : Spawn(r, p)
    \/ Announce(r) \/ SignalTargets(r) \/ TouchStopFile(r) \/ MarkKilled(r)

Arrival(r) ==
    \/ \E a \in Agent :
          \/ CheckStart(r, a)
          \/ \E op \in {"term", "kill"} : FindTargets(r, a, op)
    \/ LegacyStart(r)

Mishap(p) ==
    \/ \E a \in Agent, argv \in {"static", "agent-id"} : Launch(p, a, argv)
    \/ CycleFails(p) \/ Crash(p) \/ Recycle(p)

Next ==
    \/ \E p \in Pid : WatcherStep(p) \/ Mishap(p)
    \/ \E r \in Request : RequestStep(r) \/ Arrival(r)

Spec == Init /\ [][Next]_vars

(***************************************************************************)
(* Fairness: a live watcher keeps running (its sleep, its HTTP calls and   *)
(* its tool loop all end), and a request that was taken up is served.      *)
(* Nobody has to press a button, and nothing has to fail.                  *)
(***************************************************************************)
FairSpec ==
    /\ Spec
    /\ \A p \in Pid : WF_vars(WatcherStep(p))
    /\ \A r \in Request : WF_vars(RequestStep(r))

-----------------------------------------------------------------------------
(***************************************************************************)
(* Properties                                                              *)
(***************************************************************************)

\* However stale the heartbeat and whoever wrote it, stop and kill of a named
\* agent signal only pids that a watcher of this very agent has had: discovery
\* finds the agent's own, and a heartbeat never names another agent's process.
NamedSignalsStayHome ==
    \A r \in Request :
        req[r].pc = "signal" /\ req[r].agent # DefaultAgent =>
            \A p \in req[r].pids : req[r].agent \in had[p]

\* What find_watcher_pids promises: the watchers found for an agent are its own.
DiscoveryIsOwn ==
    \A a \in Agent : \A p \in FindWatcherPids(a) : Watches(p, a)

\* What _signal_agent promises: a recycled pid is never signalled.
RecycledPidsAreSpared ==
    \A r \in Request :
        req[r].pc = "signal" => \A p \in req[r].pids : proc[p].kind # "stranger"

\* /api/agents/start does not double-start a watcher that is alive.
AtMostOneWatcher ==
    \A a \in Agent : \A p, q \in Pid : Watches(p, a) /\ Watches(q, a) => p = q

\* The stop file is enough: unless somebody removes it, every watcher of the
\* agent stops, idle or in the middle of a batch, signalled or not.
StopFileIsHeard ==
    \A a \in Agent :
        stopFile[a] ~> (~stopFile[a] \/ \A p \in Pid : ~Watches(p, a))

\* A stop or kill that was served is final until the agent is started again.
StopWins ==
    \A a \in Agent :
        told[a] ~> (~told[a] \/ \A p \in Pid : ~Watches(p, a))

=============================================================================
