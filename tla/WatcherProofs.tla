---------------------------- MODULE WatcherProofs ----------------------------
(***************************************************************************)
(* Theorems about the watchers, for any number of agents, processes and    *)
(* dashboard requests.                                                     *)
(***************************************************************************)
EXTENDS Watcher, TLAPS

ProcRecord ==
    [kind : {"unused", "watcher", "dead", "stranger"},
     agent : Agent \cup {NoAgent}, argv : {"static", "agent-id"},
     pc : {"boot", "ready", "top", "polled", "beat", "sleep", "closing"},
     cycle : 0..CycleCap, left : 0..MaxBatch]

ReqRecord ==
    [pc : {"idle", "spawn", "announce", "signal", "touch", "mark"},
     op : {"start", "term", "kill"}, agent : Agent \cup {NoAgent},
     pids : SUBSET Pid]

\* The types, with a name for the two records.
LEMMA TypeUnfold ==
    TypeOK <=>
        /\ proc \in [Pid -> ProcRecord]
        /\ stopFile \in [Agent -> BOOLEAN]
        /\ hb \in [Agent -> [status : {"none", "starting", "running", "stopped"},
                             pid : Pid \cup {NoPid}]]
        /\ req \in [Request -> ReqRecord]
        /\ told \in [Agent -> BOOLEAN]
        /\ had \in [Pid -> SUBSET Agent]
        /\ \A p \in Pid : proc[p].kind = "watcher" => proc[p].agent \in Agent
        /\ \A r \in Request : req[r].pc # "idle" => req[r].agent \in Agent
  BY DEF TypeOK, ProcRecord, ReqRecord

-----------------------------------------------------------------------------
(***************************************************************************)
(* What a step does to one process                                         *)
(***************************************************************************)

\* A watcher keeps its agent and its flag until it dies; no other process
\* becomes a watcher.
Evolves(p) ==
    \/ proc'[p] = proc[p]
    \/ /\ proc'[p] \in ProcRecord
       /\ proc'[p].kind = "watcher" =>
              /\ proc[p].kind = "watcher"
              /\ proc'[p].agent = proc[p].agent /\ proc'[p].argv = proc[p].argv

\* A watcher becomes another record of the same agent: it moved or it died.
LEMMA Evolution ==
    ASSUME TypeOK, NEW p \in Pid, NEW q \in ProcRecord,
           proc' = [proc EXCEPT ![p] = q], proc[p].kind = "watcher",
           q.kind = "watcher" => q.agent = proc[p].agent /\ q.argv = proc[p].argv
    PROVE  /\ Evolves(p)
           /\ \A r \in Pid : r # p => proc'[r] = proc[r]
           /\ proc' \in [Pid -> ProcRecord]
  BY TypeUnfold DEF Evolves

LEMMA CorpseType == Corpse \in ProcRecord /\ Corpse.kind = "dead"
  BY BoundAssumption DEF Corpse, NoProcess, ProcRecord, CycleCap

LEMMA WatcherStepEvolves ==
    ASSUME TypeOK, NEW p \in Pid, WatcherStep(p) \/ CycleFails(p) \/ Crash(p) \/ Recycle(p)
    PROVE  /\ Evolves(p)
           /\ \A r \in Pid : r # p => proc'[r] = proc[r]
           /\ proc' \in [Pid -> ProcRecord]
<1> DEFINE Same(q) ==
        /\ q \in ProcRecord
        /\ q.kind = "watcher" => q.agent = proc[p].agent /\ q.argv = proc[p].argv
<1>0. /\ proc \in [Pid -> ProcRecord] /\ proc[p] \in ProcRecord
      /\ MaxBatch \in Nat /\ 0 \in 0..MaxBatch /\ CycleCap \in Nat /\ 1 \in 0..CycleCap
  BY BoundAssumption, TypeUnfold DEF CycleCap
<1>1. ASSUME NEW pc \in {"ready", "closing", "sleep"}, proc[p].kind = "watcher",
             proc' = [proc EXCEPT ![p].pc = pc]
      PROVE  \E q : Same(q) /\ proc' = [proc EXCEPT ![p] = q]
  <2>1. Same([proc[p] EXCEPT !.pc = pc])
    BY <1>0, <1>1 DEF ProcRecord
  <2> QED
    BY <1>1, <2>1
<1>2. ASSUME NEW pc \in {"polled", "beat", "sleep"}, NEW n \in 0..MaxBatch,
             proc[p].kind = "watcher",
             \/ proc' = [proc EXCEPT ![p].pc = pc, ![p].left = n]
             \/ proc' = [proc EXCEPT ![p].left = n, ![p].pc = pc]
      PROVE  \E q : Same(q) /\ proc' = [proc EXCEPT ![p] = q]
  <2>1. /\ Same([proc[p] EXCEPT !.pc = pc, !.left = n])
        /\ Same([proc[p] EXCEPT !.left = n, !.pc = pc])
    BY <1>0, <1>2 DEF ProcRecord
  <2>2. \/ proc' = [proc EXCEPT ![p] = [proc[p] EXCEPT !.pc = pc, !.left = n]]
        \/ proc' = [proc EXCEPT ![p] = [proc[p] EXCEPT !.left = n, !.pc = pc]]
    BY <1>0, <1>2
  <2> QED
    BY <2>1, <2>2
<1>3. ASSUME NEW n \in 0..CycleCap, proc[p].kind = "watcher",
             proc' = [proc EXCEPT ![p].pc = "top", ![p].cycle = n]
      PROVE  \E q : Same(q) /\ proc' = [proc EXCEPT ![p] = q]
  <2>1. Same([proc[p] EXCEPT !.pc = "top", !.cycle = n])
    BY <1>0, <1>3 DEF ProcRecord
  <2>2. proc' = [proc EXCEPT ![p] = [proc[p] EXCEPT !.pc = "top", !.cycle = n]]
    BY <1>0, <1>3
  <2> QED
    BY <2>1, <2>2
<1>4. ASSUME Boot(p) \/ Idle(p) \/ BatchDone(p)
      PROVE  \E q : Same(q) /\ proc' = [proc EXCEPT ![p] = q]
  <2>1. /\ proc[p].kind = "watcher"
        /\ \E pc \in {"ready", "closing", "sleep"} : proc' = [proc EXCEPT ![p].pc = pc]
    BY <1>4 DEF Boot, Idle, BatchDone, Goto, At
  <2> HIDE DEF Same
  <2> QED
    BY <1>1, <2>1
<1>5. ASSUME FirstBeat(p)
      PROVE  \E q : Same(q) /\ proc' = [proc EXCEPT ![p] = q]
  BY <1>0, <1>3, <1>5 DEF FirstBeat, At
<1>6. ASSUME Wake(p)
      PROVE  \E q : Same(q) /\ proc' = [proc EXCEPT ![p] = q]
  <2> DEFINE n == IF proc[p].cycle < CycleCap THEN proc[p].cycle + 1 ELSE proc[p].cycle
  <2>1. n \in 0..CycleCap
    BY <1>0 DEF ProcRecord
  <2>2. proc' = [proc EXCEPT ![p].pc = "top", ![p].cycle = n]
    BY <1>6 DEF Wake
  <2>3. proc[p].kind = "watcher"
    BY <1>6 DEF Wake, At
  <2> HIDE DEF n, Same
  <2> QED
    BY <1>3, <2>1, <2>2, <2>3
<1>7. ASSUME Poll(p)
      PROVE  \E q : Same(q) /\ proc' = [proc EXCEPT ![p] = q]
  <2>1. proc[p].kind = "watcher"
    BY <1>7 DEF Poll, At
  <2>2. \/ proc' = [proc EXCEPT ![p].pc = "closing"]
        \/ \E n \in 0..MaxBatch : proc' = [proc EXCEPT ![p].pc = "polled", ![p].left = n]
    BY <1>7 DEF Poll, Goto
  <2> HIDE DEF Same
  <2>3. CASE proc' = [proc EXCEPT ![p].pc = "closing"]
    BY <1>1, <2>1, <2>3
  <2>4. CASE \E n \in 0..MaxBatch : proc' = [proc EXCEPT ![p].pc = "polled", ![p].left = n]
    BY <1>2, <2>1, <2>4
  <2> QED
    BY <2>2, <2>3, <2>4
<1>8. ASSUME Triage(p)
      PROVE  \E q : Same(q) /\ proc' = [proc EXCEPT ![p] = q]
  <2>0. proc[p].kind = "watcher"
    BY <1>8 DEF Triage, At
  <2>1. CASE StopRequested(p)
    <3>1. proc' = [proc EXCEPT ![p].pc = "closing"]
      BY <1>8, <2>1 DEF Triage, Goto
    <3> HIDE DEF Same
    <3> QED
      BY <1>1, <2>0, <3>1
  <2>2. CASE ~StopRequested(p)
    <3> DEFINE n == proc[p].left - 1
               pc == IF proc[p].left = 1 THEN "beat" ELSE proc[p].pc
    <3>1. n \in 0..MaxBatch
      BY <1>0, <1>8 DEF Triage, ProcRecord
    <3>2. pc \in {"polled", "beat"}
      BY <1>8 DEF Triage, At
    <3>3. proc' = [proc EXCEPT ![p].left = n, ![p].pc = pc]
      BY <1>8, <2>2 DEF Triage
    <3> HIDE DEF n, pc, Same
    <3> QED
      BY <1>2, <2>0, <3>1, <3>2, <3>3
  <2> QED
    BY <2>1, <2>2
<1>9. ASSUME CycleFails(p)
      PROVE  \E q : Same(q) /\ proc' = [proc EXCEPT ![p] = q]
  <2>1. proc[p].kind = "watcher" /\ proc' = [proc EXCEPT ![p].pc = "sleep", ![p].left = 0]
    BY <1>9 DEF CycleFails, At
  <2> HIDE DEF Same
  <2> QED
    BY <1>0, <1>2, <2>1
<1>10. ASSUME Close(p) \/ Crash(p)
       PROVE  \E q : Same(q) /\ proc' = [proc EXCEPT ![p] = q]
  <2>1. proc' = [proc EXCEPT ![p] = Corpse] /\ proc[p].kind = "watcher"
    BY <1>10 DEF Close, Crash, At
  <2>2. Same(Corpse)
    BY CorpseType
  <2> QED
    BY <2>1, <2>2
<1>11. CASE Recycle(p)
  <2>1. proc' = [proc EXCEPT ![p] = [proc[p] EXCEPT !.kind = "stranger"]]
    BY <1>0, <1>11 DEF Recycle
  <2>2. [proc[p] EXCEPT !.kind = "stranger"] \in ProcRecord
    BY <1>0 DEF ProcRecord
  <2> QED
    BY <1>0, <2>1, <2>2 DEF Evolves, ProcRecord
<1>12. (\E q : Same(q) /\ proc' = [proc EXCEPT ![p] = q]) \/ Recycle(p)
  BY <1>4, <1>5, <1>6, <1>7, <1>8, <1>9, <1>10 DEF WatcherStep
<1>13. proc[p].kind = "watcher" \/ Recycle(p)
  BY DEF WatcherStep, Boot, FirstBeat, Poll, Idle, Triage, BatchDone, Wake, Close,
         CycleFails, Crash, At
<1> QED
  BY <1>11, <1>12, <1>13, Evolution

\* A pid that was free is now a watcher's, and this is on record.
Started(p) ==
    /\ Free(p)
    /\ \E a \in Agent, argv \in {"static", "agent-id"} : proc'[p] = NewWatcher(a, argv)

LEMMA StartIsStart ==
    ASSUME TypeOK, NEW p \in Pid, NEW a \in Agent, NEW argv \in {"static", "agent-id"},
           Free(p), proc' = [proc EXCEPT ![p] = NewWatcher(a, argv)]
    PROVE  /\ Started(p)
           /\ \A q \in Pid : q # p => proc'[q] = proc[q]
           /\ proc' \in [Pid -> ProcRecord]
<1>1. NewWatcher(a, argv) \in ProcRecord
  BY BoundAssumption DEF NewWatcher, ProcRecord, CycleCap
<1>2. proc \in [Pid -> ProcRecord]
  BY TypeUnfold
<1> QED
  BY <1>1, <1>2 DEF Started

\* Signals move a watcher or end a process.
LEMMA SignalEvolves ==
    ASSUME TypeOK, NEW r \in Request, SignalTargets(r)
    PROVE  /\ \A p \in Pid : Evolves(p)
           /\ proc' \in [Pid -> ProcRecord]
<1>1. proc \in [Pid -> ProcRecord] /\ 0 \in 0..MaxBatch
  BY TypeUnfold, BoundAssumption
<1>2. ASSUME NEW p \in Pid, proc'[p] = Struck(proc[p], req[r].op)
      PROVE  proc'[p] \in ProcRecord /\ Evolves(p)
  <2>0. proc[p] \in ProcRecord
    BY <1>1
  <2>1. CASE proc[p].kind = "watcher" /\ req[r].op = "term" /\ proc[p].pc # "boot"
    <3>1. proc'[p] = [proc[p] EXCEPT !.pc = "closing"]
      BY <1>2, <2>1 DEF Struck
    <3>2. [proc[p] EXCEPT !.pc = "closing"] \in ProcRecord
      BY <2>0 DEF ProcRecord
    <3> QED
      BY <2>0, <2>1, <3>1, <3>2 DEF Evolves, ProcRecord
  <2>2. CASE /\ ~(proc[p].kind = "watcher" /\ req[r].op = "term" /\ proc[p].pc # "boot")
             /\ proc[p].kind \in {"watcher", "stranger"}
    <3>1. proc'[p] = Corpse
      BY <1>2, <2>2 DEF Struck
    <3> QED
      BY <3>1, CorpseType DEF Evolves
  <2>3. CASE /\ ~(proc[p].kind = "watcher" /\ req[r].op = "term" /\ proc[p].pc # "boot")
             /\ proc[p].kind \notin {"watcher", "stranger"}
    BY <1>2, <2>0, <2>3 DEF Struck, Evolves
  <2> QED
    BY <2>1, <2>2, <2>3
<1>3. /\ \A p \in Pid : proc'[p] = proc[p] \/ proc'[p] = Struck(proc[p], req[r].op)
      /\ proc' = [p \in Pid |-> proc'[p]]
  BY <1>1 DEF SignalTargets
<1> QED
  BY <1>1, <1>2, <1>3 DEF Evolves

\* What any step does to the processes.
LEMMA ProcessLives ==
    ASSUME TypeOK, [Next]_vars
    PROVE  /\ \A p \in Pid : Evolves(p) \/ Started(p)
           /\ proc' \in [Pid -> ProcRecord]
<1>0. proc \in [Pid -> ProcRecord] /\ \A r \in Request : req[r].pc # "idle" => req[r].agent \in Agent
  BY TypeUnfold
<1>1. CASE proc' = proc
  BY <1>0, <1>1 DEF Evolves
<1>2. ASSUME NEW p \in Pid, WatcherStep(p) \/ CycleFails(p) \/ Crash(p) \/ Recycle(p)
      PROVE  proc' \in [Pid -> ProcRecord] /\ \A q \in Pid : Evolves(q)
  <2>1. /\ Evolves(p) /\ \A q \in Pid : q # p => proc'[q] = proc[q]
        /\ proc' \in [Pid -> ProcRecord]
    BY <1>2, WatcherStepEvolves
  <2> QED
    BY <2>1 DEF Evolves
<1>3. ASSUME NEW p \in Pid, NEW a \in Agent, NEW argv \in {"static", "agent-id"},
             Launch(p, a, argv)
      PROVE  proc' \in [Pid -> ProcRecord] /\ \A q \in Pid : Evolves(q) \/ Started(q)
  <2>1. /\ Started(p) /\ \A q \in Pid : q # p => proc'[q] = proc[q]
        /\ proc' \in [Pid -> ProcRecord]
    BY <1>3, StartIsStart DEF Launch
  <2> QED
    BY <2>1 DEF Evolves
<1>4. ASSUME NEW r \in Request, NEW p \in Pid, Spawn(r, p)
      PROVE  proc' \in [Pid -> ProcRecord] /\ \A q \in Pid : Evolves(q) \/ Started(q)
  <2>0. /\ req[r].agent \in Agent /\ Free(p)
        /\ proc' = [proc EXCEPT ![p] = NewWatcher(req[r].agent, "static")]
    BY <1>0, <1>4 DEF Spawn
  <2>1. /\ Started(p) /\ \A q \in Pid : q # p => proc'[q] = proc[q]
        /\ proc' \in [Pid -> ProcRecord]
    BY <2>0, StartIsStart
  <2> QED
    BY <2>1 DEF Evolves
<1>5. \/ proc' = proc
      \/ \E p \in Pid : WatcherStep(p) \/ CycleFails(p) \/ Crash(p) \/ Recycle(p)
      \/ \E p \in Pid, a \in Agent, argv \in {"static", "agent-id"} : Launch(p, a, argv)
      \/ \E r \in Request, p \in Pid : Spawn(r, p)
      \/ \E r \in Request : SignalTargets(r)
  BY DEF Next, vars, Mishap, RequestStep, Arrival, Announce, TouchStopFile, MarkKilled,
         CheckStart, FindTargets, LegacyStart
<1> QED
  BY <1>1, <1>2, <1>3, <1>4, <1>5, SignalEvolves

-----------------------------------------------------------------------------
(***************************************************************************)
(* What a step does to the heartbeats and the requests                     *)
(***************************************************************************)

Beats == [status : {"none", "starting", "running", "stopped"}, pid : Pid \cup {NoPid}]

\* A heartbeat is written by a watcher of the agent or by the start that
\* spawned one, or it is marked stopped and keeps its pid.
HeartbeatStep ==
    \/ hb' = hb
    \/ \E p \in Pid : \E s \in {"starting", "running"} :
          /\ proc[p].kind = "watcher"
          /\ hb' = [hb EXCEPT ![proc[p].agent] = [status |-> s, pid |-> p]]
    \/ \E r \in Request : Announce(r)
    \/ \E a \in Agent : hb' = [hb EXCEPT ![a].status = "stopped"]

LEMMA HeartbeatSteps ==
    ASSUME TypeOK, [Next]_vars
    PROVE  HeartbeatStep
<1>0. /\ \A p \in Pid : proc[p].kind = "watcher" => proc[p].agent \in Agent
      /\ \A r \in Request : req[r].pc # "idle" => req[r].agent \in Agent
  BY TypeUnfold
<1>1. ASSUME NEW p \in Pid, FirstBeat(p) \/ Idle(p) \/ BatchDone(p)
      PROVE  HeartbeatStep
  BY <1>1 DEF HeartbeatStep, FirstBeat, Idle, BatchDone, Beat, At
<1>2. ASSUME NEW p \in Pid, Close(p)
      PROVE  HeartbeatStep
  BY <1>0, <1>2 DEF HeartbeatStep, Close, MarkStopped, At
<1>3. ASSUME NEW r \in Request, MarkKilled(r)
      PROVE  HeartbeatStep
  BY <1>0, <1>3 DEF HeartbeatStep, MarkKilled, MarkStopped
<1>4. \/ hb' = hb
      \/ \E p \in Pid : FirstBeat(p) \/ Idle(p) \/ BatchDone(p)
      \/ \E p \in Pid : Close(p)
      \/ \E r \in Request : Announce(r)
      \/ \E r \in Request : MarkKilled(r)
  BY DEF Next, vars, WatcherStep, Boot, Poll, Triage, Wake, Mishap, Launch, CycleFails,
         Crash, Recycle, RequestStep, Arrival, Spawn, SignalTargets, TouchStopFile,
         CheckStart, FindTargets, LegacyStart
<1> QED
  BY <1>1, <1>2, <1>3, <1>4 DEF HeartbeatStep

\* A start that announces has spawned exactly one pid.
OneSpawned ==
    \A r \in Request : req[r].pc = "announce" => \E p \in Pid : req[r].pids = {p}

LEMMA AnnouncedPid ==
    ASSUME OneSpawned, NEW r \in Request, Announce(r)
    PROVE  \E p \in req[r].pids : p \in Pid /\
               hb' = [hb EXCEPT ![req[r].agent] = [status |-> "starting", pid |-> p]]
<1>1. PICK p \in Pid : req[r].pids = {p}
  BY DEF OneSpawned, Announce
<1>2. (CHOOSE q \in req[r].pids : TRUE) = p
  BY <1>1
<1> QED
  BY <1>1, <1>2 DEF Announce, Announced

\* The requests: each step concerns one.
RequestMoves(r) ==
    \/ req' = req
    \/ \E a \in Agent : /\ req[r].pc = "idle"
                        /\ req' = [req EXCEPT ![r] = [pc |-> "spawn", op |-> "start",
                                                      agent |-> a, pids |-> {}]]
    \/ \E p \in Pid : Spawn(r, p)
    \/ \E a \in Agent, op \in {"term", "kill"} : FindTargets(r, a, op)
    \/ SignalTargets(r) \/ TouchStopFile(r)
    \/ (Announce(r) \/ MarkKilled(r)) /\ req' = [req EXCEPT ![r] = NoRequest]

LEMMA RequestSteps ==
    ASSUME [Next]_vars
    PROVE  req' = req \/ \E r \in Request : RequestMoves(r)
<1>1. ASSUME NEW r \in Request, RequestStep(r) \/ Arrival(r)
      PROVE  RequestMoves(r)
  BY <1>1 DEF RequestMoves, RequestStep, Arrival, Announce, MarkKilled, CheckStart, LegacyStart
<1>2. ASSUME NEW p \in Pid, WatcherStep(p) \/ Mishap(p)
      PROVE  req' = req
  BY <1>2 DEF WatcherStep, Boot, FirstBeat, Poll, Idle, Triage, BatchDone, Wake, Close,
         Mishap, Launch, CycleFails, Crash, Recycle
<1> QED
  BY <1>1, <1>2 DEF Next, vars

LEMMA RequestTypes ==
    ASSUME TypeOK, OneSpawned, NEW r \in Request, RequestMoves(r)
    PROVE  /\ req' \in [Request -> ReqRecord]
           /\ \A s \in Request : req'[s].pc # "idle" => req'[s].agent \in Agent
           /\ OneSpawned'
<1>0. /\ req \in [Request -> ReqRecord] /\ req[r] \in ReqRecord
      /\ \A s \in Request : req[s].pc # "idle" => req[s].agent \in Agent
  BY TypeUnfold
<1>1. ASSUME NEW q \in ReqRecord, req' = [req EXCEPT ![r] = q],
             q.pc # "idle" => q.agent \in Agent,
             q.pc = "announce" => \E p \in Pid : q.pids = {p}
      PROVE  /\ req' \in [Request -> ReqRecord]
             /\ \A s \in Request : req'[s].pc # "idle" => req'[s].agent \in Agent
             /\ OneSpawned'
  BY <1>0, <1>1 DEF OneSpawned
<1>2. CASE req' = req
  BY <1>0, <1>2 DEF OneSpawned
<1>3. CASE req' = [req EXCEPT ![r] = NoRequest]
  <2>1. NoRequest \in ReqRecord /\ NoRequest.pc = "idle"
    BY DEF NoRequest, ReqRecord
  <2> QED
    BY <1>1, <1>3, <2>1
<1>4. ASSUME NEW a \in Agent, NEW pc \in {"spawn", "signal"},
             NEW op \in {"start", "term", "kill"}, NEW ps \in SUBSET Pid,
             req' = [req EXCEPT ![r] = [pc |-> pc, op |-> op, agent |-> a, pids |-> ps]]
      PROVE  /\ req' \in [Request -> ReqRecord]
             /\ \A s \in Request : req'[s].pc # "idle" => req'[s].agent \in Agent
             /\ OneSpawned'
  <2> DEFINE q == [pc |-> pc, op |-> op, agent |-> a, pids |-> ps]
  <2>1. q \in ReqRecord /\ q.agent \in Agent /\ q.pc # "announce"
    BY DEF ReqRecord
  <2> HIDE DEF q
  <2>2. req' = [req EXCEPT ![r] = q]
    BY <1>4 DEF q
  <2> QED
    BY <1>1, <2>1, <2>2
<1>5. ASSUME NEW p \in Pid, Spawn(r, p)
      PROVE  /\ req' \in [Request -> ReqRecord]
             /\ \A s \in Request : req'[s].pc # "idle" => req'[s].agent \in Agent
             /\ OneSpawned'
  <2> DEFINE q == [req[r] EXCEPT !.pc = "announce", !.pids = {p}]
  <2>1. q \in ReqRecord /\ q.agent = req[r].agent /\ q.pids = {p} /\ req[r].pc = "spawn"
    BY <1>0, <1>5 DEF ReqRecord, Spawn
  <2>2. req' = [req EXCEPT ![r] = q]
    BY <1>0, <1>5 DEF Spawn
  <2> HIDE DEF q
  <2> QED
    BY <1>0, <1>1, <2>1, <2>2
<1>6. ASSUME NEW pc \in {"touch", "mark"}, req[r].pc # "idle",
             req' = [req EXCEPT ![r].pc = pc]
      PROVE  /\ req' \in [Request -> ReqRecord]
             /\ \A s \in Request : req'[s].pc # "idle" => req'[s].agent \in Agent
             /\ OneSpawned'
  <2> DEFINE q == [req[r] EXCEPT !.pc = pc]
  <2>1. q \in ReqRecord /\ q.agent = req[r].agent /\ q.pc # "announce"
    BY <1>0 DEF ReqRecord
  <2>2. req' = [req EXCEPT ![r] = q]
    BY <1>0, <1>6
  <2> HIDE DEF q
  <2> QED
    BY <1>0, <1>1, <1>6, <2>1, <2>2
<1>7. ASSUME NEW a \in Agent, NEW op \in {"term", "kill"}, FindTargets(r, a, op)
      PROVE  Targets(a) \in SUBSET Pid
  BY DEF Targets, FindWatcherPids
<1> QED
  BY <1>2, <1>3, <1>4, <1>5, <1>6, <1>7
     DEF RequestMoves, FindTargets, SignalTargets, TouchStopFile, Serve

-----------------------------------------------------------------------------
(***************************************************************************)
(* What a step does to the history of the pids                             *)
(***************************************************************************)

\* A pid keeps the agents it has had, and a new watcher adds its own.
HistoryStep ==
    /\ had' \in [Pid -> SUBSET Agent]
    /\ \A p \in Pid : had[p] \subseteq had'[p]
    /\ \A p \in Pid : \/ Evolves(p)
                      \/ \E a \in Agent : proc'[p].agent = a /\ a \in had'[p]

LEMMA HistoryGrows ==
    ASSUME TypeOK, [Next]_vars
    PROVE  HistoryStep
<1>0. /\ had \in [Pid -> SUBSET Agent] /\ proc \in [Pid -> ProcRecord]
      /\ \A r \in Request : req[r].pc # "idle" => req[r].agent \in Agent
  BY TypeUnfold
<1>1. ASSUME NEW p \in Pid, NEW a \in Agent, NEW argv \in {"static", "agent-id"},
             proc' = [proc EXCEPT ![p] = NewWatcher(a, argv)],
             had' = [had EXCEPT ![p] = had[p] \cup {a}]
      PROVE  HistoryStep
  <2>1. proc'[p].agent = a /\ a \in had'[p]
    BY <1>0, <1>1 DEF NewWatcher
  <2>2. \A q \in Pid : q # p => proc'[q] = proc[q]
    BY <1>0, <1>1
  <2>3. had' \in [Pid -> SUBSET Agent] /\ \A q \in Pid : had[q] \subseteq had'[q]
    BY <1>0, <1>1
  <2> QED
    BY <2>1, <2>2, <2>3 DEF HistoryStep, Evolves
<1>2. ASSUME NEW r \in Request, NEW p \in Pid, Spawn(r, p)
      PROVE  HistoryStep
  <2>1. req[r].agent \in Agent
    BY <1>0, <1>2 DEF Spawn
  <2> QED
    BY <1>1, <1>2, <2>1 DEF Spawn
<1>3. ASSUME NEW p \in Pid, NEW a \in Agent, NEW argv \in {"static", "agent-id"},
             Launch(p, a, argv)
      PROVE  HistoryStep
  BY <1>1, <1>3 DEF Launch
<1>4. ASSUME had' = had, \A p \in Pid : Evolves(p)
      PROVE  HistoryStep
  BY <1>0, <1>4 DEF HistoryStep
<1>5. ASSUME NEW p \in Pid, WatcherStep(p) \/ CycleFails(p) \/ Crash(p) \/ Recycle(p)
      PROVE  had' = had /\ \A q \in Pid : Evolves(q)
  <2>1. had' = had
    BY <1>5 DEF WatcherStep, Boot, FirstBeat, Poll, Idle, Triage, BatchDone, Wake, Close,
           CycleFails, Crash, Recycle
  <2> QED
    BY <1>5, <2>1, WatcherStepEvolves DEF Evolves
<1>6. ASSUME NEW r \in Request, SignalTargets(r)
      PROVE  had' = had /\ \A q \in Pid : Evolves(q)
  BY <1>6, SignalEvolves DEF SignalTargets
<1>7. \/ had' = had /\ proc' = proc
      \/ \E p \in Pid : WatcherStep(p) \/ CycleFails(p) \/ Crash(p) \/ Recycle(p)
      \/ \E p \in Pid, a \in Agent, argv \in {"static", "agent-id"} : Launch(p, a, argv)
      \/ \E r \in Request, p \in Pid : Spawn(r, p)
      \/ \E r \in Request : SignalTargets(r)
  BY DEF Next, vars, Mishap, RequestStep, Arrival, Announce, TouchStopFile, MarkKilled,
         CheckStart, FindTargets, LegacyStart
<1>8. proc' = proc => \A p \in Pid : Evolves(p)
  BY DEF Evolves
<1> QED
  BY <1>2, <1>3, <1>4, <1>5, <1>6, <1>7, <1>8

-----------------------------------------------------------------------------
(***************************************************************************)
(* Types                                                                   *)
(***************************************************************************)

TypeInv == TypeOK /\ OneSpawned

LEMMA TypeInit == Init => TypeInv
<1> SUFFICES ASSUME Init PROVE TypeInv
  OBVIOUS
<1>1. NoProcess \in ProcRecord /\ NoProcess.kind = "unused"
  BY BoundAssumption DEF NoProcess, ProcRecord, CycleCap
<1>2. NoRequest \in ReqRecord /\ NoRequest.pc = "idle"
  BY DEF NoRequest, ReqRecord
<1>3. proc \in [Pid -> ProcRecord] /\ \A p \in Pid : proc[p].kind # "watcher"
  BY <1>1 DEF Init
<1>4. req \in [Request -> ReqRecord] /\ \A r \in Request : req[r].pc = "idle"
  BY <1>2 DEF Init
<1>5. /\ stopFile \in [Agent -> BOOLEAN]
      /\ hb \in [Agent -> [status : {"none", "starting", "running", "stopped"},
                           pid : Pid \cup {NoPid}]]
      /\ told \in [Agent -> BOOLEAN]
      /\ had \in [Pid -> SUBSET Agent]
  BY DEF Init
<1> QED
  BY <1>3, <1>4, <1>5, TypeUnfold DEF TypeInv, OneSpawned

LEMMA TypeNext == TypeInv /\ [Next]_vars => TypeInv'
<1> SUFFICES ASSUME TypeInv, [Next]_vars PROVE TypeInv'
  OBVIOUS
<1> USE DEF TypeInv
<1>0. /\ stopFile \in [Agent -> BOOLEAN]
      /\ hb \in [Agent -> Beats]
      /\ told \in [Agent -> BOOLEAN]
      /\ \A p \in Pid : proc[p].kind = "watcher" => proc[p].agent \in Agent
      /\ \A r \in Request : req[r].pc # "idle" => req[r].agent \in Agent
  BY TypeUnfold DEF Beats
<1>1. proc' \in [Pid -> ProcRecord] /\ \A p \in Pid : Evolves(p) \/ Started(p)
  BY ProcessLives
<1>2. \A p \in Pid : proc'[p].kind = "watcher" => proc'[p].agent \in Agent
  BY <1>0, <1>1 DEF Evolves, Started, NewWatcher
<1>3. hb' \in [Agent -> Beats]
  <2>1. HeartbeatStep
    BY HeartbeatSteps
  <2>2. ASSUME NEW a \in Agent, NEW p \in Pid, NEW s \in {"starting", "running"},
               hb' = [hb EXCEPT ![a] = [status |-> s, pid |-> p]]
        PROVE  hb' \in [Agent -> Beats]
    BY <1>0, <2>2 DEF Beats
  <2>3. ASSUME NEW r \in Request, Announce(r)
        PROVE  hb' \in [Agent -> Beats]
    <3>1. req[r].agent \in Agent
      BY <1>0, <2>3 DEF Announce
    <3> QED
      BY <2>2, <2>3, <3>1, AnnouncedPid
  <2>4. ASSUME NEW a \in Agent, hb' = [hb EXCEPT ![a].status = "stopped"]
        PROVE  hb' \in [Agent -> Beats]
    BY <1>0, <2>4 DEF Beats
  <2> QED
    BY <1>0, <2>1, <2>2, <2>3, <2>4 DEF HeartbeatStep
<1>4. /\ stopFile' \in [Agent -> BOOLEAN]
      /\ told' \in [Agent -> BOOLEAN]
  <2>1. \/ stopFile' = stopFile
        \/ \E a \in Agent, b \in BOOLEAN : stopFile' = [stopFile EXCEPT ![a] = b]
    BY <1>0 DEF Next, vars, WatcherStep, Boot, FirstBeat, Poll, Idle, Triage, BatchDone,
           Wake, Close, Mishap, Launch, CycleFails, Crash, Recycle, RequestStep, Arrival,
           Spawn, Announce, SignalTargets, TouchStopFile, MarkKilled, CheckStart,
           FindTargets, LegacyStart, At
  <2>2. \/ told' = told
        \/ \E a \in Agent, b \in BOOLEAN : told' = [told EXCEPT ![a] = b]
    BY <1>0 DEF Next, vars, WatcherStep, Boot, FirstBeat, Poll, Idle, Triage, BatchDone,
           Wake, Close, Mishap, Launch, CycleFails, Crash, Recycle, RequestStep, Arrival,
           Spawn, Announce, SignalTargets, TouchStopFile, MarkKilled, CheckStart,
           FindTargets, LegacyStart
  <2> QED
    BY <1>0, <2>1, <2>2
<1>5. /\ req' \in [Request -> ReqRecord]
      /\ \A r \in Request : req'[r].pc # "idle" => req'[r].agent \in Agent
      /\ OneSpawned'
  <2>1. CASE req' = req
    BY <2>1, TypeUnfold DEF OneSpawned
  <2> QED
    BY <2>1, RequestSteps, RequestTypes
<1>6. had' \in [Pid -> SUBSET Agent]
  BY HistoryGrows DEF HistoryStep
<1>7. TypeOK'
  BY <1>1, <1>2, <1>3, <1>4, <1>5, <1>6 DEF TypeOK, ProcRecord, ReqRecord, Beats
<1> QED
  BY <1>5, <1>7

\* The state keeps its types (the pid of an announcement is one pid).
THEOREM TypeCorrect == Spec => []TypeOK
<1>1. TypeInv => TypeOK
  BY DEF TypeInv
<1> QED
  BY <1>1, TypeInit, TypeNext, PTL DEF Spec

-----------------------------------------------------------------------------
(***************************************************************************)
(* Signals stay with the agent                                             *)
(***************************************************************************)

\* A pid that a watcher of this agent has had.
Owned(h, p, a) == p \in Pid /\ a \in h[p]

\* The pids a request holds are its agent's, unless it stops the legacy agent,
\* for which discovery takes every watcher without the flag.
Vouched(q) == q.pc = "announce" \/ q.agent # DefaultAgent

\* Every pid on file or on its way to a signal has been the agent's it stands for.
OwnInv ==
    /\ TypeInv
    /\ \A p \in Pid : proc[p].kind = "watcher" => Owned(had, p, proc[p].agent)
    /\ \A a \in Agent : hb[a].pid \in Pid => Owned(had, hb[a].pid, a)
    /\ \A r \in Request : Vouched(req[r]) =>
           \A p \in req[r].pids : Owned(had, p, req[r].agent)

LEMMA OwnInit == Init => OwnInv
  BY TypeInit, PidAssumption DEF Init, OwnInv, NoRequest, NoProcess

LEMMA OwnNext == OwnInv /\ [Next]_vars => OwnInv'
<1> SUFFICES ASSUME OwnInv, [Next]_vars PROVE OwnInv'
  OBVIOUS
<1>0. /\ TypeOK /\ TypeInv' /\ OneSpawned
      /\ hb \in [Agent -> Beats] /\ req \in [Request -> ReqRecord]
      /\ \A p \in Pid : proc[p].kind = "watcher" => proc[p].agent \in Agent
      /\ \A r \in Request : req[r].pc # "idle" => req[r].agent \in Agent
  BY TypeNext, TypeUnfold DEF OwnInv, TypeInv, Beats
<1>1. \A p, a : Owned(had, p, a) => Owned(had', p, a)
  <2>1. \A p \in Pid : had[p] \subseteq had'[p]
    BY <1>0, HistoryGrows DEF HistoryStep
  <2> QED
    BY <2>1 DEF Owned
<1>2. \A a \in Agent : hb'[a].pid \in Pid => Owned(had', hb'[a].pid, a)
  <2>1. ASSUME NEW a \in Agent, NEW p, Owned(had, p, a), NEW s,
               hb' = [hb EXCEPT ![a] = [status |-> s, pid |-> p]]
        PROVE  \A b \in Agent : hb'[b].pid \in Pid => Owned(had', hb'[b].pid, b)
    <3> SUFFICES ASSUME NEW b \in Agent, hb'[b].pid \in Pid PROVE Owned(had, hb'[b].pid, b)
      BY <1>1
    <3>1. CASE b = a
      BY <1>0, <2>1, <3>1
    <3>2. CASE b # a
      BY <1>0, <2>1, <3>2 DEF OwnInv
    <3> QED
      BY <3>1, <3>2
  <2>2. ASSUME NEW p \in Pid, NEW s \in {"starting", "running"}, proc[p].kind = "watcher",
               hb' = [hb EXCEPT ![proc[p].agent] = [status |-> s, pid |-> p]]
        PROVE  \A b \in Agent : hb'[b].pid \in Pid => Owned(had', hb'[b].pid, b)
    <3>1. proc[p].agent \in Agent /\ Owned(had, p, proc[p].agent)
      BY <1>0, <2>2 DEF OwnInv
    <3> QED
      BY <2>1, <2>2, <3>1
  <2>3. ASSUME NEW r \in Request, Announce(r)
        PROVE  \A b \in Agent : hb'[b].pid \in Pid => Owned(had', hb'[b].pid, b)
    <3>1. req[r].agent \in Agent
      BY <1>0, <2>3 DEF Announce
    <3>2. PICK p \in req[r].pids :
              hb' = [hb EXCEPT ![req[r].agent] = [status |-> "starting", pid |-> p]]
      BY <1>0, <2>3, AnnouncedPid
    <3>3. Owned(had, p, req[r].agent)
      BY <2>3 DEF OwnInv, Vouched, Announce
    <3> QED
      BY <2>1, <3>1, <3>2, <3>3
  <2>4. ASSUME NEW a \in Agent, hb' = [hb EXCEPT ![a].status = "stopped"]
        PROVE  \A b \in Agent : hb'[b].pid \in Pid => Owned(had', hb'[b].pid, b)
    <3>1. \A b \in Agent : hb'[b].pid = hb[b].pid
      BY <1>0, <2>4 DEF Beats
    <3> QED
      BY <1>1, <3>1 DEF OwnInv
  <2>5. CASE hb' = hb
    BY <1>1, <2>5 DEF OwnInv
  <2> QED
    BY <1>0, <2>2, <2>3, <2>4, <2>5, HeartbeatSteps DEF HeartbeatStep
<1>3. \A r \in Request : Vouched(req'[r]) => \A p \in req'[r].pids : Owned(had', p, req'[r].agent)
  <2>1. ASSUME NEW r \in Request, NEW q, req' = [req EXCEPT ![r] = q],
               Vouched(q) => \A p \in q.pids : Owned(had', p, q.agent)
        PROVE  \A t \in Request : Vouched(req'[t]) => \A p \in req'[t].pids : Owned(had', p, req'[t].agent)
    <3> SUFFICES ASSUME NEW t \in Request, Vouched(req'[t]), NEW p \in req'[t].pids
                 PROVE  Owned(had', p, req'[t].agent)
      OBVIOUS
    <3>1. CASE t = r
      BY <1>0, <2>1, <3>1
    <3>2. CASE t # r
      BY <1>0, <1>1, <2>1, <3>2 DEF OwnInv
    <3> QED
      BY <3>1, <3>2
  <2>2. ASSUME req' = req
        PROVE  \A t \in Request : Vouched(req'[t]) => \A p \in req'[t].pids : Owned(had', p, req'[t].agent)
    BY <1>1, <2>2 DEF OwnInv
  <2>3. ASSUME NEW r \in Request, NEW p \in Pid, Spawn(r, p)
        PROVE  \A t \in Request : Vouched(req'[t]) =>
                   \A s \in req'[t].pids : Owned(had', s, req'[t].agent)
    <3> DEFINE q == [req[r] EXCEPT !.pc = "announce", !.pids = {p}]
    <3>0. proc \in [Pid -> ProcRecord] /\ req[r] \in ReqRecord
      BY <1>0, TypeUnfold
    <3>1. q.agent = req[r].agent /\ q.pids = {p}
      BY <3>0 DEF ReqRecord
    <3>2. req' = [req EXCEPT ![r] = q]
      BY <1>0, <2>3 DEF Spawn
    <3>3. \A s \in q.pids : Owned(had', s, q.agent)
      <4>1. had \in [Pid -> SUBSET Agent] /\ had' = [had EXCEPT ![p] = had[p] \cup {req[r].agent}]
        BY <1>0, <2>3, TypeUnfold DEF Spawn
      <4> QED
        BY <3>1, <4>1 DEF Owned
    <3> HIDE DEF q
    <3> QED
      BY <2>1, <3>2, <3>3
  <2>4. ASSUME NEW r \in Request, NEW a \in Agent, NEW op \in {"term", "kill"},
               FindTargets(r, a, op)
        PROVE  \A t \in Request : Vouched(req'[t]) =>
                   \A s \in req'[t].pids : Owned(had', s, req'[t].agent)
    <3>1. a # DefaultAgent => \A p \in Targets(a) : Owned(had, p, a)
      BY DEF Targets, FindWatcherPids, OwnInv
    <3> DEFINE q == [pc |-> "signal", op |-> op, agent |-> a, pids |-> Targets(a)]
    <3>2. /\ req' = [req EXCEPT ![r] = q] /\ q.agent = a /\ q.pc = "signal"
          /\ q.pids = Targets(a)
      BY <2>4 DEF FindTargets
    <3> HIDE DEF q
    <3>3. Vouched(q) => \A p \in q.pids : Owned(had', p, q.agent)
      BY <1>1, <3>1, <3>2 DEF Vouched
    <3> QED
      BY <2>1, <3>2, <3>3
  <2>5. ASSUME NEW r \in Request, NEW q, req' = [req EXCEPT ![r] = q],
               q.pids = {} \/ /\ q.pids = req[r].pids /\ q.agent = req[r].agent
                               /\ q.pc # "announce"
        PROVE  \A t \in Request : Vouched(req'[t]) =>
                   \A s \in req'[t].pids : Owned(had', s, req'[t].agent)
    <3>1. Vouched(q) => \A p \in q.pids : Owned(had', p, q.agent)
      BY <1>1, <2>5 DEF OwnInv, Vouched
    <3> QED
      BY <2>1, <2>5, <3>1
  <2>6. ASSUME NEW r \in Request, NEW pc \in {"touch", "mark"},
               req' = [req EXCEPT ![r].pc = pc]
        PROVE  \A t \in Request : Vouched(req'[t]) =>
                   \A s \in req'[t].pids : Owned(had', s, req'[t].agent)
    <3> DEFINE q == [req[r] EXCEPT !.pc = pc]
    <3>1. req' = [req EXCEPT ![r] = q]
      BY <1>0, <2>6
    <3>2. q.pids = req[r].pids /\ q.agent = req[r].agent /\ q.pc # "announce"
      BY <1>0 DEF ReqRecord
    <3> HIDE DEF q
    <3> QED
      BY <2>5, <3>1, <3>2
  <2>7. ASSUME NEW r \in Request, RequestMoves(r)
        PROVE  \A t \in Request : Vouched(req'[t]) =>
                   \A s \in req'[t].pids : Owned(had', s, req'[t].agent)
    <3>1. CASE \E a \in Agent : req' = [req EXCEPT ![r] = [pc |-> "spawn", op |-> "start",
                                                          agent |-> a, pids |-> {}]]
      BY <2>5, <3>1
    <3>2. CASE req' = [req EXCEPT ![r] = NoRequest]
      BY <2>5, <3>2 DEF NoRequest
    <3>3. CASE SignalTargets(r)
      BY <2>6, <3>3 DEF SignalTargets, Serve
    <3>4. CASE TouchStopFile(r)
      <4>1. req' = [req EXCEPT ![r].pc = "mark"] \/ req' = [req EXCEPT ![r] = NoRequest]
        BY <3>4 DEF TouchStopFile
      <4> QED
        BY <2>6, <3>2, <4>1
    <3> QED
      BY <2>2, <2>3, <2>4, <2>7, <3>1, <3>2, <3>3, <3>4 DEF RequestMoves
  <2> QED
    BY <2>2, <2>7, RequestSteps
<1>4. \A p \in Pid : proc'[p].kind = "watcher" => Owned(had', p, proc'[p].agent)
  <2> SUFFICES ASSUME NEW p \in Pid, proc'[p].kind = "watcher"
               PROVE  Owned(had', p, proc'[p].agent)
    OBVIOUS
  <2>1. CASE Evolves(p)
    <3>1. proc[p].kind = "watcher" /\ proc'[p].agent = proc[p].agent
      BY <2>1 DEF Evolves
    <3> QED
      BY <1>1, <3>1 DEF OwnInv
  <2>2. CASE \E a \in Agent : proc'[p].agent = a /\ a \in had'[p]
    BY <2>2 DEF Owned
  <2> QED
    BY <1>0, <2>1, <2>2, HistoryGrows DEF HistoryStep
<1> QED
  BY <1>0, <1>2, <1>3, <1>4 DEF OwnInv

\* Whatever pids are given to whom, and however stale the heartbeat is: a stop
\* or kill of a named agent signals only pids that its own watchers have had.
THEOREM SignalsStayHome == Spec => []NamedSignalsStayHome
<1>1. OwnInv => NamedSignalsStayHome
  BY DEF OwnInv, NamedSignalsStayHome, Vouched, Owned
<1> QED
  BY <1>1, OwnInit, OwnNext, PTL DEF Spec

-----------------------------------------------------------------------------
(***************************************************************************)
(* One watcher per agent                                                   *)
(***************************************************************************)

WatchesIn(f, p, a) == f[p].kind = "watcher" /\ f[p].agent = a

\* The watchers of the agent are those the request knows of.
KnowsWatchers(f, q) ==
    /\ q.pc \in {"spawn", "mark"} \/ (q.pc = "touch" /\ q.op = "kill") =>
          \A p \in Pid : ~WatchesIn(f, p, q.agent)
    /\ q.pc \in {"announce", "signal"} =>
          \A p \in Pid : WatchesIn(f, p, q.agent) => p \in q.pids

OnFile(h, p, a) == h[a].pid = p /\ h[a].status \in {"starting", "running"}

Announces(q, a) == q.pc = "announce" /\ q.agent = a

\* A watcher is on file from its announcement until it is dead.
WatchersOnFile ==
    \A a \in Agent : \A p \in Pid : WatchesIn(proc, p, a) =>
        OnFile(hb, p, a) \/ \E r \in Request : Announces(req[r], a)

SoleInv ==
    /\ TypeInv
    /\ \A p \in Pid : proc[p].kind = "watcher" => proc[p].argv = "static"
    /\ \A r \in Request : KnowsWatchers(proc, req[r])
    /\ WatchersOnFile

LEMMA SoleIsSole ==
    ASSUME SoleInv
    PROVE  \A a \in Agent : \A p, q \in Pid :
               WatchesIn(proc, p, a) /\ WatchesIn(proc, q, a) => p = q
<1> SUFFICES ASSUME NEW a \in Agent, NEW p \in Pid, NEW q \in Pid,
                    WatchesIn(proc, p, a), WatchesIn(proc, q, a)
             PROVE  p = q
  OBVIOUS
<1>1. CASE \E r \in Request : Announces(req[r], a)
  <2>1. PICK r \in Request : Announces(req[r], a)
    BY <1>1
  <2>2. p \in req[r].pids /\ q \in req[r].pids
    BY <2>1 DEF SoleInv, KnowsWatchers, Announces
  <2>3. \E x \in Pid : req[r].pids = {x}
    BY <2>1 DEF SoleInv, TypeInv, OneSpawned, Announces
  <2> QED
    BY <2>2, <2>3
<1>2. CASE ~\E r \in Request : Announces(req[r], a)
  BY <1>2 DEF SoleInv, WatchersOnFile, OnFile
<1> QED
  BY <1>1, <1>2

LEMMA SoleInit == Init => SoleInv
  BY TypeInit DEF Init, SoleInv, KnowsWatchers, WatchersOnFile, WatchesIn, NoProcess, NoRequest

\* A step of a process leaves no agent with a watcher it did not have.
LEMMA NoNewcomers ==
    ASSUME SoleInv, \A p \in Pid : Evolves(p)
    PROVE  /\ \A p \in Pid : \A a : WatchesIn(proc', p, a) => WatchesIn(proc, p, a)
           /\ \A p \in Pid : proc'[p].kind = "watcher" => proc'[p].argv = "static"
           /\ \A q : KnowsWatchers(proc, q) => KnowsWatchers(proc', q)
  BY DEF Evolves, WatchesIn, KnowsWatchers, SoleInv

\* A step of a watcher: its own heartbeat is the one on file.
LEMMA SoleWatcherStep ==
    ASSUME SoleInv, NEW p \in Pid, WatcherStep(p) \/ CycleFails(p) \/ Crash(p) \/ Recycle(p)
    PROVE  /\ \A x \in Pid : proc'[x].kind = "watcher" => proc'[x].argv = "static"
           /\ \A r \in Request : KnowsWatchers(proc', req'[r])
           /\ WatchersOnFile'
<1>0. /\ hb \in [Agent -> Beats] /\ TypeOK
      /\ \A x \in Pid : proc[x].kind = "watcher" => proc[x].agent \in Agent
  BY TypeUnfold DEF SoleInv, TypeInv, Beats
<1>1. \A x \in Pid : Evolves(x)
  BY <1>0, WatcherStepEvolves DEF Evolves
<1>2. req' = req
  BY DEF WatcherStep, Boot, FirstBeat, Poll, Idle, Triage, BatchDone, Wake, Close,
         CycleFails, Crash, Recycle
<1>3. \A x \in Pid : \A a : WatchesIn(proc', x, a) => WatchesIn(proc, x, a)
  BY <1>1, NoNewcomers
<1>4. ASSUME hb' = hb
      PROVE  WatchersOnFile'
  BY <1>2, <1>3, <1>4 DEF SoleInv, WatchersOnFile
<1>5. ASSUME NEW s \in {"starting", "running"}, proc[p].kind = "watcher",
             hb' = [hb EXCEPT ![proc[p].agent] = [status |-> s, pid |-> p]]
      PROVE  WatchersOnFile'
  <2> SUFFICES ASSUME NEW a \in Agent, NEW x \in Pid, WatchesIn(proc', x, a),
                      ~\E r \in Request : Announces(req[r], a)
               PROVE  OnFile(hb', x, a)
    BY <1>2 DEF WatchersOnFile
  <2>1. WatchesIn(proc, x, a) /\ OnFile(hb, x, a)
    BY <1>3 DEF SoleInv, WatchersOnFile
  <2>2. CASE a = proc[p].agent
    <3>1. x = p
      BY <1>5, <2>1, <2>2, SoleIsSole DEF WatchesIn
    <3> QED
      BY <1>0, <1>5, <2>2, <3>1 DEF OnFile
  <2>3. CASE a # proc[p].agent
    BY <1>0, <1>5, <2>1, <2>3 DEF OnFile
  <2> QED
    BY <2>2, <2>3
<1>6. ASSUME Close(p)
      PROVE  WatchersOnFile'
  <2> SUFFICES ASSUME NEW a \in Agent, NEW x \in Pid, WatchesIn(proc', x, a),
                      ~\E r \in Request : Announces(req[r], a)
               PROVE  OnFile(hb', x, a)
    BY <1>2 DEF WatchersOnFile
  <2>1. WatchesIn(proc, x, a) /\ OnFile(hb, x, a)
    BY <1>3 DEF SoleInv, WatchersOnFile
  <2>2. x # p
    <3>1. proc' = [proc EXCEPT ![p] = Corpse] /\ proc \in [Pid -> ProcRecord]
      BY <1>0, <1>6, TypeUnfold DEF Close
    <3>2. proc'[p].kind = "dead"
      BY <3>1, CorpseType
    <3> QED
      BY <3>2 DEF WatchesIn
  <2>3. a # proc[p].agent
    BY <1>6, <2>1, <2>2, SoleIsSole DEF WatchesIn, Close, At
  <2> QED
    BY <1>0, <1>6, <2>1, <2>3 DEF OnFile, Close, MarkStopped
<1>7. \/ hb' = hb \/ Close(p)
      \/ \E s \in {"starting", "running"} : proc[p].kind = "watcher" /\
            hb' = [hb EXCEPT ![proc[p].agent] = [status |-> s, pid |-> p]]
  BY DEF WatcherStep, Boot, FirstBeat, Poll, Idle, Triage, BatchDone, Wake,
         CycleFails, Crash, Recycle, Beat, At
<1>8. \A r \in Request : KnowsWatchers(proc, req'[r])
  BY <1>2 DEF SoleInv
<1>9. /\ \A x \in Pid : proc'[x].kind = "watcher" => proc'[x].argv = "static"
      /\ \A r \in Request : KnowsWatchers(proc', req'[r])
  BY <1>1, <1>8, NoNewcomers
<1> QED
  BY <1>4, <1>5, <1>6, <1>7, <1>9

\* A step of the only request.
LEMMA SoleRequestStep ==
    ASSUME SoleInv, NEW r \in Request, Request = {r}, DefaultAgent \notin Agent,
           RequestStep(r) \/ Arrival(r)
    PROVE  /\ \A x \in Pid : proc'[x].kind = "watcher" => proc'[x].argv = "static"
           /\ \A t \in Request : KnowsWatchers(proc', req'[t])
           /\ WatchersOnFile'
<1>0. /\ TypeOK /\ OneSpawned
      /\ hb \in [Agent -> Beats] /\ req \in [Request -> ReqRecord] /\ req[r] \in ReqRecord
      /\ proc \in [Pid -> ProcRecord]
      /\ req[r].pc # "idle" => req[r].agent \in Agent
      /\ KnowsWatchers(proc, req[r])
  BY TypeUnfold DEF SoleInv, TypeInv, Beats
<1>1. ASSUME NEW a \in Agent, NEW x \in Pid, req[r].pc # "announce", WatchesIn(proc, x, a)
      PROVE  OnFile(hb, x, a)
  BY <1>1 DEF SoleInv, WatchersOnFile, Announces
<1>2. ASSUME NEW a \in Agent, CheckStart(r, a)
      PROVE  KnowsWatchers(proc', req'[r]) /\ WatchersOnFile' /\ proc' = proc
  <2>1. \A x \in Pid : ~WatchesIn(proc, x, a)
    BY <1>1, <1>2 DEF CheckStart, Running, Alive, OnFile, WatchesIn
  <2>2. req'[r].agent = a /\ req'[r].pc = "spawn" /\ proc' = proc /\ hb' = hb
    BY <1>0, <1>2 DEF CheckStart
  <2>3. WatchersOnFile'
    BY <1>1, <1>2, <2>2 DEF CheckStart, WatchersOnFile
  <2> QED
    BY <2>1, <2>2, <2>3 DEF KnowsWatchers
<1>3. ASSUME NEW a \in Agent, NEW op \in {"term", "kill"}, FindTargets(r, a, op)
      PROVE  KnowsWatchers(proc', req'[r]) /\ WatchersOnFile' /\ proc' = proc
  <2>1. FindWatcherPids(a) = {}
    BY DEF FindWatcherPids, SoleInv
  <2>2. \A x \in Pid : WatchesIn(proc, x, a) => x \in Targets(a)
    BY <1>1, <1>3, <2>1 DEF FindTargets, Targets, OnFile
  <2>3. /\ req'[r].agent = a /\ req'[r].pc = "signal" /\ req'[r].pids = Targets(a)
        /\ proc' = proc /\ hb' = hb
    BY <1>0, <1>3 DEF FindTargets
  <2>4. WatchersOnFile'
    BY <1>1, <1>3, <2>3 DEF FindTargets, WatchersOnFile
  <2> QED
    BY <2>2, <2>3, <2>4 DEF KnowsWatchers
<1>4. ASSUME NEW p \in Pid, Spawn(r, p)
      PROVE  /\ \A x \in Pid : proc'[x].kind = "watcher" => proc'[x].argv = "static"
             /\ KnowsWatchers(proc', req'[r]) /\ WatchersOnFile'
  <2> DEFINE a == req[r].agent
             q == [req[r] EXCEPT !.pc = "announce", !.pids = {p}]
  <2>1. q.pc = "announce" /\ q.agent = a /\ q.pids = {p}
    BY <1>0 DEF ReqRecord
  <2>2. req'[r] = q /\ hb' = hb
    BY <1>0, <1>4 DEF Spawn
  <2>3. \A x \in Pid : ~WatchesIn(proc, x, a)
    BY <1>0, <1>4 DEF Spawn, KnowsWatchers
  <2>4. /\ proc'[p] = NewWatcher(a, "static")
        /\ \A x \in Pid : x # p => proc'[x] = proc[x]
    BY <1>0, <1>4 DEF Spawn
  <2>5. /\ proc'[p].agent = a /\ proc'[p].argv = "static"
        /\ \A x \in Pid : x # p => proc'[x] = proc[x]
    BY <2>4 DEF NewWatcher
  <2>6. \A x \in Pid : proc'[x].kind = "watcher" => proc'[x].argv = "static"
    BY <2>5 DEF SoleInv
  <2> HIDE DEF a, q
  <2>7. KnowsWatchers(proc', req'[r])
    BY <2>1, <2>2, <2>3, <2>5 DEF KnowsWatchers, WatchesIn
  <2>8. WatchersOnFile'
    <3> SUFFICES ASSUME NEW b \in Agent, NEW x \in Pid, WatchesIn(proc', x, b), b # a
                 PROVE  OnFile(hb', x, b)
      BY <2>1, <2>2 DEF WatchersOnFile, Announces
    <3>1. WatchesIn(proc, x, b)
      BY <2>5 DEF WatchesIn
    <3> QED
      BY <1>1, <1>4, <2>2, <3>1 DEF Spawn
  <2> QED
    BY <2>6, <2>7, <2>8
<1>5. ASSUME Announce(r)
      PROVE  KnowsWatchers(proc', req'[r]) /\ WatchersOnFile' /\ proc' = proc
  <2>1. PICK p \in req[r].pids :
            hb' = [hb EXCEPT ![req[r].agent] = [status |-> "starting", pid |-> p]]
    BY <1>0, <1>5, AnnouncedPid
  <2>2. req[r].pids = {p}
    BY <1>0, <1>5, <2>1 DEF OneSpawned, Announce
  <2>3. proc' = proc /\ req'[r] = NoRequest /\ req[r].pc = "announce"
    BY <1>0, <1>5 DEF Announce
  <2>4. WatchersOnFile'
    <3> SUFFICES ASSUME NEW b \in Agent, NEW x \in Pid, WatchesIn(proc, x, b)
                 PROVE  OnFile(hb', x, b)
      BY <2>3 DEF WatchersOnFile
    <3>1. CASE b = req[r].agent
      <4>1. x = p
        BY <1>0, <2>2, <2>3, <3>1 DEF KnowsWatchers
      <4> QED
        BY <1>0, <2>1, <3>1, <4>1 DEF OnFile
    <3>2. CASE b # req[r].agent
      <4>1. OnFile(hb, x, b)
        BY <3>2 DEF SoleInv, WatchersOnFile, Announces
      <4> QED
        BY <1>0, <2>1, <3>2, <4>1 DEF OnFile
    <3> QED
      BY <3>1, <3>2
  <2> QED
    BY <2>3, <2>4 DEF KnowsWatchers, NoRequest
<1>6. ASSUME SignalTargets(r)
      PROVE  /\ \A x \in Pid : proc'[x].kind = "watcher" => proc'[x].argv = "static"
             /\ KnowsWatchers(proc', req'[r]) /\ WatchersOnFile'
  <2>1. /\ \A x \in Pid : \A a : WatchesIn(proc', x, a) => WatchesIn(proc, x, a)
        /\ \A x \in Pid : proc'[x].kind = "watcher" => proc'[x].argv = "static"
    BY <1>0, <1>6, SignalEvolves, NoNewcomers
  <2> DEFINE q == [req[r] EXCEPT !.pc = "touch"]
  <2>2. q.pc = "touch" /\ q.agent = req[r].agent /\ q.op = req[r].op
    BY <1>0 DEF ReqRecord
  <2>3. req'[r] = q /\ hb' = hb /\ req[r].pc = "signal"
    BY <1>0, <1>6 DEF SignalTargets, Serve
  <2>4. ASSUME NEW x \in Pid, req[r].op = "kill", WatchesIn(proc', x, req[r].agent)
        PROVE  FALSE
    <3>1. WatchesIn(proc, x, req[r].agent) /\ x \in req[r].pids
      BY <1>0, <2>1, <2>3, <2>4 DEF KnowsWatchers
    <3>2. proc'[x] = Corpse
      BY <1>6, <2>4, <3>1 DEF SignalTargets, Struck, WatchesIn
    <3> QED
      BY <2>4, <3>2, CorpseType DEF WatchesIn
  <2> HIDE DEF q
  <2>5. KnowsWatchers(proc', req'[r])
    BY <2>2, <2>3, <2>4 DEF KnowsWatchers
  <2>6. WatchersOnFile'
    BY <1>1, <2>1, <2>3 DEF WatchersOnFile
  <2> QED
    BY <2>1, <2>5, <2>6
<1>7. ASSUME TouchStopFile(r)
      PROVE  KnowsWatchers(proc', req'[r]) /\ WatchersOnFile' /\ proc' = proc
  <2> DEFINE q == [req[r] EXCEPT !.pc = "mark"]
  <2>1. q.pc = "mark" /\ q.agent = req[r].agent
    BY <1>0 DEF ReqRecord
  <2>2. \/ req[r].op = "kill" /\ req'[r] = q
        \/ req'[r] = NoRequest
    BY <1>0, <1>7 DEF TouchStopFile
  <2>3. proc' = proc /\ hb' = hb /\ req[r].pc = "touch"
    BY <1>7 DEF TouchStopFile
  <2> HIDE DEF q
  <2>4. KnowsWatchers(proc', req'[r])
    BY <1>0, <2>1, <2>2, <2>3 DEF KnowsWatchers, NoRequest
  <2>5. WatchersOnFile'
    BY <1>1, <2>3 DEF WatchersOnFile
  <2> QED
    BY <2>3, <2>4, <2>5
<1>8. ASSUME MarkKilled(r)
      PROVE  KnowsWatchers(proc', req'[r]) /\ WatchersOnFile' /\ proc' = proc
  <2>1. proc' = proc /\ req'[r] = NoRequest /\ req[r].pc = "mark"
    BY <1>0, <1>8 DEF MarkKilled
  <2>2. WatchersOnFile'
    <3> SUFFICES ASSUME NEW b \in Agent, NEW x \in Pid, WatchesIn(proc, x, b)
                 PROVE  OnFile(hb', x, b)
      BY <2>1 DEF WatchersOnFile
    <3>1. b # req[r].agent /\ OnFile(hb, x, b)
      BY <1>0, <1>1, <2>1 DEF KnowsWatchers
    <3> QED
      BY <1>0, <1>8, <3>1 DEF OnFile, MarkKilled, MarkStopped
  <2> QED
    BY <2>1, <2>2 DEF KnowsWatchers, NoRequest
<1>9. ~LegacyStart(r)
  BY DEF LegacyStart
<1>10. proc' = proc => \A x \in Pid : proc'[x].kind = "watcher" => proc'[x].argv = "static"
  BY DEF SoleInv
<1> QED
  BY <1>2, <1>3, <1>4, <1>5, <1>6, <1>7, <1>8, <1>9, <1>10 DEF RequestStep, Arrival

LEMMA SoleNext ==
    ASSUME \A r, t \in Request : r = t, ~ManualStart, DefaultAgent \notin Agent
    PROVE  SoleInv /\ [Next]_vars => SoleInv'
<1> SUFFICES ASSUME SoleInv, [Next]_vars PROVE SoleInv'
  OBVIOUS
<1>1. TypeInv'
  BY TypeNext DEF SoleInv
<1>2. CASE UNCHANGED vars
  BY <1>1, <1>2 DEF SoleInv, WatchersOnFile, vars
<1>3. CASE \E p \in Pid : WatcherStep(p) \/ CycleFails(p) \/ Crash(p) \/ Recycle(p)
  BY <1>1, <1>3, SoleWatcherStep DEF SoleInv
<1>4. CASE \E r \in Request : RequestStep(r) \/ Arrival(r)
  BY <1>1, <1>4, SoleRequestStep DEF SoleInv
<1> QED
  BY <1>2, <1>3, <1>4 DEF Next, Mishap, Launch

\* /api/agents/start does not double-start a living watcher, as long as the
\* dashboard serves one request at a time and nobody starts watchers by hand.
THEOREM SequentialStartsAreSole ==
    ASSUME \A r, t \in Request : r = t, ~ManualStart, DefaultAgent \notin Agent
    PROVE  Spec => []AtMostOneWatcher
<1>1. SoleInv => AtMostOneWatcher
  BY SoleIsSole DEF AtMostOneWatcher, Watches, WatchesIn
<1> QED
  BY <1>1, SoleInit, SoleNext, PTL DEF Spec

=============================================================================
