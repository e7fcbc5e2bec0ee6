# A TLA+ model of the Wazuh SOC agent

This directory holds a formal model of the program in `src/`: an LLM triage
agent with an overnight watcher, and an AI SOC engineer whose changes to a
Wazuh deployment pass through an Approval Center. The modules are translated
from the Python sources; TLC checks them on small instances, and TLAPS proves
the main results for every instance. `PROJECT.json` maps every definition to
the lines it models.

    cd tla
    tlc -workers 2 -config center_races.cfg MCApprovalCenter
    tlapm ApprovalCenterProofs.tla

## 1. Inventory

| Part | State | Operations | How it interacts | What is hard | What makes it correct |
|---|---|---|---|---|---|
| Approval Center: `approvals.py`, `approval_executor.py`, `permissions.py` | `approvals.json`: one record per proposal | create, list (expires on read), approve, reject, cancel, claim, finish; execute_proposal | Flask threads, the terminal agent and the live-validation harness share the file under a lock | the executor reads without the lock, claims, runs the tool with no lock, records the outcome: anything happens in between; crash, timeout, exception | one approval is applied at most once; quorum, separation of duties, deadlines; records are honest and never rewritten; a claim is settled |
| Tool gate: `tools/base.py`, `tools/registry.py` | none | run, approve_or_raise | raises ApprovalRequired, which the engine and the routes persist | the same tool runs in proposing and executing contexts | the change a proposal describes is made with its approval only |
| Dashboard identities: `dashboard.py` 165-247 | token table (constant) | _identity, _require_role | names the proposer and the approvers | verified and self-declared names meet in one record | the recorded proposer is the caller |
| Watcher and agent control: `run.py`, `agent_control.py`, `dashboard.py` 880-1110 | heartbeat, stop file and pid per agent | start, stop, kill, status; poll cycle, signal handler | processes, signals, two files per agent, `/proc` | start is check-then-act; the stop file is deleted at boot; pids are recycled; two writers share one temporary file | a stop ends its own watchers and no other process; one watcher per agent |
| Triage: `agent/triage_agent.py` | message list, tool turns | tool loop, verdict, human-review gate | LLM provider, SIEM, knowledge base | the model may call tools for ever, or answer nonsense | the loop ends; an unsafe verdict goes to a human |
| Triage log: `main.py`, `run.py`, `feedback_cli.py`, `cases.py`, `log_rotation.py` | JSONL files | append, review, rotate | several processes append while another rotates | copy-then-truncate; entries of two shapes | nothing is lost or reviewed twice |
| JSON stores: `rules.py`, `lookup_tables.py`, `siem_providers.py` | one JSON file each | create, update, delete, import; threshold counts | dashboard threads and watchers | unlocked read-modify-write; an unreadable file reads as empty | no acknowledged update disappears |
| Manager rule files: `tools/wazuh/rules.py`, `decoders.py`, `local_rules.py`, `tools/api_client.py` | `local_rules.xml` on the manager | fetch, merge, validate, PUT | executions of approved proposals | whole-file replacement, ambiguous timeouts, one re-login | an executed proposal is in the file |
| SOC engineer, chat agent, terminal agent: `agent/*.py`, `scripts_engineer_cli.py`, `cli/*` | conversation, pending approvals | bounded tool loops, inline review | the Approval Center, sub-agents, processes over MCP | interleaving with other approvers; tools that write before a proposal exists | an engineer's write runs only as a proposal somebody consented to; the analyst's own writes stay its own |
| LLM providers: `llm/*` | retry and fallback counters | complete | HTTP | 429, 5xx, fallback order | a bounded number of attempts |
| Detection engineering, dashboard builder, investigation, search, knowledge base | drafts | multi-step tools | logtest, indexer, vector store | partial failure of multi-object writes | no half-created object is reported as done |
| Pages, metrics, notifications, guard, configuration | none of their own | pure I/O and rendering | | | |

`PROJECT.json` lists the same parts with their status, and under `hazards`
each place of the code where something can go wrong that a test would hardly
reach.

## 2. Plan

Done, in the order of the plan: the Approval Center with its abstract
specification, refinement and proofs; the watchers with proofs; the JSON stores
and the alert rules on them; the triage loop, its log, the reviews and the
cases, with proofs; the manager's rule files, with proofs; the terminal's
engineer session, with proofs; the dashboard builder, with proofs; the live-validation
harness, with proofs; the proofs about the rule files of the agent.

| Module | Composes | Components |
|---|---|---|
| `Permissions`, `ApprovalCenter`, `OneShotGrant`, `ApprovalCenterRefinement` | the store, the executors, the faces | Approval Center, tool gate |
| `Watcher` | `run.py` with the routes that start and stop it | watchers |
| `JsonStores`, `AlertRules` | the disk with its unlocked writers; the operations on it | rules, thresholds, lookup tables, connections |
| `TriageLoop`, `TriageLog`, `LogViews` | the tool loop over the chat call; three writers, rotation, review; what is read off the log | triage agent, LLM providers, log, feedback, cases |
| `ManagerFiles` | rule and decoder tools over one manager | manager rule files, detection engineering |
| `EngineerLoop`, `EngineerSession` | agents, middleware and sub-agents; the session and its reviews | SOC engineer, chat agent, terminal |
| `DashboardPlans`, `SavedObjects` | plans and saved objects; the tools that write them | dashboard builder |
| `LiveScenarios`, `LiveValidation` | the scenarios; the run around them | live validation |

Left: an abstract specification of `ManagerFiles` (a file to which each executed change is
applied) for jobs that do not overlap;
a module for the heartbeat file and one for an approval store whose file cannot
be read.

Every module keeps its parameters as CONSTANTS with named assumptions, has one
action per operation and no RECURSIVE operator, so that it can be proved about.

## 3. The Approval Center

### Modules

* `Permissions` is `permissions.py`: `EffectiveLevel`, `IsHighRisk`,
  `NeedsConfirmation`. An action name is abstracted to the class the code sorts
  it into; the order of the tests is kept.
* `ApprovalCenter` is the state machine. A function of `approvals.py` that
  runs under the file lock is one action; `execute_proposal` is a process of
  steps `Load`, `Claim` (or `ClaimTooLate`, `ClaimRefused`), `RunTool` (or
  `BuildContextFails`), `Finish`, with `Crash` possible between any two.
* `OneShotGrant` is what the component promises: a grant is asked for, allowed
  at most once, voidable until somebody starts to use it, and has at most one
  effect. `ApprovalCenterRefinement` maps the store to it.
* `MCApprovalCenter` holds the small sets for TLC.
* `ApprovalCenterProofs` holds the theorems.

### State and actions

| TLA+ | Code |
|---|---|
| `store` | the records of `approvals.json`; `votes` are the entries of `approved_by`, `approvedAt` the time `claim_for_execution` compares with |
| `quorum` | `APPROVAL_PROPOSE_MIN_APPROVERS`, `APPROVAL_EXECUTE_MIN_APPROVERS`; `Reconfigure` changes them, since they are read at each vote |
| `exec` | local variables of the `execute_proposal` calls in flight |
| `live` | local variables of `LiveEnv.execute_approved` |
| `origin`, `writes`, `reported` | history: who really asked, how often the change was applied, and what the executor's run of the tool came back with |
| `Create`, `ProposeInChat`, `ProposeByTool` | `create_proposal` as the engine and the two routes call it; the tool route takes the proposer from the request body |
| `List`, `Approve`, `ApproveTooLate`, `Reject`, `Cancel` | the functions of the same names; a vote on a stale proposal expires it |
| `Load` ... `Finish`, `BuildContextFails`, `Crash` | `execute_proposal` step by step |
| `HarnessLoad`, `HarnessRun` | `live_validation/env.py` |

Calls that are refused and change nothing are not steps. `RunTool` leaves what
the tool reported and what it changed independent of each other: a PUT that
timed out may have been applied, and a tool that answered anything but an
error counts as a success although it wrote nothing (`test_wazuh_rule` when the
merge changes nothing, or a READ action that `propose_action` named). So
"executed" in the record means that the tool reported no error, never that
something changed; `RecordIsHonest` says the former. What a tool reports about
its own writes is the subject of `ManagerFiles` and `SavedObjects`.

### Runs

| Run | Question | Size |
|---|---|---|
| `center_races` | two executors race for one proposal of any class, with votes, decisions, a quorum that changes, deadlines, crashes and failing contexts: types, single use, separation of duties, honest records, confirmation, quorum, deadlines, frozen history, and the refinement of `OneShotGrant` | 436 000 states |
| `center_faces` | the same store with the live-validation harness: nothing unapproved is applied; and, without crashes and failing contexts, a claimed proposal is settled | 1 076 000 states |
| `sod_tool_route` (violation) | `/api/engineer/tool` records a proposer of the client's choosing | |
| `harness_replay` (section 11) | the harness leaves an applied proposal approved: it is applied again, by the harness or by the executor | |

Bounds. Two requests are enough for every race about a claim: a third would
only be refused like the second. Two names, one of which also appears on the
unverified face, give a self-approval, a double vote through two faces and a
quorum of two. Expiry and window are one tick and the clock runs to four, so
that each deadline is met exactly, missed by one, and missed after a vote.
`MaxQuorum` is two, so that a changed quorum is both above and below the votes
cast. `MaxReplays` bounds only what the harness may repeat.

Deadlock checking is off where proposals are used up and the clock has reached
its bound: the system has nothing left to do there.

Fairness. `FairSpec` assumes weak fairness of the steps of each request: its
thread keeps running and the tool returns because every HTTP call it makes has
a timeout. No fairness is assumed of humans, and `center_faces` excludes
crashes and failing contexts, after which the code indeed never settles
(`context_failure`).

### Proofs

All theorems hold for every number of proposals, requests and names, every
clock, quorum and policy flag, with the named assumptions of `ApprovalCenter`.

* `TypeCorrect`: the type invariant.
* `ClaimsAreExclusive`: `ClaimInv` is inductive. Single use alone is not: one
  needs that a request between claim and finish owns its proposal alone
  (status `executing`, no second owner) and that nothing was applied before its
  tool ran. Every other step keeps an owned proposal `executing`, because
  vote, reject, cancel, expire and claim all require another status.
  `ApprovalIsSingleUse` and `RecordTellsTheTruth` follow. They assume
  `Harness = {}`; with the harness single use is false (`harness_replay`).
* `CenterImplementsGrants`: step by step refinement of `OneShotGrant`, with
  `ClaimInv` for the step of the tool (it applies the change for the first
  time) and of `Finish` (the record is still executing).
* `VotesAreDistinct`, `DutiesAreSeparate`: votes are distinct names and no
  verified vote is the proposer's; the second assumes `ToolRouteName = {}`
  (see `sod_tool_route`).
* `GrantsNeedTheirQuorum`: distinct votes make the number of votes the number
  of approvers, and only `approve` flips to approved.
* `DeadlinesHold`, `HistoryStaysFrozen`: action properties from the type
  invariant and the effect lemmas of each action.
* `HighRiskRunsConfirmed`: the confirmation is checked on a record read
  without the lock; `ConfirmInv` carries it to the run: the level and class of
  a record that was approved once never change afterwards.

* `AppliedIsApproved`: holds with the harness too. `GrantedInv`: whoever has
  taken up a proposal, request or harness, took up a granted one, and a grant
  keeps its votes and is never pending or rejected again.

Only model-checked: the liveness property `ClaimSettles`, which is out of reach
of the prover.

### What is left out

Audit rows, texts, diffs and payloads; a store file that cannot be read (see
the hazard at `approvals.py:67`); the file lock itself, which is taken to
exclude (`flock`, or a locked byte on Windows). Time is a counter of ticks that does not jump back.

## 4. The watchers

### Modules

* `Watcher` puts together the watcher process (`run.py`), the files it shares
  with the dashboard (`agent_control.py`) and the agent-control routes of
  `dashboard.py`. A watcher and a request are processes of several steps that
  interleave freely.
* `MCWatcher` holds the small sets, `WatcherProofs` the theorems.

### State and actions

| TLA+ | Code |
|---|---|
| `proc` | the processes of the machine by pid: watchers at a place of `run.py`, dead ones (exited or zombie), strangers that were given the pid of a dead one; `argv` says whether `--agent-id` is on the command line, which is all that `find_watcher_pids` sees |
| `stopFile`, `hb` | the agent's stop file; status and pid of its heartbeat |
| `req` | local variables of the start, stop and kill requests in flight: the pids collected, and the next call to make |
| `told`, `had` | history: a stop or kill was served, and no start since; the agents whose watchers have had each pid |
| `Boot`, `FirstBeat`, `Poll`, `Idle`, `Triage`, `BatchDone`, `CycleFails`, `Wake`, `Close` | `run_watch` and `_run_cycle` |
| `CheckStart` or `LegacyStart`, `Spawn`, `Announce` | `/api/agents/start` and `/api/agent/start`, `_spawn_agent` up to `Popen`, and its heartbeat |
| `FindTargets`, `SignalTargets`, `TouchStopFile`, `MarkKilled` | `_signal_agent` and the rest of stop and kill |
| `Launch`, `Crash`, `Recycle` | an operator's `python run.py`, a death without cleanup, and a dead watcher's pid given to an unrelated program |

`Reuse` says to whom the system may give the pid of a dead watcher: to another
watcher, to a stranger. A dead child keeps its pid while the start that spawned
it still holds its `Popen` (`Reaped`).

`write_heartbeat` is one step. `status()` also counts a live process whose
heartbeat is younger than two minutes as running; `CheckStart` may go either
way there, so it is enabled.

### Runs

| Run | Question | Size |
|---|---|---|
| `watcher_sequential` | one request at a time on two named agents, `--exit-after 1`, pids reused by watchers and by strangers: types, one watcher per agent, a served stop is final | 209 000 states |
| `watcher_hears` | a named agent next to the legacy one, whose start does not ask; manual starts, pids given to strangers: stop and kill of the named agent stay with pids its own watchers have had, and a stop file that stays ends every watcher | 903 000 states |
| `recycled_pid`, `default_stop`, `double_start` | three promises of docstrings and comments that the code breaks (section 11) | counterexamples |

Bounds. Two agents are needed to confuse them: two with directories of their
own in the one run, a named and the legacy one in the other. Two pids are a
watcher and whoever is hit in its place, or the watcher that replaces it; with
`Reuse` a pid passes from owner to owner any number of times. `MaxBatch` of one
alert puts a stop before, into and after a batch. The cycle counter stops one
past `--exit-after`, where every later cycle behaves alike. Deadlock checking is
off: when all pids are used up and nobody presses a button, nothing happens.

Fairness. Weak fairness of a watcher's own steps (its sleep ends, and so do its
HTTP calls and its tool loop) and of the steps of a request. No start, stop,
crash or failing cycle is forced to happen. A cycle that fails for ever still
comes back to the check of the stop file.

### Proofs

* `TypeCorrect`: the type invariant, together with "a start that announces has
  spawned one pid". Lemma `ProcessLives` says all that any step can do to a
  process, `HeartbeatSteps` and `RequestSteps` the same for the other two.
* `SignalsStayHome`: every pid in a heartbeat, behind a live watcher or held by
  a request has been the agent's it stands for (`OwnInv`); only what a request
  collected for the legacy agent has no such voucher (`Vouched`). It assumes
  nothing about pids or requests. "Has been" is all the code gives: discovery
  by command line never finds a watcher the dashboard spawned, so the heartbeat
  pid is signalled, and `recycled_pid` shows it in a stranger's hands by then.
* `SequentialStartsAreSole`: a watcher is on file, by pid and with a status
  that `status()` takes for running, from its announcement until it is dead
  (`WatchersOnFile`), and a request past its first step knows all watchers of
  its agent (`KnowsWatchers`). It assumes one request at a time
  (`double_start` shows why) and no manual starts; pids may be reused.

Only model-checked: `StopFileIsHeard` and `StopWins` (liveness). `StopWins`
needs the single request of `watcher_sequential`: with two, a stop that is
served between the spawn and the announcement finds no pid to signal, and
`run_watch` deletes its stop file at boot.

### What is left out

Log files, timestamps, cycle statistics and the alerts themselves. That
`--exit-after` is not looked at in a cycle without alerts or one that fails
(`run.py:127`) is in the model; no property is about it. The
Windows form of process discovery does the same as the modelled one.

## 5. The rule files

### Modules

* `JsonStores` is the disk: four JSON files that dashboard threads, watchers
  and command lines load, change in memory and save as a whole, without a
  lock. `OpenForWrite`, `WriteText` and `Replace` are the steps of `_save`:
  three of the files share one temporary file each, which a rename moves under
  the open descriptors of the others (`Moved`); the connections are truncated and
  written in place. A torn file reads as empty (`Load`), as `_load` does.
* `AlertRules` adds the operations: create, update, delete and import of rules,
  `evaluate_all` with its threshold counters, lookup tables and their entries,
  SIEM connections. `raced` remembers the files that two writers have held at
  the same time, `torn` those whose writer died between truncation and text:
  what a lone writer may rely on is stated without the first, what survives a
  lone crash without either.

| TLA+ | Code |
|---|---|
| `disk`, `tmp`, `job` | the files, their temporary files, and the locals of each operation in progress |
| `EvaluateAll`, `LoadState`, `ApplyRules`, `Evaluated` | `rules.evaluate_all`: the rules are read, then the counters, then the clock, then all is saved |
| `CreateRule`, `UpdateRule`, `DeleteRule` with `DropCounters`, `RuleDeleted` | the functions of those names; the counters of a deleted rule go best-effort |
| `ImportRules`, `PassOver`, `ImportStops`, `ImportOne`, `Imported` | `import_rules`, one definition after the other against names read once |
| `UpsertEntry`, `CreateTable`, `DeleteEntry`, `DeleteTable`, `AddProvider`, `RemoveProvider` | `lookup_tables.py`, `siem_providers.py` |

### Run and bounds

`rule_files` (1.7 million states): two processes are enough for every race on
a temporary file, three operations for one that follows a race. `Mixes` names the
operations one behaviour combines: operations on different files commute, so
only those that can meet are put together. A window of one tick with a clock of
two has counters in it, at its edge and past it; a threshold of two is met by
one alert after another and by two at once.

`ThresholdIsSound` holds however evaluations interleave: a lost count can only
delay an alarm. `AloneNoAlarmMissed`, `AloneNothingLost` and
`AloneDeletedStaysDeleted` say that nothing else than two writers at once, a
crash included, loses a count, a record or a deletion. The exception is spelled
out in `AloneNothingLost`: the connections are truncated in place, and a lone
crash in that window loses them all, which `torn_connections` shows. An update
keeps the counters of the definition it replaces, so a rule may fire on alerts
it would not match (`rule_edited`).

### Proofs (`AlertRulesProofs`)

The four properties hold for any number of processes, rules, alerts, tables and
operations, every window and count, with and without crashes. The invariant is
`RulesInv`. Nothing less is inductive:

* `TypeInv`, `FilesInv`: each job works on the file its operation is about, and
  whatever a file, a temporary file or a copy holds was recorded or created.
* `CountInv` carries `ThresholdIsSound`: what was counted is finite and never
  in the future, and a hit waiting for its save has its matches already. It
  needs nothing about races, since a copy of the counters, however stale, holds
  recorded matches only.
* `SoloInv` is what a writer that is alone may rely on: an open temporary file
  is truncated and its own, a written one holds its copy, and after the rename
  the file does. `SaveEffect` sums up the three steps of a save for the rest
  of the proof. All other parts speak of files that were neither raced nor torn
  (`Spoilt`); `TornInv` says that only the connections can be torn.
* `KeptInv` says that the copy of a writer has whatever was acknowledged, and
  what an import has already saved: otherwise the save of a later definition
  could drop an earlier one. The connections are the exception while their file
  is open for writing.
* `StateInv`: a returned match is in the file and in the copy of whoever holds
  it, unless it has left the window of that evaluation or its rule is being
  deleted; an evaluation that did not hit found fewer than `Count` matches in
  its copy; and an evaluation that holds the counters has a higher number than
  those that returned, so no later match counts against an earlier one.
* `GoneInv`: a deleted rule is in no file and no copy; new ids are unused ones.

`RulesAssumption` and `DiskAssumption` are what the proofs assume: the types of
the parameters, finite first rule files, and that a torn or missing file is
told apart from any content. The configurations make `Torn` and `NoFile`
sets of a model value each, since a file's content is a set.

## 6. Triage, its log and the reviews

### Modules

* `TriageLoop` is one alert: the tool loop of `triage_agent.py`, the chat call
  of `openai_compat_provider.py` with a budget for 429 and one for 5xx answers, the
  fallback to another model family (`freellmapi_provider.py`), and
  `human_review_reasons`. A tool result is abstracted to what it is - a document
  that humans wrote, a page stored from the web, the answer of a web search, any
  other dict - and `RetrievedKinds` reads the kinds off it as the code does: only
  `metadata` counts, and what has none counts as unlabelled, hence as
  human-authored.
* `TriageLog` is everybody who appends: the batch (`main.py`), the watcher
  (`run.py`) and the on-demand route, which write entries of different shapes
  and treat an exception differently; the rotation in two steps; the review in
  three (feedback, case, marker), interrupted anywhere; `distill`.
* `LogViews` is `cases.py`: union-find over the entries, as a recursive
  function.

| TLA+ | Code |
|---|---|
| `loop` | turn counter, transcript and result of `TriageAgent.triage` |
| `llm` | budgets of the request, the last routed family and `_bad_families` of the provider object |
| `poll` | who triages, the alerts that are left |
| `log`, `archives`, `rot` | `triage_log.jsonl`, the compressed archives by second, a rotation in progress |
| `rev`, `marker`, `feedback`, `closed`, `lessons` | `feedback_cli.py` |

### Run and bounds

`triage_log` (1.6 million states) chooses at the start among four settings: one
alert with retries, fallback and two turns; the same alert twice, for what the
provider object remembers; three alerts for the cases; two alerts with
rotations and two review sessions. `CasesAreChains` compares the forest with
chains of shared hosts and users over every log of up to three entries.

`StoredPagesNeverClose` says what the trust boundary does hold: no alert closes
unseen on a forced verdict, or on pages stored from the web alone. What the
comments of the code say beyond that it does not hold: in `auto_close` the answer
of a web search, which carries its kind outside `metadata`, closes an alert
after a knowledge base query that found nothing (`WebNeverCorroborates`), and an
error or an event would do as well.

Fairness. The process that triages keeps running; a request ends, since it has a
timeout; and an answer has finitely many tool calls (`Concludes`). Nothing
is assumed of rotations, reviews, or of the expiry of remembered failures.

### Proofs (`TriageLogProofs`)

For every setting, any number of alerts, families and sessions. `CallInv` says
that what is left of the two budgets and what was used add up, which
`RetriesBounded` alone does not carry through a step; `RetriesStayBounded`
and `FallbacksAvoidFailures` follow. `VerdictInv` says what the result of a
concluded triage may be, by where it came from, and with what `RetrievedKinds`
makes of a tagged page `PagesNeverClose` follows. `RotationInv` keeps the copy of an unfinished rotation in the archives
until the file is truncated (`RotationsKeepAll`); `ReviewInv` keeps what is
about to be marked in the feedback and the cases (`ReviewedCasesStand`).
`CountInv` says that the numbers of the entries written are those up to their
count, so that a new entry is one more (`DashboardCountsHold`); it takes
`PolledAssumption`, that what is polled is a sequence of alerts.

`CasesAreChainsHolds` proves the union-find for every log. `Rooted` gives each
entry of a forest its root and a depth that the number of non-roots bounds, so
that `find` ends at the root within as many steps as there are entries
(`RootFound`); `union` keeps that (`UnionIsRooted`). After `q` pairs of the two
loops, entries of one root are joined by a chain and the pairs joined so far
have one root (`Grown`, `GrownOn`); a chain longer than the number of entries
is cut where it meets an entry twice (`ReachedShortly`). What the recursive
functions compute is shown by induction over sets of numbers
(`NatSetInduction`, from the library's well-founded minimum). It takes
`LimitAssumption`: up to 1800 lines, the seconds of the default window (the
default limit is 500 lines). With more, with no limit (0) or with another
window, time would tell entries apart, which is not modelled.

Only model-checked: `TriageEnds` (liveness).

## 7. The terminal session

* `EngineerLoop` is one turn: the loops of `soc_engineer.py` and
  `chat_agent.py`, the middleware under their model client
  (`cli/middleware.py`), sub-agents (`cli/agents.py`) and the registry that
  turns a write into a proposal. `stack` holds the agent that runs and, under a
  sub-agent, the one that waits.
* `EngineerSession` is what surrounds the turns: prompts and slash commands,
  the history from turn to turn, and `review_pending` proposal by proposal,
  while others decide the same proposals (`Elsewhere`).

| TLA+ | Code |
|---|---|
| `Counted`, `AnswersCalls`, `HandledInside`, `Stopped` | `AgentLLM.chat`: every answer counted; virtual tools (`load_skill`, `find_tools`, `delegate`, MCP), calls outside a sub-agent's list, rounds and budget |
| `Delegates`, `Returns` | `_delegate` and the ends of an agent |
| `McpRuns`, `McpRefused`, `McpAsked`, `McpAllow` | `_call_mcp` and the approver |
| `Proposes`, `Executes`, `AnswersUser`, `AnswersText`, `AnswersBlank`, `Outage` | the loop bodies of the two agents |
| `ChangesAtOnce` | the analyst's own writes (`chat_agent.py` 331-340) and what a write tool creates before it raises ApprovalRequired (`engine.py` 818) |
| `RunTurn`, `OperatorDelegates`, `Commands` | `AgentRunner.run`, `/delegate`, `/mode`, `/delegation`, `/tokens`, `/approvals`, `/new`, `/mcp allow` |
| `ReviewSkips` ... `ReviewExecutes` | `cli/inline_approvals.py` |

Not every write of a session is a proposal. The analyst closes alerts and
writes lookup tables and providers in the middle of its loop, and
`design_threat_intel_dashboard` creates an index pattern while it still only
proposes. `unasked` collects what was changed without the operator's word;
`NothingRunsUnasked` says that it is nothing but these two; `proposing_writes`
sets the second against the documented "nothing is written". `proposal_unshown`
is the exact limit of `ShownUnlessOutage`: after an outage the turn's proposals
are not listed (section 11 has both).

`engineer` (623 000 states) chooses among four settings: inside the
middleware with MCP, `find_tools` and a sub-agent; one-shot without an operator, where
the analyst writes at once; two turns
with proposals and their reviews, one of them by a tool that creates something first; three turns of history. Two turns, two rounds
and two calls per answer reach each bound exactly and overrun it; two
proposals with quorums of one and two are reviewed in every order with the
decisions of others. A window of four messages cuts histories that the setting
with three turns produces.

Fairness: the terminal's thread takes its next step (`LoopNext`) and the
operator answers what he is asked (`ReviewNext`); prompts are free.

Proofs (`EngineerSessionProofs`), for every setting, registry, set of sub-agents
and window, and histories of any length. `SessionInv` has one part per
property and two that they rest on. `IdsInv` and `StackInv` say that the ids in
hand are stored proposals and that at most one agent waits, for a sub-agent it
called by a delegation. `AskedInv` says that a proposal which waits for its approval or
its execution in a review has the operator's word. `NothingRunsUnasked` needs it
and one fact more (`WordInv`): where no operator is, no MCP tool was ever allowed
(`AllowedByWord`). `ConfinedInv`
looks at the batches as well as the counters, since a call is checked when it
is answered and runs later. `ShownInv` follows each stored proposal from the
agent that made it to the agent that waits, to the turn's list. `PairedInv`
also describes the moment at which the messages are not paired: a paired
history, and one message with the calls about to run. The assumptions are `LoopAssumption` (budgets are numbers, the main
agent is no sub-agent) and `WindowAssumption`.

Only model-checked: `TurnEnds` (liveness).

## 8. The manager's rule files

`ManagerFiles` has the two files of the manager in the forms that matter to the
merging code (one group whose closing tag is on a line of its own or not,
several groups, decoders with and without a wrapper, missing), with entries
whose ampersands are an entity or raw: text written from parsed XML has them
raw, after which the file is no XML. `Propose` runs a tool without an approval,
`Execute` runs it again on the file as it is then, and `Accepted`, `AnswerLost`,
`RejectedInBody`, `RequestFails` and `Unauthorized` are the outcomes of
`WazuhManagerAPI.request`.

`manager_files` (391 000 states): two jobs, three changes among
eleven of every kind, over four managers. `ReportedIsStored` is about the
answers, `AloneOthersKept` about the merge: an upload into the very file it was
merged from keeps all other entries. Uploads that overlap are last-writer-wins
in the code; the property says that nothing else loses an entry, provided the
file was one an XML parser accepts. `rules_lost` shows what happens otherwise.

Proofs (`ManagerFilesProofs`), for any number of jobs and all changes and files
of the types: `FilesKeepTheirTypes`; `ReportsAreTrue` from `JobsInv`: until it
has uploaded, a job has stored nothing and reports nothing, and what it is about
to upload is a sound change of the file it fetched. Its last part carries
`UndisturbedUploadsKeepOthers`, with lemmas on what each merging operator keeps.
The assumption is `ManagerAssumption`, the types of the changes and first files.

## 9. The dashboard builder

`DashboardPlans` is what a plan keeps of a model's panels and filters
(`planner.py`, `engine.py`) and when a saved visualization renders.
`SavedObjects` runs the tools over the objects of an OpenSearch Dashboards
server, one request per step; each may be answered, refused, or carried out
with its answer lost. A tool run with its approval does all its reading and
planning again.

`saved_objects` (6.8 million states): two calls of any of six tools, one failing
request and one object an operator removes by hand, on one of two servers. One
has a pattern, a visualization that renders and a dashboard; on the other the
visualization refers to a pattern that is gone, and the field list of the one
pattern lags the index. Two calls are enough to propose the same title, to
share a visualization and to delete it under each other.

`BuiltDashboardsRender` says that a dashboard which a tool created or gave its
panels is well formed and shows visualizations that are there, and that those
among them which a tool made render. It leaves out what is out of the tools'
hands (removal by hand), the aggregations that `create_wazuh_visualization`
saves unchecked, and what a visualization from before looks like:
`_require_visualizations` only asks whether it is there, so the whole dashboard
need not render, against `dashboards.py` 5-7 (`broken_panels`, section 11).
`OrphansAreExplained` ties what is left behind to what was reported;
`TwinsOverlapped` gives the exact conditions of a duplicate title.

### Proofs (`SavedObjectsProofs`)

For any number of calls, tools, objects, failing requests and removals. The
assumptions are that a tool is one of the six (`ToolAssumption`), that a
call is none of the objects a server starts with (`JobAssumption`), and of these
that there are finitely many, of the three kinds, none made by a tool
(`FirstObjectsAssumption`). Nothing is assumed of their references or of their
looks.

Two lemmas carry the rest. `MoveIsPlaced` says which fields of a call are in use
at which step (`Placed`) and which of them a step leaves alone (`Moves`);
`StepEvolves` says that an object changes only where it is a dashboard somebody
touched, and goes only so or by hand (`Evolves`). The inductive invariant
`ObjectsInv` then has one part for each question, call by call:

* `SeenInv`: what a call has seen before its proposal bears other titles until
  touched; with `DashInv`, the dashboard a call reports is as it made it until
  touched, it gives `TwinsOverlap`.
* `OwnInv`: every visualization of a call that has not reported a failure is one
  of those it works on; with `DashInv` it gives `OrphansHaveReasons`.
* `ReadyInv`: while nothing is removed by hand, what a call is about to refer to
  exists. With it `SoundInv` is kept, which says the same of the stored objects
  that the tools wrote, and `DashboardsRender` follows. That a visualization a planned panel makes has
  no defect in its aggregations is the lemma `PanelAggsRender`.

Not proved: `BuiltAsApproved` and `CreatedDashboardsRender`, which do not hold
(`dashboard_replan`, `broken_panels`).

## 10. The live-validation harness

`LiveScenarios` holds the twelve scenarios as scripts of effects with their
early returns, `LiveValidation` the run of `cli.main`: preflight, listener,
scenarios, cleanup, verdict, over a manager that loads its rules when it
restarts, a dashboards server, an indexer that is late, and the approval store
in which an operator rejects proposals at the same time.

`live_validation` (2.1 million states): the scenarios in the harness's own order, four
command lines, two faults anywhere, one rejection. That the routes refuse the
malformed calls of the misuse scenario is their normal answer and no fault. `PassIsEarned` relates the verdict
to the evidence and to the manager; `CalmRunLeavesNothing` relates what the
cleanup does to what every scenario may have created.

### Proofs (`LiveValidationProofs`)

For every list of the harness's scenarios, also one that names a scenario twice
(`NamesAssumption`), all combinations of the command line's flags
(`ArgsAssumption`), any number of events, faults and rejections.

The scripts are data, so what the proofs need of them is proved of each once
(`ScriptsAreSound`): only the rule, a restart and the dashboard are ever
executed; a rule that is executed is followed by the proposal, approval and
execution of a restart; the deletion whose confirmation is probed was proposed
and approved in the two steps before; and with `--auto-approve` the detection
scenario ends by looking whether the rule is loaded. Each of these is a
property of the rest of a script too (`TailIsSound`), so it survives every step.

* `PassIsEarnedHolds`: `RunInv` is inductive. `EvidenceInv` says that each
  scenario begun has evidence, except for the one under way. `DeployInv` relates
  the evidence to the manager: until the cleanup nothing takes the rule out of
  the file or unloads it (the probe cannot, since the current proposal is one
  that needs a confirmation), and the detection scenario passes only by
  a last step that sees the rule loaded.
* `CalmRunLeavesNothingHolds`: `CalmInv`. The cleanup takes a rule that is not
  loaded for one that is gone, so the run must not get there with a rule in the
  file and not loaded. It does not, because the restart is then the next thing
  the script does (`RestartDue`, `DueRestart`), and without faults and rejections
  it takes place. From then on the phases take away the dashboard, the rule, what is
  loaded, and the listener, in this order.

Not proved: `GateWithoutAutoApprove`, which does not hold (`gate_flag`).

## 11. Findings and further instances

* `sod_tool_route`: separation of duties can be lost through the tool route.
* `rules_lost`: merging a rule into a `local_rules.xml` that the XML parser
  refuses drops every rule it held.

Both are runs of `PROJECT.json` and quoted there with their lines. Each of the
configurations below checks one more statement of the repository on the same
modules, and TLC finds it violated by what the code does.

| Configuration | Module | Property | What the repository says | What the code does |
|---|---|---|---|---|
| `harness_replay` | `MCApprovalCenter` | `SingleUse` | `approval_executor.py:2-7`: the one code path that executes, so that an approval cannot be replayed | the harness has its own copy, which neither claims nor finishes (`env.py:87-104`) |
| `context_failure` | `MCApprovalCenter` | `ExecutingIsOwned` | `approval_executor.py:13-16`: a claim is followed by the tool and `finish_execution` | `ctx_factory` is called after the claim and outside the `try` (line 89) |
| `recycled_pid` | `MCWatcher` | `RecycledPidsAreSpared` | `dashboard.py:949-951`: "a recycled pid is never signalled by accident" | discovery never finds a named watcher the dashboard spawned, so the heartbeat pid is signalled, whoever has it (`dashboard.py:960`) |
| `default_stop` | `MCWatcher` | `DiscoveryIsOwn` | `agent_control.py:313`: a `run.py` without agent id "IS the default watcher" | the dashboard starts the watchers of all agents that way (`dashboard.py:915`) |
| `double_start` | `MCWatcher` | `AtMostOneWatcher` | `dashboard.py:1029`: "Refuses to double-start a watcher that is alive." | two requests that both looked first both spawn (`dashboard.py:1041`) |
| `torn_connections` | `MCAlertRules` | `ConnectionsOutliveCrashes` | `siem_providers.py:2`: the persistent store of connections | a lone crash in the write in place empties it (line 111) |
| `rule_edited` | `MCAlertRules` | `CountsOwnMatches` | `rules.py:17-20`: N alerts that match must land in the window | an updated rule fires on the counts of its former definition (line 209) |
| `auto_close` | `MCTriageLog` | `WebNeverCorroborates` | `triage_agent.py:143`: web search "can NEVER corroborate a close"; also 344-346 | its answer has no metadata, is read as unlabelled and so as human-authored (`triage_agent.py:434-440`, `web_search.py:225-235`) |
| `proposing_writes` | `MCEngineerSession` | `ProposingWritesNothing` | `scripts_engineer_cli.py:9`: "nothing is written" by a proposal | an index pattern is created before ApprovalRequired is raised (`engine.py:818`, `threatintel.py:707`) |
| `proposal_unshown` | `MCEngineerSession` | `EachProposalIsShown` | `inline_approvals.py:5-6`: each new proposal is shown after its turn | after an outage the result has none of them (`soc_engineer.py:356-361`) |
| `dashboard_replan` | `MCSavedObjects` | `BuiltAsApproved` | `docs/permissions.md:43`: "no LLM involved in the execution step" | the model plans again at execution (`engine.py:434-440`) |
| `broken_panels` | `MCSavedObjects` | `CreatedDashboardsRender` | `dashboards.py:5-7`: Create and Update write renderable objects | panels are only checked for being there (`dashboards.py:43-61`) |
| `gate_flag` | `MCLiveValidation` | `GateWithoutAutoApprove` | `cli.py:44-46`: without `--auto-approve` "workflows stop at the approval gate" | the dashboard scenario approves and executes all the same |

## 12. What is not modelled

* SIEM connectors, investigation, search and OSINT tools: queries without state.
* Knowledge base: a vector store behind a library; ingestion is idempotent.
* Audit log and guard: append-only rows and pure text filters.
* Notifications, digests, metrics: reports computed from the logs.
* Chat prompts, skills, prompt enhancement, terminal presentation, pages.
* Parameter validation and capping of results in the registry; the JSON-RPC
  transport to MCP servers; wire formats of the LLM providers.
* The heartbeat's temporary file, and an approval store that cannot be read.

Out of the prover's reach and left to TLC: liveness. The SMT translation of
the prover gives every value a length and takes its domain to be that of a
sequence; the proofs do not lean on it: they also pass with that axiom limited
to sequences.
