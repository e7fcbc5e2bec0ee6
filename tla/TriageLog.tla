------------------------------ MODULE TriageLog ------------------------------
(* The triage log and everybody who appends to it, rotates it or reads it: the *)
(* batch of main.py, the cycles of the watcher run.py and the dashboard's      *)
(* on-demand route take alerts through rules, notification and TriageLoop;     *)
(* log_rotation.py archives the file; feedback_cli.py walks an analyst through *)
(* the entries that need review and distills lessons from the disagreements.   *)
EXTENDS TriageLoop, Sequences

CONSTANTS
  Kinds,       \* who triages: "main", "run" or "dashboard"
  MinRecords,  \* disagreements distill() asks for
  MaxLessons,  \* bound on the lessons stored
  Crashes      \* whether the reviewer's process may end at any time

(* Settings also holds what the environment does: polled, the alerts the SIEM  *)
(* returns; seconds and reviews, the bounds on the clock that names archives   *)
(* and on the review sessions.                                                 *)
ASSUME PolledAssumption ==
  \A s \in Settings : s.polled \in Seq({s.polled[i] : i \in DOMAIN s.polled})

VARIABLES
  poll,      \* the process that triages: who it is, its alerts and position
  log,       \* data/triage_log.jsonl, a sequence of entries
  archives,  \* the archives by time stamp
  rot,       \* the rotation in progress
  second,    \* the clock, in the resolution of the archives' names
  rev,       \* the review session
  marker,    \* data/reviewed_case_ids.json
  feedback,  \* data/feedback_log.jsonl: case and agreement of each record
  closed,    \* cases in the "cases" collection
  lessons,   \* number of documents in the "lessons" collection
  written,   \* history: entries ever appended
  straddled  \* history: a rotation and an append, or two rotations, have met

fileVars == <<log, archives, rot, second, written, straddled>>
reviewVars == <<rev, marker, feedback, closed, lessons>>
logVars == <<env, loop, llm, poll, fileVars, reviewVars>>

LogInit ==
  /\ TriageInit
  /\ \E k \in Kinds : poll = [kind |-> k, rest |-> env.polled, pos |-> "next",
                              escalates |-> FALSE, raised |-> 0]
  /\ log = <<>> /\ archives = <<>> /\ second = 0
  /\ rot = [pos |-> "idle", copy |-> {}] /\ written = {} /\ straddled = FALSE
  /\ rev = [pos |-> "idle", pending |-> <<>>, done |-> {}, sessions |-> 0]
  /\ marker = {} /\ feedback = {} /\ closed = {} /\ lessons = 0

-----------------------------------------------------------------------------
(* The next alert: rules.evaluate_all, whose failure leaves no matches, and    *)
(* the notifications of triggered rules, whose failure is swallowed.           *)
TakeAlert ==
  /\ poll.pos = "next" /\ poll.rest # <<>>
  /\ \E e \in BOOLEAN : poll' = [poll EXCEPT !.pos = "triage", !.escalates = e]
  /\ Triage
  /\ UNCHANGED <<fileVars, reviewVars>>

(* No alert is left, or the watcher sees its stop file before the next one. *)
Finished ==
  /\ poll.pos = "next" /\ (poll.rest = <<>> \/ poll.kind = "run")
  /\ poll' = [poll EXCEPT !.pos = "done"]
  /\ UNCHANGED <<triageVars, fileVars, reviewVars>>

Triaging ==
  /\ poll.pos = "triage" /\ TriageStep
  /\ UNCHANGED <<poll, fileVars, reviewVars>>

(* What each of the three writes: run.py leaves out the alert and the          *)
(* verdict_error.                                                              *)
EntryOfUnknown(kind, verdict, r, human) ==   \* mutant: "unknown" as a verdict
  [num |-> Cardinality(written) + 1, case |-> Head(poll.rest), verdict |-> "valid",
   human |-> human, hasAlert |-> kind # "run",
   failed |-> r.error # ""]

EntryOf(kind, verdict, r, human) ==
  [num |-> Cardinality(written) + 1, case |-> Head(poll.rest), verdict |-> verdict,
   human |-> human, hasAlert |-> kind # "run",
   failed |-> r.error # ""]

Append1(e) ==
  /\ log' = Append(log, e) /\ written' = written \cup {e}
  /\ straddled' = (straddled \/ rot.pos = "copied")
  /\ poll' = [poll EXCEPT !.rest = Tail(@), !.pos = "next", !.escalates = FALSE,
                          !.raised = @ + (IF loop.pos = "raised" THEN 1 ELSE 0)]
  /\ loop' = IdleLoop
  /\ UNCHANGED <<env, llm, archives, rot, second, reviewVars>>

LogVerdict ==
  /\ poll.pos = "triage" /\ loop.pos = "done"
  /\ Append1(EntryOf(poll.kind, "valid", loop.result,
                     NeedsHuman(loop.result, loop.kb, loop.found, poll.escalates)))

(* triage() raised: the dashboard logs a failed entry and goes on, ...  *)
LogFailure ==
  /\ poll.pos = "triage" /\ loop.pos = "raised" /\ poll.kind = "dashboard"
  /\ Append1(EntryOf("dashboard", "none", loop.result, TRUE))

(* ... the watcher goes on without an entry, main.py ends with a traceback. *)
SkipFailure ==
  /\ poll.pos = "triage" /\ loop.pos = "raised" /\ poll.kind # "dashboard"
  /\ poll' = [poll EXCEPT !.rest = Tail(@), !.escalates = FALSE,
                          !.pos = IF poll.kind = "run" THEN "next" ELSE "dead"]
  /\ loop' = IdleLoop
  /\ UNCHANGED <<env, llm, fileVars, reviewVars>>

-----------------------------------------------------------------------------
(* rotate_log: the lines are copied into an archive named after the second,    *)
(* then the file is truncated.  gzip.open replaces an archive of that name.    *)
Entries(s) == {s[i] : i \in 1..Len(s)}

(* Mutant: the archive is opened for appending lines it never gets. *)
CopyToArchiveLast ==
  /\ rot.pos = "idle" /\ log # <<>> /\ env.seconds > 0
  /\ rot' = [pos |-> "copied", copy |-> Entries(log)]
  /\ archives' = [s \in (DOMAIN archives) \cup {second} |->
                    IF s = second THEN {log[Len(log)]} ELSE archives[s]]
  /\ straddled' = (straddled \/ second \in DOMAIN archives)
  /\ UNCHANGED <<triageVars, poll, log, second, written, reviewVars>>

CopyToArchive ==
  /\ rot.pos = "idle" /\ log # <<>> /\ env.seconds > 0
  /\ rot' = [pos |-> "copied", copy |-> Entries(log)]
  /\ archives' = [s \in (DOMAIN archives) \cup {second} |->
                    IF s = second THEN Entries(log) ELSE archives[s]]
  /\ straddled' = (straddled \/ second \in DOMAIN archives)
  /\ UNCHANGED <<triageVars, poll, log, second, written, reviewVars>>

Truncate ==
  /\ rot.pos = "copied" /\ rot' = [pos |-> "idle", copy |-> {}] /\ log' = <<>>
  /\ UNCHANGED <<triageVars, poll, archives, second, written, straddled, reviewVars>>

NextSecond ==
  /\ second < env.seconds /\ second' = second + 1
  /\ UNCHANGED <<triageVars, poll, log, archives, rot, written, straddled, reviewVars>>

-----------------------------------------------------------------------------
(* feedback_cli.review: a session reads the marker and the flagged entries. *)
Review ==
  /\ rev.pos \in {"idle", "crashed"} /\ rev.sessions < env.reviews /\ log # <<>>
  /\ rev' = [pos |-> "walk", pending |-> SelectSeq(log, LAMBDA e : e.human), done |-> marker,
             sessions |-> rev.sessions + 1]
  /\ UNCHANGED <<marker, feedback, closed, lessons>>

Walking == rev.pos = "walk" /\ rev.pending # <<>>

Case == Head(rev.pending)

(* Reviewed before, or skipped by the analyst. *)
Skip ==
  /\ Walking /\ Case.hasAlert /\ (Case.case \in rev.done \/ Case.verdict # "none")
  /\ rev' = [rev EXCEPT !.pending = Tail(@)]
  /\ UNCHANGED <<marker, feedback, closed, lessons>>

(* rec["alert"] of a watcher's entry and the ":.2f" of a failed one raise. *)
Unreviewable(e) == ~e.hasAlert \/ (e.case \notin rev.done /\ e.verdict = "none")

ReviewDies ==
  /\ Walking /\ Unreviewable(Case) /\ rev' = [rev EXCEPT !.pos = "crashed", !.pending = <<>>]
  /\ UNCHANGED <<marker, feedback, closed, lessons>>

(* The analyst's answer goes to the feedback log, the case to the knowledge    *)
(* base, its id to the marker.                                                 *)
Capture(agreed) ==
  /\ Walking /\ Case.case \notin rev.done /\ ~Unreviewable(Case)
  /\ feedback' = feedback \cup {[session |-> rev.sessions, case |-> Case.case, agreed |-> agreed]}
  /\ rev' = [rev EXCEPT !.pos = "store"]
  /\ UNCHANGED <<marker, closed, lessons>>

StoreCase ==
  /\ rev.pos = "store" /\ closed' = closed \cup {Case.case} /\ rev' = [rev EXCEPT !.pos = "mark"]
  /\ UNCHANGED <<marker, feedback, lessons>>

(* Mutant: the session's own set is not extended. *)
MarkAlone ==
  /\ rev.pos = "mark" /\ marker' = rev.done \cup {Case.case}
  /\ rev' = [rev EXCEPT !.pos = "walk", !.pending = Tail(@)]
  /\ UNCHANGED <<feedback, closed, lessons>>

Mark ==
  /\ rev.pos = "mark" /\ marker' = rev.done \cup {Case.case}
  /\ rev' = [rev EXCEPT !.pos = "walk", !.pending = Tail(@), !.done = @ \cup {Case.case}]
  /\ UNCHANGED <<feedback, closed, lessons>>

ReviewComplete ==
  /\ rev.pos = "walk" /\ rev.pending = <<>> /\ rev' = [rev EXCEPT !.pos = "idle"]
  /\ UNCHANGED <<marker, feedback, closed, lessons>>

ReviewerGone ==
  /\ Crashes /\ rev.pos \in {"walk", "store", "mark"}
  /\ rev' = [rev EXCEPT !.pos = "crashed", !.pending = <<>>]
  /\ UNCHANGED <<marker, feedback, closed, lessons>>

(* feedback_cli.distill: from all disagreements ever recorded the model        *)
(* proposes a lesson, which the analyst approves; it is added under a new id.  *)
Distill ==
  /\ Cardinality({f \in feedback : ~f.agreed}) >= MinRecords /\ lessons < MaxLessons
  /\ lessons' = lessons + 1
  /\ UNCHANGED <<rev, marker, feedback, closed>>

Reviewing ==
  /\ \/ Review \/ Skip \/ ReviewDies \/ (\E a \in BOOLEAN : Capture(a))
     \/ StoreCase \/ Mark \/ ReviewComplete \/ ReviewerGone \/ Distill
  /\ UNCHANGED <<triageVars, poll, fileVars>>

(* get_triage_stats over a set of entries: what classify_verdict takes for a   *)
(* failure has no part in the verdicts.                                        *)
Stats(entries) ==
  LET n(S) == Cardinality(S) IN
  [total |-> n(entries), verdicted |-> n({e \in entries : e.verdict # "none"}),
   failed |-> n({e \in entries : e.verdict = "none"})]

Polling == TakeAlert \/ Finished \/ LogVerdict \/ LogFailure \/ SkipFailure

LogNext ==
  \/ Polling \/ Triaging \/ Reviewing
  \/ CopyToArchive \/ Truncate \/ NextSecond

LogSpec == LogInit /\ [][LogNext]_logVars

(* The process that triages keeps running, the gateway's requests end (they    *)
(* have a timeout), and a model's answer has finitely many tool calls.         *)
Within(A) == poll.pos = "triage" /\ A /\ UNCHANGED <<poll, fileVars, reviewVars>>

LogFairSpec ==
  LogSpec /\ WF_logVars(Polling) /\ WF_logVars(Within(Chat)) /\ WF_logVars(Within(Concludes))

-----------------------------------------------------------------------------
LogTypeOK ==
  /\ loop.pos \in {"idle", "ask", "calls", "exhausted", "done", "raised"}
  /\ loop.turn \in 0..env.turns /\ loop.found \subseteq {"lesson", "page", "search", "other"}
  /\ llm.call.left429 \in 0..env.retries429 /\ llm.call.left5xx \in 0..env.retries5xx
  /\ llm.bad \subseteq Family /\ llm.routed \in Family \cup {NoFamily}
  /\ poll.pos \in {"next", "triage", "done", "dead"} /\ poll.raised \in 0..Len(env.polled)
  /\ Entries(log) \subseteq written /\ (poll.pos # "triage" => loop = IdleLoop)
  /\ marker \subseteq Entries(env.polled) /\ lessons \in 0..MaxLessons

(* Every alert that is begun ends with a verdict or an error, whatever the     *)
(* order of tool calls, refusals, malformed verdicts and gateway failures:     *)
(* the tool budget and the retry budgets end the loop.                         *)
TriageEnds == (loop.pos = "ask") ~> (loop.pos \in {"done", "raised"})

(* The on-demand route leaves an entry for every alert it took, and the        *)
(* figures tell the failures from the verdicts: "a run where every alert       *)
(* raised looked identical to a clean run" no more (dashboard.py:91-103).      *)
DashboardCountsFailures ==
  poll.kind = "dashboard" =>
    LET taken == Len(env.polled) - Len(poll.rest)
    IN Stats(written) = [total |-> taken, verdicted |-> taken - poll.raised,
                         failed |-> poll.raised]

(* Rotation deletes nothing (log_rotation.py:13-17), as long as no line is     *)
(* appended between the copy and the truncation and no two rotations fall in   *)
(* the same second.                                                            *)
Archived == UNION {archives[s] : s \in DOMAIN archives}
AloneRotationKeepsAll == ~straddled => written \subseteq Entries(log) \cup Archived

(* A case is marked as reviewed only with its feedback logged and its case     *)
(* stored, wherever the review was interrupted, and stays marked: the review   *)
(* of one case never takes another off the list (feedback_cli.py:114-116).     *)
ReviewsStand ==
  [][marker \subseteq marker' /\ marker' \subseteq {f.case : f \in feedback} \cap closed]_logVars

=============================================================================
