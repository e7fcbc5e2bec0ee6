--------------------------- MODULE ApprovalCenter ---------------------------
(***************************************************************************)
(* The Approval Center: the proposal store of approvals.py, the executor   *)
(* of approval_executor.py and the faces that call them (the dashboard     *)
(* routes, the terminal agent, the live-validation harness).               *)
(*                                                                         *)
(* A function of approvals.py that runs under the file lock is one atomic  *)
(* action.  A request to execute is a process of four steps, because       *)
(* execute_proposal reads the proposal without the lock, claims it under   *)
(* the lock, runs the tool with no lock held and records the outcome under *)
(* the lock again: everything else may happen in between.                  *)
(*                                                                         *)
(* A refusal (ValueError, KeyError, ApprovalPolicyError, HTTP 4xx) that    *)
(* changes no state is not a step.  Audit rows are left out.               *)
(***************************************************************************)
EXTENDS Permissions, Sequences, FiniteSets

CONSTANTS
    Proposal,       \* proposal ids (uuid4, never reused)
    Request,        \* execute_proposal calls that may be in flight together
    Harness,        \* live-validation runs sharing the store; {} when there is none
    VerifiedName,   \* users with a DASHBOARD_USERS token and the approver role
    DeclaredName,   \* names the CLI (--user) or the shared token may act under
    ToolRouteName,  \* "by" values posted to /api/engineer/tool; {} leaves it out
    ProposedClass,  \* classes of action names that get proposed
    Expiry,         \* APPROVAL_EXPIRY_SECONDS, in ticks
    Window,         \* APPROVAL_EXECUTION_WINDOW_SECONDS, in ticks; 0 = no limit
    BlockSelf,      \* APPROVAL_BLOCK_SELF_APPROVAL
    MaxQuorum,      \* bound on APPROVAL_*_MIN_APPROVERS
    MaxTime,        \* bound on the clock
    MaxReplays,     \* bound on what the harness applies of one proposal
    Crashes,        \* may the process of a request die between two steps?
    CtxCanFail      \* may ctx_factory raise (the manager API is not configured)?

ASSUME TimeAssumption ==
    /\ Expiry \in Nat
    /\ Window \in Nat
    /\ MaxTime \in Nat
    /\ MaxReplays \in Nat
    /\ MaxQuorum \in Nat \ {0}

ASSUME ClassAssumption == ProposedClass \subseteq ActionClass

ASSUME FlagAssumption ==
    /\ BlockSelf \in BOOLEAN
    /\ Crashes \in BOOLEAN
    /\ CtxCanFail \in BOOLEAN

VARIABLES
    store,   \* approvals.json: the record of each proposal
    clock,   \* time.time(), in ticks
    quorum,  \* cfg.APPROVAL_PROPOSE_MIN_APPROVERS and ..._EXECUTE_...
    exec,    \* the execute requests in flight
    live,    \* the live-validation runs in flight
    origin,  \* history: the identity whose request created the proposal
    writes,  \* history: how often the proposal's change was applied
    reported \* history: what the executor's run of its tool came back with

vars == <<store, clock, quorum, exec, live, origin, writes, reported>>

\* The name the dashboard falls back to when a request names nobody.
DashboardUser == "dashboard-user"

Name == VerifiedName \cup DeclaredName \cup ToolRouteName \cup {DashboardUser}

\* Who a request acts as: _identity() on the dashboard, --user on the CLI.
Caller == [by : VerifiedName, verified : {TRUE}]
              \cup [by : DeclaredName, verified : {FALSE}]

Status == {"absent", "pending", "approved", "rejected", "expired",
           "cancelled", "executing", "executed", "failed"}

Terminal == {"rejected", "expired", "cancelled", "executed", "failed"}

Nobody == "nobody"

NoProposal == [status |-> "absent", user |-> Nobody, class |-> "empty",
               level |-> "execute", votes |-> <<>>, created |-> 0,
               approvedAt |-> 0]

IdleRequest == [pc |-> "idle", prop |-> Nobody, confirm |-> FALSE, ok |-> FALSE]

IdleRun == [pc |-> "idle", prop |-> Nobody]

Voters(r) == {r.votes[i].by : i \in DOMAIN r.votes}

(***************************************************************************)
(* Types                                                                   *)
(***************************************************************************)
ProposalRecord ==
    [status : Status, user : Name \cup {Nobody}, class : ActionClass,
     level : {"propose", "execute"}, votes : Seq(Caller), created : Nat,
     approvedAt : Nat]

RequestState ==
    [pc : {"idle", "loaded", "claimed", "ran"}, prop : Proposal \cup {Nobody},
     confirm : BOOLEAN, ok : BOOLEAN]

Report == {"none", "ok", "error"}

RunState == [pc : {"idle", "loaded"}, prop : Proposal \cup {Nobody}]

\* Type invariant; an active request or run always names a proposal.
TypeOK ==
    /\ store \in [Proposal -> ProposalRecord]
    /\ clock \in Nat
    /\ quorum \in [{"propose", "execute"} -> Nat \ {0}]
    /\ exec \in [Request -> RequestState]
    /\ live \in [Harness -> RunState]
    /\ origin \in [Proposal -> Name \cup {Nobody}]
    /\ writes \in [Proposal -> Nat]
    /\ reported \in [Proposal -> Report]
    /\ \A e \in Request : exec[e].pc # "idle" => exec[e].prop \in Proposal
    /\ \A h \in Harness : live[h].pc # "idle" => live[h].prop \in Proposal

Init ==
    /\ store = [p \in Proposal |-> NoProposal]
    /\ clock = 0
    /\ quorum = [l \in {"propose", "execute"} |-> 1]
    /\ exec = [e \in Request |-> IdleRequest]
    /\ live = [h \in Harness |-> IdleRun]
    /\ origin = [p \in Proposal |-> Nobody]
    /\ writes = [p \in Proposal |-> 0]
    /\ reported = [p \in Proposal |-> "none"]

-----------------------------------------------------------------------------
(***************************************************************************)
(* The store: approvals.py                                                 *)
(***************************************************************************)

\* create_proposal, on behalf of a tool that raised ApprovalRequired:
\* user is what the record says, c who really asked.
Create(p, c, user, class, claimed) ==
    /\ store[p].status = "absent"
    /\ store' = [store EXCEPT ![p] =
                    [status |-> "pending", user |-> user, class |-> class,
                     level |-> EffectiveLevel(class, claimed),
                     votes |-> <<>>, created |-> clock, approvedAt |-> 0]]
    /\ origin' = [origin EXCEPT ![p] = c.by]
    /\ UNCHANGED <<clock, quorum, exec, live, writes, reported>>

\* Variant: the engine is constructed with a fixed name.
ProposeInChatUnnamed(p, c, class, claimed) ==
    Create(p, c, DashboardUser, class, claimed)

\* /api/engineer/chat and the terminal agent propose under the caller's name.
ProposeInChat(p, c, class, claimed) == Create(p, c, c.by, class, claimed)

\* /api/engineer/tool takes the proposer's name from the request body.
ProposeByTool(p, c, by, class, claimed) == Create(p, c, by, class, claimed)

\* Variant: off by one at the deadline.
StaleOffByOne(r) == clock - r.created > Expiry + 1

Stale(r) == clock - r.created > Expiry

\* list_proposals expires every stale pending proposal on read.
List ==
    /\ \E p \in Proposal : store[p].status = "pending" /\ Stale(store[p])
    /\ store' = [p \in Proposal |->
                    IF store[p].status = "pending" /\ Stale(store[p])
                    THEN [store[p] EXCEPT !.status = "expired"]
                    ELSE store[p]]
    /\ UNCHANGED <<clock, quorum, exec, live, origin, writes, reported>>

\* approve() on a pending proposal that turns out to be too old.
ApproveTooLate(p) ==
    /\ store[p].status = "pending"
    /\ Stale(store[p])
    /\ store' = [store EXCEPT ![p].status = "expired"]
    /\ UNCHANGED <<clock, quorum, exec, live, origin, writes, reported>>

SelfVote(r, c) == c.verified /\ BlockSelf /\ r.user = c.by

\* Variant: an unverified vote and a verified one do not clash.
HasVotedSameFace(r, c) == \E i \in DOMAIN r.votes : r.votes[i] = c

HasVoted(r, c) == c.by \in Voters(r)

\* Variant: the quorum of the PROPOSE band is used for every proposal.
RequiredNowProposeOnly(r) == quorum["propose"]

RequiredNow(r) == quorum[r.level]

\* approve(): one vote, and the flip to approved when the quorum is reached.
Approve(p, c) ==
    LET r == store[p]
        votes == Append(r.votes, c)
    IN  /\ r.status = "pending"
        /\ ~Stale(r)
        /\ ~SelfVote(r, c)
        /\ ~HasVoted(r, c)
        /\ store' = [store EXCEPT ![p] =
                        IF Len(votes) >= RequiredNow(r)
                        THEN [r EXCEPT !.votes = votes,
                                       !.status = "approved",
                                       !.approvedAt = clock]
                        ELSE [r EXCEPT !.votes = votes]]
        /\ UNCHANGED <<clock, quorum, exec, live, origin, writes, reported>>

Reject(p) ==
    /\ store[p].status = "pending"
    /\ store' = [store EXCEPT ![p].status = "rejected"]
    /\ UNCHANGED <<clock, quorum, exec, live, origin, writes, reported>>

\* Variants: a proposal in flight, or one that failed, may be withdrawn too.
CancellableInFlight == {"pending", "approved", "executing"}
CancellableFailed == {"pending", "approved", "failed"}

Cancellable == {"pending", "approved"}

Cancel(p) ==
    /\ store[p].status \in Cancellable
    /\ store' = [store EXCEPT ![p].status = "cancelled"]
    /\ UNCHANGED <<clock, quorum, exec, live, origin, writes, reported>>

-----------------------------------------------------------------------------
(***************************************************************************)
(* One execute request: approval_executor.execute_proposal                 *)
(***************************************************************************)

\* Steps 1-3: get_proposal, read without the lock, and the checks on it.
Load(e, p, confirm) ==
    /\ exec[e].pc = "idle"
    /\ store[p].status = "approved"
    /\ NeedsConfirmation(store[p].class, store[p].level) => confirm
    /\ exec' = [exec EXCEPT ![e] = [pc |-> "loaded", prop |-> p,
                                    confirm |-> confirm, ok |-> FALSE]]
    /\ UNCHANGED <<store, clock, quorum, live, origin, writes, reported>>

WindowOver(r) == Window > 0 /\ clock - r.approvedAt > Window

\* Variant: a second claim of a proposal in flight succeeds.
ClaimableAgain(r) == r.status \in {"approved", "executing"}

Claimable(r) == r.status = "approved"

\* Step 4: claim_for_execution, approved -> executing under the lock.
Claim(e) ==
    LET p == exec[e].prop
    IN  /\ exec[e].pc = "loaded"
        /\ Claimable(store[p])
        /\ ~WindowOver(store[p])
        /\ store' = [store EXCEPT ![p].status = "executing"]
        /\ exec' = [exec EXCEPT ![e].pc = "claimed"]
        /\ UNCHANGED <<clock, quorum, live, origin, writes, reported>>

\* The claim comes too late: the proposal expires, the request is refused.
ClaimTooLate(e) ==
    LET p == exec[e].prop
    IN  /\ exec[e].pc = "loaded"
        /\ Claimable(store[p])
        /\ WindowOver(store[p])
        /\ store' = [store EXCEPT ![p].status = "expired"]
        /\ exec' = [exec EXCEPT ![e] = IdleRequest]
        /\ UNCHANGED <<clock, quorum, live, origin, writes, reported>>

\* The proposal was claimed, settled or withdrawn since it was loaded: 409.
ClaimRefused(e) ==
    /\ exec[e].pc = "loaded"
    /\ ~Claimable(store[exec[e].prop])
    /\ exec' = [exec EXCEPT ![e] = IdleRequest]
    /\ UNCHANGED <<store, clock, quorum, live, origin, writes, reported>>

\* ctx_factory(by) raises after the claim, outside the try block.
BuildContextFails(e) ==
    /\ CtxCanFail
    /\ exec[e].pc = "claimed"
    /\ exec' = [exec EXCEPT ![e] = IdleRequest]
    /\ UNCHANGED <<store, clock, quorum, live, origin, writes, reported>>

\* Step 5: the tool runs with the stored payload.  Whatever does not raise and
\* does not answer "error" is a success, also a run that had nothing to write
\* (a merge that changes nothing, a READ action); an error may come before the
\* change or after it (a timeout on the PUT).
RunTool(e) ==
    LET p == exec[e].prop
    IN  /\ exec[e].pc = "claimed"
        /\ \E ok \in BOOLEAN, applied \in BOOLEAN :
              /\ exec' = [exec EXCEPT ![e].pc = "ran", ![e].ok = ok]
              /\ writes' = [writes EXCEPT ![p] = @ + IF applied THEN 1 ELSE 0]
              /\ reported' = [reported EXCEPT ![p] = IF ok THEN "ok" ELSE "error"]
        /\ UNCHANGED <<store, clock, quorum, live, origin>>

\* Variants: every outcome is recorded as a success; the registry's word for
\* a failure is stored; only a success is recorded.
OutcomeAlwaysExecuted(ok) == "executed"
OutcomeError(ok) == IF ok THEN "executed" ELSE "error"

Outcome(ok) == IF ok THEN "executed" ELSE "failed"

SettledOnSuccess(r, ok) ==
    IF r.status = "executing" /\ ok THEN [r EXCEPT !.status = "executed"] ELSE r

\* finish_execution refuses a record that is not executing with a ValueError,
\* which the executor swallows.
Settled(r, ok) ==
    IF r.status = "executing" THEN [r EXCEPT !.status = Outcome(ok)] ELSE r

\* Step 6: finish_execution, executing -> executed | failed under the lock.
Finish(e) ==
    LET p == exec[e].prop
    IN  /\ exec[e].pc = "ran"
        /\ store' = [store EXCEPT ![p] = Settled(@, exec[e].ok)]
        /\ exec' = [exec EXCEPT ![e] = IdleRequest]
        /\ UNCHANGED <<clock, quorum, live, origin, writes, reported>>

\* The process that serves the request dies; the store is a file and stays.
Crash(e) ==
    /\ Crashes
    /\ exec[e].pc # "idle"
    /\ exec' = [exec EXCEPT ![e] = IdleRequest]
    /\ UNCHANGED <<store, clock, quorum, live, origin, writes, reported>>

-----------------------------------------------------------------------------
(***************************************************************************)
(* The live-validation harness: LiveEnv.execute_approved                   *)
(***************************************************************************)

\* Variant: the status of the loaded record is not checked.
HarnessMayRunUnchecked(r, confirm) == r.status # "absent" /\ confirm

HarnessMayRun(r, confirm) ==
    r.status = "approved" /\ (r.level = "execute" => confirm)

HarnessLoad(h, p, confirm) ==
    /\ live[h].pc = "idle"
    /\ HarnessMayRun(store[p], confirm)
    /\ live' = [live EXCEPT ![h] = [pc |-> "loaded", prop |-> p]]
    /\ UNCHANGED <<store, clock, quorum, exec, origin, writes, reported>>

\* The tool runs with the record that was loaded; nothing marks it as used.
HarnessRun(h) ==
    LET p == live[h].prop
    IN  /\ live[h].pc = "loaded"
        /\ writes[p] < MaxReplays
        /\ \E applied \in BOOLEAN :
              writes' = [writes EXCEPT ![p] = @ + IF applied THEN 1 ELSE 0]
        /\ live' = [live EXCEPT ![h] = IdleRun]
        /\ UNCHANGED <<store, clock, quorum, exec, origin, reported>>

-----------------------------------------------------------------------------
\* An operator edits APPROVAL_*_MIN_APPROVERS and restarts the dashboard.
Reconfigure(l, n) ==
    /\ n # quorum[l]
    /\ quorum' = [quorum EXCEPT ![l] = n]
    /\ UNCHANGED <<store, clock, exec, live, origin, writes, reported>>

Tick ==
    /\ clock < MaxTime
    /\ clock' = clock + 1
    /\ UNCHANGED <<store, quorum, exec, live, origin, writes, reported>>

StoreStep ==
    \/ \E p \in Proposal, c \in Caller, a \in ProposedClass,
          l \in {"propose", "execute"} :
          \/ ProposeInChat(p, c, a, l)
          \/ \E by \in ToolRouteName : ProposeByTool(p, c, by, a, l)
    \/ \E p \in Proposal, c \in Caller : Approve(p, c)
    \/ \E p \in Proposal : ApproveTooLate(p) \/ Reject(p) \/ Cancel(p)
    \/ List

RequestStep(e) ==
    \/ \E p \in Proposal, confirm \in BOOLEAN : Load(e, p, confirm)
    \/ Claim(e) \/ ClaimTooLate(e) \/ ClaimRefused(e)
    \/ BuildContextFails(e) \/ RunTool(e) \/ Finish(e) \/ Crash(e)

HarnessStep(h) ==
    \/ \E p \in Proposal, confirm \in BOOLEAN : HarnessLoad(h, p, confirm)
    \/ HarnessRun(h)

Next ==
    \/ StoreStep
    \/ \E e \in Request : RequestStep(e)
    \/ \E h \in Harness : HarnessStep(h)
    \/ \E l \in {"propose", "execute"}, n \in 1..MaxQuorum : Reconfigure(l, n)
    \/ Tick

Spec == Init /\ [][Next]_vars

(***************************************************************************)
(* Fairness: the thread of a request keeps running, and the tool returns   *)
(* because every call it makes has a timeout.  Nothing obliges a human to  *)
(* vote, list or execute.                                                  *)
(***************************************************************************)
RequestProgress(e) ==
    Claim(e) \/ ClaimTooLate(e) \/ ClaimRefused(e) \/ RunTool(e) \/ Finish(e)

FairSpec == Spec /\ \A e \in Request : WF_vars(RequestProgress(e))

-----------------------------------------------------------------------------
(***************************************************************************)
(* Properties                                                              *)
(***************************************************************************)

\* claim_for_execution() is the single-use gate: whatever requests race,
\* crash or time out, an approval is applied at most once.
SingleUse == \A p \in Proposal : writes[p] <= 1

\* Separation of duties: with verified identities nobody's vote counts for a
\* proposal that their own request created.
SeparationOfDuties ==
    BlockSelf => \A p \in Proposal : \A i \in DOMAIN store[p].votes :
                     store[p].votes[i].verified => store[p].votes[i].by # origin[p]

\* The inductive form of it: a proposal nobody made has no votes, no name votes
\* twice, and a verified vote is never the recorded proposer's.
VoteInv ==
    \A p \in Proposal :
        /\ store[p].status = "absent" => store[p].votes = <<>>
        /\ \A i, j \in DOMAIN store[p].votes :
              store[p].votes[i].by = store[p].votes[j].by => i = j
        /\ BlockSelf => \A i \in DOMAIN store[p].votes :
              store[p].votes[i].verified => store[p].votes[i].by # store[p].user

\* Without the tool route the recorded proposer is the one who asked.
ProposerIsRecorded == \A p \in Proposal : store[p].user = origin[p]

\* The record is honest: "executed" and "failed" are what the tool reported in
\* the one request that claimed the proposal, whichever requests raced or died,
\* and what is neither in flight nor settled was not applied.
RecordIsHonest ==
    \A p \in Proposal :
        /\ store[p].status = "executed" => reported[p] = "ok"
        /\ store[p].status = "failed" => reported[p] = "error"
        /\ writes[p] > 0 => store[p].status \in {"executing", "executed", "failed"}

\* Nothing is applied that was not approved by somebody, whichever face ran it
\* and whatever happened to the proposal between the load and the run.
AppliedWasApproved ==
    \A p \in Proposal :
        writes[p] > 0 => /\ Voters(store[p]) # {}
                         /\ store[p].status \notin {"absent", "pending", "rejected"}

\* The inductive form of the two: a request between claim and finish owns its
\* proposal alone, and has applied nothing until its tool has run.
Owns(e) == exec[e].pc \in {"claimed", "ran"}

ClaimInv ==
    /\ \A e \in Request : Owns(e) => store[exec[e].prop].status = "executing"
    /\ \A e, f \in Request : Owns(e) /\ Owns(f) /\ exec[e].prop = exec[f].prop => e = f
    /\ \A e \in Request : exec[e].pc = "claimed" => writes[exec[e].prop] = 0
    /\ \A e \in Request : exec[e].pc = "ran" =>
          reported[exec[e].prop] = IF exec[e].ok THEN "ok" ELSE "error"
    /\ SingleUse
    /\ RecordIsHonest

\* A high-risk action runs only in a request that carried the confirmation.
RunsConfirmed ==
    \A e \in Request :
        Owns(e) =>
            \/ exec[e].confirm
            \/ /\ ~IsHighRisk(store[exec[e].prop].class)
               /\ store[exec[e].prop].level # "execute"

\* A proposal in flight belongs to a request that will settle it, and to one only.
ExecutingIsOwned ==
    \A p \in Proposal :
        store[p].status = "executing" =>
            \E e \in Request : Owns(e) /\ exec[e].prop = p

\* Quorum: the flip to approved takes as many distinct approvers as the
\* configuration in force at that moment asks of the proposal's band.
GrantNeedsQuorum ==
    [][\A p \in Proposal :
          (store[p].status # "approved" /\ store'[p].status = "approved")
              => Cardinality(Voters(store'[p])) >= quorum[store[p].level]]_vars

\* Deadlines: no vote is counted after the expiry, no claim after the window.
GrantInTime ==
    [][\A p \in Proposal :
          /\ store'[p].votes # store[p].votes => clock - store[p].created <= Expiry
          /\ (store[p].status # "executing" /\ store'[p].status = "executing")
                => (Window = 0 \/ clock - store[p].approvedAt <= Window)]_vars

\* History is not rewritten: a settled or withdrawn proposal never changes
\* again, and a grant keeps the content and the votes it was granted with.
HistoryIsFrozen ==
    [][\A p \in Proposal :
          /\ store[p].status \in Terminal => store'[p] = store[p]
          /\ store[p].status \in {"approved", "executing"} =>
                store'[p] = [store[p] EXCEPT !.status = store'[p].status]]_vars

\* Progress: a proposal that was claimed is eventually recorded as executed
\* or failed, if its request neither crashes nor fails to build its context.
ClaimSettles ==
    \A p \in Proposal :
        store[p].status = "executing" ~> store[p].status \in {"executed", "failed"}

=============================================================================
