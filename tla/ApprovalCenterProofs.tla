------------------------ MODULE ApprovalCenterProofs ------------------------
(***************************************************************************)
(* Theorems about the Approval Center, for any number of proposals,        *)
(* requests, names and votes, any clock and any policy.                    *)
(***************************************************************************)
EXTENDS ApprovalCenterRefinement, FiniteSetTheorems, TLAPS

-----------------------------------------------------------------------------
(***************************************************************************)
(* Permissions and helpers                                                 *)
(***************************************************************************)

\* Whatever level a caller claims, a stored proposal is PROPOSE or EXECUTE,
\* a claimed EXECUTE stays one, and a high-risk name is always EXECUTE.
LEMMA EffectiveLevelNeverDowngrades ==
    ASSUME NEW a \in ActionClass, NEW l \in {"propose", "execute"}
    PROVE  /\ EffectiveLevel(a, l) \in {"propose", "execute"}
           /\ l = "execute" => EffectiveLevel(a, l) = "execute"
           /\ IsHighRisk(a) => EffectiveLevel(a, l) = "execute"
  BY DEF EffectiveLevel, IsHighRisk, ActionClass

\* A proposal record with a vote more is a proposal record.
LEMMA VoteType ==
    ASSUME NEW r \in ProposalRecord, NEW c \in Caller
    PROVE  Append(r.votes, c) \in Seq(Caller)
  BY DEF ProposalRecord

\* Votes come from callers, who have a name and a flag.
LEMMA CallerFields ==
    ASSUME NEW c \in Caller
    PROVE  c.by \in Name /\ c.verified \in BOOLEAN
  BY DEF Caller, Name

-----------------------------------------------------------------------------
(***************************************************************************)
(* Type correctness                                                        *)
(***************************************************************************)
LEMMA CreateType ==
    ASSUME TypeOK, NEW p \in Proposal, NEW c \in Caller, NEW u \in Name,
           NEW a \in ActionClass, NEW l \in {"propose", "execute"},
           Create(p, c, u, a, l)
    PROVE  TypeOK'
<1>1. EffectiveLevel(a, l) \in {"propose", "execute"}
  BY EffectiveLevelNeverDowngrades
<1>2. c.by \in Name
  BY CallerFields
<1>3. [status |-> "pending", user |-> u, class |-> a,
       level |-> EffectiveLevel(a, l), votes |-> <<>>, created |-> clock,
       approvedAt |-> 0] \in ProposalRecord
  <2>1. <<>> \in Seq(Caller)
    OBVIOUS
  <2> QED
    BY <1>1, <2>1 DEF ProposalRecord, Status, TypeOK
<1>4. store' \in [Proposal -> ProposalRecord]
  BY <1>3 DEF Create, TypeOK
<1>5. origin' \in [Proposal -> Name \cup {Nobody}]
  BY <1>2 DEF Create, TypeOK
<1> QED
  BY <1>4, <1>5 DEF Create, TypeOK

\* Setting the status of a record keeps it a record.
LEMMA StatusType ==
    ASSUME NEW r \in ProposalRecord, NEW s \in Status
    PROVE  [r EXCEPT !.status = s] \in ProposalRecord
  BY DEF ProposalRecord

LEMMA StoreStepType == TypeOK /\ StoreStep => TypeOK'
<1> SUFFICES ASSUME TypeOK, StoreStep PROVE TypeOK'
  OBVIOUS
<1>1. CASE \E p \in Proposal, c \in Caller, a \in ProposedClass,
              l \in {"propose", "execute"} :
              \/ ProposeInChat(p, c, a, l)
              \/ \E by \in ToolRouteName : ProposeByTool(p, c, by, a, l)
  <2>1. PICK p \in Proposal, c \in Caller, a \in ProposedClass,
             l \in {"propose", "execute"} :
             \E u \in Name : Create(p, c, u, a, l)
    BY <1>1, CallerFields DEF ProposeInChat, ProposeByTool, Name
  <2>2. a \in ActionClass
    BY ClassAssumption
  <2> QED
    BY <2>1, <2>2, CreateType
<1>2. ASSUME NEW p \in Proposal, NEW c \in Caller, Approve(p, c) PROVE TypeOK'
  <2>1. Append(store[p].votes, c) \in Seq(Caller)
    BY VoteType DEF TypeOK
  <2>2. store[p] \in ProposalRecord
    BY DEF TypeOK
  <2>3. /\ [store[p] EXCEPT !.votes = Append(store[p].votes, c),
                            !.status = "approved",
                            !.approvedAt = clock] \in ProposalRecord
        /\ [store[p] EXCEPT !.votes = Append(store[p].votes, c)] \in ProposalRecord
    BY <2>1, <2>2 DEF ProposalRecord, Status, TypeOK
  <2>4. store' \in [Proposal -> ProposalRecord]
    BY <1>2, <2>3 DEF Approve, TypeOK
  <2> QED
    BY <1>2, <2>4 DEF Approve, TypeOK
<1>3. ASSUME NEW p \in Proposal, ApproveTooLate(p) \/ Reject(p) \/ Cancel(p)
      PROVE  TypeOK'
  <2>1. PICK s \in Status : store' = [store EXCEPT ![p].status = s]
    BY <1>3 DEF ApproveTooLate, Reject, Cancel, Status
  <2>2. [store[p] EXCEPT !.status = s] \in ProposalRecord
    BY StatusType DEF TypeOK
  <2>3. store' \in [Proposal -> ProposalRecord]
    BY <2>1, <2>2 DEF TypeOK
  <2> QED
    BY <1>3, <2>3 DEF ApproveTooLate, Reject, Cancel, TypeOK
<1>4. CASE List
  <2>1. store' \in [Proposal -> ProposalRecord]
    BY <1>4, StatusType DEF List, TypeOK, Status
  <2> QED
    BY <1>4, <2>1 DEF List, TypeOK
<1> QED
  BY <1>1, <1>2, <1>3, <1>4 DEF StoreStep

LEMMA RequestStepType ==
    ASSUME TypeOK, NEW e \in Request, RequestStep(e)
    PROVE  TypeOK'
<1>1. ASSUME NEW p \in Proposal, NEW confirm \in BOOLEAN, Load(e, p, confirm)
      PROVE  TypeOK'
  BY <1>1 DEF Load, TypeOK, RequestState
<1>2. CASE Claim(e)
  <2>1. exec[e].prop \in Proposal
    BY <1>2 DEF Claim, TypeOK
  <2>2. store' \in [Proposal -> ProposalRecord]
    BY <1>2, <2>1, StatusType DEF Claim, TypeOK, Status
  <2> QED
    BY <1>2, <2>2 DEF Claim, TypeOK, RequestState
<1>3. CASE ClaimTooLate(e)
  <2>1. exec[e].prop \in Proposal
    BY <1>3 DEF ClaimTooLate, TypeOK
  <2>2. store' \in [Proposal -> ProposalRecord]
    BY <1>3, <2>1, StatusType DEF ClaimTooLate, TypeOK, Status
  <2> QED
    BY <1>3, <2>2 DEF ClaimTooLate, TypeOK, RequestState, IdleRequest
<1>4. ASSUME ClaimRefused(e) \/ BuildContextFails(e) \/ Crash(e)
      PROVE  TypeOK'
  <2>1. /\ exec' = [exec EXCEPT ![e] = IdleRequest]
        /\ UNCHANGED <<store, clock, quorum, live, origin, writes, reported>>
    BY <1>4 DEF ClaimRefused, BuildContextFails, Crash
  <2> QED
    BY <2>1 DEF TypeOK, RequestState, IdleRequest
<1>5. CASE RunTool(e)
  <2>1. exec[e].prop \in Proposal
    BY <1>5 DEF RunTool, TypeOK
  <2>2. writes' \in [Proposal -> Nat] /\ reported' \in [Proposal -> Report]
    BY <1>5, <2>1 DEF RunTool, TypeOK, Report
  <2>3. PICK ok \in BOOLEAN :
             exec' = [exec EXCEPT ![e].pc = "ran", ![e].ok = ok]
    BY <1>5 DEF RunTool
  <2>4. [exec[e] EXCEPT !.pc = "ran", !.ok = ok] \in RequestState
    BY DEF TypeOK, RequestState
  <2>5. exec' = [exec EXCEPT ![e] = [exec[e] EXCEPT !.pc = "ran", !.ok = ok]]
    BY <2>3 DEF TypeOK
  <2>6. exec' \in [Request -> RequestState]
    BY <2>4, <2>5 DEF TypeOK
  <2>7. \A f \in Request : exec'[f].pc # "idle" => exec'[f].prop \in Proposal
    BY <2>1, <2>5 DEF TypeOK, RequestState
  <2> QED
    BY <1>5, <2>2, <2>6, <2>7 DEF RunTool, TypeOK
<1>6. CASE Finish(e)
  <2>1. exec[e].prop \in Proposal
    BY <1>6 DEF Finish, TypeOK
  <2>2. Settled(store[exec[e].prop], exec[e].ok) \in ProposalRecord
    BY <2>1, StatusType DEF Settled, Outcome, Status, TypeOK
  <2>3. store' \in [Proposal -> ProposalRecord]
    BY <1>6, <2>2 DEF Finish, TypeOK
  <2> QED
    BY <1>6, <2>3 DEF Finish, TypeOK, RequestState, IdleRequest
<1> QED
  BY <1>1, <1>2, <1>3, <1>4, <1>5, <1>6 DEF RequestStep

LEMMA HarnessStepType ==
    ASSUME TypeOK, NEW h \in Harness, HarnessStep(h)
    PROVE  TypeOK'
<1>1. ASSUME NEW p \in Proposal, NEW confirm \in BOOLEAN, HarnessLoad(h, p, confirm)
      PROVE  TypeOK'
  BY <1>1 DEF HarnessLoad, TypeOK, RunState
<1>2. CASE HarnessRun(h)
  BY <1>2 DEF HarnessRun, TypeOK, RunState, IdleRun
<1> QED
  BY <1>1, <1>2 DEF HarnessStep

\* Every state the Approval Center reaches, with or without the harness and
\* the tool route, has well-typed records, requests and counters.
THEOREM TypeCorrect == Spec => []TypeOK
<1>1. Init => TypeOK
  BY DEF Init, TypeOK, NoProposal, ProposalRecord, Status, ActionClass,
         IdleRequest, RequestState, IdleRun, RunState, Report
<1>2. TypeOK /\ [Next]_vars => TypeOK'
  <2> SUFFICES ASSUME TypeOK, [Next]_vars PROVE TypeOK'
    OBVIOUS
  <2>1. ASSUME NEW l \in {"propose", "execute"}, NEW n \in 1..MaxQuorum,
               Reconfigure(l, n)
        PROVE  TypeOK'
    BY <2>1, TimeAssumption DEF Reconfigure, TypeOK
  <2>2. CASE Tick
    BY <2>2 DEF Tick, TypeOK
  <2>3. CASE UNCHANGED vars
    BY <2>3 DEF vars, TypeOK
  <2> QED
    BY <2>1, <2>2, <2>3, StoreStepType, RequestStepType, HarnessStepType DEF Next
<1> QED
  BY <1>1, <1>2, PTL DEF Spec

-----------------------------------------------------------------------------
(***************************************************************************)
(* Single use.  ClaimInv is inductive without the harness: a claim finds   *)
(* the proposal approved, so nobody owns it and nothing was applied; the   *)
(* owner is the only one to run its tool, and leaves the "claimed" place   *)
(* when it does; the proposal never returns to approved.                   *)
(***************************************************************************)

\* A step that only takes proposals nobody executes to another status that is
\* not executing, executed or failed, and gives nobody a claim, keeps ClaimInv.
LEMMA IdleChange ==
    ASSUME TypeOK, ClaimInv, UNCHANGED <<writes, reported>>,
           \A e \in Request : exec'[e] = exec[e],
           \A p \in Proposal :
              \/ store'[p].status = store[p].status
              \/ /\ store[p].status \in {"absent", "pending", "approved"}
                 /\ store'[p].status \notin {"executing", "executed", "failed"}
    PROVE  ClaimInv'
<1>1. \A e \in Request : Owns(e)' <=> Owns(e)
  BY DEF Owns
<1>2. \A e \in Request : Owns(e) => exec[e].prop \in Proposal
  BY DEF Owns, TypeOK
<1>3. \A e \in Request : Owns(e) => store'[exec[e].prop].status = "executing"
  BY <1>2 DEF ClaimInv
<1>4. SingleUse' /\ RecordIsHonest'
  BY DEF ClaimInv, SingleUse, RecordIsHonest, TypeOK
<1> QED
  BY <1>1, <1>2, <1>3, <1>4 DEF ClaimInv, Owns

LEMMA StoreStepClaim == TypeOK /\ ClaimInv /\ StoreStep => ClaimInv'
<1> SUFFICES ASSUME TypeOK, ClaimInv, StoreStep PROVE ClaimInv'
  OBVIOUS
<1>1. UNCHANGED <<writes, reported>> /\ \A e \in Request : exec'[e] = exec[e]
  BY DEF StoreStep, ProposeInChat, ProposeByTool, Create, Approve,
         ApproveTooLate, Reject, Cancel, List
<1>2. ASSUME NEW p \in Proposal
      PROVE  \/ store'[p].status = store[p].status
             \/ /\ store[p].status \in {"absent", "pending", "approved"}
                /\ store'[p].status \notin {"executing", "executed", "failed"}
  <2>1. CASE \E q \in Proposal, c \in Caller, a \in ProposedClass,
                l \in {"propose", "execute"} :
                \/ ProposeInChat(q, c, a, l)
                \/ \E by \in ToolRouteName : ProposeByTool(q, c, by, a, l)
    <3>1. PICK q \in Proposal, c \in Caller, a \in ProposedClass,
               l \in {"propose", "execute"} :
               \E u \in Name : Create(q, c, u, a, l)
      BY <2>1, CallerFields DEF ProposeInChat, ProposeByTool, Name
    <3>2. /\ store[q].status = "absent"
          /\ \A x \in Proposal : store'[x].status =
                IF x = q THEN "pending" ELSE store[x].status
      BY <3>1 DEF Create, TypeOK
    <3> QED
      BY <3>2
  <2>2. ASSUME NEW q \in Proposal, NEW c \in Caller, Approve(q, c)
        PROVE  \/ store'[p].status = store[p].status
               \/ store[p].status = "pending" /\ store'[p].status = "approved"
    BY <2>2 DEF Approve, TypeOK, ProposalRecord
  <2>3. ASSUME NEW q \in Proposal, ApproveTooLate(q) \/ Reject(q) \/ Cancel(q)
        PROVE  \/ store'[p].status = store[p].status
               \/ /\ store[p].status \in {"pending", "approved"}
                  /\ store'[p].status \in {"expired", "rejected", "cancelled"}
    BY <2>3 DEF ApproveTooLate, Reject, Cancel, Cancellable, TypeOK, ProposalRecord
  <2>4. CASE List
    BY <2>4 DEF List, TypeOK, ProposalRecord
  <2> QED
    BY <2>1, <2>2, <2>3, <2>4 DEF StoreStep
<1> QED
  BY <1>1, <1>2, IdleChange

\* Dropping a request, crashed or refused, keeps ClaimInv; its proposal stays.
LEMMA DropClaim ==
    ASSUME TypeOK, ClaimInv, NEW e \in Request,
           exec' = [exec EXCEPT ![e] = IdleRequest], UNCHANGED <<store, writes, reported>>
    PROVE  ClaimInv'
<1>1. \A f \in Request : Owns(f)' => Owns(f) /\ f # e
  BY DEF Owns, IdleRequest, TypeOK
<1>2. \A f \in Request : f # e => exec'[f] = exec[f]
  BY DEF TypeOK
<1> QED
  BY <1>1, <1>2 DEF ClaimInv, Owns, SingleUse, RecordIsHonest

LEMMA RequestStepClaim ==
    ASSUME TypeOK, ClaimInv, NEW e \in Request, RequestStep(e)
    PROVE  ClaimInv'
<1>1. \A f \in Request : f # e => exec'[f] = exec[f]
  BY DEF RequestStep, Load, Claim, ClaimTooLate, ClaimRefused,
         BuildContextFails, RunTool, Finish, Crash, TypeOK
<1> DEFINE p == exec[e].prop
<1>2. ASSUME NEW q \in Proposal, NEW confirm \in BOOLEAN, Load(e, q, confirm)
      PROVE  ClaimInv'
  <2>1. \A f \in Request : Owns(f)' => Owns(f) /\ f # e
    BY <1>2 DEF Load, Owns, TypeOK
  <2> QED
    BY <1>1, <1>2, <2>1 DEF Load, ClaimInv, Owns, SingleUse, RecordIsHonest
<1>3. CASE Claim(e)
  <2>1. /\ p \in Proposal
        /\ store[p].status = "approved"
        /\ exec'[e].pc = "claimed" /\ exec'[e].prop = p
        /\ store'[p].status = "executing"
        /\ UNCHANGED <<writes, reported>>
    BY <1>3 DEF Claim, Claimable, TypeOK, RequestState, ProposalRecord
  <2>2. \A q \in Proposal : q # p => store'[q] = store[q]
    BY <1>3 DEF Claim, TypeOK
  <2>3. writes[p] = 0
    BY <2>1 DEF ClaimInv, RecordIsHonest, TypeOK
  <2>4. \A f \in Request : Owns(f) => exec[f].prop # p /\ f # e
    BY <1>3, <2>1 DEF ClaimInv, Owns, Claim
  <2>5. \A f \in Request : f # e => (Owns(f)' <=> Owns(f))
    BY <1>1 DEF Owns
  <2>6. \A f \in Request : Owns(f) => exec[f].prop \in Proposal
    BY DEF Owns, TypeOK
  <2>7. SingleUse' /\ RecordIsHonest'
    BY <2>1, <2>2, <2>3 DEF ClaimInv, SingleUse, RecordIsHonest
  <2>8. \A f \in Request : Owns(f)' => store'[exec'[f].prop].status = "executing"
    BY <1>1, <2>1, <2>2, <2>4, <2>5, <2>6 DEF ClaimInv
  <2>9. \A f, g \in Request :
           Owns(f)' /\ Owns(g)' /\ exec'[f].prop = exec'[g].prop => f = g
    BY <1>1, <2>1, <2>4, <2>5 DEF ClaimInv
  <2> QED
    BY <1>1, <2>1, <2>3, <2>7, <2>8, <2>9 DEF ClaimInv
<1>4. CASE ClaimTooLate(e)
  <2>1. /\ p \in Proposal
        /\ store[p].status = "approved"
        /\ exec' = [exec EXCEPT ![e] = IdleRequest]
        /\ store'[p].status = "expired"
        /\ UNCHANGED <<writes, reported>>
    BY <1>4 DEF ClaimTooLate, Claimable, TypeOK, RequestState, ProposalRecord
  <2>2. \A q \in Proposal : q # p => store'[q] = store[q]
    BY <1>4 DEF ClaimTooLate, TypeOK
  <2>3. \A f \in Request : Owns(f)' => Owns(f) /\ f # e
    BY <2>1 DEF Owns, IdleRequest, TypeOK
  <2>4. \A f \in Request : Owns(f) => exec[f].prop # p /\ exec[f].prop \in Proposal
    BY <2>1 DEF ClaimInv, Owns, TypeOK
  <2>5. SingleUse' /\ RecordIsHonest'
    BY <2>1, <2>2 DEF ClaimInv, SingleUse, RecordIsHonest, TypeOK
  <2> QED
    BY <1>1, <2>1, <2>2, <2>3, <2>4, <2>5 DEF ClaimInv, Owns
<1>5. ASSUME ClaimRefused(e) \/ BuildContextFails(e) \/ Crash(e)
      PROVE  ClaimInv'
  <2>1. exec' = [exec EXCEPT ![e] = IdleRequest] /\ UNCHANGED <<store, writes, reported>>
    BY <1>5 DEF ClaimRefused, BuildContextFails, Crash
  <2> QED
    BY <2>1, DropClaim
<1>6. CASE RunTool(e)
  <2>1. /\ p \in Proposal
        /\ exec[e].pc = "claimed"
        /\ exec'[e].pc = "ran" /\ exec'[e].prop = p
        /\ UNCHANGED store
    BY <1>6 DEF RunTool, TypeOK, RequestState
  <2>2. /\ writes'[p] \in 0..1
        /\ reported'[p] = IF exec'[e].ok THEN "ok" ELSE "error"
    BY <1>6, <2>1 DEF RunTool, ClaimInv, TypeOK, RequestState
  <2>3. \A q \in Proposal : q # p => writes'[q] = writes[q] /\ reported'[q] = reported[q]
    BY <1>6 DEF RunTool, TypeOK
  <2>4. store[p].status = "executing"
    BY <2>1 DEF ClaimInv, Owns
  <2>5. \A f \in Request : f # e /\ Owns(f) => exec[f].prop # p
    BY <2>1 DEF ClaimInv, Owns
  <2>6. \A f \in Request : Owns(f)' <=> Owns(f)
    BY <1>1, <2>1 DEF Owns
  <2>7. \A f \in Request : Owns(f) => exec[f].prop \in Proposal
    BY DEF Owns, TypeOK
  <2>8. SingleUse' /\ RecordIsHonest'
    BY <2>1, <2>2, <2>3, <2>4 DEF ClaimInv, SingleUse, RecordIsHonest
  <2> QED
    BY <1>1, <2>1, <2>2, <2>3, <2>5, <2>6, <2>7, <2>8 DEF ClaimInv, Owns
<1>7. CASE Finish(e)
  <2>1. /\ p \in Proposal
        /\ exec[e].pc = "ran"
        /\ exec' = [exec EXCEPT ![e] = IdleRequest]
        /\ UNCHANGED <<writes, reported>>
    BY <1>7 DEF Finish, TypeOK
  <2>2. store'[p].status = Outcome(exec[e].ok)
    <3>1. store[p].status = "executing"
      BY <2>1 DEF ClaimInv, Owns
    <3> QED
      BY <1>7, <2>1, <3>1 DEF Finish, Settled, TypeOK, ProposalRecord
  <2>3. \A q \in Proposal : q # p => store'[q] = store[q]
    BY <1>7 DEF Finish, TypeOK
  <2>4. \A f \in Request : Owns(f)' => Owns(f) /\ f # e
    BY <2>1 DEF Owns, IdleRequest, TypeOK
  <2>5. \A f \in Request : f # e /\ Owns(f) => exec[f].prop # p /\ exec[f].prop \in Proposal
    BY <2>1 DEF ClaimInv, Owns, TypeOK
  <2>6. SingleUse' /\ RecordIsHonest'
    BY <2>1, <2>2, <2>3 DEF ClaimInv, SingleUse, RecordIsHonest, Outcome
  <2> QED
    BY <1>1, <2>1, <2>2, <2>3, <2>4, <2>5, <2>6 DEF ClaimInv, Owns
<1> QED
  BY <1>2, <1>3, <1>4, <1>5, <1>6, <1>7 DEF RequestStep

\* Without the harness the inductive invariant holds in every reachable state.
THEOREM ClaimsAreExclusive ==
    ASSUME Harness = {}
    PROVE  Spec => []ClaimInv
<1>1. Init => ClaimInv
  BY DEF Init, ClaimInv, Owns, SingleUse, RecordIsHonest, NoProposal, IdleRequest
<1>2. TypeOK /\ ClaimInv /\ [Next]_vars => ClaimInv'
  <2> SUFFICES ASSUME TypeOK, ClaimInv, [Next]_vars PROVE ClaimInv'
    OBVIOUS
  <2>1. ASSUME NEW l \in {"propose", "execute"}, NEW n \in 1..MaxQuorum,
               Reconfigure(l, n)
        PROVE  ClaimInv'
    BY <2>1 DEF Reconfigure, ClaimInv, Owns, SingleUse, RecordIsHonest
  <2>2. CASE Tick
    BY <2>2 DEF Tick, ClaimInv, Owns, SingleUse, RecordIsHonest
  <2>3. CASE UNCHANGED vars
    BY <2>3 DEF vars, ClaimInv, Owns, SingleUse, RecordIsHonest
  <2> QED
    BY <2>1, <2>2, <2>3, StoreStepClaim, RequestStepClaim DEF Next
<1> QED
  BY <1>1, <1>2, TypeCorrect, PTL DEF Spec

\* Whatever requests race, crash or time out, an approval is applied at most
\* once (claim_for_execution is the single-use gate).
THEOREM ApprovalIsSingleUse ==
    ASSUME Harness = {}
    PROVE  Spec => []SingleUse
<1>1. ClaimInv => SingleUse
  BY DEF ClaimInv
<1> QED
  BY <1>1, ClaimsAreExclusive, PTL

\* What a settled proposal says is what its tool reported to the one request that
\* claimed it, and a proposal neither in flight nor settled was not applied
\* (claim_for_execution, finish_execution, cancel, reject).
THEOREM RecordTellsTheTruth ==
    ASSUME Harness = {}
    PROVE  Spec => []RecordIsHonest
<1>1. ClaimInv => RecordIsHonest
  BY DEF ClaimInv
<1> QED
  BY <1>1, ClaimsAreExclusive, PTL

-----------------------------------------------------------------------------
(***************************************************************************)
(* Refinement: without the harness, every step of the Approval Center is a *)
(* step of OneShotGrant or leaves the grants as they are.                  *)
(***************************************************************************)

\* A step that moves one proposal from one status to another moves its grant.
LEMMA StatusMoves ==
    ASSUME TypeOK, NEW p \in Proposal, NEW from \in Status, NEW to \in Status,
           store[p].status = from, store'[p].status = to,
           \A q \in Proposal : q # p => store'[q].status = store[q].status
    PROVE  /\ GrantPhase[p] = PhaseOf(from)
           /\ GrantPhase' = [GrantPhase EXCEPT ![p] = PhaseOf(to)]
<1>1. GrantPhase[p] = PhaseOf(from)
  BY DEF GrantPhase
<1>2. \A q \in Proposal :
          GrantPhase'[q] = IF q = p THEN PhaseOf(to) ELSE GrantPhase[q]
  BY DEF GrantPhase
<1>3. DOMAIN GrantPhase' = Proposal /\ DOMAIN GrantPhase = Proposal
  BY DEF GrantPhase
<1>4. GrantPhase' = [q \in Proposal |-> GrantPhase'[q]]
  BY DEF GrantPhase
<1> QED
  BY <1>1, <1>2, <1>3, <1>4

LEMMA StatusKeeps ==
    ASSUME \A q \in Proposal : store'[q].status = store[q].status
    PROVE  GrantPhase' = GrantPhase
  BY DEF GrantPhase

\* The single proposal that lapses, is rejected or is withdrawn becomes void.
LEMMA OneVoids ==
    ASSUME TypeOK, NEW p \in Proposal, NEW to \in {"rejected", "expired", "cancelled"},
           store[p].status \in {"pending", "approved"},
           store' = [store EXCEPT ![p].status = to], UNCHANGED writes
    PROVE  Promise!Void({p})
<1>1. store'[p].status = to
  BY DEF TypeOK, ProposalRecord
<1>2. \A q \in Proposal : q # p => store'[q].status = store[q].status
  BY DEF TypeOK
<1>3. GrantPhase[p] \in {"asked", "granted"}
  BY DEF GrantPhase, PhaseOf
<1>4. PhaseOf(to) = "void"
  BY DEF PhaseOf
<1>5. \A q \in Proposal : PhaseOf(store'[q].status) =
          IF q \in {p} THEN "void" ELSE PhaseOf(store[q].status)
  BY <1>1, <1>2, <1>4
<1>6. GrantPhase' = [q \in Proposal |-> IF q \in {p} THEN "void" ELSE GrantPhase[q]]
  BY <1>5 DEF GrantPhase
<1> QED
  BY <1>3, <1>6 DEF Promise!Void

LEMMA StoreStepGrants ==
    ASSUME TypeOK, StoreStep
    PROVE  [Promise!Next]_(Promise!vars)
<1>1. ASSUME NEW p \in Proposal, NEW c, NEW u, NEW a, NEW l, Create(p, c, u, a, l)
      PROVE  Promise!Next
  <2>1. /\ store[p].status = "absent" /\ store'[p].status = "pending"
        /\ \A q \in Proposal : q # p => store'[q].status = store[q].status
        /\ UNCHANGED writes
    BY <1>1 DEF Create, TypeOK
  <2>2. Promise!Ask(p)
    BY <2>1, StatusMoves DEF Promise!Ask, Promise!Move, PhaseOf, Status
  <2> QED
    BY <2>2 DEF Promise!Next
<1>2. ASSUME NEW p \in Proposal, NEW c \in Caller, Approve(p, c)
      PROVE  [Promise!Next]_(Promise!vars)
  <2>1. /\ store[p].status = "pending" /\ store'[p].status \in {"pending", "approved"}
        /\ \A q \in Proposal : q # p => store'[q].status = store[q].status
        /\ UNCHANGED writes
    BY <1>2 DEF Approve, TypeOK, ProposalRecord
  <2>2. CASE store'[p].status = "approved"
    <3>1. Promise!Allow(p)
      BY <2>1, <2>2, StatusMoves DEF Promise!Allow, Promise!Move, PhaseOf, Status
    <3> QED
      BY <3>1 DEF Promise!Next
  <2>3. CASE store'[p].status = "pending"
    BY <2>1, <2>3, StatusKeeps DEF Promise!vars
  <2> QED
    BY <2>1, <2>2, <2>3
<1>3. ASSUME NEW p \in Proposal, ApproveTooLate(p) \/ Reject(p) \/ Cancel(p)
      PROVE  Promise!Next
  <2>1. /\ \E s \in {"rejected", "expired", "cancelled"} :
               store' = [store EXCEPT ![p].status = s]
        /\ store[p].status \in {"pending", "approved"}
        /\ UNCHANGED writes
    BY <1>3 DEF ApproveTooLate, Reject, Cancel, Cancellable
  <2>2. Promise!Void({p})
    BY <2>1, OneVoids
  <2> QED
    BY <2>2 DEF Promise!Next
<1>4. ASSUME List
      PROVE  Promise!Next
  <2> DEFINE S == {p \in Proposal : store[p].status = "pending" /\ Stale(store[p])}
  <2>1. \A p \in S : GrantPhase[p] = "asked"
    BY DEF GrantPhase, PhaseOf
  <2>2. \A p \in Proposal : /\ p \in S => store'[p].status = "expired"
                            /\ p \notin S => store'[p] = store[p]
    BY <1>4 DEF List, TypeOK, ProposalRecord
  <2>3. S \in SUBSET Proposal /\ PhaseOf("expired") = "void"
    BY DEF PhaseOf
  <2>4. \A p \in Proposal : PhaseOf(store'[p].status) =
            IF p \in S THEN "void" ELSE PhaseOf(store[p].status)
    BY <2>2, <2>3
  <2>5. GrantPhase' = [p \in Proposal |-> IF p \in S THEN "void" ELSE GrantPhase[p]]
    BY <2>4 DEF GrantPhase
  <2>6. Promise!Void(S)
    BY <1>4, <2>1, <2>3, <2>5 DEF List, Promise!Void
  <2> QED
    BY <2>3, <2>6 DEF Promise!Next
<1> QED
  BY <1>1, <1>2, <1>3, <1>4 DEF StoreStep, ProposeInChat, ProposeByTool

LEMMA RequestStepGrants ==
    ASSUME TypeOK, ClaimInv, NEW e \in Request, RequestStep(e)
    PROVE  [Promise!Next]_(Promise!vars)
<1> DEFINE p == exec[e].prop
<1>1. CASE UNCHANGED <<store, writes>>
  BY <1>1, StatusKeeps DEF Promise!vars
<1>2. CASE Claim(e)
  <2>1. p \in Proposal /\ store[p].status = "approved"
    BY <1>2 DEF Claim, Claimable, TypeOK
  <2>2. /\ store'[p].status = "executing" /\ UNCHANGED writes
        /\ \A q \in Proposal : q # p => store'[q].status = store[q].status
    BY <1>2, <2>1 DEF Claim, TypeOK, ProposalRecord
  <2>3. Promise!Use(p)
    BY <2>1, <2>2, StatusMoves DEF Promise!Use, Promise!Move, PhaseOf, Status
  <2> QED
    BY <2>1, <2>3 DEF Promise!Next
<1>3. CASE ClaimTooLate(e)
  <2>1. p \in Proposal /\ store[p].status = "approved" /\ UNCHANGED writes
    BY <1>3 DEF ClaimTooLate, Claimable, TypeOK
  <2>2. store' = [store EXCEPT ![p].status = "expired"]
    BY <1>3 DEF ClaimTooLate
  <2>3. Promise!Void({p})
    BY <2>1, <2>2, OneVoids
  <2> QED
    BY <2>1, <2>3 DEF Promise!Next
<1>4. CASE RunTool(e)
  <2>1. /\ p \in Proposal /\ writes[p] = 0 /\ store[p].status = "executing"
        /\ UNCHANGED store
    BY <1>4 DEF RunTool, ClaimInv, Owns, TypeOK
  <2>2. UNCHANGED writes \/ writes' = [writes EXCEPT ![p] = 1]
    <3>1. PICK applied \in BOOLEAN :
              writes' = [writes EXCEPT ![p] = @ + IF applied THEN 1 ELSE 0]
      BY <1>4 DEF RunTool
    <3>2. CASE applied
      BY <2>1, <3>1, <3>2
    <3>3. CASE ~applied
      BY <2>1, <3>1, <3>3 DEF TypeOK
    <3> QED
      BY <3>2, <3>3
  <2>3. GrantPhase' = GrantPhase /\ GrantPhase[p] = "in_use"
    BY <2>1 DEF GrantPhase, PhaseOf
  <2>4. writes' = [writes EXCEPT ![p] = 1] => Promise!TakeEffect(p)
    BY <2>1, <2>3 DEF Promise!TakeEffect
  <2> QED
    BY <2>1, <2>2, <2>3, <2>4 DEF Promise!Next, Promise!vars
<1>5. CASE Finish(e)
  <2>1. p \in Proposal /\ store[p].status = "executing"
    BY <1>5 DEF Finish, ClaimInv, Owns, TypeOK
  <2>2. /\ store'[p].status \in {"executed", "failed"} /\ UNCHANGED writes
        /\ \A q \in Proposal : q # p => store'[q].status = store[q].status
    BY <1>5, <2>1 DEF Finish, Settled, Outcome, TypeOK, ProposalRecord
  <2>3. Promise!Settle(p)
    BY <2>1, <2>2, StatusMoves DEF Promise!Settle, Promise!Move, PhaseOf, Status
  <2> QED
    BY <2>1, <2>3 DEF Promise!Next
<1> QED
  BY <1>1, <1>2, <1>3, <1>4, <1>5
     DEF RequestStep, Load, ClaimRefused, BuildContextFails, Crash

\* The proposal store, the executor and their races behave like grants that
\* are asked for, allowed, voidable until used, and effective at most once.
THEOREM CenterImplementsGrants ==
    ASSUME Harness = {}
    PROVE  Spec => ImplementsOneShotGrant
<1>1. Init => Promise!Init
  BY DEF Init, Promise!Init, GrantPhase, PhaseOf, NoProposal
<1>2. TypeOK /\ ClaimInv /\ [Next]_vars => [Promise!Next]_(Promise!vars)
  <2> SUFFICES ASSUME TypeOK, ClaimInv, [Next]_vars
               PROVE  [Promise!Next]_(Promise!vars)
    OBVIOUS
  <2>1. CASE UNCHANGED <<store, writes>>
    BY <2>1, StatusKeeps DEF Promise!vars
  <2>2. (\E l \in {"propose", "execute"}, n \in 1..MaxQuorum : Reconfigure(l, n))
            \/ Tick \/ UNCHANGED vars => UNCHANGED <<store, writes>>
    BY DEF Reconfigure, Tick, vars
  <2> QED
    BY <2>1, <2>2, StoreStepGrants, RequestStepGrants DEF Next
<1> QED
  BY <1>1, <1>2, TypeCorrect, ClaimsAreExclusive, PTL
     DEF Spec, ImplementsOneShotGrant, Promise!Spec

-----------------------------------------------------------------------------
(***************************************************************************)
(* The content of a proposal: who proposed it, who voted for it, when, and *)
(* that it is not rewritten once it was granted or settled.  Only          *)
(* create_proposal and approve() touch the proposer and the votes of a     *)
(* record; every other step keeps them.                                    *)
(***************************************************************************)

\* A step keeps the proposers and the votes.
KeepsVotes ==
    /\ \A p \in Proposal : /\ store'[p].votes = store[p].votes
                           /\ store'[p].user = store[p].user
                           /\ store'[p].status = "absent" => store[p].status = "absent"
    /\ UNCHANGED origin

LEMMA KeepsVotesKeepsVoteInv ==
    ASSUME KeepsVotes
    PROVE  (VoteInv => VoteInv') /\ (ProposerIsRecorded => ProposerIsRecorded')
  BY DEF KeepsVotes, VoteInv, ProposerIsRecorded

\* A step of a request changes nothing of a record but its status.
LEMMA RequestStepStatus ==
    ASSUME TypeOK, NEW e \in Request, RequestStep(e), NEW q \in Proposal
    PROVE  /\ store'[q] = [store[q] EXCEPT !.status = store'[q].status]
           /\ store'[q].status # store[q].status =>
                 \/ /\ store[q].status = "approved"
                    /\ store'[q].status \in {"executing", "expired"}
                 \/ /\ store[q].status = "executing"
                    /\ store'[q].status \in {"executed", "failed"}
<1> DEFINE p == exec[e].prop
<1>1. CASE UNCHANGED store
  BY <1>1 DEF TypeOK, ProposalRecord
<1>2. CASE Claim(e) \/ ClaimTooLate(e)
  <2>1. PICK s \in {"executing", "expired"} :
             store' = [store EXCEPT ![p].status = s]
    BY <1>2 DEF Claim, ClaimTooLate
  <2>2. p \in Proposal /\ store[p].status = "approved"
    BY <1>2 DEF Claim, ClaimTooLate, Claimable, TypeOK
  <2> QED
    BY <2>1, <2>2 DEF TypeOK, ProposalRecord
<1>3. CASE Finish(e)
  <2>1. p \in Proposal /\ store' = [store EXCEPT ![p] = Settled(store[p], exec[e].ok)]
    BY <1>3 DEF Finish, TypeOK
  <2> QED
    BY <2>1 DEF Settled, Outcome, TypeOK, ProposalRecord
<1> QED
  BY <1>1, <1>2, <1>3 DEF RequestStep, Load, ClaimRefused, BuildContextFails,
                          RunTool, Crash

LEMMA RequestStepVotes ==
    ASSUME TypeOK, NEW e \in Request, RequestStep(e)
    PROVE  KeepsVotes
<1>1. UNCHANGED origin
  BY DEF RequestStep, Load, Claim, ClaimTooLate, ClaimRefused,
         BuildContextFails, RunTool, Finish, Crash
<1>2. ASSUME NEW q \in Proposal
      PROVE  /\ store'[q].votes = store[q].votes
             /\ store'[q].user = store[q].user
             /\ store'[q].status = "absent" => store[q].status = "absent"
  <2>1. /\ store'[q] = [store[q] EXCEPT !.status = store'[q].status]
        /\ store'[q].status = "absent" => store[q].status = "absent"
    BY RequestStepStatus
  <2>2. store[q] \in ProposalRecord
    BY DEF TypeOK
  <2> QED
    BY <2>1, <2>2 DEF ProposalRecord
<1> QED
  BY <1>1, <1>2 DEF KeepsVotes

\* The store steps that decide without voting.
LEMMA DecisionVotes ==
    ASSUME TypeOK,
           List \/ \E p \in Proposal : ApproveTooLate(p) \/ Reject(p) \/ Cancel(p)
    PROVE  KeepsVotes
<1>1. CASE List
  BY <1>1 DEF List, KeepsVotes, TypeOK, ProposalRecord
<1>2. ASSUME NEW p \in Proposal, ApproveTooLate(p) \/ Reject(p) \/ Cancel(p)
      PROVE  KeepsVotes
  <2>1. PICK s \in Terminal : store' = [store EXCEPT ![p].status = s]
    BY <1>2 DEF ApproveTooLate, Reject, Cancel, Terminal
  <2>2. UNCHANGED origin
    BY <1>2 DEF ApproveTooLate, Reject, Cancel
  <2> QED
    BY <2>1, <2>2 DEF KeepsVotes, Terminal, TypeOK, ProposalRecord
<1> QED
  BY <1>1, <1>2

\* What a created proposal looks like.
LEMMA CreateEffect ==
    ASSUME TypeOK, NEW p \in Proposal, NEW c, NEW u, NEW a, NEW l, Create(p, c, u, a, l)
    PROVE  /\ store[p].status = "absent"
           /\ store'[p].votes = <<>> /\ store'[p].user = u
           /\ store'[p].status = "pending"
           /\ origin'[p] = c.by
           /\ \A q \in Proposal : q # p => store'[q] = store[q] /\ origin'[q] = origin[q]
  BY DEF Create, TypeOK

\* What approve() leaves: one vote more, by somebody new, on a fresh proposal.
LEMMA ApproveEffect ==
    ASSUME TypeOK, NEW p \in Proposal, NEW c \in Caller, Approve(p, c)
    PROVE  /\ store'[p].votes = Append(store[p].votes, c)
           /\ store'[p].user = store[p].user
           /\ store[p].status = "pending"
           /\ store'[p].status \in {"pending", "approved"}
           /\ store'[p].status = "approved" =>
                 Len(store'[p].votes) >= quorum[store[p].level]
           /\ ~Stale(store[p]) /\ ~SelfVote(store[p], c) /\ ~HasVoted(store[p], c)
           /\ \A q \in Proposal : q # p => store'[q] = store[q]
           /\ UNCHANGED origin
  BY DEF Approve, RequiredNow, TypeOK, ProposalRecord

LEMMA ApproveVoteInv ==
    ASSUME TypeOK, VoteInv, NEW p \in Proposal, NEW c \in Caller, Approve(p, c)
    PROVE  VoteInv'
<1> DEFINE v == store[p].votes
           w == Append(v, c)
<1>1. v \in Seq(Caller)
  BY DEF TypeOK, ProposalRecord
<1>2. /\ DOMAIN v = 1..Len(v) /\ Len(v) \in Nat
      /\ DOMAIN w = 1..(Len(v) + 1)
      /\ \A i \in 1..Len(v) : w[i] = v[i]
      /\ w[Len(v) + 1] = c
  BY <1>1
<1>3. /\ store'[p].votes = w /\ store'[p].user = store[p].user
      /\ store'[p].status # "absent"
  BY ApproveEffect
<1>4. \A i \in 1..Len(v) : v[i].by # c.by
  BY <1>2, ApproveEffect DEF HasVoted, Voters
<1>5. \A i, j \in DOMAIN w : w[i].by = w[j].by => i = j
  <2> SUFFICES ASSUME NEW i \in 1..(Len(v) + 1), NEW j \in 1..(Len(v) + 1),
                      w[i].by = w[j].by
               PROVE  i = j
    BY <1>2
  <2>1. CASE i \in 1..Len(v) /\ j \in 1..Len(v)
    BY <2>1, <1>2 DEF VoteInv
  <2>2. CASE i = Len(v) + 1 \/ j = Len(v) + 1
    BY <2>2, <1>2, <1>4
  <2> QED
    BY <2>1, <2>2, <1>2
<1>6. BlockSelf => \A i \in DOMAIN w : w[i].verified => w[i].by # store[p].user
  <2> SUFFICES ASSUME BlockSelf, NEW i \in 1..(Len(v) + 1), w[i].verified
               PROVE  w[i].by # store[p].user
    BY <1>2
  <2>1. CASE i \in 1..Len(v)
    BY <2>1, <1>2 DEF VoteInv
  <2>2. CASE i = Len(v) + 1
    BY <2>2, <1>2, ApproveEffect DEF SelfVote
  <2> QED
    BY <2>1, <2>2, <1>2
<1>7. \A q \in Proposal : q # p => store'[q] = store[q]
  BY ApproveEffect
<1> SUFFICES ASSUME NEW q \in Proposal
             PROVE  /\ store'[q].status = "absent" => store'[q].votes = <<>>
                    /\ \A i, j \in DOMAIN store'[q].votes :
                          store'[q].votes[i].by = store'[q].votes[j].by => i = j
                    /\ BlockSelf => \A i \in DOMAIN store'[q].votes :
                          store'[q].votes[i].verified =>
                              store'[q].votes[i].by # store'[q].user
  BY DEF VoteInv
<1>8. CASE q = p
  BY <1>8, <1>3, <1>5, <1>6
<1>9. CASE q # p
  BY <1>9, <1>7 DEF VoteInv
<1> QED
  BY <1>8, <1>9

LEMMA StoreStepVoteInv ==
    ASSUME TypeOK, VoteInv, StoreStep
    PROVE  VoteInv'
<1>1. ASSUME NEW p \in Proposal, NEW c \in Caller, NEW u, NEW a, NEW l,
             Create(p, c, u, a, l)
      PROVE  VoteInv'
  BY <1>1, CreateEffect DEF VoteInv
<1>2. ASSUME NEW p \in Proposal, NEW c \in Caller, Approve(p, c)
      PROVE  VoteInv'
  BY <1>2, ApproveVoteInv
<1>3. CASE List \/ \E p \in Proposal : ApproveTooLate(p) \/ Reject(p) \/ Cancel(p)
  BY <1>3, DecisionVotes, KeepsVotesKeepsVoteInv
<1> QED
  BY <1>1, <1>2, <1>3 DEF StoreStep, ProposeInChat, ProposeByTool

\* The harness, the clock and the configuration leave the records alone.
LEMMA OtherStepsKeepStore ==
    ASSUME \/ \E h \in Harness : HarnessStep(h)
           \/ \E l \in {"propose", "execute"}, n \in 1..MaxQuorum : Reconfigure(l, n)
           \/ Tick
           \/ UNCHANGED vars
    PROVE  UNCHANGED <<store, origin>>
  BY DEF HarnessStep, HarnessLoad, HarnessRun, Reconfigure, Tick, vars

LEMMA OtherStepsKeepVotes ==
    ASSUME TypeOK,
           \/ \E e \in Request : RequestStep(e)
           \/ \E h \in Harness : HarnessStep(h)
           \/ \E l \in {"propose", "execute"}, n \in 1..MaxQuorum : Reconfigure(l, n)
           \/ Tick
           \/ UNCHANGED vars
    PROVE  KeepsVotes
<1>1. CASE \E e \in Request : RequestStep(e)
  BY <1>1, RequestStepVotes
<1>2. CASE UNCHANGED <<store, origin>>
  BY <1>2 DEF KeepsVotes
<1> QED
  BY <1>1, <1>2, OtherStepsKeepStore

\* Whatever the configuration, the clock and the harness do, no name votes
\* twice on a proposal and a verified vote is never the recorded proposer's.
THEOREM VotesAreDistinct == Spec => []VoteInv
<1>1. Init => VoteInv
  BY DEF Init, VoteInv, NoProposal
<1>2. TypeOK /\ VoteInv /\ [Next]_vars => VoteInv'
  BY StoreStepVoteInv, OtherStepsKeepVotes, KeepsVotesKeepsVoteInv DEF Next
<1> QED
  BY <1>1, <1>2, TypeCorrect, PTL DEF Spec

\* Where no request names the proposer in its body, the record names the
\* identity that asked (engine constructed with _identity() or --user).
THEOREM ProposerRecorded ==
    ASSUME ToolRouteName = {}
    PROVE  Spec => []ProposerIsRecorded
<1>1. Init => ProposerIsRecorded
  BY DEF Init, ProposerIsRecorded, NoProposal
<1>2. TypeOK /\ ProposerIsRecorded /\ [Next]_vars => ProposerIsRecorded'
  <2> SUFFICES ASSUME TypeOK, ProposerIsRecorded, [Next]_vars
               PROVE  ProposerIsRecorded'
    OBVIOUS
  <2>1. ASSUME NEW p \in Proposal, NEW c \in Caller, NEW a, NEW l,
               ProposeInChat(p, c, a, l)
        PROVE  ProposerIsRecorded'
    BY <2>1, CreateEffect DEF ProposerIsRecorded, ProposeInChat
  <2>2. ASSUME NEW p \in Proposal, NEW c \in Caller, Approve(p, c)
        PROVE  ProposerIsRecorded'
    BY <2>2, ApproveEffect DEF ProposerIsRecorded
  <2>3. CASE List \/ \E p \in Proposal : ApproveTooLate(p) \/ Reject(p) \/ Cancel(p)
    BY <2>3, DecisionVotes, KeepsVotesKeepsVoteInv
  <2> QED
    BY <2>1, <2>2, <2>3, OtherStepsKeepVotes, KeepsVotesKeepsVoteInv
       DEF Next, StoreStep
<1> QED
  BY <1>1, <1>2, TypeCorrect, PTL DEF Spec

\* Separation of duties: where the proposer is recorded truthfully, nobody's
\* verified vote counts for a proposal their own request created.
THEOREM DutiesAreSeparate ==
    ASSUME ToolRouteName = {}
    PROVE  Spec => []SeparationOfDuties
<1>1. VoteInv /\ ProposerIsRecorded => SeparationOfDuties
  BY DEF VoteInv, ProposerIsRecorded, SeparationOfDuties
<1> QED
  BY <1>1, VotesAreDistinct, ProposerRecorded, PTL

-----------------------------------------------------------------------------
(***************************************************************************)
(* Grants                                                                  *)
(***************************************************************************)

\* As no name votes twice, the number of votes is the number of approvers.
LEMMA VotesCountVoters ==
    ASSUME NEW r \in ProposalRecord,
           \A i, j \in DOMAIN r.votes : r.votes[i].by = r.votes[j].by => i = j
    PROVE  Cardinality(Voters(r)) = Len(r.votes)
<1> DEFINE n == Len(r.votes)
           f == [i \in 1..n |-> r.votes[i].by]
<1>1. n \in Nat /\ DOMAIN r.votes = 1..n
  BY DEF ProposalRecord
<1>2. f \in Bijection(1..n, Voters(r))
  BY <1>1 DEF Voters, Bijection, Injection, Surjection, IsInjective
<1>3. IsFiniteSet(1..n) /\ Cardinality(1..n) = n
  BY <1>1, FS_Interval
<1> QED
  BY <1>2, <1>3, FS_Bijection DEF ExistsBijection

\* Only approve() makes a proposal approved.
LEMMA GrantIsVoted ==
    ASSUME TypeOK, [Next]_vars, NEW p \in Proposal,
           store[p].status # "approved", store'[p].status = "approved"
    PROVE  \E c \in Caller : Approve(p, c)
<1>1. ASSUME NEW e \in Request, RequestStep(e)
      PROVE  FALSE
  BY <1>1, RequestStepStatus
<1>2. CASE UNCHANGED <<store, origin>>
  BY <1>2
<1>3. ASSUME NEW q \in Proposal, NEW c, NEW u, NEW a, NEW l, Create(q, c, u, a, l)
      PROVE  FALSE
  BY <1>3, CreateEffect
<1>4. ASSUME NEW q \in Proposal, NEW c \in Caller, Approve(q, c)
      PROVE  q = p
  BY <1>4, ApproveEffect
<1>5. CASE List
  BY <1>5 DEF List, TypeOK, ProposalRecord
<1>6. ASSUME NEW q \in Proposal, ApproveTooLate(q) \/ Reject(q) \/ Cancel(q)
      PROVE  FALSE
  BY <1>6 DEF ApproveTooLate, Reject, Cancel, TypeOK, ProposalRecord
<1> QED
  BY <1>1, <1>2, <1>3, <1>4, <1>5, <1>6, OtherStepsKeepStore
     DEF Next, StoreStep, ProposeInChat, ProposeByTool

\* approve() flips a proposal only when as many distinct names as the quorum
\* in force asks of its band have voted, whatever the quorum was before.
THEOREM GrantsNeedTheirQuorum == Spec => GrantNeedsQuorum
<1>1. TypeOK /\ VoteInv /\ TypeOK' /\ VoteInv' /\ [Next]_vars =>
          \A p \in Proposal :
              (store[p].status # "approved" /\ store'[p].status = "approved")
                  => Cardinality(Voters(store'[p])) >= quorum[store[p].level]
  <2> SUFFICES ASSUME TypeOK, TypeOK', VoteInv', [Next]_vars, NEW p \in Proposal,
                      store[p].status # "approved", store'[p].status = "approved"
               PROVE  Cardinality(Voters(store'[p])) >= quorum[store[p].level]
    OBVIOUS
  <2>1. PICK c \in Caller : Approve(p, c)
    BY GrantIsVoted
  <2>2. Len(store'[p].votes) >= quorum[store[p].level]
    BY <2>1, ApproveEffect
  <2>3. store'[p] \in ProposalRecord
    BY DEF TypeOK
  <2>4. \A i, j \in DOMAIN store'[p].votes :
            store'[p].votes[i].by = store'[p].votes[j].by => i = j
    BY DEF VoteInv
  <2>5. Cardinality(Voters(store'[p])) = Len(store'[p].votes)
    BY <2>3, <2>4, VotesCountVoters
  <2> QED
    BY <2>2, <2>5
<1> QED
  BY <1>1, TypeCorrect, VotesAreDistinct, PTL DEF Spec, GrantNeedsQuorum

\* Which steps can change the votes of a proposal, or claim it.
LEMMA VotesAreAdded ==
    ASSUME TypeOK, VoteInv, [Next]_vars, NEW p \in Proposal,
           store'[p].votes # store[p].votes
    PROVE  clock - store[p].created <= Expiry
<1>1. ASSUME NEW q \in Proposal, NEW c, NEW u, NEW a, NEW l, Create(q, c, u, a, l)
      PROVE  FALSE
  BY <1>1, CreateEffect DEF VoteInv
<1>2. ASSUME NEW q \in Proposal, NEW c \in Caller, Approve(q, c)
      PROVE  q = p /\ ~Stale(store[p])
  BY <1>2, ApproveEffect
<1>3. ~KeepsVotes
  BY DEF KeepsVotes
<1>4. PICK q \in Proposal, c \in Caller : Approve(q, c)
  BY <1>1, <1>3, DecisionVotes, OtherStepsKeepVotes
     DEF Next, StoreStep, ProposeInChat, ProposeByTool
<1>5. clock \in Nat /\ store[p].created \in Nat /\ Expiry \in Nat
  BY TimeAssumption DEF TypeOK, ProposalRecord
<1> QED
  BY <1>2, <1>4, <1>5 DEF Stale

LEMMA ClaimIsInTime ==
    ASSUME TypeOK, [Next]_vars, NEW p \in Proposal,
           store[p].status # "executing", store'[p].status = "executing"
    PROVE  Window = 0 \/ clock - store[p].approvedAt <= Window
<1>1. ASSUME NEW q \in Proposal, NEW c, NEW u, NEW a, NEW l, Create(q, c, u, a, l)
      PROVE  FALSE
  BY <1>1, CreateEffect
<1>2. ASSUME NEW q \in Proposal, NEW c \in Caller, Approve(q, c)
      PROVE  FALSE
  BY <1>2, ApproveEffect
<1>3. CASE List
  BY <1>3 DEF List, TypeOK, ProposalRecord
<1>4. ASSUME NEW q \in Proposal, ApproveTooLate(q) \/ Reject(q) \/ Cancel(q)
      PROVE  FALSE
  BY <1>4 DEF ApproveTooLate, Reject, Cancel, TypeOK, ProposalRecord
<1>5. ASSUME NEW e \in Request, RequestStep(e)
      PROVE  Window = 0 \/ clock - store[p].approvedAt <= Window
  <2>1. CASE Claim(e)
    <3>1. exec[e].prop = p /\ ~WindowOver(store[p])
      BY <2>1 DEF Claim, TypeOK
    <3>2. clock \in Nat /\ store[p].approvedAt \in Nat /\ Window \in Nat
      BY TimeAssumption DEF TypeOK, ProposalRecord
    <3> QED
      BY <3>1, <3>2 DEF WindowOver
  <2>2. CASE ClaimTooLate(e)
    BY <2>2 DEF ClaimTooLate, TypeOK, ProposalRecord
  <2>3. CASE Finish(e)
    BY <2>3 DEF Finish, Settled, Outcome, TypeOK, ProposalRecord
  <2>4. CASE UNCHANGED store
    BY <2>4
  <2> QED
    BY <1>5, <2>1, <2>2, <2>3, <2>4
       DEF RequestStep, Load, ClaimRefused, BuildContextFails, RunTool, Crash
<1> QED
  BY <1>1, <1>2, <1>3, <1>4, <1>5, OtherStepsKeepStore
     DEF Next, StoreStep, ProposeInChat, ProposeByTool

\* No vote is counted after APPROVAL_EXPIRY_SECONDS, and no approved proposal
\* is claimed after APPROVAL_EXECUTION_WINDOW_SECONDS, whatever the interleaving.
THEOREM DeadlinesHold == Spec => GrantInTime
<1>1. TypeOK /\ VoteInv /\ [Next]_vars =>
          \A p \in Proposal :
              /\ store'[p].votes # store[p].votes => clock - store[p].created <= Expiry
              /\ (store[p].status # "executing" /\ store'[p].status = "executing")
                    => (Window = 0 \/ clock - store[p].approvedAt <= Window)
  BY VotesAreAdded, ClaimIsInTime
<1> QED
  BY <1>1, TypeCorrect, VotesAreDistinct, PTL DEF Spec, GrantInTime

LEMMA StoreStepFreezes ==
    ASSUME TypeOK, StoreStep, NEW p \in Proposal,
           store[p].status \in Terminal \cup {"approved", "executing"}
    PROVE  /\ store[p].status \in Terminal => store'[p] = store[p]
           /\ store'[p] = [store[p] EXCEPT !.status = store'[p].status]
<1> DEFINE Frozen == /\ store[p].status \in Terminal => store'[p] = store[p]
                     /\ store'[p] = [store[p] EXCEPT !.status = store'[p].status]
<1>0. store[p] \in ProposalRecord
  BY DEF TypeOK
<1>k. store'[p] = store[p] => Frozen
  BY <1>0 DEF ProposalRecord
<1>1. ASSUME NEW q \in Proposal, NEW c, NEW u, NEW a, NEW l, Create(q, c, u, a, l)
      PROVE  store'[p] = store[p]
  BY <1>1, CreateEffect DEF Terminal
<1>2. ASSUME NEW q \in Proposal, NEW c \in Caller, Approve(q, c)
      PROVE  store'[p] = store[p]
  BY <1>2, ApproveEffect DEF Terminal
<1>3. ASSUME List
      PROVE  store'[p] = store[p]
  BY <1>3 DEF List, Terminal
<1>4. ASSUME NEW q \in Proposal, ApproveTooLate(q) \/ Reject(q)
      PROVE  store'[p] = store[p]
  BY <1>4 DEF ApproveTooLate, Reject, Terminal, TypeOK
<1>5. ASSUME NEW q \in Proposal, Cancel(q)
      PROVE  Frozen
  <2>1. store' = [store EXCEPT ![q].status = "cancelled"]
    BY <1>5 DEF Cancel
  <2>2. CASE q = p
    BY <1>0, <1>5, <2>1, <2>2 DEF Cancel, Cancellable, Terminal, TypeOK, ProposalRecord
  <2>3. CASE q # p
    BY <1>k, <2>1, <2>3 DEF TypeOK
  <2> QED
    BY <2>2, <2>3
<1> QED
  BY <1>k, <1>1, <1>2, <1>3, <1>4, <1>5 DEF StoreStep, ProposeInChat, ProposeByTool

\* A settled or withdrawn record never changes again, and a grant keeps the
\* content and the votes it was granted with until the end.
THEOREM HistoryStaysFrozen == Spec => HistoryIsFrozen
<1>1. TypeOK /\ [Next]_vars =>
          \A p \in Proposal :
              /\ store[p].status \in Terminal => store'[p] = store[p]
              /\ store[p].status \in {"approved", "executing"} =>
                    store'[p] = [store[p] EXCEPT !.status = store'[p].status]
  <2> SUFFICES ASSUME TypeOK, [Next]_vars, NEW p \in Proposal,
                      store[p].status \in Terminal \cup {"approved", "executing"}
               PROVE  /\ store[p].status \in Terminal => store'[p] = store[p]
                      /\ store'[p] = [store[p] EXCEPT !.status = store'[p].status]
    BY DEF Terminal
  <2>1. store[p] \in ProposalRecord
    BY DEF TypeOK
  <2>2. CASE StoreStep
    BY <2>2, StoreStepFreezes
  <2>3. ASSUME NEW e \in Request, RequestStep(e)
        PROVE  /\ store[p].status \in Terminal => store'[p] = store[p]
               /\ store'[p] = [store[p] EXCEPT !.status = store'[p].status]
    <3>1. store'[p] = [store[p] EXCEPT !.status = store'[p].status]
      BY <2>3, RequestStepStatus
    <3>2. store[p].status \in Terminal => store'[p].status = store[p].status
      BY <2>3, RequestStepStatus DEF Terminal
    <3> QED
      BY <2>1, <3>1, <3>2 DEF ProposalRecord
  <2>4. CASE UNCHANGED <<store, origin>>
    BY <2>1, <2>4 DEF ProposalRecord
  <2> QED
    BY <2>2, <2>3, <2>4, OtherStepsKeepStore DEF Next
<1> QED
  BY <1>1, TypeCorrect, PTL DEF Spec, HistoryIsFrozen

-----------------------------------------------------------------------------
(***************************************************************************)
(* Confirmation.  The confirmation is checked on the record that was read  *)
(* without the lock (execute_proposal, step 3); the class and the level of *)
(* a record that was approved then are still the same when the tool runs.  *)
(***************************************************************************)

\* Strengthening: it holds from the load on, and a proposal of a high-risk
\* action is stored at the EXECUTE band.
ConfirmInv ==
    /\ \A p \in Proposal : IsHighRisk(store[p].class) => store[p].level = "execute"
    /\ \A e \in Request :
          exec[e].pc # "idle" =>
              /\ store[exec[e].prop].status \in Terminal \cup {"approved", "executing"}
              /\ store[exec[e].prop].level = "execute" => exec[e].confirm

LEMMA ConfirmInvImpliesRunsConfirmed == TypeOK /\ ConfirmInv => RunsConfirmed
  BY DEF ConfirmInv, RunsConfirmed, Owns, TypeOK

\* A step keeps the action of every proposal that exists.
KeepsAction ==
    \A p \in Proposal :
        /\ store[p].status # "absent" =>
              store'[p].class = store[p].class /\ store'[p].level = store[p].level
        /\ IsHighRisk(store'[p].class) =>
              store'[p].level = "execute" \/ (store'[p].class = store[p].class
                                               /\ store'[p].level = store[p].level)
        /\ store[p].status \in Terminal \cup {"approved", "executing"} =>
              store'[p].status \in Terminal \cup {"approved", "executing"}

LEMMA StepKeepsAction ==
    ASSUME TypeOK, [Next]_vars
    PROVE  KeepsAction
<1>1. ASSUME NEW q \in Proposal, NEW c \in Caller, NEW u \in Name, NEW a \in ProposedClass,
             NEW l \in {"propose", "execute"}, Create(q, c, u, a, l)
      PROVE  KeepsAction
  <2>1. store[q].status = "absent"
    BY <1>1 DEF Create
  <2>2. store'[q].class = a /\ store'[q].level = EffectiveLevel(a, l)
    BY <1>1 DEF Create, TypeOK
  <2>3. \A r \in Proposal : r # q => store'[r] = store[r]
    BY <1>1, CreateEffect
  <2>4. IsHighRisk(a) => EffectiveLevel(a, l) = "execute"
    BY ClassAssumption, EffectiveLevelNeverDowngrades
  <2> QED
    BY <2>1, <2>2, <2>3, <2>4 DEF KeepsAction, Terminal
<1>2. ASSUME NEW q \in Proposal, NEW c \in Caller, Approve(q, c)
      PROVE  KeepsAction
  <2>1. store'[q].class = store[q].class /\ store'[q].level = store[q].level
    BY <1>2 DEF Approve, TypeOK, ProposalRecord
  <2> QED
    BY <1>2, <2>1, ApproveEffect DEF KeepsAction, Terminal
<1>3. ASSUME List
      PROVE  KeepsAction
  BY <1>3 DEF List, KeepsAction, Terminal, TypeOK, ProposalRecord
<1>4. ASSUME NEW q \in Proposal, ApproveTooLate(q) \/ Reject(q) \/ Cancel(q)
      PROVE  KeepsAction
  <2>1. PICK s \in Terminal : store' = [store EXCEPT ![q].status = s]
    BY <1>4 DEF ApproveTooLate, Reject, Cancel, Terminal
  <2> QED
    BY <2>1 DEF KeepsAction, TypeOK, ProposalRecord
<1>5. ASSUME NEW e \in Request, RequestStep(e)
      PROVE  KeepsAction
  <2> SUFFICES ASSUME NEW q \in Proposal
               PROVE  /\ store'[q].class = store[q].class /\ store'[q].level = store[q].level
                      /\ store[q].status \in Terminal \cup {"approved", "executing"} =>
                            store'[q].status \in Terminal \cup {"approved", "executing"}
    BY DEF KeepsAction
  <2>1. store'[q] = [store[q] EXCEPT !.status = store'[q].status]
    BY <1>5, RequestStepStatus
  <2>2. store[q] \in ProposalRecord
    BY DEF TypeOK
  <2>3. store'[q].status # store[q].status =>
            store'[q].status \in Terminal \cup {"approved", "executing"}
    BY <1>5, RequestStepStatus DEF Terminal
  <2> QED
    BY <2>1, <2>2, <2>3 DEF ProposalRecord
<1>6. CASE UNCHANGED <<store, origin>>
  BY <1>6 DEF KeepsAction
<1> QED
  <2>1. ASSUME StoreStep PROVE KeepsAction
    <3>1. \A c \in Caller : c.by \in Name
      BY DEF Caller, Name
    <3>2. ToolRouteName \subseteq Name
      BY DEF Name
    <3> QED
      BY <1>1, <1>2, <1>3, <1>4, <2>1, <3>1, <3>2
         DEF StoreStep, ProposeInChat, ProposeByTool
  <2> QED
    BY <1>5, <1>6, <2>1, OtherStepsKeepStore DEF Next

\* A request takes up a confirmed proposal and keeps it until it is idle again.
LEMMA RequestKeepsConfirm ==
    ASSUME TypeOK, [Next]_vars, NEW f \in Request, exec'[f].pc # "idle"
    PROVE  \/ /\ exec[f].pc # "idle"
              /\ exec'[f].prop = exec[f].prop /\ exec'[f].confirm = exec[f].confirm
           \/ /\ store[exec'[f].prop].status = "approved"
              /\ store[exec'[f].prop].level = "execute" => exec'[f].confirm
              /\ exec'[f].prop \in Proposal
<1>1. ASSUME NEW e \in Request, NEW p \in Proposal, NEW confirm \in BOOLEAN,
             Load(e, p, confirm), e = f
      PROVE  /\ store[exec'[f].prop].status = "approved"
             /\ store[exec'[f].prop].level = "execute" => exec'[f].confirm
             /\ exec'[f].prop \in Proposal
  <2>1. exec'[f].prop = p /\ exec'[f].confirm = confirm
    BY <1>1 DEF Load, TypeOK
  <2> QED
    BY <1>1, <2>1 DEF Load, NeedsConfirmation
<1>2. ASSUME NEW e \in Request, RequestStep(e),
             e # f \/ ~(\E p \in Proposal, confirm \in BOOLEAN : Load(e, p, confirm))
      PROVE  /\ exec[f].pc # "idle"
             /\ exec'[f].prop = exec[f].prop /\ exec'[f].confirm = exec[f].confirm
  <2>1. CASE e # f
    <3>1. exec'[f] = exec[f]
      BY <1>2, <2>1 DEF RequestStep, Load, Claim, ClaimTooLate, ClaimRefused,
                        BuildContextFails, RunTool, Finish, Crash, TypeOK
    <3> QED
      BY <3>1
  <2>2. CASE e = f
    BY <1>2, <2>2 DEF RequestStep, Claim, ClaimTooLate, ClaimRefused, IdleRequest,
                      BuildContextFails, RunTool, Finish, Crash, TypeOK, RequestState
  <2> QED
    BY <2>1, <2>2
<1>3. CASE UNCHANGED exec
  BY <1>3
<1>4. ASSUME StoreStep PROVE UNCHANGED exec
  BY <1>4 DEF StoreStep, ProposeInChat, ProposeByTool, Create, Approve,
              ApproveTooLate, Reject, Cancel, List
<1>5. ASSUME NEW h \in Harness, HarnessStep(h) PROVE UNCHANGED exec
  BY <1>5 DEF HarnessStep, HarnessLoad, HarnessRun
<1>6. ASSUME NEW l \in {"propose", "execute"}, NEW n \in 1..MaxQuorum, Reconfigure(l, n)
      PROVE  UNCHANGED exec
  BY <1>6 DEF Reconfigure
<1>7. Tick \/ UNCHANGED vars => UNCHANGED exec
  BY DEF Tick, vars
<1>8. CASE \E e \in Request : RequestStep(e)
  BY <1>1, <1>2, <1>8
<1> QED
  BY <1>3, <1>4, <1>5, <1>6, <1>7, <1>8 DEF Next

\* A high-risk action runs only in a request that carried the confirmation,
\* although the confirmation was checked before the claim and without the lock.
THEOREM HighRiskRunsConfirmed == Spec => []RunsConfirmed
<1>1. Init => ConfirmInv
  BY DEF Init, ConfirmInv, NoProposal, IdleRequest, IsHighRisk
<1>2. TypeOK /\ ConfirmInv /\ [Next]_vars => ConfirmInv'
  <2> SUFFICES ASSUME TypeOK, ConfirmInv, [Next]_vars PROVE ConfirmInv'
    OBVIOUS
  <2>1. KeepsAction
    BY StepKeepsAction
  <2>2. \A p \in Proposal : IsHighRisk(store'[p].class) => store'[p].level = "execute"
    BY <2>1 DEF KeepsAction, ConfirmInv
  <2>3. ASSUME NEW f \in Request, exec'[f].pc # "idle"
        PROVE  /\ store'[exec'[f].prop].status \in Terminal \cup {"approved", "executing"}
               /\ store'[exec'[f].prop].level = "execute" => exec'[f].confirm
    <3> DEFINE p == exec'[f].prop
    <3>1. /\ p \in Proposal
          /\ store[p].status \in Terminal \cup {"approved", "executing"}
          /\ store[p].level = "execute" => exec'[f].confirm
      BY <2>3, RequestKeepsConfirm DEF ConfirmInv, TypeOK
    <3>2. store[p].status # "absent"
      BY <3>1 DEF Terminal
    <3> QED
      BY <2>1, <3>1, <3>2 DEF KeepsAction
  <2> QED
    BY <2>2, <2>3 DEF ConfirmInv
<1> QED
  BY <1>1, <1>2, ConfirmInvImpliesRunsConfirmed, TypeCorrect, PTL DEF Spec

-----------------------------------------------------------------------------
(***************************************************************************)
(* What is applied was approved.  The executor and the live-validation     *)
(* harness act on a record they read earlier; whatever happens to it in    *)
(* between, it was granted by somebody's vote and is not rejected.         *)
(***************************************************************************)
GrantedStatus == {"approved", "executing"} \cup (Terminal \ {"rejected"})

Granted(p) == store[p].votes # <<>> /\ store[p].status \in GrantedStatus

\* Strengthening: it holds from the moment a proposal is taken up, by a request
\* or by the harness, and before that an approved proposal has a vote.
GrantedInv ==
    /\ \A p \in Proposal : store[p].status = "approved" => Granted(p)
    /\ \A e \in Request : exec[e].pc # "idle" => Granted(exec[e].prop)
    /\ \A h \in Harness : live[h].pc # "idle" => Granted(live[h].prop)
    /\ \A p \in Proposal : writes[p] > 0 => Granted(p)

\* A grant keeps its votes, and is used up, expires or is cancelled.
LEMMA GrantedStays ==
    ASSUME TypeOK, [Next]_vars, NEW p \in Proposal, Granted(p)
    PROVE  Granted(p)'
<1>1. store[p] \in ProposalRecord /\ store[p].status \in Terminal \cup {"approved", "executing"}
  BY DEF TypeOK, Granted, GrantedStatus
<1>2. CASE store'[p] = store[p]
  BY <1>2 DEF Granted
<1>3. ASSUME NEW e \in Request, RequestStep(e)
      PROVE  Granted(p)'
  <2>1. /\ store'[p] = [store[p] EXCEPT !.status = store'[p].status]
        /\ store'[p].status = store[p].status
             \/ store'[p].status \in {"executing", "expired", "executed", "failed"}
    BY <1>3, RequestStepStatus
  <2> QED
    BY <1>1, <2>1 DEF Granted, GrantedStatus, Terminal, ProposalRecord
<1>4. ASSUME StoreStep
      PROVE  Granted(p)'
  <2>1. /\ store'[p] = [store[p] EXCEPT !.status = store'[p].status]
        /\ store[p].status \in Terminal => store'[p] = store[p]
    BY <1>1, <1>4, StoreStepFreezes
  <2>2. store'[p].votes = store[p].votes
    BY <1>1, <2>1 DEF ProposalRecord
  <2>3. ASSUME NEW q \in Proposal, NEW c, NEW u, NEW a, NEW l, Create(q, c, u, a, l)
        PROVE  store'[p] = store[p]
    BY <1>1, <2>3, CreateEffect DEF Terminal
  <2>4. ASSUME NEW q \in Proposal, NEW c \in Caller, Approve(q, c)
        PROVE  store'[p] = store[p]
    BY <1>1, <2>4, ApproveEffect DEF Terminal
  <2>5. ASSUME NEW q \in Proposal, List \/ ApproveTooLate(q) \/ Reject(q) \/ Cancel(q)
        PROVE  store'[p].status \in {store[p].status, "cancelled"}
    <3> store \in [Proposal -> ProposalRecord] /\ store[p].status # "pending"
      BY <1>1 DEF TypeOK, Terminal
    <3>1. CASE List
      BY <3>1 DEF List
    <3>2. CASE ApproveTooLate(q)
      BY <3>2 DEF ApproveTooLate
    <3>3. CASE Reject(q)
      BY <3>3 DEF Reject
    <3>4. CASE Cancel(q)
      BY <3>4 DEF Cancel, ProposalRecord
    <3> QED
      BY <2>5, <3>1, <3>2, <3>3, <3>4
  <2>6. store'[p].status \in {store[p].status, "cancelled"}
    BY <1>4, <2>3, <2>4, <2>5 DEF StoreStep, ProposeInChat, ProposeByTool
  <2> QED
    BY <2>2, <2>6 DEF Granted, GrantedStatus, Terminal
<1> QED
  BY <1>2, <1>3, <1>4, OtherStepsKeepStore DEF Next

\* A run of the harness takes up an approved proposal and keeps it.
LEMMA HarnessKeeps ==
    ASSUME TypeOK, [Next]_vars, NEW h \in Harness, live'[h].pc # "idle"
    PROVE  \/ live[h].pc # "idle" /\ live'[h].prop = live[h].prop
           \/ live'[h].prop \in Proposal /\ store[live'[h].prop].status = "approved"
<1>1. CASE UNCHANGED live
  BY <1>1
<1>2. ASSUME NEW g \in Harness, HarnessStep(g)
      PROVE  \/ live[h].pc # "idle" /\ live'[h].prop = live[h].prop
             \/ live'[h].prop \in Proposal /\ store[live'[h].prop].status = "approved"
  BY <1>2 DEF HarnessStep, HarnessLoad, HarnessRun, HarnessMayRun, IdleRun, TypeOK
<1> QED
  BY <1>1, <1>2 DEF Next, StoreStep, ProposeInChat, ProposeByTool, Create, Approve,
       ApproveTooLate, Reject, Cancel, List, RequestStep, Load, Claim, ClaimTooLate,
       ClaimRefused, BuildContextFails, RunTool, Finish, Crash, Reconfigure, Tick, vars

\* A change is applied by a request or a run that has taken its proposal up.
LEMMA WritesAreTakenUp ==
    ASSUME TypeOK, [Next]_vars, NEW p \in Proposal, writes'[p] > 0
    PROVE  \/ writes[p] > 0
           \/ \E e \in Request : exec[e].pc # "idle" /\ exec[e].prop = p
           \/ \E h \in Harness : live[h].pc # "idle" /\ live[h].prop = p
<1>1. CASE UNCHANGED writes
  BY <1>1
<1>2. ASSUME NEW e \in Request, RunTool(e)
      PROVE  writes[p] > 0 \/ (exec[e].pc # "idle" /\ exec[e].prop = p)
  BY <1>2 DEF RunTool, TypeOK
<1>3. ASSUME NEW h \in Harness, HarnessRun(h)
      PROVE  writes[p] > 0 \/ (live[h].pc # "idle" /\ live[h].prop = p)
  BY <1>3 DEF HarnessRun, TypeOK
<1> QED
  BY <1>1, <1>2, <1>3 DEF Next, StoreStep, ProposeInChat, ProposeByTool, Create, Approve,
       ApproveTooLate, Reject, Cancel, List, RequestStep, Load, Claim, ClaimTooLate,
       ClaimRefused, BuildContextFails, Finish, Crash, HarnessStep, HarnessLoad,
       Reconfigure, Tick, vars

\* Whatever is applied was voted for and is not rejected, on both faces:
\* neither acts on a proposal it did not read as approved, and cancelling or
\* expiring a grant that was read already does not unmake the vote.
THEOREM AppliedIsApproved == Spec => []AppliedWasApproved
<1>1. Init => GrantedInv
  BY DEF Init, GrantedInv, NoProposal, IdleRequest, IdleRun
<1>2. TypeOK /\ GrantedInv /\ [Next]_vars => GrantedInv'
  <2> SUFFICES ASSUME TypeOK, GrantedInv, [Next]_vars PROVE GrantedInv'
    OBVIOUS
  <2>1. ASSUME NEW p \in Proposal, store'[p].status = "approved"
        PROVE  Granted(p)'
    <3>1. CASE store[p].status = "approved"
      BY <3>1, GrantedStays DEF GrantedInv
    <3>2. CASE store[p].status # "approved"
      <4>1. PICK c \in Caller : Approve(p, c)
        BY <2>1, <3>2, GrantIsVoted
      <4>2. store'[p].votes = Append(store[p].votes, c) /\ store[p].votes \in Seq(Caller)
        BY <4>1, ApproveEffect DEF TypeOK, ProposalRecord
      <4>3. store'[p].votes # <<>>
        BY <4>2
      <4> QED
        BY <2>1, <4>3 DEF Granted, GrantedStatus
    <3> QED
      BY <3>1, <3>2
  <2>2. ASSUME NEW f \in Request, exec'[f].pc # "idle"
        PROVE  Granted(exec[f].prop)'
    <3>1. PICK p \in Proposal : p = exec'[f].prop /\ Granted(p)
      BY <2>2, RequestKeepsConfirm DEF GrantedInv, TypeOK
    <3>2. Granted(p)'
      BY <3>1, GrantedStays
    <3> QED
      BY <3>1, <3>2 DEF Granted
  <2>3. ASSUME NEW h \in Harness, live'[h].pc # "idle"
        PROVE  Granted(live[h].prop)'
    <3>1. PICK p \in Proposal : p = live'[h].prop /\ Granted(p)
      BY <2>3, HarnessKeeps DEF GrantedInv, TypeOK
    <3>2. Granted(p)'
      BY <3>1, GrantedStays
    <3> QED
      BY <3>1, <3>2 DEF Granted
  <2>4. ASSUME NEW p \in Proposal, writes'[p] > 0
        PROVE  Granted(p)'
    BY <2>4, WritesAreTakenUp, GrantedStays DEF GrantedInv
  <2> QED
    BY <2>1, <2>2, <2>3, <2>4 DEF GrantedInv
<1>3. TypeOK /\ GrantedInv => AppliedWasApproved
  <2> SUFFICES ASSUME TypeOK, GrantedInv, NEW p \in Proposal, writes[p] > 0
               PROVE  Voters(store[p]) # {} /\ store[p].status \notin {"absent", "pending", "rejected"}
    BY DEF AppliedWasApproved
  <2>1. Granted(p) /\ store[p].votes \in Seq(Caller)
    BY DEF GrantedInv, TypeOK, ProposalRecord
  <2>2. 1 \in DOMAIN store[p].votes
    BY <2>1 DEF Granted
  <2>3. store[p].votes[1].by \in Voters(store[p])
    BY <2>2 DEF Voters
  <2> QED
    BY <2>1, <2>3 DEF Granted, GrantedStatus, Terminal
<1> QED
  BY <1>1, <1>2, <1>3, TypeCorrect, PTL DEF Spec
=============================================================================
