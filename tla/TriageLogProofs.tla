-------------------------- MODULE TriageLogProofs ---------------------------
(* Proofs about TriageLoop and TriageLog: the retries of a chat call and its   *)
(* fallback, the verdicts that close an alert without a human, the rotation of *)
(* the log, the review of its entries, the figures of the dashboard, and the   *)
(* union-find that groups the entries into cases.                              *)
EXTENDS LogViews, SequenceTheorems, FiniteSetTheorems, WellFoundedInduction, TLAPS

-----------------------------------------------------------------------------
(* The chat call: what is left of its two budgets and what it has used add up. *)
Calls == [model : Family \cup {Primary}, left429 : Nat, left5xx : Nat, posts : Nat, limited : Nat]

Balanced(c) ==
  /\ c.limited + c.left429 = env.retries429
  /\ c.posts + c.left429 + c.left5xx = env.retries429 + env.retries5xx

CallInv ==
  /\ env \in Settings
  /\ llm = [call |-> llm.call, routed |-> llm.routed, bad |-> llm.bad]
  /\ llm.call \in Calls /\ Balanced(llm.call)

(* The triage: what it has concluded. *)
Results == [verdict : ValidVerdicts \cup {"none"}, conf : {"low", "high", "nan"},
            action : {"none", "close_no_action", "isolate_host", "escalate_to_l2"},
            error : {"", "rate limited", "gateway", "denied", "unreadable",
                     "invalid verdict", "budget exhausted"}]

Chosen(r) == r.verdict # "none" /\ (r.error # "" => r.verdict = "escalate")

VerdictInv ==
  /\ loop = [pos |-> loop.pos, turn |-> loop.turn, kb |-> loop.kb, found |-> loop.found,
             result |-> loop.result]
  /\ loop.result \in Results
  /\ loop.pos = "done" => Chosen(loop.result)

LEMMA FreshIsBalanced ==
  ASSUME env \in Settings, NEW m \in Family \cup {Primary}
  PROVE  FreshCall(m) \in Calls /\ Balanced(FreshCall(m)) /\ FreshCall(m).model = m
BY TriageAssumption DEF FreshCall, Calls, Balanced

LEMMA CandidatesAreFamilies == Candidates \subseteq Family
BY DEF Candidates

(* What an attempt spends. *)
LEMMA Spent ==
  ASSUME llm.call \in Calls
  PROVE  /\ [Posted EXCEPT !.left5xx = @ - 1]
              = [model |-> llm.call.model, left429 |-> llm.call.left429,
                 left5xx |-> llm.call.left5xx - 1, posts |-> llm.call.posts + 1,
                 limited |-> llm.call.limited]
         /\ [[Posted EXCEPT !.limited = @ + 1] EXCEPT !.left429 = @ - 1]
              = [model |-> llm.call.model, left429 |-> llm.call.left429 - 1,
                 left5xx |-> llm.call.left5xx, posts |-> llm.call.posts + 1,
                 limited |-> llm.call.limited + 1]
<1>1. llm.call = [model |-> llm.call.model, left429 |-> llm.call.left429,
                  left5xx |-> llm.call.left5xx, posts |-> llm.call.posts,
                  limited |-> llm.call.limited]
  BY DEF Calls
<1>2. Posted = [model |-> llm.call.model, left429 |-> llm.call.left429,
                left5xx |-> llm.call.left5xx, posts |-> llm.call.posts + 1,
                limited |-> llm.call.limited]
  BY <1>1 DEF Posted
<1> DEFINE c == [Posted EXCEPT !.limited = @ + 1]
<1>3. c
        = [model |-> llm.call.model, left429 |-> llm.call.left429,
           left5xx |-> llm.call.left5xx, posts |-> llm.call.posts + 1,
           limited |-> llm.call.limited + 1]
  BY <1>2
<1> HIDE DEF c
<1>4. [c EXCEPT !.left429 = @ - 1]
        = [model |-> llm.call.model, left429 |-> llm.call.left429 - 1,
           left5xx |-> llm.call.left5xx, posts |-> llm.call.posts + 1,
           limited |-> llm.call.limited + 1]
  BY <1>3
<1>5. [Posted EXCEPT !.left5xx = @ - 1]
        = [model |-> llm.call.model, left429 |-> llm.call.left429,
           left5xx |-> llm.call.left5xx - 1, posts |-> llm.call.posts + 1,
           limited |-> llm.call.limited]
  BY <1>2
<1> QED
  BY <1>4, <1>5 DEF c

(* Every answer of the gateway keeps the call balanced. *)
LEMMA CallIsKept ==
  ASSUME CallInv, TriageStep \/ Triage
  PROVE  CallInv'
<1> USE DEF CallInv
<1>1. /\ env \in Settings /\ env.retries429 \in Nat /\ env.retries5xx \in Nat
      /\ llm.call \in Calls /\ Balanced(llm.call)
  BY TriageAssumption
<1>2. \A m \in Family \cup {Primary} : FreshCall(m) \in Calls /\ Balanced(FreshCall(m))
  BY <1>1, FreshIsBalanced
<1>3. ASSUME NEW c \in Calls, Balanced(c), env' = env,
             llm' = [llm EXCEPT !.call = c]
      PROVE  CallInv'
  BY <1>1, <1>3 DEF Balanced
<1>4. ASSUME NEW c \in Calls, Balanced(c), env' = env, NEW routed, NEW bad,
             llm' = [llm EXCEPT !.call = c, !.routed = routed, !.bad = bad]
      PROVE  CallInv'
  BY <1>1, <1>4 DEF Balanced
<1>5. ASSUME NEW error, Raises(error)
      PROVE  CallInv'
  BY <1>2, <1>5 DEF Raises, Balanced
<1>6. CASE Triage
  BY <1>1, <1>6 DEF Triage, Balanced
<1>7. CASE \E calls \in BOOLEAN : Answer(calls)
  <2>1. env' = env /\ \E routed : llm' = [llm EXCEPT !.call = FreshCall(Primary), !.routed = routed]
    BY <1>7 DEF Answer
  <2> QED
    BY <1>2, <2>1 DEF Balanced
<1>8. CASE RateLimited
  <2> DEFINE c == [Posted EXCEPT !.limited = @ + 1]
             next == [c EXCEPT !.left429 = @ - 1]
  <2>1. CASE c.left429 > 0 /\ llm' = [llm EXCEPT !.call = next] /\ UNCHANGED env
    <3>1. next = [model |-> llm.call.model, left429 |-> llm.call.left429 - 1,
                  left5xx |-> llm.call.left5xx, posts |-> llm.call.posts + 1,
                  limited |-> llm.call.limited + 1]
      BY <1>1, Spent
    <3>2. llm.call.left429 > 0
      BY <1>1, <2>1 DEF Posted, Calls
    <3> HIDE DEF next
    <3>3. next \in Calls /\ Balanced(next)
      BY <1>1, <3>1, <3>2 DEF Calls, Balanced
    <3> QED
      BY <1>1, <2>1, <3>3 DEF Balanced
  <2>2. CASE \E f \in Candidates : llm' = [llm EXCEPT !.call = FreshCall(f)] /\ UNCHANGED env
    <3> QED
      BY <1>2, <1>3, <2>2, CandidatesAreFamilies DEF Balanced
  <2> QED
    BY <1>5, <1>8, <2>1, <2>2 DEF RateLimited
<1>9. CASE GatewayFails
  <2> DEFINE next == [Posted EXCEPT !.left5xx = @ - 1]
  <2>1. CASE llm.call.left5xx > 0 /\ llm' = [llm EXCEPT !.call = next] /\ UNCHANGED env
    <3>1. next = [model |-> llm.call.model, left429 |-> llm.call.left429,
                  left5xx |-> llm.call.left5xx - 1, posts |-> llm.call.posts + 1,
                  limited |-> llm.call.limited]
      BY <1>1, Spent
    <3>2. llm.call.left5xx > 0
      BY <1>1, <2>1 DEF Posted, Calls
    <3> HIDE DEF next
    <3>3. next \in Calls /\ Balanced(next)
      BY <1>1, <3>1, <3>2 DEF Calls, Balanced
    <3> QED
      BY <1>1, <2>1, <3>3 DEF Balanced
  <2> QED
    BY <1>5, <1>9, <2>1 DEF GatewayFails
<1>10. CASE Denied
  BY <1>5, <1>10 DEF Denied
<1>11. CASE Unreadable
  BY <1>2, <1>3, <1>11 DEF Unreadable
<1>12. CASE \E f \in Family : Forgive(f)
  BY <1>1, <1>12 DEF Forgive, Balanced
<1>13. CASE UNCHANGED <<env, llm>>
  BY <1>1, <1>13 DEF Balanced
<1>14. CASE Retrieve \/ WebSearch \/ OtherTool \/ MalformedVerdict \/ Concludes
  BY <1>13, <1>14 DEF Retrieve, WebSearch, OtherTool, MalformedVerdict, Concludes, EndOfAnswer, SubmitVerdict, BudgetExhausted
<1> QED
  BY <1>6, <1>7, <1>8, <1>9, <1>10, <1>11, <1>12, <1>14 DEF TriageStep, Chat

LEMMA IdleHasNoVerdict == IdleLoop.result = NoResult /\ NoResult \in Results
BY DEF IdleLoop, NoResult, Results

(* Only a submitted verdict or an escalation ends a triage with a result. *)
LEMMA VerdictIsKept ==
  ASSUME VerdictInv, TriageStep \/ Triage \/ loop' = IdleLoop
  PROVE  VerdictInv'
<1>1. loop = [pos |-> loop.pos, turn |-> loop.turn, kb |-> loop.kb, found |-> loop.found,
              result |-> loop.result] /\ loop.result \in Results
  BY DEF VerdictInv
<1>2. ASSUME NEW pos, NEW turn, NEW kb, NEW found, NEW result \in Results,
             loop' = [pos |-> pos, turn |-> turn, kb |-> kb, found |-> found, result |-> result],
             pos = "done" => Chosen(result)
      PROVE  VerdictInv'
  BY <1>2 DEF VerdictInv
<1>3. CASE loop' = IdleLoop
  BY <1>2, <1>3, IdleHasNoVerdict DEF IdleLoop
<1>4. CASE Triage
  <2>1. loop' = [pos |-> "ask", turn |-> 0, kb |-> FALSE, found |-> {}, result |-> NoResult]
    BY <1>4 DEF Triage, IdleLoop
  <2> QED
    BY <1>2, <2>1, IdleHasNoVerdict
<1>5. ASSUME NEW pos, pos # "done",
             \/ loop' = [loop EXCEPT !.pos = pos]
             \/ loop' = [loop EXCEPT !.pos = pos, !.turn = @ + 1]
      PROVE  VerdictInv'
  <2>1. \E turn : loop' = [pos |-> pos, turn |-> turn, kb |-> loop.kb, found |-> loop.found,
                           result |-> loop.result]
    <3>1. CASE loop' = [loop EXCEPT !.pos = pos]
      BY <1>1, <3>1
    <3>2. CASE loop' = [loop EXCEPT !.pos = pos, !.turn = @ + 1]
      BY <1>1, <3>2
    <3> QED
      BY <1>5, <3>1, <3>2
  <2> QED
    BY <1>1, <1>2, <1>5, <2>1
<1>6. ASSUME NEW error \in {"rate limited", "gateway", "denied", "unreadable"},
             loop' = [loop EXCEPT !.pos = "raised", !.result = [@ EXCEPT !.error = error]]
      PROVE  VerdictInv'
  <2> DEFINE r == [loop.result EXCEPT !.error = error]
  <2>1. loop' = [pos |-> "raised", turn |-> loop.turn, kb |-> loop.kb, found |-> loop.found,
                 result |-> r]
    BY <1>1, <1>6
  <2>2. r \in Results
    BY <1>1, <1>6 DEF Results
  <2> HIDE DEF r
  <2> QED
    BY <2>1, <2>2 DEF VerdictInv
<1>7. CASE UNCHANGED loop
  BY <1>7 DEF VerdictInv
<1>8. CASE Chat
  <2>1. ASSUME NEW calls \in BOOLEAN, Answer(calls) PROVE VerdictInv'
    <3>1. CASE calls
      BY <1>5, <2>1, <3>1 DEF Answer
    <3>2. CASE ~calls
      <4>1. loop' = [loop EXCEPT !.pos = NextTurn, !.turn = @ + 1] /\ NextTurn # "done"
        BY <2>1, <3>2 DEF Answer, NextTurn
      <4> QED
        BY <1>5, <4>1
    <3> QED
      BY <3>1, <3>2
  <2>2. CASE RateLimited
    BY <1>6, <1>7, <2>2 DEF RateLimited, Raises
  <2>3. CASE GatewayFails
    BY <1>6, <1>7, <2>3 DEF GatewayFails, Raises
  <2>4. CASE Denied
    BY <1>6, <2>4 DEF Denied, Raises
  <2>5. CASE Unreadable
    BY <1>6, <2>5 DEF Unreadable
  <2> QED
    BY <1>8, <2>1, <2>2, <2>3, <2>4, <2>5 DEF Chat
<1>9. CASE \E f \in Family : Forgive(f)
  BY <1>7, <1>9 DEF Forgive
<1>10. CASE Retrieve \/ WebSearch \/ OtherTool \/ MalformedVerdict
  <2>1. loop.pos # "done" /\ \E new, search : loop' = [loop EXCEPT !.found = @ \cup new, !.kb = @ \/ search]
    BY <1>10 DEF Retrieve, WebSearch, OtherTool, MalformedVerdict, Finds
  <2>2. PICK new, search : loop' = [loop EXCEPT !.found = @ \cup new, !.kb = @ \/ search]
    BY <2>1
  <2>3. loop' = [pos |-> loop.pos, turn |-> loop.turn, kb |-> loop.kb \/ search,
                 found |-> loop.found \cup new, result |-> loop.result]
    BY <1>1, <2>2
  <2> QED
    BY <1>1, <1>2, <2>1, <2>3
<1>11. CASE EndOfAnswer
  <2>1. loop' = [loop EXCEPT !.pos = NextTurn, !.turn = @ + 1] /\ NextTurn # "done"
    BY <1>11 DEF EndOfAnswer, NextTurn
  <2> QED
    BY <1>5, <2>1
<1>12. ASSUME NEW v \in Submitted, SubmitVerdict(v) PROVE VerdictInv'
  <2> DEFINE r == IF v.verdict \in ValidVerdicts
                  THEN [verdict |-> v.verdict, conf |-> v.conf, action |-> v.action, error |-> ""]
                  ELSE [verdict |-> "escalate", conf |-> Lowered(v.conf), action |-> "escalate_to_l2",
                        error |-> "invalid verdict"]
  <2>1. r \in Results /\ Chosen(r)
    BY DEF Submitted, Results, Chosen, ValidVerdicts, Lowered
  <2>2. loop' = [loop EXCEPT !.pos = "done", !.result = r]
    BY <1>12 DEF SubmitVerdict
  <2> HIDE DEF r
  <2>3. loop' = [pos |-> "done", turn |-> loop.turn, kb |-> loop.kb, found |-> loop.found, result |-> r]
    BY <1>1, <2>2
  <2> QED
    BY <1>2, <2>1, <2>3
<1>13. CASE BudgetExhausted
  <2> DEFINE r == [verdict |-> "escalate", conf |-> "low", action |-> "escalate_to_l2",
                   error |-> "budget exhausted"]
  <2>1. r \in Results /\ Chosen(r)
    BY DEF Results, Chosen, ValidVerdicts
  <2>2. loop' = [loop EXCEPT !.pos = "done", !.result = r]
    BY <1>13 DEF BudgetExhausted
  <2> HIDE DEF r
  <2>3. loop' = [pos |-> "done", turn |-> loop.turn, kb |-> loop.kb, found |-> loop.found, result |-> r]
    BY <1>1, <2>2
  <2> QED
    BY <1>2, <2>1, <2>3
<1> QED
  BY <1>3, <1>4, <1>8, <1>9, <1>10, <1>11, <1>12, <1>13 DEF TriageStep, Concludes

(* A fallback is chosen when the primary has used up its 429 budget, and never *)
(* among the families that failed.                                             *)
FallbackChoice ==
  loop.pos = "ask" /\ llm'.call.model \in Family /\ llm.call.model = Primary
    => llm'.call.model \notin llm.bad /\ llm.call.limited = env.retries429

LEMMA FallbackIsFresh ==
  ASSUME CallInv, TriageStep \/ Triage
  PROVE  FallbackChoice
<1>1. /\ env \in Settings /\ env.retries429 \in Nat
      /\ llm = [call |-> llm.call, routed |-> llm.routed, bad |-> llm.bad]
      /\ llm.call \in Calls /\ Balanced(llm.call) /\ Primary \notin Family
  BY TriageAssumption DEF CallInv
<1> QED
  <2>1. ASSUME llm'.call.model = Primary \/ ~(llm'.call.model \in Family) PROVE FallbackChoice
    BY <1>1, <2>1 DEF FallbackChoice
  <2>2. CASE RateLimited
    <3> DEFINE c == [Posted EXCEPT !.limited = @ + 1]
    <3>1. /\ c.model = llm.call.model /\ c.left429 = llm.call.left429
          /\ [c EXCEPT !.left429 = @ - 1].model = llm.call.model
      BY <1>1 DEF Posted, Calls
    <3>2. \A m \in Family \cup {Primary} : FreshCall(m).model = m
      BY DEF FreshCall
    <3>3. CASE llm' = [llm EXCEPT !.call = [c EXCEPT !.left429 = @ - 1]]
      <4>1. llm'.call.model = llm.call.model
        BY <1>1, <3>1, <3>3
      <4> QED
        BY <1>1, <4>1 DEF FallbackChoice
    <3>4. CASE c.left429 = 0 /\ \E f \in Candidates : llm' = [llm EXCEPT !.call = FreshCall(f)]
      <4>1. PICK f \in Candidates : llm' = [llm EXCEPT !.call = FreshCall(f)]
        BY <3>4
      <4>2. llm'.call.model = f
        BY <1>1, <3>2, <4>1, CandidatesAreFamilies
      <4>3. f \notin llm.bad
        BY DEF Candidates
      <4>4. llm.call.limited = env.retries429
        BY <1>1, <3>1, <3>4 DEF Balanced, Calls
      <4> QED
        BY <4>2, <4>3, <4>4 DEF FallbackChoice
    <3>5. CASE \E error : Raises(error)
      <4>1. llm'.call.model = Primary
        BY <1>1, <3>2, <3>5 DEF Raises
      <4> QED
        BY <2>1, <4>1
    <3> QED
      BY <2>2, <3>3, <3>4, <3>5 DEF RateLimited
  <2>3. CASE llm'.call.model = llm.call.model
    BY <1>1, <2>3 DEF FallbackChoice
  <2>4. FreshCall(Primary).model = Primary
    BY DEF FreshCall
  <2>5. CASE \E calls \in BOOLEAN : Answer(calls)
    <3>1. \E f : llm' = [llm EXCEPT !.call = FreshCall(Primary), !.routed = f]
      BY <2>5 DEF Answer
    <3> QED
      BY <1>1, <2>1, <2>4, <3>1
  <2>6. CASE Unreadable
    BY <1>1, <2>1, <2>4, <2>6 DEF Unreadable
  <2>7. ASSUME NEW error, Raises(error) PROVE FallbackChoice
    BY <1>1, <2>1, <2>4, <2>7 DEF Raises
  <2>8. CASE Denied
    BY <2>7, <2>8 DEF Denied
  <2>9. CASE GatewayFails
    <3>1. CASE llm' = [llm EXCEPT !.call = [Posted EXCEPT !.left5xx = @ - 1]]
      BY <1>1, <2>3, <3>1, Spent
    <3> QED
      BY <2>7, <2>9, <3>1 DEF GatewayFails
  <2>10. CASE \E f \in Family : Forgive(f)
    BY <1>1, <2>3, <2>10 DEF Forgive
  <2>11. CASE UNCHANGED llm
    BY <2>3, <2>11
  <2>12. CASE Triage \/ Retrieve \/ WebSearch \/ OtherTool \/ MalformedVerdict \/ Concludes
    BY <2>11, <2>12 DEF Triage, Retrieve, WebSearch, OtherTool, MalformedVerdict, Concludes, EndOfAnswer,
       SubmitVerdict, BudgetExhausted
  <2> QED
    BY <2>2, <2>5, <2>6, <2>8, <2>9, <2>10, <2>12 DEF TriageStep, Chat

-----------------------------------------------------------------------------
(* The rotation: an entry is in the log or in an archive. *)
RotationInv ==
  /\ log \in Seq(written)
  /\ ~straddled => written \subseteq Entries(log) \cup Archived
  /\ ~straddled /\ rot.pos = "copied" => Entries(log) \subseteq Archived

(* The review: what is marked is recorded, and a session works on the marker   *)
(* it has read.                                                                *)
Recorded == {f.case : f \in feedback} \cap closed

ReviewInv ==
  /\ rev = [pos |-> rev.pos, pending |-> rev.pending, done |-> rev.done, sessions |-> rev.sessions]
  /\ marker \subseteq Recorded
  /\ rev.pos \in {"walk", "store", "mark"} => rev.done = marker
  /\ rev.pos \in {"store", "mark"} => Case.case \in {f.case : f \in feedback}
  /\ rev.pos = "mark" => Case.case \in closed

LogInv == CallInv /\ VerdictInv /\ RotationInv /\ ReviewInv

LEMMA LogInvHoldsFirst == LogInit => LogInv
<1> SUFFICES ASSUME LogInit PROVE LogInv
  OBVIOUS
<1>1. CallInv
  BY FreshIsBalanced DEF LogInit, TriageInit, CallInv
<1>2. VerdictInv
  BY IdleHasNoVerdict DEF LogInit, TriageInit, VerdictInv, IdleLoop
<1>3. RotationInv
  BY DEF LogInit, RotationInv
<1>4. ReviewInv
  BY DEF LogInit, ReviewInv
<1> QED
  BY <1>1, <1>2, <1>3, <1>4 DEF LogInv

(* The call and the verdict change only in TriageLoop's steps. *)
LEMMA TriageIsKept ==
  ASSUME CallInv, VerdictInv, [LogNext]_logVars
  PROVE  CallInv' /\ VerdictInv'
<1>1. CASE TriageStep \/ Triage
  BY <1>1, CallIsKept, VerdictIsKept
<1>2. CASE UNCHANGED <<env, llm>> /\ loop' = IdleLoop
  <2>1. VerdictInv'
    BY <1>2, VerdictIsKept
  <2>2. CallInv'
    BY <1>2 DEF CallInv, Balanced
  <2> QED
    BY <2>1, <2>2
<1>3. CASE UNCHANGED triageVars
  BY <1>3 DEF triageVars, CallInv, Balanced, VerdictInv
<1>4. CASE Polling
  <2>1. CASE TakeAlert
    BY <1>1, <2>1 DEF TakeAlert
  <2>2. CASE Finished
    BY <1>3, <2>2 DEF Finished
  <2>3. CASE LogVerdict \/ LogFailure \/ SkipFailure
    BY <1>2, <2>3 DEF LogVerdict, LogFailure, SkipFailure, Append1
  <2> QED
    BY <1>4, <2>1, <2>2, <2>3 DEF Polling
<1>5. CASE Triaging
  BY <1>1, <1>5 DEF Triaging
<1>6. CASE Reviewing \/ CopyToArchive \/ Truncate \/ NextSecond \/ UNCHANGED logVars
  BY <1>3, <1>6 DEF Reviewing, CopyToArchive, Truncate, NextSecond, logVars, triageVars
<1> QED
  BY <1>4, <1>5, <1>6 DEF LogNext

LEMMA AppendedEntries ==
  ASSUME NEW S, NEW s \in Seq(S), NEW e
  PROVE  Append(s, e) \in Seq(S \cup {e}) /\ Entries(Append(s, e)) = Entries(s) \cup {e}
<1>1. s \in Seq(S \cup {e})
  BY SeqMonotonic
<1>2. /\ Append(s, e) \in Seq(S \cup {e}) /\ Len(Append(s, e)) = Len(s) + 1
      /\ \A i \in 1..Len(s) : Append(s, e)[i] = s[i]
      /\ Append(s, e)[Len(s) + 1] = e
  BY <1>1, AppendProperties
<1>3. 1..(Len(s) + 1) = (1..Len(s)) \cup {Len(s) + 1}
  BY <1>1
<1> QED
  BY <1>2, <1>3 DEF Entries

LEMMA RotationIsKept ==
  ASSUME RotationInv, [LogNext]_logVars
  PROVE  RotationInv'
<1>1. CASE UNCHANGED fileVars
  BY <1>1 DEF fileVars, RotationInv, Archived, Entries
<1>2. ASSUME NEW e, Append1(e)
      PROVE  RotationInv'
  <2>1. /\ log' = Append(log, e) /\ written' = written \cup {e} /\ UNCHANGED <<archives, rot>>
        /\ straddled' = (straddled \/ rot.pos = "copied")
    BY <1>2 DEF Append1
  <2>2. log' \in Seq(written') /\ Entries(log)' = Entries(log) \cup {e}
    BY <2>1, AppendedEntries DEF RotationInv, Entries
  <2>3. Archived' = Archived
    BY <2>1 DEF Archived
  <2> QED
    BY <2>1, <2>2, <2>3 DEF RotationInv
<1>3. CASE CopyToArchive
  <2>1. /\ rot.pos = "idle" /\ UNCHANGED <<log, written>>
        /\ straddled' = (straddled \/ second \in DOMAIN archives)
        /\ archives' = [s \in (DOMAIN archives) \cup {second} |->
                          IF s = second THEN Entries(log) ELSE archives[s]]
    BY <1>3 DEF CopyToArchive
  <2>2. Entries(log) \subseteq Archived' /\ Entries(log)' = Entries(log)
    BY <2>1 DEF Archived, Entries
  <2>3. second \notin DOMAIN archives => Archived \subseteq Archived'
    BY <2>1 DEF Archived
  <2> QED
    BY <2>1, <2>2, <2>3 DEF RotationInv
<1>4. CASE Truncate
  <2>1. rot.pos = "copied" /\ rot'.pos = "idle" /\ log' = <<>> /\ UNCHANGED <<archives, written, straddled>>
    BY <1>4 DEF Truncate
  <2>2. Archived' = Archived /\ log' \in Seq(written')
    BY <2>1 DEF Archived
  <2> QED
    BY <2>1, <2>2 DEF RotationInv
<1>5. CASE NextSecond
  BY <1>5 DEF NextSecond, RotationInv, Archived, Entries
<1> QED
  BY <1>1, <1>2, <1>3, <1>4, <1>5 DEF LogNext, Polling, TakeAlert, Finished, LogVerdict, LogFailure,
     SkipFailure, Triaging, Reviewing, logVars

(* Every step of the review keeps what is marked marked and recorded. *)
Stands == marker \subseteq marker' /\ marker' \subseteq Recorded

LEMMA ReviewIsKept ==
  ASSUME ReviewInv, [LogNext]_logVars
  PROVE  ReviewInv' /\ Stands
<1>1. /\ rev = [pos |-> rev.pos, pending |-> rev.pending, done |-> rev.done, sessions |-> rev.sessions]
      /\ marker \subseteq Recorded
  BY DEF ReviewInv
<1>2. ASSUME UNCHANGED reviewVars PROVE ReviewInv' /\ Stands
  BY <1>1, <1>2 DEF reviewVars, ReviewInv, Recorded, Case, Stands
<1>3. ASSUME UNCHANGED <<marker, feedback, closed>>,
             rev' = [pos |-> rev'.pos, pending |-> rev'.pending, done |-> rev'.done, sessions |-> rev'.sessions],
             rev'.pos \notin {"store", "mark"}, rev'.pos = "walk" => rev'.done = marker
      PROVE  ReviewInv' /\ Stands
  BY <1>1, <1>3 DEF ReviewInv, Recorded, Stands
<1>4. CASE Review
  BY <1>3, <1>4 DEF Review
<1>5. CASE Skip \/ ReviewDies \/ ReviewComplete \/ ReviewerGone
  <2>1. /\ UNCHANGED <<marker, feedback, closed>>
        /\ \E pos, pending :
             /\ rev' = [pos |-> pos, pending |-> pending, done |-> rev.done, sessions |-> rev.sessions]
             /\ pos \notin {"store", "mark"} /\ (pos = "walk" => rev.pos = "walk")
    <3>1. CASE Skip
      <4>1. /\ UNCHANGED <<marker, feedback, closed>> /\ rev.pos = "walk"
            /\ rev' = [rev EXCEPT !.pending = Tail(@)]
        BY <3>1 DEF Skip, Walking
      <4>2. rev' = [pos |-> "walk", pending |-> Tail(rev.pending), done |-> rev.done,
                    sessions |-> rev.sessions]
        BY <1>1, <4>1
      <4> QED
        BY <4>1, <4>2
    <3>2. CASE ReviewDies \/ ReviewerGone
      <4>1. /\ UNCHANGED <<marker, feedback, closed>>
            /\ rev' = [rev EXCEPT !.pos = "crashed", !.pending = <<>>]
        BY <3>2 DEF ReviewDies, ReviewerGone
      <4>2. rev' = [pos |-> "crashed", pending |-> <<>>, done |-> rev.done, sessions |-> rev.sessions]
        BY <1>1, <4>1
      <4> QED
        BY <4>1, <4>2
    <3>3. CASE ReviewComplete
      <4>1. /\ UNCHANGED <<marker, feedback, closed>> /\ rev' = [rev EXCEPT !.pos = "idle"]
        BY <3>3 DEF ReviewComplete
      <4>2. rev' = [pos |-> "idle", pending |-> rev.pending, done |-> rev.done, sessions |-> rev.sessions]
        BY <1>1, <4>1
      <4> QED
        BY <4>1, <4>2
    <3> QED
      BY <1>5, <3>1, <3>2, <3>3
  <2>2. PICK pos, pending :
          /\ rev' = [pos |-> pos, pending |-> pending, done |-> rev.done, sessions |-> rev.sessions]
          /\ pos \notin {"store", "mark"} /\ (pos = "walk" => rev.pos = "walk")
    BY <2>1
  <2> QED
    BY <1>3, <2>1, <2>2 DEF ReviewInv
<1>6. ASSUME NEW agreed \in BOOLEAN, Capture(agreed)
      PROVE  ReviewInv' /\ Stands
  <2>1. /\ rev.pos = "walk" /\ UNCHANGED <<marker, closed>>
        /\ feedback \subseteq feedback'
        /\ Case.case \in {f.case : f \in feedback'}
        /\ rev' = [pos |-> "store", pending |-> rev.pending, done |-> rev.done, sessions |-> rev.sessions]
    BY <1>1, <1>6 DEF Capture, Walking
  <2>2. Case' = Case
    BY <2>1 DEF Case
  <2> QED
    BY <1>1, <2>1, <2>2 DEF ReviewInv, Recorded, Stands
<1>7. CASE StoreCase
  <2>1. /\ rev.pos = "store" /\ UNCHANGED <<marker, feedback>> /\ closed' = closed \cup {Case.case}
        /\ rev' = [pos |-> "mark", pending |-> rev.pending, done |-> rev.done, sessions |-> rev.sessions]
    BY <1>1, <1>7 DEF StoreCase
  <2>2. Case' = Case
    BY <2>1 DEF Case
  <2> QED
    BY <1>1, <2>1, <2>2 DEF ReviewInv, Recorded, Stands
<1>8. CASE Mark
  <2>1. /\ rev.pos = "mark" /\ UNCHANGED <<feedback, closed>> /\ marker' = rev.done \cup {Case.case}
        /\ rev' = [pos |-> "walk", pending |-> Tail(rev.pending), done |-> rev.done \cup {Case.case},
                   sessions |-> rev.sessions]
    BY <1>1, <1>8 DEF Mark
  <2>2. rev.done = marker /\ Case.case \in Recorded
    BY <2>1 DEF ReviewInv, Recorded
  <2>3. marker' \subseteq Recorded /\ Recorded' = Recorded
    BY <1>1, <2>1, <2>2 DEF Recorded
  <2> QED
    BY <2>1, <2>2, <2>3 DEF ReviewInv, Stands
<1>9. CASE Distill
  BY <1>1, <1>9 DEF Distill, ReviewInv, Recorded, Case, Stands
<1>10. CASE Reviewing
  BY <1>4, <1>5, <1>6, <1>7, <1>8, <1>9, <1>10 DEF Reviewing
<1> QED
  BY <1>2, <1>10 DEF LogNext, Polling, TakeAlert, Finished, LogVerdict, LogFailure, SkipFailure, Append1,
     Triaging, CopyToArchive, Truncate, NextSecond, logVars

LEMMA LogInvIsKept == LogInv /\ [LogNext]_logVars => LogInv'
BY TriageIsKept, RotationIsKept, ReviewIsKept DEF LogInv

-----------------------------------------------------------------------------
(* No model gets more requests for one chat call than the two budgets allow,   *)
(* for any budgets and any answers (openai_compat_provider.py, _post).         *)
THEOREM RetriesStayBounded == LogSpec => []RetriesBounded
<1>1. LogInv => RetriesBounded
  BY TriageAssumption DEF LogInv, CallInv, Balanced, Calls, RetriesBounded
<1> QED
  BY <1>1, LogInvHoldsFirst, LogInvIsKept, PTL DEF LogSpec

(* An alert is closed without a human only by a verdict the model chose, and   *)
(* never when web pages stored in the knowledge base are all that the triage   *)
(* found, whatever the order of tool calls, refusals and failures              *)
(* (triage_agent.py, _retrieved_kinds and human_review_reasons).               *)
THEOREM PagesNeverClose == LogSpec => []StoredPagesNeverClose
<1>1. LogInv => StoredPagesNeverClose
  <2> SUFFICES ASSUME LogInv, Closable(FALSE)
               PROVE  /\ loop.result.error = "" /\ loop.result.verdict = "false_positive"
                      /\ ~(loop.found \subseteq {"page"})
    BY DEF StoredPagesNeverClose
  <2>1. loop.result.error = "" /\ loop.result.verdict = "false_positive"
    BY DEF LogInv, VerdictInv, Results, Chosen, ValidVerdicts, Closable, NeedsHuman
  <2>2. PICK k \in RetrievedKinds(loop.found) : k \in HumanAuthored
    BY DEF Closable, NeedsHuman
  <2>3. ASSUME loop.found \subseteq {"page"} PROVE FALSE
    BY <2>2, <2>3 DEF RetrievedKinds, HumanAuthored
  <2> QED
    BY <2>1, <2>3
<1> QED
  BY <1>1, LogInvHoldsFirst, LogInvIsKept, PTL DEF LogSpec

(* The fallback never goes to a family that failed lately and never before the *)
(* primary's 429 budget is used up (freellmapi_provider.py).                   *)
THEOREM FallbacksAvoidFailures == LogSpec => FallbackAvoidsFailed
<1>1. LogInv /\ [LogNext]_logVars =>
        [loop.pos = "ask" /\ llm'.call.model \in Family /\ llm.call.model = Primary
           => /\ llm'.call.model \notin llm.bad /\ llm.call.limited = env.retries429]_triageVars
  <2> SUFFICES ASSUME LogInv, [LogNext]_logVars PROVE FallbackChoice \/ UNCHANGED triageVars
    BY DEF FallbackChoice
  <2>1. CASE TriageStep \/ Triage
    BY <2>1, FallbackIsFresh DEF LogInv
  <2>2. CASE UNCHANGED llm
    BY <2>2, TriageAssumption DEF FallbackChoice
  <2> QED
    BY <2>1, <2>2 DEF LogNext, Polling, TakeAlert, Finished, LogVerdict, LogFailure, SkipFailure, Append1,
       Triaging, Reviewing, CopyToArchive, Truncate, NextSecond, logVars, triageVars
<1> QED
  BY <1>1, LogInvHoldsFirst, LogInvIsKept, PTL DEF LogSpec, FallbackAvoidsFailed

(* A rotation loses no entry that was not appended between its copy and its    *)
(* truncation, for any number of writers and rotations (log_rotation.py).      *)
THEOREM RotationsKeepAll == LogSpec => []AloneRotationKeepsAll
<1>1. LogInv => AloneRotationKeepsAll
  BY DEF LogInv, RotationInv, AloneRotationKeepsAll
<1> QED
  BY <1>1, LogInvHoldsFirst, LogInvIsKept, PTL DEF LogSpec

(* A case is marked only once its feedback and its case are stored, and stays  *)
(* marked, wherever the review is interrupted (feedback_cli.py).               *)
THEOREM ReviewedCasesStand == LogSpec => ReviewsStand
<1>1. LogInv /\ [LogNext]_logVars =>
        [marker \subseteq marker' /\ marker' \subseteq {f.case : f \in feedback} \cap closed]_logVars
  BY ReviewIsKept DEF LogInv, Stands, Recorded
<1> QED
  BY <1>1, LogInvHoldsFirst, LogInvIsKept, PTL DEF LogSpec, ReviewsStand

-----------------------------------------------------------------------------
(* The entries of the on-demand route, counted: a new one bears a new number.  *)
Verdicted(entries) == {e \in entries : e.verdict # "none"}
Failed(entries) == {e \in entries : e.verdict = "none"}
Taken == Len(env.polled) - Len(poll.rest)

CountInv ==
  /\ poll = [kind |-> poll.kind, rest |-> poll.rest, pos |-> poll.pos,
             escalates |-> poll.escalates, raised |-> poll.raised]
  /\ poll.raised \in Nat /\ poll.rest \in Seq(Entries(env.polled)) /\ Len(env.polled) \in Nat
  /\ poll.pos = "triage" => poll.rest # <<>>
  /\ IsFiniteSet(written) /\ \A e \in written : e.num \in 1..Cardinality(written)
  /\ poll.kind = "dashboard" =>
       /\ Cardinality(written) = Taken /\ Cardinality(Failed(written)) = poll.raised
       /\ Cardinality(Verdicted(written)) = Taken - poll.raised

LEMMA AppendedIsCounted ==
  ASSUME NEW W, IsFiniteSet(W), \A x \in W : x.num \in 1..Cardinality(W),
         NEW e, e.num = Cardinality(W) + 1
  PROVE  /\ IsFiniteSet(W \cup {e}) /\ Cardinality(W \cup {e}) = Cardinality(W) + 1
         /\ \A x \in W \cup {e} : x.num \in 1..Cardinality(W \cup {e})
         /\ Cardinality(Failed(W \cup {e})) =
              Cardinality(Failed(W)) + (IF e.verdict = "none" THEN 1 ELSE 0)
         /\ Cardinality(Verdicted(W \cup {e})) =
              Cardinality(Verdicted(W)) + (IF e.verdict = "none" THEN 0 ELSE 1)
<1>1. Cardinality(W) \in Nat
  BY FS_CardinalityType
<1>2. e \notin W
  BY <1>1
<1>3. IsFiniteSet(W \cup {e}) /\ Cardinality(W \cup {e}) = Cardinality(W) + 1
  BY <1>2, FS_AddElement
<1>4. \A x \in W \cup {e} : x.num \in 1..Cardinality(W \cup {e})
  BY <1>1, <1>3
<1> DEFINE CountsGrow ==
             /\ Cardinality(Failed(W \cup {e})) =
                  Cardinality(Failed(W)) + (IF e.verdict = "none" THEN 1 ELSE 0)
             /\ Cardinality(Verdicted(W \cup {e})) =
                  Cardinality(Verdicted(W)) + (IF e.verdict = "none" THEN 0 ELSE 1)
<1>5. IsFiniteSet(Failed(W)) /\ IsFiniteSet(Verdicted(W)) /\ e \notin Failed(W) /\ e \notin Verdicted(W)
  <2>1. Failed(W) \in SUBSET W /\ Verdicted(W) \in SUBSET W
    BY DEF Failed, Verdicted
  <2> QED
    BY <1>2, <2>1, FS_Subset
<1>6. /\ Cardinality(Failed(W)) \in Nat /\ Cardinality(Failed(W) \cup {e}) = Cardinality(Failed(W)) + 1
      /\ Cardinality(Verdicted(W)) \in Nat
      /\ Cardinality(Verdicted(W) \cup {e}) = Cardinality(Verdicted(W)) + 1
  BY <1>5, FS_AddElement, FS_CardinalityType
<1>7. ASSUME e.verdict = "none" PROVE CountsGrow
  <2>1. Failed(W \cup {e}) = Failed(W) \cup {e} /\ Verdicted(W \cup {e}) = Verdicted(W)
    BY <1>7 DEF Failed, Verdicted
  <2>2. /\ Cardinality(Failed(W \cup {e})) = Cardinality(Failed(W) \cup {e})
        /\ Cardinality(Verdicted(W \cup {e})) = Cardinality(Verdicted(W))
    BY <2>1, Zenon
  <2> QED
    BY <1>6, <1>7, <2>2
<1>8. ASSUME e.verdict # "none" PROVE CountsGrow
  <2>1. Failed(W \cup {e}) = Failed(W) /\ Verdicted(W \cup {e}) = Verdicted(W) \cup {e}
    BY <1>8 DEF Failed, Verdicted
  <2>2. /\ Cardinality(Failed(W \cup {e})) = Cardinality(Failed(W))
        /\ Cardinality(Verdicted(W \cup {e})) = Cardinality(Verdicted(W) \cup {e})
    BY <2>1, Zenon
  <2> QED
    BY <1>6, <1>8, <2>2
<1> QED
  BY <1>3, <1>4, <1>7, <1>8

LEMMA SettingsAreKept == [LogNext]_logVars => env' = env
BY DEF LogNext, Polling, TakeAlert, Finished, LogVerdict, LogFailure, SkipFailure, Append1, Triaging,
   Reviewing, CopyToArchive, Truncate, NextSecond, logVars, triageVars, Triage, TriageStep, Chat, Answer,
   RateLimited, GatewayFails, Raises, Denied, Unreadable, Forgive, Retrieve, WebSearch, OtherTool, MalformedVerdict,
   Concludes, EndOfAnswer, SubmitVerdict, BudgetExhausted

LEMMA CountHoldsFirst == LogInit => CountInv
<1> SUFFICES ASSUME LogInit PROVE CountInv
  OBVIOUS
<1>1. /\ env \in Settings /\ written = {}
      /\ \E k : poll = [kind |-> k, rest |-> env.polled, pos |-> "next", escalates |-> FALSE, raised |-> 0]
  BY DEF LogInit, TriageInit
<1>2. env.polled \in Seq(Entries(env.polled))
  <2>1. env.polled \in Seq({env.polled[i] : i \in DOMAIN env.polled})
    BY <1>1, PolledAssumption, Zenon
  <2>2. DOMAIN env.polled = 1..Len(env.polled)
    BY <2>1, LenProperties, Zenon
  <2> QED
    BY <2>1, <2>2, Zenon DEF Entries
<1>3. Failed(written) = {} /\ Verdicted(written) = {}
  BY <1>1 DEF Failed, Verdicted
<1>4. /\ IsFiniteSet(written) /\ Cardinality(written) = 0
      /\ Cardinality(Failed(written)) = 0 /\ Cardinality(Verdicted(written)) = 0
  BY <1>1, <1>3, FS_EmptySet
<1>5. poll.rest = env.polled /\ poll.raised = 0 /\ poll.pos = "next" /\ Taken = 0
  <2>1. Len(env.polled) \in Nat
    BY <1>2
  <2> QED
    BY <1>1, <2>1 DEF Taken
<1>6. poll = [kind |-> poll.kind, rest |-> poll.rest, pos |-> poll.pos,
              escalates |-> poll.escalates, raised |-> poll.raised]
  BY <1>1
<1>7. Len(env.polled) \in Nat
  BY <1>2
<1> QED
  BY <1>1, <1>2, <1>4, <1>5, <1>6, <1>7 DEF CountInv

LEMMA CountIsKept ==
  ASSUME CountInv, [LogNext]_logVars
  PROVE  CountInv'
<1>1. env' = env
  BY SettingsAreKept
<1> DEFINE Alerts == Entries(env.polled)
<1>2. /\ poll.raised \in Nat /\ poll.rest \in Seq(Alerts) /\ Entries(env.polled)' = Alerts
      /\ Failed(written)' = Failed(written') /\ Verdicted(written)' = Verdicted(written')
  BY <1>1 DEF CountInv, Entries, Failed, Verdicted
<1>p. Len(env.polled) \in Nat
  BY DEF CountInv
<1> HIDE DEF Alerts
<1>3. ASSUME written' = written, NEW pos, NEW escalates,
             poll' = [kind |-> poll.kind, rest |-> poll.rest, pos |-> pos,
                      escalates |-> escalates, raised |-> poll.raised],
             pos = "triage" => poll.rest # <<>>
      PROVE  CountInv'
  BY <1>1, <1>2, <1>3 DEF CountInv, Taken
<1>4. CASE UNCHANGED <<written, poll>>
  BY <1>1, <1>2, <1>4 DEF CountInv, Taken
<1>5. ASSUME NEW e, Append1(e), poll.pos = "triage", e.num = Cardinality(written) + 1,
             e.verdict = "none" <=> loop.pos = "raised"
      PROVE  CountInv'
  <2>1. /\ poll.rest # <<>> /\ IsFiniteSet(written)
        /\ \A x \in written : x.num \in 1..Cardinality(written)
    BY <1>5 DEF CountInv
  <2>2. /\ Tail(poll.rest) \in Seq(Alerts) /\ Len(Tail(poll.rest)) = Len(poll.rest) - 1
        /\ Len(poll.rest) \in Nat
    BY <1>2, <2>1
  <2>3. /\ written' = written \cup {e}
        /\ poll' = [poll EXCEPT !.rest = Tail(@), !.pos = "next", !.escalates = FALSE,
                                !.raised = @ + (IF loop.pos = "raised" THEN 1 ELSE 0)]
    BY <1>5 DEF Append1
  <2>4. /\ poll' = [kind |-> poll.kind, rest |-> Tail(poll.rest), pos |-> "next", escalates |-> FALSE,
                    raised |-> poll.raised + (IF e.verdict = "none" THEN 1 ELSE 0)]
    BY <1>5, <2>3 DEF CountInv
  <2>5. poll.kind = "dashboard" =>
          /\ Cardinality(written) = Taken /\ Cardinality(Failed(written)) = poll.raised
          /\ Cardinality(Verdicted(written)) = Taken - poll.raised
    BY DEF CountInv
  <2>6. Taken' = Len(env.polled) - (Len(poll.rest) - 1)
    BY <1>1, <2>2, <2>4 DEF Taken
  <2>7. /\ IsFiniteSet(written') /\ Cardinality(written') = Cardinality(written) + 1
        /\ \A x \in written' : x.num \in 1..Cardinality(written')
        /\ Cardinality(Failed(written')) =
             Cardinality(Failed(written)) + (IF e.verdict = "none" THEN 1 ELSE 0)
        /\ Cardinality(Verdicted(written')) =
             Cardinality(Verdicted(written)) + (IF e.verdict = "none" THEN 0 ELSE 1)
    BY <1>5, <2>1, <2>3, AppendedIsCounted
  <2>8. /\ poll'.kind = poll.kind /\ poll'.rest = Tail(poll.rest) /\ poll'.pos = "next"
        /\ poll'.raised = poll.raised + (IF e.verdict = "none" THEN 1 ELSE 0)
        /\ poll' = [kind |-> poll'.kind, rest |-> poll'.rest, pos |-> poll'.pos,
                    escalates |-> poll'.escalates, raised |-> poll'.raised]
    BY <2>4
  <2>9. ASSUME poll.kind = "dashboard"
        PROVE  /\ Cardinality(written') = Taken' /\ Cardinality(Failed(written')) = poll'.raised
               /\ Cardinality(Verdicted(written')) = Taken' - poll'.raised
    <3>1. Taken' = Taken + 1 /\ Taken \in Int
      <4>1. Taken = Len(env.polled) - Len(poll.rest)
        BY DEF Taken
      <4> QED
        BY <1>p, <2>2, <2>6, <4>1
    <3>2. CASE e.verdict = "none"
      BY <1>2, <2>5, <2>7, <2>8, <2>9, <3>1, <3>2
    <3>3. CASE e.verdict # "none"
      BY <1>2, <2>5, <2>7, <2>8, <2>9, <3>1, <3>3
    <3> QED
      BY <3>2, <3>3
  <2>10. poll'.raised \in Nat
    BY <1>2, <2>8
  <2> QED
    BY <1>2, <2>2, <2>7, <2>8, <2>9, <2>10 DEF CountInv
<1>6. CASE TakeAlert
  <2>1. PICK e \in BOOLEAN : poll' = [poll EXCEPT !.pos = "triage", !.escalates = e]
    BY <1>6 DEF TakeAlert
  <2>2. poll' = [kind |-> poll.kind, rest |-> poll.rest, pos |-> "triage",
                 escalates |-> e, raised |-> poll.raised]
    BY <2>1 DEF CountInv
  <2> QED
    BY <1>3, <1>6, <2>2 DEF TakeAlert, fileVars
<1>7. CASE Finished
  <2>1. poll' = [kind |-> poll.kind, rest |-> poll.rest, pos |-> "done",
                 escalates |-> poll.escalates, raised |-> poll.raised]
    BY <1>7 DEF Finished, CountInv
  <2> QED
    BY <1>3, <1>7, <2>1 DEF Finished, fileVars
<1>8. CASE LogVerdict
  BY <1>5, <1>8 DEF LogVerdict, EntryOf
<1>9. CASE LogFailure
  BY <1>5, <1>9 DEF LogFailure, EntryOf
<1>10. CASE SkipFailure
  <2>1. /\ poll.kind # "dashboard" /\ poll.pos = "triage" /\ written' = written
        /\ poll' = [poll EXCEPT !.rest = Tail(@), !.escalates = FALSE,
                                !.pos = IF poll.kind = "run" THEN "next" ELSE "dead"]
    BY <1>10 DEF SkipFailure, fileVars
  <2>2. poll.rest # <<>>
    BY <2>1 DEF CountInv
  <2>3. Tail(poll.rest) \in Seq(Alerts)
    BY <1>2, <2>2
  <2>4. poll' = [kind |-> poll.kind, rest |-> Tail(poll.rest),
                 pos |-> IF poll.kind = "run" THEN "next" ELSE "dead", escalates |-> FALSE,
                 raised |-> poll.raised]
    BY <2>1 DEF CountInv
  <2>5. poll'.pos # "triage"
    BY <2>4
  <2>6. /\ poll'.kind = poll.kind /\ poll'.rest = Tail(poll.rest) /\ poll'.raised = poll.raised
        /\ poll' = [kind |-> poll'.kind, rest |-> poll'.rest, pos |-> poll'.pos,
                    escalates |-> poll'.escalates, raised |-> poll'.raised]
    BY <2>4
  <2>7. IsFiniteSet(written) /\ \A e \in written : e.num \in 1..Cardinality(written)
    BY DEF CountInv
  <2> QED
    BY <1>1, <1>2, <1>p, <2>1, <2>3, <2>5, <2>6, <2>7 DEF CountInv
<1> QED
  BY <1>4, <1>6, <1>7, <1>8, <1>9, <1>10 DEF LogNext, Polling, Triaging, Reviewing, CopyToArchive,
     Truncate, NextSecond, logVars, fileVars, reviewVars

(* The on-demand route leaves one entry for every alert it took, and as many   *)
(* of them without a verdict as triages raised, for any number of alerts and   *)
(* whatever is rotated and reviewed meanwhile (dashboard.py, get_triage_stats).*)
THEOREM DashboardCountsHold == LogSpec => []DashboardCountsFailures
<1>1. CountInv => DashboardCountsFailures
  BY DEF CountInv, DashboardCountsFailures, Stats, Failed, Verdicted, Taken
<1> QED
  BY <1>1, CountHoldsFirst, CountIsKept, PTL DEF LogSpec

-----------------------------------------------------------------------------
(* Induction over the natural numbers, for sets: a set of numbers that is not  *)
(* empty has a least one.                                                      *)
LEMMA LeastNumber ==
  ASSUME NEW T, T \subseteq Nat, T # {}
  PROVE  \E m \in T : \A y \in T : m <= y
<1> DEFINE R == OpToRel(<, Nat)
<1>1. IsWellFoundedOn(R, Nat)
  BY NatLessThanWellFounded, Zenon
<1>2. \A x, y \in Nat : <<x, y>> \in R <=> x < y
  BY DEF OpToRel
<1> HIDE DEF R
<1>3. PICK m \in T : \A y \in T : ~(<<y, m>> \in R)
  BY <1>1, WFMin, Zenon
<1>4. \A y \in T : y \in Nat /\ m \in Nat /\ ~(y < m)
  BY <1>2, <1>3, Zenon
<1>5. \A y \in T : m <= y
  BY <1>4
<1> QED
  BY <1>3, <1>5, Zenon

LEMMA NatSetInduction ==
  ASSUME NEW S, 0 \in S, \A n \in Nat : n \in S => n + 1 \in S
  PROVE  Nat \subseteq S
<1> DEFINE T == Nat \ S
<1> SUFFICES ASSUME T # {} PROVE FALSE
  OBVIOUS
<1>1. T \subseteq Nat
  OBVIOUS
<1> HIDE DEF T
<1>2. PICK m \in T : \A y \in T : m <= y
  BY <1>1, LeastNumber, Zenon
<1>3. m \in Nat /\ m \notin S /\ \A y \in Nat : y < m => y \in S
  BY <1>1, <1>2 DEF T
<1>4. m - 1 \in Nat
  BY <1>3
<1>5. m - 1 \in S /\ m - 1 + 1 = m
  BY <1>3, <1>4
<1> QED
  BY <1>3, <1>4, <1>5

-----------------------------------------------------------------------------
(* find: the parents above an entry, one after the other. *)
Above(p, i, n) == CHOOSE up : up = [k \in 0..n |-> IF k = 0 THEN i ELSE p[up[k - 1]]]

LEMMA AboveIs ==
  ASSUME NEW p, NEW i, NEW n \in Nat
  PROVE  LET up == Above(p, i, n)
         IN  up[0] = i /\ \A k \in 1..n : up[k] = p[up[k - 1]]
<1> DEFINE Is(f, m) == f = [k \in 0..m |-> IF k = 0 THEN i ELSE p[f[k - 1]]]
           S == {m \in Nat : \E f : Is(f, m)}
<1>1. 0 \in S
  <2> DEFINE f == [k \in 0..0 |-> i]
  <2>1. Is(f, 0)
    OBVIOUS
  <2>2. \E g : Is(g, 0)
    <3> HIDE DEF f, Is
    <3> QED
      BY <2>1
  <2> QED
    BY <2>2
<1>2. ASSUME NEW m \in Nat, m \in S
      PROVE  m + 1 \in S
  <2>1. PICK f : Is(f, m)
    BY <1>2
  <2> DEFINE g == [k \in 0..(m + 1) |-> IF k = m + 1 THEN p[f[m]] ELSE f[k]]
  <2>2. \A k \in 0..(m + 1) : g[k] = IF k = 0 THEN i ELSE p[g[k - 1]]
    BY <2>1
  <2>3. Is(g, m + 1)
    BY <2>2
  <2>4. \E h : Is(h, m + 1)
    <3> HIDE DEF g, Is
    <3> QED
      BY <2>3
  <2> QED
    BY <2>4
<1>3. \E f : Is(f, n)
  <2>1. Nat \subseteq S
    <3> HIDE DEF S
    <3> QED
      BY <1>1, <1>2, NatSetInduction
  <2> QED
    BY <2>1
<1> DEFINE up == Above(p, i, n)
<1>4. Is(up, n)
  BY <1>3, Zenon DEF Above
<1> HIDE DEF up
<1> QED
  BY <1>4 DEF up

LEMMA RootIs ==
  \A p, i : Root(p, i) = Above(p, i, Len(p))[Len(p)]
BY DEF Root, Above

-----------------------------------------------------------------------------
(* A forest over 1..n in which each entry knows its root and is at most as     *)
(* deep as there are entries that are no roots.                                *)
Tops(p, n) == {x \in 1..n : p[x] = x}

Rooted(p, root, depth, n) ==
  /\ p \in [1..n -> 1..n] /\ root \in [1..n -> 1..n] /\ depth \in [1..n -> Nat]
  /\ \A x \in 1..n : /\ p[root[x]] = root[x] /\ root[p[x]] = root[x]
                     /\ p[x] = x => root[x] = x /\ depth[x] = 0
                     /\ p[x] # x => depth[p[x]] < depth[x]
                     /\ depth[x] <= n - Cardinality(Tops(p, n))

LEMMA TopsAreFinite ==
  ASSUME NEW n \in Nat, NEW p
  PROVE  IsFiniteSet(Tops(p, n)) /\ Cardinality(Tops(p, n)) \in Nat
         /\ \A x \in Tops(p, n) : Cardinality(Tops(p, n)) >= 1
<1>1. IsFiniteSet(1..n)
  BY FS_Interval
<1>2. IsFiniteSet(Tops(p, n))
  BY <1>1, FS_Subset DEF Tops
<1>3. Cardinality(Tops(p, n)) \in Nat
  BY <1>2, FS_CardinalityType
<1>4. \A x \in Tops(p, n) : Cardinality(Tops(p, n)) # 0
  BY <1>2, FS_EmptySet, Zenon
<1> QED
  BY <1>2, <1>3, <1>4

(* find ends at the root. *)
LEMMA RootFound ==
  ASSUME NEW n \in Nat, NEW p, NEW root, NEW depth, Rooted(p, root, depth, n), NEW i \in 1..n
  PROVE  Root(p, i) = root[i]
<1>1. Len(p) = n
  BY DEF Rooted
<1> DEFINE up == Above(p, i, n)
<1>2. up[0] = i /\ \A k \in 1..n : up[k] = p[up[k - 1]]
  BY AboveIs
<1>3. Root(p, i) = up[n]
  BY <1>1, RootIs
<1> HIDE DEF up
<1> DEFINE Fine(k) == /\ up[k] \in 1..n /\ root[up[k]] = root[i]
                      /\ p[up[k]] # up[k] => depth[up[k]] <= depth[i] - k
           S == {k \in Nat : k <= n => Fine(k)}
<1>4. 0 \in S
  <2>1. up[0] = i /\ depth[i] \in Nat
    BY <1>2 DEF Rooted
  <2>2. Fine(0)
    BY <2>1
  <2> QED
    BY <2>2
<1>5. ASSUME NEW k \in Nat, k \in S
      PROVE  k + 1 \in S
  <2> SUFFICES ASSUME k + 1 <= n PROVE Fine(k + 1)
    OBVIOUS
  <2>1. Fine(k) /\ up[k + 1] = p[up[k]]
    BY <1>2, <1>5
  <2>2. CASE p[up[k]] = up[k]
    BY <2>1, <2>2
  <2>3. CASE p[up[k]] # up[k]
    <3>1. depth[p[up[k]]] < depth[up[k]] /\ p[up[k]] \in 1..n /\ root[p[up[k]]] = root[up[k]]
          /\ depth[p[up[k]]] \in Nat /\ depth[up[k]] \in Nat /\ depth[i] \in Nat
      BY <2>1, <2>3 DEF Rooted
    <3> QED
      BY <2>1, <2>3, <3>1
  <2> QED
    BY <2>2, <2>3
<1>6. Fine(n)
  <2>1. Nat \subseteq S
    <3> HIDE DEF S
    <3> QED
      BY <1>4, <1>5, NatSetInduction
  <2> QED
    BY <2>1
<1>7. p[up[n]] = up[n]
  <2>1. root[i] \in Tops(p, n)
    BY DEF Rooted, Tops
  <2>2. Cardinality(Tops(p, n)) \in Nat /\ Cardinality(Tops(p, n)) >= 1
    BY <2>1, TopsAreFinite
  <2>3. depth[i] <= n - Cardinality(Tops(p, n)) /\ depth[i] \in Nat /\ depth[up[n]] \in Nat
    BY <1>6 DEF Rooted
  <2> QED
    BY <1>6, <2>2, <2>3
<1> QED
  BY <1>3, <1>6, <1>7 DEF Rooted

LEMMA NumberedIsRooted ==
  ASSUME NEW n \in Nat
  PROVE  Rooted(Numbered(n), [x \in 1..n |-> x], [x \in 1..n |-> 0], n)
<1>1. Tops(Numbered(n), n) = 1..n
  BY DEF Tops, Numbered
<1>2. Cardinality(Tops(Numbered(n), n)) = n
  BY <1>1, FS_Interval
<1> QED
  BY <1>2 DEF Rooted, Numbered

(* union puts the tree of the one entry under the root of the other, and       *)
(* leaves the rest.                                                            *)
MergedRoots(root, i, j, n) == [x \in 1..n |-> IF root[x] = root[i] THEN root[j] ELSE root[x]]

LEMMA UnionIsRooted ==
  ASSUME NEW n \in Nat, NEW p, NEW root, NEW depth, Rooted(p, root, depth, n),
         NEW i \in 1..n, NEW j \in 1..n
  PROVE  \E deep : Rooted(Union(p, i, j), MergedRoots(root, i, j, n), deep, n)
<1> DEFINE r == root[i]
           t == root[j]
           q == Union(p, i, j)
           roots == MergedRoots(root, i, j, n)
<1>1. q = [p EXCEPT ![r] = t]
  <2>1. Root(p, i) = r /\ Root(p, j) = t
    BY RootFound
  <2> QED
    BY <2>1, Zenon DEF Union
<1>2. /\ r \in 1..n /\ t \in 1..n /\ p[r] = r /\ p[t] = t /\ root[r] = r /\ root[t] = t
      /\ p \in [1..n -> 1..n]
  BY DEF Rooted
<1>3. CASE r = t
  <2>1. q = p
    BY <1>1, <1>2, <1>3
  <2>2. roots = root
    BY <1>3 DEF MergedRoots, Rooted
  <2>3. Rooted(q, roots, depth, n)
    BY <2>1, <2>2
  <2> HIDE DEF q, roots
  <2>4. \E deep : Rooted(q, roots, deep, n)
    BY <2>3
  <2> QED
    BY <2>4 DEF q, roots
<1>4. CASE r # t
  <2> DEFINE deep == [x \in 1..n |-> IF root[x] = r THEN depth[x] + 1 ELSE depth[x]]
  <2>1. /\ q \in [1..n -> 1..n] /\ q[r] = t /\ \A x \in 1..n : x # r => q[x] = p[x]
    BY <1>1, <1>2
  <2>2. Tops(q, n) = Tops(p, n) \ {r} /\ r \in Tops(p, n)
    BY <1>2, <1>4, <2>1 DEF Tops
  <2>3. Cardinality(Tops(q, n)) = Cardinality(Tops(p, n)) - 1
    BY <2>2, TopsAreFinite, FS_RemoveElement
  <2>4. Cardinality(Tops(p, n)) \in Nat
    BY TopsAreFinite
  <2>5. roots \in [1..n -> 1..n] /\ deep \in [1..n -> Nat]
    <3>1. \A x \in 1..n : root[x] \in 1..n /\ depth[x] \in Nat /\ depth[x] + 1 \in Nat
      <4>1. root \in [1..n -> 1..n] /\ depth \in [1..n -> Nat]
        BY DEF Rooted
      <4> HIDE DEF deep, roots, q
      <4> QED
        BY <4>1
    <3>2. roots \in [1..n -> 1..n]
      BY <1>2, <3>1 DEF MergedRoots
    <3>3. deep \in [1..n -> Nat]
      BY <3>1
    <3> QED
      BY <3>2, <3>3
  <2>6. ASSUME NEW x \in 1..n
        PROVE  /\ q[roots[x]] = roots[x] /\ roots[q[x]] = roots[x]
               /\ q[x] = x => roots[x] = x /\ deep[x] = 0
               /\ q[x] # x => deep[q[x]] < deep[x]
               /\ deep[x] <= n - Cardinality(Tops(q, n))
    <3>1. /\ p[root[x]] = root[x] /\ root[p[x]] = root[x] /\ root[x] \in 1..n /\ p[x] \in 1..n
          /\ p[x] = x => root[x] = x /\ depth[x] = 0
          /\ p[x] # x => depth[p[x]] < depth[x]
          /\ depth[x] <= n - Cardinality(Tops(p, n))
          /\ depth[x] \in Nat /\ depth[p[x]] \in Nat /\ depth[t] = 0
      BY <1>2 DEF Rooted
    <3>2. roots[x] = IF root[x] = r THEN t ELSE root[x]
      BY DEF MergedRoots
    <3>3. deep[x] = IF root[x] = r THEN depth[x] + 1 ELSE depth[x]
      OBVIOUS
    <3>4. q[roots[x]] = roots[x]
      BY <1>2, <1>4, <2>1, <3>1, <3>2
    <3>5. deep[x] <= n - Cardinality(Tops(q, n))
      BY <2>3, <2>4, <3>1, <3>3
    <3>6. CASE x = r
      <4>1. q[x] = t /\ root[x] = r /\ deep[x] = depth[x] + 1
        BY <1>2, <2>1, <3>3, <3>6
      <4>2. roots[t] = t /\ deep[t] = 0
        BY <1>2, <1>4, <3>1 DEF MergedRoots
      <4> QED
        BY <1>4, <3>1, <3>2, <3>4, <3>5, <3>6, <4>1, <4>2
    <3>7. CASE x # r
      <4>1. q[x] = p[x] /\ roots[p[x]] = IF root[x] = r THEN t ELSE root[x]
        BY <2>1, <3>1, <3>7 DEF MergedRoots
      <4>2. deep[p[x]] = IF root[x] = r THEN depth[p[x]] + 1 ELSE depth[p[x]]
        BY <3>1
      <4> HIDE DEF deep, roots, q
      <4> QED
        BY <3>1, <3>2, <3>3, <3>4, <3>5, <3>7, <4>1, <4>2
    <3> QED
      BY <3>6, <3>7
  <2>7. Rooted(q, roots, deep, n)
    <3> HIDE DEF q, roots, deep
    <3> QED
      BY <2>1, <2>5, <2>6 DEF Rooted
  <2> HIDE DEF q, roots, deep
  <2>8. \E d : Rooted(q, roots, d, n)
    BY <2>7
  <2> QED
    BY <2>8 DEF q, roots
<1> QED
  BY <1>3, <1>4

-----------------------------------------------------------------------------
(* Chains of linked entries, of any length. *)
Path(s, path, m, i, j) ==
  /\ path \in [1..m -> 1..Len(s)] /\ path[1] = i /\ path[m] = j
  /\ \A k \in 1..(m - 1) : Linked(s[path[k]], s[path[k + 1]])

Reached(s, i, j) == \E m \in Nat \ {0} : \E path : Path(s, path, m, i, j)

LEMMA LinksAreMutual == \A e, f : Linked(e, f) => Linked(f, e)
BY Zenon DEF Linked

LEMMA ReachedItself ==
  ASSUME NEW s, NEW i \in 1..Len(s)
  PROVE  Reached(s, i, i)
<1> DEFINE path == [k \in 1..1 |-> i]
<1>1. Path(s, path, 1, i, i)
  BY DEF Path
<1> HIDE DEF path
<1>2. \E m \in Nat \ {0} : \E q : Path(s, q, m, i, i)
  <2>1. 1 \in Nat \ {0}
    OBVIOUS
  <2> QED
    BY <1>1, <2>1, Zenon
<1> QED
  BY <1>2 DEF Reached

LEMMA ReachedByLink ==
  ASSUME NEW s, NEW i \in 1..Len(s), NEW j \in 1..Len(s), Linked(s[i], s[j])
  PROVE  Reached(s, i, j)
<1> DEFINE path == [k \in 1..2 |-> IF k = 1 THEN i ELSE j]
<1>1. Path(s, path, 2, i, j)
  BY DEF Path
<1> HIDE DEF path
<1>2. 2 \in Nat \ {0}
  OBVIOUS
<1> QED
  BY <1>1, <1>2, Zenon DEF Reached

LEMMA ReachedBack ==
  ASSUME NEW s, NEW i, NEW j, Reached(s, i, j)
  PROVE  Reached(s, j, i)
<1>1. PICK m \in Nat \ {0} : \E path : Path(s, path, m, i, j)
  BY Zenon DEF Reached
<1>2. PICK path : Path(s, path, m, i, j)
  BY <1>1
<1> DEFINE back == [k \in 1..m |-> path[m + 1 - k]]
<1>3. back \in [1..m -> 1..Len(s)] /\ back[1] = j /\ back[m] = i
  BY <1>2 DEF Path
<1>4. ASSUME NEW k \in 1..(m - 1)
      PROVE  Linked(s[back[k]], s[back[k + 1]])
  <2>1. /\ m - k \in 1..(m - 1) /\ back[k] = path[m - k + 1] /\ back[k + 1] = path[m - k]
    OBVIOUS
  <2>2. Linked(s[path[m - k]], s[path[m - k + 1]])
    BY <1>2, <2>1, Zenon DEF Path
  <2> HIDE DEF back
  <2> QED
    BY <2>1, <2>2, LinksAreMutual, Zenon
<1>5. Path(s, back, m, j, i)
  BY <1>3, <1>4, Zenon DEF Path
<1> HIDE DEF back
<1> QED
  BY <1>5, Zenon DEF Reached

LEMMA ReachedOn ==
  ASSUME NEW s, NEW i, NEW j, NEW l, Reached(s, i, j), Reached(s, j, l)
  PROVE  Reached(s, i, l)
<1>1. PICK m \in Nat \ {0} : \E path : Path(s, path, m, i, j)
  BY Zenon DEF Reached
<1>2. PICK path : Path(s, path, m, i, j)
  BY <1>1
<1>3. PICK c \in Nat \ {0} : \E more : Path(s, more, c, j, l)
  BY Zenon DEF Reached
<1>4. PICK more : Path(s, more, c, j, l)
  BY <1>3
<1> DEFINE whole == [k \in 1..(m + c - 1) |-> IF k <= m THEN path[k] ELSE more[k - m + 1]]
<1>5. whole \in [1..(m + c - 1) -> 1..Len(s)] /\ whole[1] = i /\ whole[m + c - 1] = l
  <2>1. /\ path \in [1..m -> 1..Len(s)] /\ path[1] = i /\ path[m] = j
        /\ more \in [1..c -> 1..Len(s)] /\ more[1] = j /\ more[c] = l
    BY <1>2, <1>4, Zenon DEF Path
  <2> PICK E : E = 1..Len(s)
    OBVIOUS
  <2>2. \A k \in 1..m : path[k] \in E
    BY <2>1
  <2>3. \A k \in 1..c : more[k] \in E
    BY <2>1
  <2>4. whole \in [1..(m + c - 1) -> E]
    BY <2>2, <2>3
  <2>5. whole[m + c - 1] = l
    <3>1. CASE c = 1
      BY <2>1, <3>1
    <3>2. CASE c # 1
      BY <2>1, <3>2
    <3> QED
      BY <3>1, <3>2
  <2> QED
    BY <2>1, <2>4, <2>5
<1>6. ASSUME NEW k \in 1..(m + c - 2)
      PROVE  Linked(s[whole[k]], s[whole[k + 1]])
  <2>1. CASE k < m
    <3>1. k \in 1..(m - 1) /\ whole[k] = path[k] /\ whole[k + 1] = path[k + 1]
      BY <2>1
    <3> QED
      BY <1>2, <3>1, Zenon DEF Path
  <2>2. CASE k >= m
    <3>1. k - m + 1 \in 1..(c - 1) /\ whole[k + 1] = more[k - m + 1 + 1]
      BY <2>2
    <3>2. whole[k] = more[k - m + 1]
      BY <1>2, <1>4, <2>2 DEF Path
    <3> QED
      BY <1>4, <3>1, <3>2, Zenon DEF Path
  <2> QED
    BY <2>1, <2>2
<1>7. Path(s, whole, m + c - 1, i, l)
  <2>1. \A k \in 1..(m + c - 1 - 1) : k \in 1..(m + c - 2)
    OBVIOUS
  <2> HIDE DEF whole
  <2>2. \A k \in 1..(m + c - 1 - 1) : Linked(s[whole[k]], s[whole[k + 1]])
    BY <1>6, <2>1, Zenon
  <2> QED
    BY <1>5, <2>2 DEF Path
<1>8. m + c - 1 \in Nat \ {0}
  OBVIOUS
<1> HIDE DEF whole
<1> QED
  BY <1>7, <1>8, Zenon DEF Reached

LEMMA TwoAlike ==
  ASSUME NEW m \in Nat, NEW n \in Nat, n < m, NEW f \in [1..m -> 1..n]
  PROVE  \E a, b \in 1..m : a < b /\ f[a] = f[b]
<1>1. IsFiniteSet(1..m) /\ Cardinality(1..m) = m
  BY FS_Interval
<1>2. IsFiniteSet(1..n) /\ Cardinality(1..n) = n
  BY FS_Interval
<1>3. \E a, b \in 1..m : a # b /\ f[a] = f[b]
  <2> DEFINE S == 1..m
             T == 1..n
  <2>1. IsFiniteSet(S) /\ IsFiniteSet(T) /\ Cardinality(T) < Cardinality(S) /\ f \in [S -> T]
    BY <1>1, <1>2
  <2> HIDE DEF S, T
  <2>2. \E a, b \in S : a # b /\ f[a] = f[b]
    BY <2>1, FS_PigeonHole
  <2> QED
    BY <2>2 DEF S
<1> QED
  BY <1>3

(* A path that is longer than there are entries comes twice by one of them,    *)
(* and the part between can be left out.                                       *)
LEMMA PathsAreCut ==
  ASSUME NEW s, NEW m \in Nat \ {0}, NEW path, NEW i, NEW j, Path(s, path, m, i, j),
         NEW a \in 1..m, NEW b \in 1..m, a < b, path[a] = path[b]
  PROVE  \E c \in Nat \ {0} : c < m /\ \E cut : Path(s, cut, c, i, j)
<1> DEFINE d == b - a
           c == m - d
           cut == [k \in 1..c |-> IF k <= a THEN path[k] ELSE path[k + d]]
<1>1. /\ d \in 1..(m - 1) /\ c \in Nat \ {0} /\ c < m /\ a <= c /\ c \in Nat
      /\ a + d = b /\ c + d = m /\ d \in Nat
  OBVIOUS
<1>2. path \in [1..m -> 1..Len(s)] /\ path[1] = i /\ path[m] = j
  BY DEF Path
<1> HIDE DEF d, c
<1>3. ASSUME NEW k \in 1..c
      PROVE  cut[k] = (IF k <= a THEN path[k] ELSE path[k + d]) /\ k \in 1..m
             /\ (k > a => k + d \in 1..m) /\ (k = a => cut[k] = path[k + d])
  BY <1>1
<1>4. cut \in [1..c -> 1..Len(s)]
  BY <1>2, <1>3
<1>5. cut[1] = i /\ cut[c] = j
  <2>1. 1 \in 1..c /\ 1 <= a /\ c \in 1..c
    BY <1>1
  <2>2. CASE c = a
    BY <1>1, <1>2, <1>3, <2>1, <2>2
  <2>3. CASE c # a
    BY <1>1, <1>2, <1>3, <2>1, <2>3
  <2> QED
    BY <2>2, <2>3
<1>6. ASSUME NEW k \in 1..(c - 1)
      PROVE  Linked(s[cut[k]], s[cut[k + 1]])
  <2>1. k \in 1..c /\ k + 1 \in 1..c
    BY <1>1
  <2>2. CASE k < a
    <3>1. cut[k] = path[k] /\ cut[k + 1] = path[k + 1] /\ k \in 1..(m - 1)
      BY <1>1, <1>3, <2>1, <2>2
    <3> QED
      BY <3>1, Zenon DEF Path
  <2>3. CASE k >= a
    <3>1. cut[k] = path[k + d]
      BY <1>1, <1>3, <2>1, <2>3
    <3>2. cut[k + 1] = path[k + d + 1] /\ k + d \in 1..(m - 1)
      BY <1>1, <1>3, <2>1, <2>3
    <3> QED
      BY <3>1, <3>2, Zenon DEF Path
  <2> QED
    BY <2>2, <2>3
<1> HIDE DEF cut
<1>7. Path(s, cut, c, i, j)
  BY <1>4, <1>5, <1>6, Zenon DEF Path
<1> QED
  BY <1>1, <1>7, Zenon

(* So whoever can be reached can be reached on a path of the entries' number.  *)
LEMMA ReachedShortly ==
  ASSUME NEW s, Len(s) \in Nat, NEW i, NEW j, Reached(s, i, j)
  PROVE  \E m \in 1..Len(s) : \E path : Path(s, path, m, i, j)
<1> DEFINE Lengths == {m \in Nat \ {0} : \E path : Path(s, path, m, i, j)}
<1>1. Lengths \subseteq Nat /\ Lengths # {}
  BY Zenon DEF Reached
<1>2. PICK m \in Lengths : \A y \in Lengths : m <= y
  <2> HIDE DEF Lengths
  <2> QED
    BY <1>1, LeastNumber, Zenon
<1>3. PICK path : Path(s, path, m, i, j)
  BY <1>2
<1>4. m \in Nat \ {0}
  BY <1>2
<1>5. m <= Len(s)
  <2> SUFFICES ASSUME m > Len(s) PROVE FALSE
    BY <1>4
  <2>1. path \in [1..m -> 1..Len(s)]
    BY <1>3, Zenon DEF Path
  <2>2. Len(s) < m /\ m \in Nat
    BY <1>4
  <2>6. \E a, b \in 1..m : a < b /\ path[a] = path[b]
    BY <2>1, <2>2, TwoAlike, Zenon
  <2>7. \E c \in Nat \ {0} : c < m /\ \E cut : Path(s, cut, c, i, j)
    BY <1>3, <1>4, <2>6, PathsAreCut, Zenon
  <2>8. PICK c \in Nat \ {0} : c < m /\ \E cut : Path(s, cut, c, i, j)
    BY <2>7
  <2>9. m <= c
    BY <1>2, <2>8
  <2> QED
    BY <1>4, <2>8, <2>9
<1> QED
  BY <1>3, <1>4, <1>5

LEMMA ChainsReach ==
  ASSUME Len(Scanned) \in Nat, DOMAIN Scanned = 1..Len(Scanned), NEW i, NEW j
  PROVE  Chained(i, j) <=> Reached(Scanned, i, j)
<1> DEFINE s == Scanned
           n == Len(s)
<1>1. ASSUME Chained(i, j) PROVE Reached(s, i, j)
  <2>1. PICK path \in UNION {[1..m -> 1..n] : m \in 1..n} :
          /\ path[1] = i /\ path[Len(path)] = j
          /\ \A k \in 1..(Len(path) - 1) : Linked(s[path[k]], s[path[k + 1]])
    BY <1>1, Zenon DEF Chained
  <2>2. PICK m \in 1..n : path \in [1..m -> 1..n]
    BY <2>1
  <2>3. Len(path) = m /\ m \in Nat \ {0}
    BY <2>2
  <2>4. Path(s, path, m, i, j)
    BY <2>1, <2>2, <2>3, Zenon DEF Path
  <2> QED
    BY <2>3, <2>4, Zenon DEF Reached
<1>2. ASSUME Reached(s, i, j) PROVE Chained(i, j)
  <2>1. PICK m \in 1..n : \E path : Path(s, path, m, i, j)
    BY <1>2, ReachedShortly
  <2>2. PICK path : Path(s, path, m, i, j)
    BY <2>1
  <2>3. path \in [1..m -> 1..n]
    BY <2>2, Zenon DEF Path
  <2>4. Len(path) = m
    BY <2>3
  <2>5. path \in UNION {[1..k -> 1..n] : k \in 1..n}
    BY <2>3
  <2>6. /\ path[1] = i /\ path[Len(path)] = j
        /\ \A k \in 1..(Len(path) - 1) : Linked(s[path[k]], s[path[k + 1]])
    BY <2>2, <2>4, Zenon DEF Path
  <2> QED
    BY <2>5, <2>6, Zenon DEF Chained
<1> QED
  BY <1>1, <1>2

-----------------------------------------------------------------------------
(* The two loops of group_cases, as one over the pairs. *)
Left(q, n) == ((q - 1) \div n) + 1
Right(q, n) == ((q - 1) % n) + 1

LEMMA PairsAreEntries ==
  ASSUME NEW n \in Nat, NEW q \in 1..(n * n)
  PROVE  Left(q, n) \in 1..n /\ Right(q, n) \in 1..n
<1>1. n > 0
  BY SMTT(20)
<1> DEFINE d == (q - 1) \div n
           r == (q - 1) % n
<1>2. d \in Int /\ r \in 0..(n - 1) /\ q - 1 = n * d + r
  BY <1>1
<1> HIDE DEF d, r
<1>3. ASSUME d >= n PROVE FALSE
  <2>1. n * d >= n * n
    BY <1>1, <1>2, <1>3, SMTT(20)
  <2> QED
    BY <1>2, <2>1
<1>4. ASSUME d < 0 PROVE FALSE
  <2>1. n * d <= n * (-1)
    BY <1>1, <1>2, <1>4, SMTT(20)
  <2> QED
    BY <1>2, <2>1
<1> QED
  BY <1>2, <1>3, <1>4 DEF Left, Right, d, r

LEMMA EveryPair ==
  ASSUME NEW n \in Nat, NEW a \in 1..n, NEW b \in 1..n
  PROVE  \E q \in 1..(n * n) : Left(q, n) = a /\ Right(q, n) = b
<1> DEFINE q == n * (a - 1) + b
<1>1. q - 1 = n * (a - 1) + (b - 1) /\ b - 1 \in 0..(n - 1) /\ n > 0 /\ a - 1 \in Nat /\ q \in Int
  OBVIOUS
<1>2. n * (a - 1) <= n * (n - 1) /\ n * (n - 1) = n * n - n /\ n * (a - 1) >= 0
  BY SMTT(20)
<1>3. q \in 1..(n * n)
  BY <1>1, <1>2
<1>4. (q - 1) \div n = a - 1 /\ (q - 1) % n = b - 1
  BY <1>1, SMTT(20)
<1> HIDE DEF q
<1>5. Left(q, n) = a /\ Right(q, n) = b
  BY <1>4 DEF Left, Right
<1> QED
  BY <1>3, <1>5

-----------------------------------------------------------------------------
(* The forest after each pair. *)
Growth(s, n) ==
  CHOOSE grow : grow = [p \in 0..(n * n) |->
        IF p = 0 THEN Numbered(n)
        ELSE LET i == ((p - 1) \div n) + 1
                 j == ((p - 1) % n) + 1
             IN IF i < j /\ Linked(s[i], s[j])
                THEN Union(grow[p - 1], i, j) ELSE grow[p - 1]]

LEMMA ForestIs == Forest = Growth(Scanned, Len(Scanned))[Len(Scanned) * Len(Scanned)]
BY Zenon DEF Forest, Growth

Joins(s, q, n) == Left(q, n) < Right(q, n) /\ Linked(s[Left(q, n)], s[Right(q, n)])
Step(s, forest, q, n) ==
  IF Joins(s, q, n) THEN Union(forest, Left(q, n), Right(q, n)) ELSE forest

LEMMA GrowthIs ==
  ASSUME NEW s, NEW n \in Nat
  PROVE  LET grow == Growth(s, n)
         IN  grow[0] = Numbered(n) /\ \A q \in 1..(n * n) : grow[q] = Step(s, grow[q - 1], q, n)
<1> DEFINE Is(f, m) == f = [q \in 0..m |-> IF q = 0 THEN Numbered(n) ELSE Step(s, f[q - 1], q, n)]
           S == {m \in Nat : \E f : Is(f, m)}
<1>1. 0 \in S
  <2> DEFINE f == [q \in 0..0 |-> Numbered(n)]
  <2>1. Is(f, 0)
    OBVIOUS
  <2>2. \E g : Is(g, 0)
    <3> HIDE DEF f, Is
    <3> QED
      BY <2>1
  <2> QED
    BY <2>2
<1>2. ASSUME NEW m \in Nat, m \in S
      PROVE  m + 1 \in S
  <2>1. PICK f : Is(f, m)
    BY <1>2
  <2> DEFINE g == [q \in 0..(m + 1) |-> IF q = m + 1 THEN Step(s, f[m], m + 1, n) ELSE f[q]]
  <2>2. \A q \in 0..(m + 1) : g[q] = IF q = 0 THEN Numbered(n) ELSE Step(s, g[q - 1], q, n)
    BY <2>1
  <2>3. Is(g, m + 1)
    BY <2>2
  <2>4. \E h : Is(h, m + 1)
    <3> HIDE DEF g, Is
    <3> QED
      BY <2>3
  <2> QED
    BY <2>4
<1>3. \E f : Is(f, n * n)
  <2>1. Nat \subseteq S
    <3> HIDE DEF S
    <3> QED
      BY <1>1, <1>2, NatSetInduction
  <2>2. n * n \in Nat
    OBVIOUS
  <2> HIDE DEF Is
  <2> QED
    BY <2>1, <2>2
<1> DEFINE grow == Growth(s, n)
<1>4. Is(grow, n * n)
  BY <1>3, Zenon DEF Growth, Step, Joins, Left, Right
<1> HIDE DEF grow
<1> QED
  BY <1>4 DEF grow

(* After q pairs the roots tell who has been reached, and every pair that was  *)
(* joined has one root.                                                        *)
Told(s, root, q, n) ==
  /\ \A x, y \in 1..n : root[x] = root[y] => Reached(s, x, y)
  /\ \A p \in 1..q : Joins(s, p, n) => root[Left(p, n)] = root[Right(p, n)]

Grown(s, forest, q, n) ==
  \E root, depth : Rooted(forest, root, depth, n) /\ Told(s, root, q, n)

LEMMA GrownFirst ==
  ASSUME NEW s, Len(s) \in Nat
  PROVE  Grown(s, Numbered(Len(s)), 0, Len(s))
<1> DEFINE n == Len(s)
           root == [x \in 1..n |-> x]
           depth == [x \in 1..n |-> 0]
<1>1. Rooted(Numbered(n), root, depth, n)
  BY NumberedIsRooted
<1>2. Told(s, root, 0, n)
  <2>1. \A x \in 1..n : Reached(s, x, x)
    BY ReachedItself
  <2>2. 1..0 = {}
    OBVIOUS
  <2> QED
    BY <2>1, <2>2 DEF Told
<1> HIDE DEF root, depth
<1> QED
  BY <1>1, <1>2, Zenon DEF Grown

LEMMA MergedAreTold ==
  ASSUME NEW s, Len(s) \in Nat, NEW q \in Nat, q + 1 \in 1..(Len(s) * Len(s)),
         NEW root \in [1..Len(s) -> 1..Len(s)], Told(s, root, q, Len(s)), Joins(s, q + 1, Len(s))
  PROVE  Told(s, MergedRoots(root, Left(q + 1, Len(s)), Right(q + 1, Len(s)), Len(s)), q + 1, Len(s))
<1> DEFINE n == Len(s)
           i == Left(q + 1, n)
           j == Right(q + 1, n)
           roots == MergedRoots(root, i, j, n)
<1>1. i \in 1..n /\ j \in 1..n
  BY PairsAreEntries
<1>2. Reached(s, i, j) /\ Reached(s, j, i)
  <2>1. Linked(s[i], s[j])
    BY DEF Joins
  <2>2. Reached(s, i, j)
    <3> HIDE DEF i, j
    <3> QED
      BY <1>1, <2>1, ReachedByLink
  <2> QED
    BY <2>2, ReachedBack
<1>3. \A x, y \in 1..n : root[x] = root[y] => Reached(s, x, y)
  BY Zenon DEF Told
<1>4. \A p \in 1..q : Joins(s, p, n) => root[Left(p, n)] = root[Right(p, n)]
  BY Zenon DEF Told
<1> HIDE DEF i, j, n
<1>5. \A x \in 1..n : roots[x] = IF root[x] = root[i] THEN root[j] ELSE root[x]
  BY DEF MergedRoots
<1> HIDE DEF roots
<1>6. ASSUME NEW x \in 1..n, NEW y \in 1..n, roots[x] = roots[y]
      PROVE  Reached(s, x, y)
  <2>1. CASE root[x] = root[y]
    BY <1>3, <2>1, Zenon
  <2>2. CASE root[x] = root[i] /\ root[y] = root[j]
    <3>1. Reached(s, x, i) /\ Reached(s, j, y)
      BY <1>1, <1>3, <2>2, Zenon
    <3>2. Reached(s, x, j)
      BY <1>2, <3>1, ReachedOn, Zenon
    <3> QED
      BY <3>1, <3>2, ReachedOn, Zenon
  <2>3. CASE root[x] = root[j] /\ root[y] = root[i]
    <3>1. Reached(s, x, j) /\ Reached(s, i, y)
      BY <1>1, <1>3, <2>3, Zenon
    <3>2. Reached(s, x, i)
      BY <1>2, <3>1, ReachedOn, Zenon
    <3> QED
      BY <3>1, <3>2, ReachedOn, Zenon
  <2> QED
    BY <1>5, <1>6, <2>1, <2>2, <2>3
<1>7. ASSUME NEW p \in 1..(q + 1), Joins(s, p, n), Left(p, n) \in 1..n, Right(p, n) \in 1..n
      PROVE  roots[Left(p, n)] = roots[Right(p, n)]
  <2>1. CASE p \in 1..q
    BY <1>4, <1>5, <1>7, <2>1
  <2>2. CASE p = q + 1
    <3>1. Left(p, n) = i /\ Right(p, n) = j
      BY <2>2, Zenon DEF i, j
    <3>2. roots[i] = root[j] /\ roots[j] = root[j]
      BY <1>1, <1>5
    <3> QED
      BY <3>1, <3>2, Zenon
  <2> QED
    BY <2>1, <2>2
<1>8. \A p \in 1..(q + 1) : Left(p, n) \in 1..n /\ Right(p, n) \in 1..n
  <2>1. \A p \in 1..(q + 1) : p \in 1..(n * n)
    BY DEF n
  <2>2. n \in Nat
    BY DEF n
  <2> QED
    BY <2>1, <2>2, PairsAreEntries, Zenon
<1>9. Told(s, roots, q + 1, n)
  BY <1>6, <1>7, <1>8, Zenon DEF Told
<1> QED
  BY <1>9, Zenon DEF roots, i, j, n

LEMMA GrownOn ==
  ASSUME NEW s, Len(s) \in Nat, NEW q \in Nat, q + 1 \in 1..(Len(s) * Len(s)), NEW forest,
         Grown(s, forest, q, Len(s))
  PROVE  Grown(s, Step(s, forest, q + 1, Len(s)), q + 1, Len(s))
<1> DEFINE n == Len(s)
           i == Left(q + 1, n)
           j == Right(q + 1, n)
<1>1. PICK root, depth : Rooted(forest, root, depth, n) /\ Told(s, root, q, n)
  BY Zenon DEF Grown
<1>2. i \in 1..n /\ j \in 1..n
  BY PairsAreEntries
<1>3. CASE Joins(s, q + 1, n)
  <2>1. Told(s, MergedRoots(root, i, j, n), q + 1, n)
    <3>1. root \in [1..n -> 1..n]
      BY <1>1, Zenon DEF Rooted
    <3> QED
      BY <1>1, <1>3, <3>1, MergedAreTold
  <2>2. PICK deep : Rooted(Union(forest, i, j), MergedRoots(root, i, j, n), deep, n)
    <3> HIDE DEF i, j
    <3> QED
      BY <1>1, <1>2, UnionIsRooted
  <2>3. Step(s, forest, q + 1, n) = Union(forest, i, j)
    BY <1>3 DEF Step
  <2> HIDE DEF i, j
  <2> QED
    BY <2>1, <2>2, <2>3, Zenon DEF Grown
<1>4. CASE ~Joins(s, q + 1, n)
  <2>1. Step(s, forest, q + 1, n) = forest
    BY <1>4 DEF Step
  <2>2. \A p \in 1..(q + 1) : p \in 1..q \/ p = q + 1
    OBVIOUS
  <2>3. Told(s, root, q + 1, n)
    BY <1>1, <1>4, <2>2, Zenon DEF Told
  <2> QED
    BY <1>1, <2>1, <2>3, Zenon DEF Grown
<1> QED
  BY <1>3, <1>4

-----------------------------------------------------------------------------
(* The entries that _read_entries collects are a sequence. *)
Kept(lines, n) ==
  CHOOSE out : out = [k \in 0..n |->
        IF k = 0 THEN <<>>
        ELSE IF lines[k].hasAlert THEN Append(out[k - 1], lines[k]) ELSE out[k - 1]]

LEMMA KeptIs ==
  ASSUME NEW lines, NEW n \in Nat
  PROVE  LET out == Kept(lines, n)
         IN  out[0] = <<>> /\ \A k \in 1..n :
               out[k] = IF lines[k].hasAlert THEN Append(out[k - 1], lines[k]) ELSE out[k - 1]
<1> DEFINE Add(out, k) == IF lines[k].hasAlert THEN Append(out, lines[k]) ELSE out
           Is(f, m) == f = [k \in 0..m |-> IF k = 0 THEN <<>> ELSE Add(f[k - 1], k)]
           S == {m \in Nat : \E f : Is(f, m)}
<1>1. \E f : Is(f, n)
  <2> HIDE DEF Add
  <2>1. 0 \in S
    <3> DEFINE f == [k \in 0..0 |-> <<>>]
    <3>1. Is(f, 0)
      OBVIOUS
    <3>2. \E g : Is(g, 0)
      <4> HIDE DEF f, Is
      <4> QED
        BY <3>1
    <3> QED
      BY <3>2
  <2>2. ASSUME NEW m \in Nat, m \in S
        PROVE  m + 1 \in S
    <3>1. PICK f : Is(f, m)
      BY <2>2
    <3> DEFINE g == [k \in 0..(m + 1) |-> IF k = m + 1 THEN Add(f[m], m + 1) ELSE f[k]]
    <3>2. \A k \in 0..(m + 1) : g[k] = IF k = 0 THEN <<>> ELSE Add(g[k - 1], k)
      BY <3>1
    <3>3. Is(g, m + 1)
      BY <3>2
    <3>4. \E h : Is(h, m + 1)
      <4> HIDE DEF g, Is
      <4> QED
        BY <3>3
    <3> QED
      BY <3>4
  <2>3. Nat \subseteq S
    <3> HIDE DEF S
    <3> QED
      BY <2>1, <2>2, NatSetInduction
  <2> HIDE DEF Is
  <2> QED
    BY <2>3
<1> DEFINE out == Kept(lines, n)
<1>2. Is(out, n)
  BY <1>1, Zenon DEF Kept
<1>3. out[0] = <<>> /\ \A k \in 1..n : out[k] = Add(out[k - 1], k)
  <2> HIDE DEF out, Add
  <2> QED
    BY <1>2
<1> QED
  BY <1>3, Zenon

LEMMA ScannedIsSequence ==
  ASSUME log \in Seq(written)
  PROVE  Scanned \in Seq(written)
<1> DEFINE lines == IF Len(log) > Limit THEN SubSeq(log, Len(log) - Limit + 1, Len(log)) ELSE log
           n == Len(lines)
           out == Kept(lines, n)
<1>1. lines \in Seq(written)
  <2>1. Len(log) \in Nat
    BY LenProperties
  <2>2. CASE Len(log) > Limit
    <3>1. \A i \in (Len(log) - Limit + 1)..Len(log) : i \in 1..Len(log)
      BY <2>1, <2>2, LimitAssumption
    <3>2. SubSeq(log, Len(log) - Limit + 1, Len(log)) \in Seq(written)
      BY <2>1, <2>2, <3>1, LimitAssumption
    <3> QED
      BY <2>2, <3>2
  <2>3. CASE ~(Len(log) > Limit)
    BY <2>3
  <2> QED
    BY <2>2, <2>3
<1>2. Scanned = out[n]
  BY Zenon DEF Scanned, Kept
<1> HIDE DEF lines
<1>3. n \in Nat /\ \A k \in 1..n : lines[k] \in written
  BY <1>1, LenProperties, ElementOfSeq
<1> HIDE DEF n
<1>4. out[0] = <<>> /\ \A k \in 1..n :
        out[k] = IF lines[k].hasAlert THEN Append(out[k - 1], lines[k]) ELSE out[k - 1]
  BY <1>3, KeptIs, Zenon
<1> HIDE DEF out
<1> DEFINE S == {k \in Nat : k <= n => out[k] \in Seq(written)}
<1>5. 0 \in S
  BY <1>4, EmptySeq
<1>6. ASSUME NEW k \in Nat, k \in S
      PROVE  k + 1 \in S
  <2> SUFFICES ASSUME k + 1 <= n PROVE out[k + 1] \in Seq(written)
    OBVIOUS
  <2>1. /\ out[k] \in Seq(written) /\ lines[k + 1] \in written
        /\ out[k + 1] = IF lines[k + 1].hasAlert THEN Append(out[k], lines[k + 1]) ELSE out[k]
    <3>1. k <= n /\ k + 1 \in 1..n /\ k + 1 - 1 = k
      BY <1>3
    <3> QED
      BY <1>3, <1>4, <1>6, <3>1
  <2>2. Append(out[k], lines[k + 1]) \in Seq(written)
    BY <2>1, AppendProperties, Zenon
  <2> QED
    BY <2>1, <2>2
<1>7. n \in S
  <2>1. Nat \subseteq S
    <3> HIDE DEF S
    <3> QED
      BY <1>5, <1>6, NatSetInduction
  <2> QED
    BY <1>3, <2>1
<1> QED
  BY <1>2, <1>3, <1>7

-----------------------------------------------------------------------------
(* Once all pairs are through, equal roots are reached and reached entries     *)
(* have equal roots.                                                           *)
LEMMA GrownAll ==
  ASSUME NEW s, Len(s) \in Nat
  PROVE  Grown(s, Growth(s, Len(s))[Len(s) * Len(s)], Len(s) * Len(s), Len(s))
<1> PICK n \in Nat : n = Len(s)
  OBVIOUS
<1> PICK e \in Nat : e = n * n
  OBVIOUS
<1> PICK grow : grow = Growth(s, n)
  OBVIOUS
<1>1. grow[0] = Numbered(n) /\ \A q \in 1..e : grow[q] = Step(s, grow[q - 1], q, n)
  BY GrowthIs, Zenon
<1> DEFINE S == {q \in Nat : q <= e => Grown(s, grow[q], q, n)}
<1>2. 0 \in S
  BY <1>1, GrownFirst
<1>3. ASSUME NEW q \in Nat, q \in S
      PROVE  q + 1 \in S
  <2> SUFFICES ASSUME q + 1 <= e PROVE Grown(s, grow[q + 1], q + 1, n)
    OBVIOUS
  <2>1. q + 1 \in 1..e /\ q <= e /\ q + 1 - 1 = q
    OBVIOUS
  <2>2. Grown(s, grow[q], q, n)
    BY <1>3, <2>1
  <2>3. grow[q + 1] = Step(s, grow[q], q + 1, n)
    <3>1. grow[q + 1] = Step(s, grow[q + 1 - 1], q + 1, n)
      BY <1>1, <2>1
    <3> QED
      BY <2>1, <3>1
  <2>4. q + 1 \in 1..(Len(s) * Len(s)) /\ Grown(s, grow[q], q, Len(s))
    BY <2>1, <2>2, Zenon
  <2>5. Grown(s, Step(s, grow[q], q + 1, Len(s)), q + 1, Len(s))
    BY <2>4, GrownOn, Zenon
  <2> QED
    BY <2>3, <2>5, Zenon
<1>4. e \in S
  <2>1. Nat \subseteq S
    <3> HIDE DEF S
    <3> QED
      BY <1>2, <1>3, NatSetInduction
  <2> QED
    BY <2>1
<1> QED
  BY <1>4

LEMMA ReachedHaveOneRoot ==
  ASSUME NEW s, Len(s) \in Nat, NEW root, Told(s, root, Len(s) * Len(s), Len(s))
  PROVE  \A i, j : Reached(s, i, j) => root[i] = root[j]
<1> SUFFICES ASSUME NEW i, NEW j, Reached(s, i, j) PROVE root[i] = root[j]
  BY Zenon
<1>1. PICK m \in Nat \ {0} : \E path : Path(s, path, m, i, j)
  BY Zenon DEF Reached
<1>2. PICK path : Path(s, path, m, i, j)
  BY <1>1
<1>3. ASSUME NEW a \in 1..Len(s), NEW b \in 1..Len(s), Linked(s[a], s[b])
      PROVE  root[a] = root[b]
  <2>1. \A x, y \in 1..Len(s) : x < y /\ Linked(s[x], s[y]) => root[x] = root[y]
    <3> SUFFICES ASSUME NEW x \in 1..Len(s), NEW y \in 1..Len(s), x < y, Linked(s[x], s[y])
                 PROVE  root[x] = root[y]
      BY Zenon
    <3>1. PICK q \in 1..(Len(s) * Len(s)) : Left(q, Len(s)) = x /\ Right(q, Len(s)) = y
      BY EveryPair, Zenon
    <3>2. Joins(s, q, Len(s))
      BY <3>1, Zenon DEF Joins
    <3> QED
      BY <3>1, <3>2, Zenon DEF Told
  <2>2. CASE a < b
    BY <1>3, <2>1, <2>2, Zenon
  <2>3. CASE b < a
    BY <1>3, <2>1, <2>3, LinksAreMutual, Zenon
  <2>4. a < b \/ b < a \/ a = b
    OBVIOUS
  <2> QED
    BY <2>2, <2>3, <2>4, Zenon
<1>4. path \in [1..m -> 1..Len(s)] /\ path[1] = i /\ path[m] = j
  BY <1>2, Zenon DEF Path
<1>5. \A k \in 1..(m - 1) : root[path[k]] = root[path[k + 1]]
  <2> TAKE k \in 1..(m - 1)
  <2>1. k \in 1..m /\ k + 1 \in 1..m
    OBVIOUS
  <2>2. path[k] \in 1..Len(s) /\ path[k + 1] \in 1..Len(s)
    BY <1>4, <2>1, Zenon
  <2>3. Linked(s[path[k]], s[path[k + 1]])
    BY <1>2, Zenon DEF Path
  <2> QED
    BY <1>3, <2>2, <2>3, Zenon
<1> DEFINE S == {k \in Nat : k + 1 <= m => root[path[k + 1]] = root[i]}
<1>6. 0 \in S
  BY <1>4
<1>7. ASSUME NEW k \in Nat, k \in S
      PROVE  k + 1 \in S
  <2> SUFFICES ASSUME k + 1 + 1 <= m PROVE root[path[k + 1 + 1]] = root[i]
    OBVIOUS
  <2>1. k + 1 <= m /\ k + 1 \in 1..(m - 1)
    OBVIOUS
  <2>2. root[path[k + 1]] = root[i]
    BY <1>7, <2>1
  <2> QED
    BY <1>5, <2>1, <2>2, Zenon
<1>8. m - 1 \in S
  <2>1. Nat \subseteq S
    <3> HIDE DEF S
    <3> QED
      BY <1>6, <1>7, NatSetInduction
  <2>2. m - 1 \in Nat
    OBVIOUS
  <2> HIDE DEF S
  <2> QED
    BY <2>1, <2>2
<1>9. m - 1 + 1 = m /\ m - 1 + 1 <= m
  OBVIOUS
<1> QED
  BY <1>4, <1>8, <1>9

(* Two alerts are in one case exactly when a chain of shared hosts and users   *)
(* joins them (cases.py): the union of the pairs, in the order of the two      *)
(* loops and with the roots that find reaches, is the closure of the links,    *)
(* for every log, every limit the window spans, and any hosts and users.       *)
THEOREM CasesAreChainsHolds == LogSpec => []CasesAreChains
<1>1. ASSUME RotationInv PROVE CasesAreChains
  <2> PICK s : s = Scanned
    OBVIOUS
  <2>1. Scanned \in Seq(written)
    BY <1>1, ScannedIsSequence DEF RotationInv
  <2>2. Len(Scanned) \in Nat /\ DOMAIN Scanned = 1..Len(Scanned)
    BY <2>1, LenProperties
  <2>3. Grown(s, Forest, Len(s) * Len(s), Len(s))
    BY <2>2, GrownAll, ForestIs, Zenon
  <2>4. PICK root, depth : /\ Rooted(Forest, root, depth, Len(s))
                           /\ Told(s, root, Len(s) * Len(s), Len(s))
    BY <2>3, Zenon DEF Grown
  <2>5. ASSUME NEW i \in DOMAIN Scanned, NEW j \in DOMAIN Scanned
        PROVE  (j \in CaseAt(i)) <=> Chained(i, j)
    <3>1. i \in 1..Len(s) /\ j \in 1..Len(s)
      BY <2>2, <2>5, Zenon
    <3>2. Root(Forest, i) = root[i] /\ Root(Forest, j) = root[j]
      BY <2>2, <2>4, <3>1, RootFound, Zenon
    <3>3. (j \in CaseAt(i)) <=> root[j] = root[i]
      BY <2>5, <3>2, Zenon DEF CaseAt
    <3>4. root[i] = root[j] => Reached(s, i, j)
      BY <2>4, <3>1, Zenon DEF Told
    <3>5. Reached(s, i, j) => root[i] = root[j]
      <4>1. Len(s) \in Nat
        BY <2>2
      <4>2. Told(s, root, Len(s) * Len(s), Len(s))
        BY <2>4
      <4>3. \A x, y : Reached(s, x, y) => root[x] = root[y]
        BY <4>1, <4>2, ReachedHaveOneRoot
      <4> QED
        BY <4>3, Zenon
    <3>6. Chained(i, j) <=> Reached(s, i, j)
      BY <2>2, ChainsReach, Zenon
    <3> QED
      BY <3>3, <3>4, <3>5, <3>6, Zenon
  <2> QED
    BY <2>5, Zenon DEF CasesAreChains
<1>2. LogSpec => []LogInv
  BY LogInvHoldsFirst, LogInvIsKept, PTL DEF LogSpec
<1> QED
  BY <1>1, <1>2, PTL DEF LogInv
=============================================================================
