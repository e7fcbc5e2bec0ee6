----------------------------- MODULE TriageLoop -----------------------------
(* One alert on its way to a verdict: the tool loop of agent/triage_agent.py,  *)
(* the chat call under it with its bounded retries (llm/openai_compat_provider *)
(* .py) and its fallback to another model family (llm/freellmapi_provider.py), *)
(* and the decision whether a human must look (human_review_reasons).          *)
EXTENDS FiniteSets, Integers

CONSTANTS
  Settings,  \* the settings a process may be started with, a set of records with
             \*   turns       MAX_TOOL_TURNS
             \*   retries429  LLM_429_MAX_RETRIES
             \*   retries5xx  LLM_MAX_RETRIES
             \*   fallback    FREELLMAPI_FALLBACK_ENABLED with that provider
             \*   web         WEB_SEARCH_ENABLED
  Family     \* model families the gateway lists

VARIABLES
  env,    \* the settings of this process, read once at its start
  loop,   \* the triage: position, turn, what the transcript holds, its result
  llm     \* the chat call and the provider object that outlives it

triageVars == <<env, loop, llm>>

Primary == "primary"
NoFamily == "no family"

ASSUME TriageAssumption ==
  /\ \A s \in Settings : /\ s.turns \in Nat \ {0} /\ s.retries429 \in Nat
                         /\ s.retries5xx \in Nat /\ s.fallback \in BOOLEAN
                         /\ s.web \in BOOLEAN
  /\ {Primary, NoFamily} \cap Family = {}

NoResult == [verdict |-> "none", conf |-> "low", action |-> "none", error |-> ""]

(* One verdict stands for both that close an alert. *)
ValidVerdicts == {"false_positive", "escalate"}
Submitted == [verdict : ValidVerdicts \cup {"unknown"}, conf : {"low", "high", "nan"},
              action : {"close_no_action", "isolate_host"}]

IdleLoop == [pos |-> "idle", turn |-> 0, kb |-> FALSE, found |-> {},
             result |-> NoResult]

(* _post starts every request with full budgets. *)
FreshCall(m) == [model |-> m, left429 |-> env.retries429, left5xx |-> env.retries5xx,
                 posts |-> 0, limited |-> 0]

TriageInit ==
  /\ env \in Settings
  /\ loop = IdleLoop
  /\ llm = [call |-> FreshCall(Primary), routed |-> NoFamily, bad |-> {}]

(* TriageAgent.triage begins; the provider object may be a used one. *)
Triage ==
  /\ loop.pos = "idle"
  /\ loop' = [IdleLoop EXCEPT !.pos = "ask"]
  /\ UNCHANGED <<env, llm>>

-----------------------------------------------------------------------------
(* One POST and its answer.  Every counter below is of the request of one      *)
(* model; "posts" and "limited" count its attempts and its 429 answers.        *)
Posted == [llm.call EXCEPT !.posts = @ + 1]

NextTurn == IF loop.turn + 1 = env.turns THEN "exhausted" ELSE "ask"

(* Mutant: the nudge costs nothing. *)
AnswerFree(calls) ==
  /\ loop.pos = "ask"
  /\ llm' = [llm EXCEPT !.call = FreshCall(Primary)]
  /\ loop' = IF calls THEN [loop EXCEPT !.pos = "calls"] ELSE loop
  /\ UNCHANGED env

(* An answer without a tool call is met with a nudge and costs a turn. *)
Answer(calls) ==
  /\ loop.pos = "ask"
  /\ \E f \in (IF env.fallback THEN Family \cup {llm.routed} ELSE {llm.routed}) :
       llm' = [llm EXCEPT !.call = FreshCall(Primary), !.routed = f]
  /\ loop' = IF calls THEN [loop EXCEPT !.pos = "calls"]
             ELSE [loop EXCEPT !.pos = NextTurn, !.turn = @ + 1]
  /\ UNCHANGED env

Raises(error) ==
  /\ loop' = [loop EXCEPT !.pos = "raised", !.result = [@ EXCEPT !.error = error]]
  /\ llm' = [llm EXCEPT !.call = FreshCall(Primary),
                        !.bad = @ \cup ({llm.call.model} \ {Primary})]
  /\ UNCHANGED env

(* _select_fallback_model: any listed family but the last one that routed and  *)
(* those that failed lately; none when the list cannot be fetched.             *)
(* Mutant: the families that failed are forgotten. *)
CandidatesAll == IF env.fallback /\ llm.call.model = Primary
                 THEN Family \ {llm.routed} ELSE {}

Candidates == IF env.fallback /\ llm.call.model = Primary
              THEN Family \ ({llm.routed} \cup llm.bad) ELSE {}

(* HTTP 429: retried within its own budget, then the fallback, then raised. *)
(* Mutant: the 429 budget is not spent. *)
RateLimitedForever ==
  /\ loop.pos = "ask"
  /\ llm.call.posts < env.retries429 + env.retries5xx + 2
  /\ llm' = [llm EXCEPT !.call = [Posted EXCEPT !.limited = @ + 1]]
  /\ UNCHANGED <<env, loop>>

RateLimited ==
  /\ loop.pos = "ask"
  /\ LET c == [Posted EXCEPT !.limited = @ + 1] IN
     \/ /\ c.left429 > 0
        /\ llm' = [llm EXCEPT !.call = [c EXCEPT !.left429 = @ - 1]]
        /\ UNCHANGED <<env, loop>>
     \/ /\ c.left429 = 0
        /\ \/ \E f \in Candidates : llm' = [llm EXCEPT !.call = FreshCall(f)] /\ UNCHANGED <<env, loop>>
           \/ Raises("rate limited")

(* A 5xx answer or a network error: retried within the other budget.  When a   *)
(* fallback request fails, the caller gets the 429 of the primary.             *)
GatewayFails ==
  /\ loop.pos = "ask"
  /\ \/ /\ llm.call.left5xx > 0
        /\ llm' = [llm EXCEPT !.call = [Posted EXCEPT !.left5xx = @ - 1]]
        /\ UNCHANGED <<env, loop>>
     \/ /\ llm.call.left5xx = 0
        /\ Raises(IF llm.call.model = Primary THEN "gateway" ELSE "rate limited")

(* 401, 403, 400: never retried. *)
Denied ==
  /\ loop.pos = "ask"
  /\ Raises(IF llm.call.model = Primary THEN "denied" ELSE "rate limited")

(* The answer is no completion (no choices, no JSON): chat raises after the     *)
(* routing header was noted.                                                   *)
Unreadable ==
  /\ loop.pos = "ask"
  /\ loop' = [loop EXCEPT !.pos = "raised", !.result = [@ EXCEPT !.error = "unreadable"]]
  /\ llm' = [llm EXCEPT !.call = FreshCall(Primary)]
  /\ UNCHANGED env

(* _bad_families entries expire after FREELLMAPI_FALLBACK_MODELS_TTL. *)
Forgive(f) ==
  /\ f \in llm.bad /\ loop.pos = "ask" /\ llm.call.posts = 0
  /\ llm' = [llm EXCEPT !.bad = @ \ {f}]
  /\ UNCHANGED <<env, loop>>

-----------------------------------------------------------------------------
(* The calls of one answer are executed in order.  "found" is what the         *)
(* transcript holds: a document that humans wrote ("lesson"), one stored from  *)
(* the web and tagged so ("page"), the answer of a web search ("search"), and  *)
(* any other dict: an error, an event, host data ("other").                    *)
Finds(new, search) == loop' = [loop EXCEPT !.found = @ \cup new, !.kb = @ \/ search]

(* It finds a document of either kind, or nothing, or it fails. *)
Retrieve ==
  /\ loop.pos = "calls"
  /\ \E new \in {{"lesson"}, {"page"}, {}, {"other"}} : Finds(new, TRUE)
  /\ UNCHANGED <<env, llm>>

(* web_search answers with one dict of texts from the web, or with a dict that *)
(* says it is switched off or failed.                                          *)
WebSearch ==
  /\ loop.pos = "calls"
  /\ \E new \in {{"other"}} \cup (IF env.web THEN {{"search"}} ELSE {}) : Finds(new, FALSE)
  /\ UNCHANGED <<env, llm>>

OtherTool ==
  /\ loop.pos = "calls"
  /\ \E new \in {{}, {"other"}} : Finds(new, FALSE)
  /\ UNCHANGED <<env, llm>>

(* A malformed submit_verdict goes back to the model. *)
MalformedVerdict ==
  /\ loop.pos = "calls" /\ Finds({"other"}, FALSE) /\ UNCHANGED <<env, llm>>

EndOfAnswer ==
  /\ loop.pos = "calls"
  /\ loop' = [loop EXCEPT !.pos = NextTurn, !.turn = @ + 1]
  /\ UNCHANGED <<env, llm>>

(* min(confidence, 0.5): Python's min keeps a NaN that comes first. *)
Lowered(c) == IF c = "nan" THEN "nan" ELSE "low"

SubmitVerdict(v) ==
  /\ loop.pos = "calls"
  /\ loop' = [loop EXCEPT !.pos = "done", !.result =
       IF v.verdict \in ValidVerdicts
         THEN [verdict |-> v.verdict, conf |-> v.conf, action |-> v.action, error |-> ""]
         ELSE [verdict |-> "escalate", conf |-> Lowered(v.conf), action |-> "escalate_to_l2",
               error |-> "invalid verdict"]]
  /\ UNCHANGED <<env, llm>>

BudgetExhausted ==
  /\ loop.pos = "exhausted"
  /\ loop' = [loop EXCEPT !.pos = "done", !.result =
       [verdict |-> "escalate", conf |-> "low", action |-> "escalate_to_l2",
        error |-> "budget exhausted"]]
  /\ UNCHANGED <<env, llm>>

Chat == (\E calls \in BOOLEAN : Answer(calls)) \/ RateLimited \/ GatewayFails
        \/ Denied \/ Unreadable

(* The steps that end a call or a turn; more tool calls of one answer are the  *)
(* model's choice, their number is its answer's, which is finite.              *)
Concludes == EndOfAnswer \/ (\E v \in Submitted : SubmitVerdict(v)) \/ BudgetExhausted

TriageStep ==
  \/ Chat \/ (\E f \in Family : Forgive(f))
  \/ Retrieve \/ WebSearch \/ OtherTool \/ MalformedVerdict \/ Concludes

-----------------------------------------------------------------------------
(* _retrieved_kinds reads the kind off a document's metadata; a dict without   *)
(* metadata counts as unlabelled.  A web search carries its kind beside, not   *)
(* in, metadata.                                                               *)
HumanAuthored == {"playbook", "case", "lesson", "unlabelled"}

RetrievedKindsUntagged(found) == {"unlabelled" : f \in found}   \* mutant: the tag is not read

RetrievedKinds(found) ==
  {CASE f = "lesson" -> "lesson" [] f = "page" -> "web" [] OTHER -> "unlabelled" : f \in found}

(* human_review_reasons, for a result, whether a tool of the knowledge base    *)
(* was called, the transcript, and whether a triggered rule asks to escalate.  *)
NeedsHuman(r, kb, found, ruleEscalates) ==
  \/ r.verdict = "escalate"
  \/ r.conf = "low"                  \* confidence < threshold: false for a NaN
  \/ r.action = "isolate_host"
  \/ ruleEscalates
  \/ ~kb
  \/ RetrievedKinds(found) \cap HumanAuthored = {}

Closable(ruleEscalates) ==
  loop.pos = "done" /\ ~NeedsHuman(loop.result, loop.kb, loop.found, ruleEscalates)

(* An alert no human will look at was given up neither by the exhausted budget *)
(* nor by an invalid answer, and a web page laundered into the knowledge base  *)
(* is never all that its triage found there or elsewhere, whatever the order   *)
(* of retrievals, failures and malformed verdicts (triage_agent.py:68-76,      *)
(* 654-719, knowledge_base.py:39-50).                                          *)
StoredPagesNeverClose ==
  Closable(FALSE) => /\ loop.result.error = "" /\ loop.result.verdict = "false_positive"
                     /\ ~(loop.found \subseteq {"page"})

(* "web_search is external background and can NEVER corroborate a close"       *)
(* (triage_agent.py:143): more than texts of the web stands behind a verdict   *)
(* that no human will look at.                                                 *)
WebNeverCorroborates == Closable(FALSE) => ~(loop.found \subseteq {"page", "search"})

(* One chat call never hammers the gateway: no model gets more than            *)
(* LLM_429_MAX_RETRIES + 1 requests that are answered 429, nor more requests   *)
(* than both budgets allow (openai_compat_provider.py:183-199).                *)
RetriesBounded ==
  /\ llm.call.limited <= env.retries429 + 1
  /\ llm.call.posts <= env.retries429 + env.retries5xx + 1

(* A fallback goes to a family that neither routed the last answer nor failed  *)
(* lately, and a failing one is remembered (freellmapi_provider.py:92-119).    *)
FallbackAvoidsFailed ==
  [][loop.pos = "ask" /\ llm'.call.model \in Family /\ llm.call.model = Primary
       => /\ llm'.call.model \notin llm.bad /\ llm.call.limited = env.retries429]_triageVars
=============================================================================
