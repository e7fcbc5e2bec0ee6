---------------------------- MODULE EngineerLoop ----------------------------
(* One turn of the terminal's agents: the tool loops of agent/soc_engineer.py  *)
(* and agent/chat_agent.py, the middleware under their model client            *)
(* (cli/middleware.py), the delegation to a sub-agent (cli/agents.py) and the  *)
(* registry that turns a write into a proposal (tools/registry.py).  The top   *)
(* of "stack" is the agent that runs; the one below waits for its answer.      *)
EXTENDS FiniteSets, Integers, SequencesExt

CONSTANTS
  Settings,   \* the settings a session may have, a set of records with
              \*   turns, rounds   MAX_TOOL_TURNS, MAX_INTERNAL_ROUNDS
              \*   mode            the mode it starts in
              \*   calls, batch    the calls a model makes, how many at once
              \*   repl            an operator is there: not a one-shot run
              \*   prompts, commands  how many messages and slash commands
              \*                   the operator sends
              \*   lean            it starts with the token saving on
  SubAgent,   \* sub-agents: [base, limited, tools, calls] by name
  ExecuteLevel, \* the write tools of EXECUTE level
  Preparing,  \* the write tools that create something before they propose
  McpReads,   \* the MCP tools a server's configuration marks as read-only
  MaxProposals  \* bounds the proposals of a behaviour

VARIABLES
  env,     \* the settings of this session
  cli,     \* the session: mode, phase, memory of the operator's "always"
  stack,   \* the agents of the current turn
  center,  \* the proposals, in the order they were stored
  log,     \* what happened, for the properties only
  unasked  \* history: what was changed without the operator's word

loopVars == <<env, cli, stack, center, log, unasked>>

Base == {"analyst", "engineer"}

(* The session's own agent is no sub-agent, and every agent has one of the two *)
(* bases.                                                                      *)
ASSUME LoopAssumption ==
  /\ \A s \in Settings : s.turns \in Nat \ {0} /\ s.rounds \in Nat \ {0} /\ s.mode \in Base
  /\ "main" \notin DOMAIN SubAgent
  /\ \A name \in DOMAIN SubAgent : SubAgent[name].base \in Base /\ SubAgent[name].calls \in Nat

(* A call is <<kind, name>>; the kinds the registry knows are read and write. *)
Message(role, n) == [role |-> role, n |-> n]
Frame(agent, base, msgs) ==
  [agent |-> agent, base |-> base, turn |-> 0, round |-> 0, used |-> 0, msgs |-> msgs,
   size |-> 0, batch |-> <<>>, inside |-> FALSE, props |-> <<>>]

Top == Last(stack)
IsSub == Top.agent # "main"
WithTop(f) == Front(stack) \o <<f>>
Running == cli.phase = "turn"
Asking == Running /\ Top.batch = <<>>

(* Only the engineer's own messages become the history of the session. *)
Said(ms) == IF IsSub \/ Top.base = "analyst" THEN Top.msgs ELSE Top.msgs \o ms

-----------------------------------------------------------------------------
(* Plausible bugs, each found by a property: the rounds inside the middleware  *)
(* are not counted, a sub-agent's proposals are forgotten, its budget is tested *)
(* one call too late, the results are not kept for the next turn.              *)
HandledUncounted(f) == [f EXCEPT !.batch = Tail(@), !.inside = Len(f.batch) > 1]

BudgetUsedLate == IsSub /\ Top.used = SubAgent[Top.agent].calls + 1

ResultsOfOne == <<Message("tool", 0)>>

(* The middleware has the result of a call; after the last one of an answer    *)
(* its next round starts.                                                      *)
Handled(f) ==
  IF Len(f.batch) > 1 THEN [f EXCEPT !.batch = Tail(@)]
  ELSE [f EXCEPT !.batch = <<>>, !.size = 0, !.inside = FALSE, !.round = @ + 1]

(* The end of an agent.  A sub-agent's proposals are added to those of the     *)
(* turn; the main agent's result is what the operator is shown.                *)
SubReturnsNothing(ps, logged) ==
  /\ IsSub
  /\ IF Len(stack) = 2
     THEN stack' = <<Handled(stack[1])>> /\ log' = logged /\ UNCHANGED cli
     ELSE /\ stack' = <<>>
          /\ cli' = [cli EXCEPT !.phase = "prompt"]
          /\ log' = [logged EXCEPT !.listed = ToSet(ps)]

SubReturns(ps, logged) ==
  /\ IsSub
  /\ IF Len(stack) = 2
     THEN /\ stack' = <<Handled(stack[1])>>
          /\ cli' = [cli EXCEPT !.extra = @ \o ps]
          /\ log' = logged
     ELSE /\ stack' = <<>>
          /\ cli' = [cli EXCEPT !.phase = "prompt"]
          /\ log' = [logged EXCEPT !.listed = ToSet(ps)]

MainReturns(ps, ms, logged) ==
  /\ ~IsSub
  /\ stack' = <<>>
  /\ LET shown == ps \o cli.extra
         history == IF Top.base = "engineer" THEN ms
                    ELSE cli.history \o <<Message("user", 0), Message("text", 0)>>
     IN /\ cli' = [cli EXCEPT !.history = history, !.review = shown, !.seen = {},
                     !.phase = IF cli.inline /\ shown # <<>> THEN "review" ELSE "prompt"]
        /\ log' = [logged EXCEPT !.listed = ToSet(shown)]

Returns(ps, ms, logged) == SubReturns(ps, logged) \/ MainReturns(ps, ms, logged)

(* for _ in range(MAX_TOOL_TURNS): the next turn, or the budget is exhausted. *)
NextTurn(f, ms) ==
  IF Top.turn + 1 = env.turns
  THEN Returns(f.props, ms, log)
  ELSE /\ stack' = WithTop([f EXCEPT !.turn = @ + 1, !.round = 0, !.msgs = ms,
                                     !.size = 0, !.inside = FALSE])
       /\ UNCHANGED <<cli, log>>

-----------------------------------------------------------------------------
(* A text for an answer: for the analyst that is the reply, the engineer keeps *)
(* it and asks again.                                                          *)
TextAnswer(f) ==
  IF f.base = "analyst" THEN Returns(<<>>, <<>>, log)
  ELSE NextTurn(f, Said(<<Message("text", 0)>>))

(* Every answer of the model is counted, with calls or without. *)
Counted == [Top EXCEPT !.used = IF IsSub THEN @ + 1 ELSE @]

(* AgentLLM.chat answers for the model: no model call is left of a sub-agent's *)
(* budget, or too many rounds ran inside.                                      *)
BudgetUsed == IsSub /\ Top.used = SubAgent[Top.agent].calls
RoundsUsed == Top.round = env.rounds

Stopped ==
  /\ Asking
  /\ BudgetUsed \/ RoundsUsed
  /\ TextAnswer(Top)
  /\ UNCHANGED <<env, center, unasked>>

Asks == Asking /\ ~BudgetUsed /\ ~RoundsUsed

AnswersText ==
  /\ Asks
  /\ TextAnswer(Counted)
  /\ UNCHANGED <<env, center, unasked>>

(* A blank answer of the analyst's model costs a turn. *)
AnswersBlank ==
  /\ Asks
  /\ Top.base = "analyst"
  /\ NextTurn(Counted, Top.msgs)
  /\ UNCHANGED <<env, center, unasked>>

(* The provider fails.  The engineer's result of that has no proposals; the    *)
(* analyst raises, which _delegate catches and the terminal does not.          *)
Outage ==
  /\ Asks
  /\ IF IsSub \/ Top.base = "engineer"
     THEN Returns(<<>>, Top.msgs, [log EXCEPT !.outage = TRUE])
     ELSE /\ stack' = <<>>
          /\ cli' = [cli EXCEPT !.phase = "dead"]
          /\ log' = [log EXCEPT !.outage = TRUE]
  /\ UNCHANGED <<env, center, unasked>>

-----------------------------------------------------------------------------
(* The model makes calls.  Those the middleware knows, and those outside a     *)
(* sub-agent's list of tools, are handled inside it; next to one of them no    *)
(* other call of the answer is handed to the agent.  find_tools is there with  *)
(* the token saving, which a sub-agent with a list of tools is without, and    *)
(* with MCP tools, which no sub-agent has.                                     *)
Limited == IsSub /\ SubAgent[Top.agent].limited
McpConnected == \E c \in env.calls : c[1] = "mcp"

Virtual(c) ==
  \/ c[1] \in {"skill", "mcp"} /\ ~IsSub
  \/ c[1] = "delegate" /\ ~IsSub /\ cli.delegation
  \/ c[1] = "find" /\ \/ cli.lean /\ ~Limited
                      \/ McpConnected /\ ~IsSub
Permitted(c) == IsSub => \/ ~SubAgent[Top.agent].limited
                         \/ c[1] = "answer"
                         \/ c[2] \in SubAgent[Top.agent].tools
Intercepted(c) == Virtual(c) \/ ~Permitted(c)

AnswersCalls(cs) ==
  /\ Asks
  /\ LET inside == \E i \in 1..Len(cs) : Intercepted(cs[i])
         said == <<Message("calls", Len(cs))>>
     IN stack' = WithTop([Counted EXCEPT !.batch = cs, !.size = Len(cs), !.inside = inside,
                                         !.msgs = IF inside THEN @ ELSE Said(said)])
  /\ UNCHANGED <<env, cli, center, log, unasked>>

Handling == Running /\ Top.batch # <<>>
Call == Head(Top.batch)

(* load_skill, find_tools, a delegation to nobody or of an empty task, a call   *)
(* that is refused, or one that is sent back because it came along with calls  *)
(* of the middleware.                                                          *)
Nobody(c) == c[1] = "delegate" /\ c[2] \notin DOMAIN SubAgent

HandledInside ==
  /\ Handling
  /\ Top.inside
  /\ Virtual(Call) => Call[1] # "mcp"
  /\ stack' = WithTop(Handled(Top))
  /\ UNCHANGED <<env, cli, center, log, unasked>>

(* _delegate: a new agent with a fresh budget, which sees nothing of this      *)
(* conversation and cannot delegate.                                           *)
Delegates ==
  /\ Handling
  /\ Top.inside
  /\ Virtual(Call)
  /\ Call[1] = "delegate" /\ ~Nobody(Call)
  /\ stack' = Append(stack, Frame(Call[2], SubAgent[Call[2]].base, <<>>))
  /\ UNCHANGED <<env, cli, center, log, unasked>>

-----------------------------------------------------------------------------
(* _call_mcp: a tool that is not read-only asks the operator, once per call    *)
(* or, with "always", once per session.  Without an approver it is refused.    *)
McpCalled == Handling /\ Top.inside /\ Virtual(Call) /\ Call[1] = "mcp"
RunsUnasked(tool) == tool \in McpReads \cup cli.allowed

McpRuns ==
  /\ McpCalled
  /\ RunsUnasked(Call[2])
  /\ stack' = WithTop(Handled(Top))
  /\ unasked' = unasked \cup {c \in {Call} : c[2] \notin McpReads /\ ~env.repl}
  /\ UNCHANGED <<env, cli, center, log>>

McpRefused ==
  /\ McpCalled
  /\ ~RunsUnasked(Call[2])
  /\ ~env.repl
  /\ stack' = WithTop(Handled(Top))
  /\ UNCHANGED <<env, cli, center, log, unasked>>

(* mcp_approver's approve: run once, always this session, or deny. *)
McpAsked(choice) ==
  /\ McpCalled
  /\ ~RunsUnasked(Call[2])
  /\ env.repl
  /\ stack' = WithTop(Handled(Top))
  /\ cli' = IF choice = "a" THEN [cli EXCEPT !.allowed = @ \cup {Call[2]}] ELSE cli
  /\ UNCHANGED <<env, center, log, unasked>>

-----------------------------------------------------------------------------
(* A call the agent runs itself.                                               *)
Executing == Handling /\ ~Top.inside

(* answer_user ends the agent; the results before it are not kept. *)
AnswersUser ==
  /\ Executing
  /\ Call[1] = "answer"
  /\ Returns(Top.props, Said(<<Message("tool", 0)>>),
             [log EXCEPT !.dropped = @ \/ (~IsSub /\ Top.size > 1)])
  /\ UNCHANGED <<env, center, unasked>>

Results == [i \in 1..Top.size |-> Message("tool", 0)]

Executed(f) ==
  IF Len(f.batch) > 1
  THEN stack' = WithTop([f EXCEPT !.batch = Tail(@)]) /\ UNCHANGED <<cli, log>>
  ELSE NextTurn([f EXCEPT !.batch = <<>>], Said(Results))

(* What a tool changes at once: the analyst's own tools close alerts and write *)
(* lookup tables and providers; a write tool of the engineer may create what   *)
(* its proposal will refer to, an index pattern, before it asks for approval.  *)
ChangesAtOnce ==
  {c \in {Call} : c[1] = "change" /\ Top.base = "analyst"} \cup
  {<<"prepare", c[2]>> : c \in {d \in {Call} : d[1] = "write" /\ d[2] \in Preparing
                                               /\ Top.base = "engineer"}}

(* _execute_tool or registry.execute: a read runs, and so does a tool that     *)
(* changes something at once, unless it fails; a write whose parameters are    *)
(* rejected and a tool the agent does not have give an error.                  *)
Executes ==
  /\ Executing
  /\ Call[1] # "answer"
  /\ Executed(Top)
  /\ \E done \in {{}, ChangesAtOnce} : unasked' = unasked \cup done
  /\ UNCHANGED <<env, center>>

(* _store_proposal: a write without an approval becomes a pending proposal. *)
Proposes ==
  /\ Executing
  /\ Call[1] = "write"
  /\ Top.base = "engineer"
  /\ Len(center) < MaxProposals
  /\ center' = Append(center, [action |-> Call[2], status |-> "pending", votes |-> {}])
  /\ Executed([Top EXCEPT !.props = Append(@, Len(center) + 1)])
  /\ \E done \in {{}, ChangesAtOnce} : unasked' = unasked \cup done
  /\ UNCHANGED env

Answers ==
  \E k \in 1..env.batch : \E cs \in [1..k -> env.calls] : AnswersCalls(cs)

LoopNext ==
  \/ Stopped \/ AnswersText \/ AnswersBlank \/ Outage \/ Answers
  \/ HandledInside \/ Delegates
  \/ McpRuns \/ McpRefused \/ \E choice \in {"y", "a", "n"} : McpAsked(choice)
  \/ AnswersUser \/ Executes \/ Proposes
=============================================================================
