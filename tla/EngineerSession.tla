--------------------------- MODULE EngineerSession --------------------------
(* A terminal session around the turns of EngineerLoop (EngineerCLI of         *)
(* scripts_engineer_cli.py): the prompts and commands of the operator, the     *)
(* history that is carried from turn to turn, and the review of the proposals  *)
(* of a turn (cli/inline_approvals.py), while others work in the Approval      *)
(* Center.                                                                     *)
EXTENDS EngineerLoop

CONSTANTS
  Needed,   \* approvers an action needs, by the name of the write tool
  Window    \* how many messages of the history an engineer's turn gets

ASSUME WindowAssumption == Window \in Nat

sessionVars == loopVars

SessionInit ==
  /\ env \in Settings
  /\ cli = [mode |-> env.mode, phase |-> "prompt", inline |-> env.repl,
            delegation |-> TRUE, lean |-> env.lean, always |-> {}, allowed |-> {}, history |-> <<>>,
            extra |-> <<>>, review |-> <<>>, seen |-> {}, stage |-> "show",
            prompts |-> 0, commands |-> 0]
  /\ stack = <<>>
  /\ center = <<>>
  /\ log = [said |-> {}, yes |-> {}, outage |-> FALSE, listed |-> {},
            before |-> 0, cut |-> FALSE, dropped |-> FALSE]
  /\ unasked = {}

-----------------------------------------------------------------------------
(* The prompt. *)
AtPrompt == cli.phase = "prompt"
LastN(s, n) == IF Len(s) > n THEN SubSeq(s, Len(s) - n + 1, Len(s)) ELSE s

(* AgentRunner.run: the engineer gets the end of the history as it is, the     *)
(* analyst its text.                                                           *)
RunTurn ==
  /\ AtPrompt
  /\ cli.prompts < env.prompts
  /\ stack' = <<Frame("main", cli.mode,
                      IF cli.mode = "engineer"
                      THEN Append(LastN(cli.history, Window), Message("user", 0))
                      ELSE <<>>)>>
  /\ cli' = [cli EXCEPT !.phase = "turn", !.extra = <<>>, !.prompts = @ + 1]
  /\ log' = [log EXCEPT !.outage = FALSE, !.listed = {}, !.before = Len(center), !.yes = {},
               !.cut = @ \/ (cli.mode = "engineer" /\ Len(cli.history) > Window)]
  /\ UNCHANGED <<env, center, unasked>>

(* /delegate: the operator gives a task to a sub-agent directly. *)
OperatorDelegates(name) ==
  /\ AtPrompt
  /\ env.repl
  /\ cli.prompts < env.prompts
  /\ stack' = <<Frame(name, SubAgent[name].base, <<>>)>>
  /\ cli' = [cli EXCEPT !.phase = "turn", !.prompts = @ + 1]
  /\ log' = [log EXCEPT !.outage = FALSE, !.listed = {}, !.before = Len(center), !.yes = {}]
  /\ UNCHANGED <<env, center, unasked>>

(* /mode and /switch, /delegation, /tokens, /approvals, /new; env.commands     *)
(* bounds how many.                                                            *)
Commanded == [cli EXCEPT !.commands = @ + 1]
AtCommand == AtPrompt /\ env.repl /\ cli.commands < env.commands

SetMode == /\ AtCommand
           /\ \E m \in {"analyst", "engineer"} \ {cli.mode} : cli' = [Commanded EXCEPT !.mode = m]
           /\ UNCHANGED <<env, stack, center, log, unasked>>
Delegation == /\ AtCommand
              /\ cli' = [Commanded EXCEPT !.delegation = ~@]
              /\ UNCHANGED <<env, stack, center, log, unasked>>
Tokens == /\ AtCommand
          /\ cli' = [Commanded EXCEPT !.lean = ~@]
          /\ UNCHANGED <<env, stack, center, log, unasked>>
ApprovalMode == /\ AtCommand
                /\ cli' = [Commanded EXCEPT !.inline = ~@]
                /\ UNCHANGED <<env, stack, center, log, unasked>>
NewHistory == /\ AtCommand
              /\ cli' = [Commanded EXCEPT !.history = <<>>]
              /\ UNCHANGED <<env, stack, center, log, unasked>>

(* /mcp allow: always, without being asked first. *)
McpAllow ==
  /\ AtCommand
  /\ \E c \in env.calls :
        /\ c[1] = "mcp"
        /\ c[2] \notin cli.allowed
        /\ cli' = [Commanded EXCEPT !.allowed = @ \cup {c[2]}]
  /\ UNCHANGED <<env, stack, center, log, unasked>>

Commands == SetMode \/ Delegation \/ Tokens \/ ApprovalMode \/ NewHistory \/ McpAllow

-----------------------------------------------------------------------------
(* review_pending, one proposal after the other: the head of cli.review is     *)
(* shown, decided, approved and executed in steps of their own, between which  *)
(* others may decide it.                                                       *)
Reviewing(stage) == cli.phase = "review" /\ cli.stage = stage
Shown == Head(cli.review)
Action == center[Shown].action
Executable == Action \in ExecuteLevel

NextProposal(c) ==
  [c EXCEPT !.review = Tail(@), !.seen = @ \cup {Head(c.review)}, !.stage = "show",
            !.phase = IF Len(c.review) = 1 THEN "prompt" ELSE "review"]
At(stage) == [cli EXCEPT !.stage = stage]

(* Only a proposal that is still pending is shown, and only once; with         *)
(* "always" for its action it is approved without a question.                  *)
Reviewable == Shown \notin cli.seen /\ center[Shown].status = "pending"

ReviewSkips ==
  /\ Reviewing("show")
  /\ ~Reviewable
  /\ cli' = NextProposal(cli)
  /\ UNCHANGED <<env, stack, center, log, unasked>>

AutoApproves == ~Executable /\ Action \in cli.always

ReviewAuto ==
  /\ Reviewing("show")
  /\ Reviewable
  /\ AutoApproves
  /\ cli' = At("approve")
  /\ UNCHANGED <<env, stack, center, log, unasked>>

ReviewAsks ==
  /\ Reviewing("show")
  /\ Reviewable
  /\ ~AutoApproves
  /\ cli' = At("choose")
  /\ UNCHANGED <<env, stack, center, log, unasked>>

(* [y] approve and run, [a] always for the action (an answer that means        *)
(* nothing for an EXECUTE action), [l] later, [n] reject.                      *)
ChoosesYesUnconfirmed ==
  /\ Reviewing("choose")
  /\ cli' = At("approve")
  /\ log' = IF Executable THEN log ELSE [log EXCEPT !.yes = @ \cup {Shown}]
  /\ UNCHANGED <<env, stack, center, unasked>>

ChoosesYes ==
  /\ Reviewing("choose")
  /\ cli' = At(IF Executable THEN "confirm" ELSE "approve")
  /\ log' = IF Executable THEN log ELSE [log EXCEPT !.yes = @ \cup {Shown}]
  /\ UNCHANGED <<env, stack, center, unasked>>

ChoosesAlways ==
  /\ Reviewing("choose")
  /\ IF Executable
     THEN cli' = NextProposal(cli) /\ UNCHANGED log
     ELSE /\ cli' = [At("approve") EXCEPT !.always = @ \cup {Action}]
          /\ log' = [log EXCEPT !.said = @ \cup {Action}]
  /\ UNCHANGED <<env, stack, center, unasked>>

ChoosesLater ==
  /\ Reviewing("choose")
  /\ cli' = NextProposal(cli)
  /\ UNCHANGED <<env, stack, center, log, unasked>>

(* reject raises for a proposal that is no longer pending, and nothing in the  *)
(* terminal catches that.                                                      *)
ChoosesNo ==
  /\ Reviewing("choose")
  /\ IF center[Shown].status = "pending"
     THEN /\ center' = [center EXCEPT ![Shown].status = "rejected"]
          /\ cli' = NextProposal(cli)
     ELSE /\ cli' = [cli EXCEPT !.phase = "dead"]
          /\ UNCHANGED center
  /\ UNCHANGED <<env, stack, log, unasked>>

(* The word "yes" for an EXECUTE action. *)
Confirms(yes) ==
  /\ Reviewing("confirm")
  /\ IF yes
     THEN cli' = At("approve") /\ log' = [log EXCEPT !.yes = @ \cup {Shown}]
     ELSE cli' = NextProposal(cli) /\ UNCHANGED log
  /\ UNCHANGED <<env, stack, center, unasked>>

(* approvals.approve: refused unless pending and not yet approved by the same  *)
(* operator; one approval may not be enough.                                   *)
Voted(p, by) ==
  LET votes == p.votes \cup {by}
  IN [p EXCEPT !.votes = votes,
               !.status = IF Cardinality(votes) >= Needed[p.action] THEN "approved" ELSE @]

ReviewApproves ==
  /\ Reviewing("approve")
  /\ LET p == center[Shown]
         refused == p.status # "pending" \/ "operator" \in p.votes
     IN /\ center' = IF refused THEN center
                     ELSE [center EXCEPT ![Shown] = Voted(p, "operator")]
        /\ cli' = IF ~refused /\ Voted(p, "operator").status = "approved"
                  THEN At("execute") ELSE NextProposal(cli)
  /\ UNCHANGED <<env, stack, log, unasked>>

(* execute_proposal: the claim fails when another took it; the tool may fail. *)
Consented(p) == p \in log.yes \/ center[p].action \in log.said \ ExecuteLevel

ReviewExecutes ==
  /\ Reviewing("execute")
  /\ cli' = NextProposal(cli)
  /\ IF center[Shown].status = "approved"
     THEN /\ \E s \in {"executed", "failed"} : center' = [center EXCEPT ![Shown].status = s]
          /\ unasked' = IF Consented(Shown) THEN unasked ELSE unasked \cup {<<"write", Action>>}
     ELSE UNCHANGED <<center, unasked>>
  /\ UNCHANGED <<env, stack, log>>

ReviewNext ==
  \/ ReviewSkips \/ ReviewAuto \/ ReviewAsks
  \/ ChoosesYes \/ ChoosesAlways \/ ChoosesLater \/ ChoosesNo
  \/ \E yes \in BOOLEAN : Confirms(yes)
  \/ ReviewApproves \/ ReviewExecutes

-----------------------------------------------------------------------------
(* The Approval Center, by other faces: an approval, a rejection or the end of *)
(* a pending proposal, the execution of an approved one.  Only a review reads    *)
(* the proposals, so it is enough to let them act while one goes on.           *)
Elsewhere(p) ==
  /\ cli.phase = "review"
  /\ \/ /\ center[p].status = "pending"
        /\ \/ center' = [center EXCEPT ![p] = Voted(@, "other")]
           \/ \E s \in {"rejected", "expired"} : center' = [center EXCEPT ![p].status = s]
     \/ /\ center[p].status = "approved"
        /\ center' = [center EXCEPT ![p].status = "executed"]
  /\ UNCHANGED <<env, cli, stack, log, unasked>>

SessionNext ==
  \/ LoopNext
  \/ RunTurn \/ \E name \in DOMAIN SubAgent : OperatorDelegates(name)
  \/ Commands
  \/ ReviewNext
  \/ \E p \in 1..Len(center) : Elsewhere(p)

SessionSpec == SessionInit /\ [][SessionNext]_sessionVars

(* The terminal runs one thread, which takes its next step; the operator       *)
(* answers what he is asked.                                                   *)
SessionFairSpec == SessionSpec /\ WF_sessionVars(LoopNext) /\ WF_sessionVars(ReviewNext)

-----------------------------------------------------------------------------
(* Properties. *)
Calls == UNION {s.calls : s \in Settings}
Proposal == [action : {c[2] : c \in {d \in Calls : d[1] = "write"}},
             status : {"pending", "approved", "rejected", "expired", "executed", "failed"},
             votes : SUBSET {"operator", "other"}]

(* What the terminal changes without the operator's word is what the analyst   *)
(* agent's own tools change and what a write tool creates before it proposes.  *)
(* No proposal of a review runs without his "yes" for it in this review or an  *)
(* "always" for its action, which is no answer for an EXECUTE action, however  *)
(* others decide in between (cli/inline_approvals.py), and where no operator   *)
(* is no MCP tool runs that is not read-only (cli/mcp_client.py:29).           *)
NothingRunsUnasked == \A c \in unasked : c[1] \in {"change", "prepare"}

(* "PROPOSE - the agent produces a validated proposal; nothing is written."    *)
(* (scripts_engineer_cli.py:9): a tool that only proposes changes nothing.     *)
ProposingWritesNothing == \A c \in unasked : c[1] # "prepare"

(* The guardrails of a sub-agent (cli/agents.py): one level of delegation, no  *)
(* more model calls than its budget, with tool calls or without, and no call   *)
(* outside its list; and the main agent's loop never sees a load_skill, an MCP *)
(* call or a delegation, so that what it runs is its own tools' alone.         *)
SubAgentIsConfined ==
  /\ Len(stack) <= 2
  /\ \A i \in 1..Len(stack) :
       LET f == stack[i]
           s == SubAgent[f.agent]
       IN f.agent # "main" =>
            /\ i = Len(stack)
            /\ f.used <= s.calls
            /\ ~f.inside /\ f.batch # <<>> /\ s.limited =>
                 \A j \in 1..Len(f.batch) : f.batch[j][1] = "answer" \/ f.batch[j][2] \in s.tools
  /\ stack # <<>> /\ ~Top.inside /\ ~IsSub /\ cli.delegation =>
       \A j \in 1..Len(Top.batch) : Top.batch[j][1] \notin {"skill", "mcp", "delegate"}

(* Unless the provider failed, the result of a turn lists every proposal that  *)
(* the turn or one of its sub-agents stored, however it ended.                 *)
TurnOver == cli.phase # "turn"
Stored == log.before + 1 .. Len(center)
ShownUnlessOutage == TurnOver /\ ~log.outage => Stored \subseteq log.listed

(* cli/inline_approvals.py: "the CLI shows each new proposal right after the   *)
(* turn that produced it".                                                     *)
EachProposalIsShown == TurnOver => Stored \subseteq log.listed

(* What the engineer's model is sent pairs every tool result with the call     *)
(* before it and every call with its result (the format of llm/base.py), as    *)
(* long as no answer_user came along with other calls and the window has cut   *)
(* nothing off.                                                                *)
ResultOf(h, i) ==
  \E j \in 1..i - 1 : /\ h[j].role = "calls"
                      /\ i - j <= h[j].n
                      /\ \A k \in j + 1..i : h[k].role = "tool"
Paired(h) ==
  \A i \in 1..Len(h) :
    /\ h[i].role = "tool" => ResultOf(h, i)
    /\ h[i].role = "calls" =>
         \A k \in i + 1..i + h[i].n : k <= Len(h) /\ h[k].role = "tool"

UncutHistoryPairs == ~log.cut /\ ~log.dropped => Paired(cli.history)

(* Every turn ends: the rounds inside the middleware, the turns of the loops   *)
(* and the budget of a sub-agent bound it, whatever the model answers.         *)
TurnEnds == cli.phase = "turn" ~> cli.phase # "turn"
=============================================================================
