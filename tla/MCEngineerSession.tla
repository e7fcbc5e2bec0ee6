-------------------------- MODULE MCEngineerSession --------------------------
(* Instances of EngineerSession, chosen at the start.  Inside: the rounds of   *)
(* the middleware, MCP calls and a sub-agent.  OneShot: the same without an    *)
(* operator.  Proposing: two turns that propose, and the reviews of what they  *)
(* proposed.  Talking: the history over several turns.                         *)
EXTENDS EngineerSession

SubAgents == [scout |-> [base |-> "engineer", limited |-> TRUE,
                         tools |-> {"search", "add_rule"}, calls |-> 2],
              analyst |-> [base |-> "analyst", limited |-> FALSE, tools |-> {}, calls |-> 1]]

Answer == <<"answer", "user">>
Search == <<"read", "search">>
AddRule == <<"write", "add_rule">>
Restart == <<"write", "restart">>
Design == <<"write", "design">>
CloseAlert == <<"change", "close_alert">>

Inside == [turns |-> 1, rounds |-> 2, mode |-> "engineer", repl |-> TRUE, batch |-> 2,
           calls |-> {Answer, AddRule, <<"mcp", "block">>, <<"mcp", "lookup">>,
                      <<"delegate", "scout">>, <<"find", "find_tools">>},
           prompts |-> 1, commands |-> 1, lean |-> TRUE]
OneShot == [turns |-> 2, rounds |-> 2, mode |-> "analyst", repl |-> FALSE, batch |-> 1,
            calls |-> {Answer, Search, AddRule, CloseAlert, <<"skill", "soc">>, <<"mcp", "block">>,
                       <<"delegate", "scout">>, <<"delegate", "analyst">>, <<"find", "find_tools">>},
            prompts |-> 1, commands |-> 0, lean |-> FALSE]
Proposing == [turns |-> 2, rounds |-> 1, mode |-> "engineer", repl |-> TRUE, batch |-> 1,
              calls |-> {Answer, AddRule, Restart, Design}, prompts |-> 2, commands |-> 0, lean |-> TRUE]
Talking == [turns |-> 2, rounds |-> 1, mode |-> "engineer", repl |-> TRUE, batch |-> 2,
            calls |-> {Answer, Search}, prompts |-> 3, commands |-> 1, lean |-> TRUE]
Starts == {Inside, OneShot, Proposing, Talking}

Approvers == [add_rule |-> 1, restart |-> 2, design |-> 1]
=============================================================================
