------------------------------ MODULE MCHooks ------------------------------
(***************************************************************************)
(* One agent, which inherits, before an edit that declares its tools and   *)
(* denies one of them to the session; and calls of another, undeclared.    *)
(***************************************************************************)
EXTENDS Hooks, TLC

CONSTANTS p1, p2, p3

Rule(name) == [name |-> <<name>>, args |-> {}]
Server == [name |-> <<"mcp", "git">>, args |-> {}]

Before ==
  [allow |-> {Rule("Edit"), Server, [name |-> <<"Bash">>, args |-> {"npm run lint"}]},
   deny |-> {},
   agents |-> "worker" :> [tools |-> Inherits, disallowed |-> {Server}]]

After ==
  [allow |-> {Server}, deny |-> {Rule("Edit")},
   agents |-> "worker" :> [tools |-> {Rule("Edit"), Rule("Grep"), Rule("Task")},
                           disallowed |-> {Rule("Grep")}]]

MCDeclared == "before" :> Before @@ "after" :> After
MCNames == <<"worker">>

Call(agent, tool, target) ==
  [event |-> "PreToolUse", agent |-> agent, tool |-> tool, target |-> target]

MCCalls ==
  {Call("", <<"Bash">>, ""), Call("worker", <<"MultiEdit">>, ""),
   Call("reviewer", <<"Task">>, "worker"), [event |-> "SubagentStart"], [event |-> "Stop"]}

MCActs ==
  {ScopeForTool(c.tool, c.target) : c \in {x \in MCCalls : x.event = "PreToolUse"}}
    \cup {<<"mcp", "git", "push">>}

MCConfigs ==
  {[enforce |-> TRUE, main |-> TRUE, export |-> TRUE],
   [enforce |-> FALSE, main |-> FALSE, export |-> TRUE]}

MCProcs == {p1, p2, p3}
Symmetry == Permutations(MCProcs)
=============================================================================
