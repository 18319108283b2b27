----------------------------- MODULE HookRoster -----------------------------
(***************************************************************************)
(* The permission sets a Claude Code hook derives from a project           *)
(* (examples/integrations/claude_code/hooks_receipt/hook.py): the allow    *)
(* and deny rules of its settings and the tools its agents declare, as     *)
(* scopes, for the session and for each agent.                             *)
(*                                                                         *)
(* A scope is the sequence of its dotted parts, with "*" last in a         *)
(* wildcard.  A tool is named by a sequence: of its one name, or of "mcp", *)
(* a server and a tool.  A rule is [name, args]; args are the agents an    *)
(* Agent(...) rule lists, or the argument pattern of any other.            *)
(***************************************************************************)
EXTENDS Naturals, Sequences, SequencesExt

CONSTANTS
  Names,      \* the agents a project may declare, in sorted order
  Inherits    \* the tools of an agent whose frontmatter names none

ASSUME NamesAssumption ==
  /\ Names \in Seq(STRING) /\ "" \notin ToSet(Names)
  /\ \A i, j \in DOMAIN Names : Names[i] = Names[j] => i = j

(* What the settings and the agents of a project are read as. *)
AreRules(rules) == \A rule \in rules : rule.name \in Seq(STRING) \ {<<>>}
IsProject(r) ==
  /\ AreRules(r.allow \cup r.deny)
  /\ DOMAIN r.agents \subseteq ToSet(Names)
  /\ \A n \in DOMAIN r.agents :
       /\ r.agents[n].tools = Inherits \/ AreRules(r.agents[n].tools)
       /\ AreRules(r.agents[n].disallowed)

(* The elements of s that are in keep, in their order. *)
Among(s, keep) ==
  LET kept[i \in 0 .. Len(s)] ==
        IF i = 0 THEN <<>>
        ELSE IF s[i] \in keep THEN Append(kept[i - 1], s[i]) ELSE kept[i - 1]
  IN  kept[Len(s)]

DelegationTools == {"Agent", "Task"}

(* Two tools may be one scope: MultiEdit is an Edit. *)
ScopeOfName(t) == <<"tool", IF t = "MultiEdit" THEN "Edit" ELSE t>>

(* _mcp_scope; a server named alone is all of it. *)
McpScope(name) == IF Len(name) < 3 THEN Append(name, "*") ELSE name

(* scope_for_tool, of a call of a tool; "agent" is its subagent_type. *)
ScopeForTool(name, agent) ==
  IF name[1] = "mcp" THEN McpScope(name)
  ELSE IF name[1] \in DelegationTools
       THEN IF agent = "" THEN <<"agent", "delegate">> ELSE <<"agent", "delegate", agent>>
  ELSE ScopeOfName(name[1])

(* scopes_for_declaration: a rule with an argument pattern is left to      *)
(* Claude Code, and means no scope.                                        *)
ScopesForDeclaration(rule) ==
  IF rule.name[1] = "mcp" THEN {McpScope(rule.name)}
  ELSE IF rule.name[1] \in DelegationTools
       THEN IF rule.args = {} THEN {<<"agent", "delegate", "*">>}
            ELSE {<<"agent", "delegate", a>> : a \in rule.args}
  ELSE IF rule.args # {} THEN {} ELSE {ScopeOfName(rule.name[1])}

ScopesFor(rules) == UNION {ScopesForDeclaration(rule) : rule \in rules}

(* A wildcard covers every scope below it, narrower wildcards included. *)
Covers(pattern, scope) ==
  \/ pattern = scope
  \/ /\ Last(pattern) = "*" /\ Len(scope) >= Len(pattern)
     /\ IsPrefix(Front(pattern), scope)

Subtract(scopes, patterns) == {s \in scopes : ~\E p \in patterns : Covers(p, s)}

(* resolve_agent_scopes: disallowedTools first, then tools. *)
ResolveAgentScopes(spec, pool) ==
  Subtract(IF spec.tools = Inherits THEN pool ELSE ScopesFor(spec.tools), ScopesFor(spec.disallowed))

(* Roster: what agents with tools of their own declare and what the        *)
(* settings allow is the session's; the others inherit that.               *)
RootScopes(r) ==
  Subtract(ScopesFor(r.allow)
             \cup (UNION {ResolveAgentScopes(r.agents[n], {}) : n \in DOMAIN r.agents})
             \cup {<<"agent", "delegate", n>> : n \in DOMAIN r.agents},
           ScopesFor(r.deny))

AgentScopes(r, n) == Subtract(ResolveAgentScopes(r.agents[n], RootScopes(r)), ScopesFor(r.deny))

PermitsScope(scopes, scope) == \E p \in scopes : Covers(p, scope)

(* What the agent's Guard holds, delegated from the session's. *)
HeldScopes(r, n) ==
  {s \in AgentScopes(r, n) : PermitsScope(RootScopes(r), s)}
    \cup {s \in RootScopes(r) : PermitsScope(AgentScopes(r, n), s)}

(* digest: the derived sets, whatever they were derived from. *)
Digest(r) == [root |-> RootScopes(r), agents |-> [n \in DOMAIN r.agents |-> AgentScopes(r, n)]]

AgentsOf(r) == Among(Names, DOMAIN r.agents)
=============================================================================
