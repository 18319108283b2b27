----------------------------- MODULE Framework -----------------------------
(***************************************************************************)
(* An agent framework that asks a guard before it runs a tool.  The guards *)
(* are AbstractGuard, which module Guard implements; a dispatch is one     *)
(* tool call of the framework, from the request to the end of its body.    *)
(* The adapter modules say what each integration does between the two.    *)
(***************************************************************************)
EXTENDS AbstractGuard, Naturals

CONSTANTS
  None,
  Adapters,   \* the adapters a run chooses from
  Strict,     \* a v2 chain, and the adapter's flag set if it has one: outcomes are promised
  Declared,   \* what the deployment grants each agent
  Bounds      \* of a run, for each adapter: its calls, its nodes and its agents

ASSUME FrameworkAssumption ==
  /\ Act = {"use", "hand"}
  /\ Strict \in BOOLEAN /\ (Strict => Binding)
  /\ Node \subseteq Nat /\ Dispatch \subseteq Nat
  /\ Declared \in [Agent -> SUBSET Act]
  /\ \A x \in Adapters : /\ RootAgent \in Bounds[x].staff /\ Bounds[x].staff \subseteq Agent
                         /\ Bounds[x].nodes \in Nat /\ 0 .. Bounds[x].nodes - 1 \subseteq Node

(* A tool, an agent and the absence of one are told apart by their names.   *)
ASSUME NameAssumption ==
  /\ None \notin Node \cup Dispatch
  /\ Agent \cap {"use", "unlisted", "broken"} = {}

VARIABLES
  adapter,    \* the adapter in use
  call,       \* what has become of each dispatch
  registry,   \* the node an agent's name stands for
  mem         \* what else the adapter keeps, a record of its own

vars == <<serviceVars, adapter, call, registry, mem>>

Staff == Bounds[adapter].staff

(* A tool with a policy, one without, one whose context callable raises,   *)
(* and one that delegates to an agent.                                     *)
Tool == {"use", "unlisted", "broken"} \cup Staff

(* stage: idle; cleared, allowed with its delegation still to come;        *)
(* running; ended, the body is over and the adapter has not heard; over.   *)
(* entry: what the ledger says.  child: the node the call delegates to.    *)
Idle ==
  [stage |-> "idle", by |-> RootAgent, within |-> None, tool |-> "use", node |-> None,
   entry |-> "none", child |-> None, body |-> "none", outcome |-> "none"]

FrameworkInit ==
  /\ AbstractInit
  /\ rights[Root] = Declared[RootAgent]
  /\ call = [d \in Dispatch |-> Idle]

OnlyRoot == [a \in Agent |-> IF a = RootAgent THEN Root ELSE None]

-----------------------------------------------------------------------------
(* Who calls: any agent by name, or whoever the delegations in progress    *)
(* have put in charge.                                                     *)
IsRunning(d)  == call[d].stage = "running"
(* The node in force where a sub-run carries its Guard with it. *)
InForce(c)    == IF c.within = None THEN Root ELSE call[c.within].child
Delegations   == {d \in Dispatch : IsRunning(d) /\ call[d].child # None}
Asks(a, w)    == {[Idle EXCEPT !.by = a, !.within = w, !.tool = t] : t \in Tool \ {a}}
ByName        == UNION {Asks(a, None) : a \in Staff}
Nested        == Asks(RootAgent, None) \cup UNION {Asks(call[w].tool, w) : w \in Delegations}

(* The dispatch a new call takes; calls are numbered as they start. *)
NextCall ==
  {d \in Dispatch : /\ d <= Bounds[adapter].calls
                    /\ \A e \in Dispatch : call[e].stage = "idle" <=> e >= d}

Becomes(d, c) == call' = [call EXCEPT ![d] = c]

(* A refusal the ledger of node n records, and one no ledger knows of.     *)
Denies(d, c, n) ==
  /\ Becomes(d, [c EXCEPT !.stage = "over", !.node = n, !.entry = "deny"])
  /\ UNCHANGED serviceVars
Rejects(d, c) ==
  /\ Becomes(d, [c EXCEPT !.stage = "over"])
  /\ UNCHANGED serviceVars
(* Let through without asking; entry "pass" where the ledger records that. *)
Exempts(d, c, n, entry) ==
  /\ Becomes(d, [c EXCEPT !.stage = "running", !.node = n, !.entry = entry])
  /\ UNCHANGED serviceVars

Uses(c)  == c.tool \notin Agent
Hands(c) == c.tool \in Agent
Scope(t) == IF t \in Agent THEN "hand" ELSE "use"

(* Guard.check: a ceiling, a limit or the clock may deny what the scopes   *)
(* allow.                                                                  *)
Clears(d, c, n, promised, stage) ==
  /\ Allow(d, n, Scope(c.tool), promised)
  /\ Becomes(d, [c EXCEPT !.stage = stage, !.node = n, !.entry = "allow"])
Checks(d, c, n, promised, stage) == Denies(d, c, n) \/ Clears(d, c, n, promised, stage)

Fresh == Cardinality(granted)
Mints(p, a) ==
  /\ p # None /\ a \in Staff /\ Fresh < Bounds[adapter].nodes
  /\ Grant(p, Fresh, a, Declared[a] \cap rights[p])
(* The child takes the name over from whatever node had it. *)
Register(p, a) == Mints(p, a) /\ registry' = [registry EXCEPT ![a] = Fresh]

Promised(d) == d \in {o[1] : o \in open}

(* The body ends, after every call made from within it.                    *)
Closes(d, how, outcome) ==
  /\ IsRunning(d)
  /\ \A e \in Dispatch : call[e].within = d => call[e].stage = "over"
  /\ Becomes(d, [call[d] EXCEPT !.stage = "over", !.body = how, !.outcome = outcome])

Says(how) == IF how = "cancelled" THEN "abandoned" ELSE how

(* The wrapper around a body reports what it saw of it, if it promised to. *)
Ends(d, how, says) ==
  IF Promised(d) /\ says # "none"
  THEN Closes(d, how, says) /\ Report(d)
  ELSE Closes(d, how, "none") /\ UNCHANGED serviceVars

(* Guard.complete, whose answer no adapter reads. *)
Completes(n) == IF MayFinish(n) THEN Finish(n) ELSE UNCHANGED serviceVars

Wrapped(d, ways) == (\E how \in ways : Ends(d, how, Says(how))) /\ UNCHANGED registry

Revokes(n) == IF Below(n) \subseteq killed THEN UNCHANGED serviceVars ELSE Kill(Below(n) \ killed)
RevokesNamed(a) == registry[a] # None /\ Revokes(registry[a]) /\ UNCHANGED <<call, registry>>
RevokesNode(n)  == n \in granted /\ Revokes(n) /\ UNCHANGED <<call, registry>>
=============================================================================
