--------------------------- MODULE AbstractGuard ---------------------------
(***************************************************************************)
(* What a chain of Guards promises its callers, without lock, cascade or   *)
(* ledger: authority that only shrinks on its way down, a kill that takes  *)
(* everything below at once, calls that are reported once, and a node that *)
(* is finished when nothing of it is open.  Module Guard implements it     *)
(* (GuardRefinement); the adapters are modelled on top of it.              *)
(***************************************************************************)
EXTENDS FiniteSets

CONSTANTS
  Node, Root,        \* node ids; the one the chain is issued with
  Agent, RootAgent,
  Act,               \* what a call may ask for
  Dispatch,          \* ids of calls
  Binding            \* a schema_version 2 chain

ASSUME AbstractAssumption == Root \in Node /\ RootAgent \in Agent /\ Binding \in BOOLEAN

VARIABLES
  granted,   \* the nodes there are
  line,      \* a node and the nodes above it
  who,       \* the agent of a node
  rights,    \* the acts a node's authority permits
  killed,
  banned,    \* agents revoked by name
  finished,
  allowed,   \* <<call, node, act>> of each allow
  open,      \* <<call, node>> of the calls that promised an outcome
  reported   \* calls with an outcome

serviceVars ==
  <<granted, line, who, rights, killed, banned, finished, allowed, open, reported>>

AbstractInit ==
  /\ granted = {Root}
  /\ line = [n \in Node |-> IF n = Root THEN {Root} ELSE {}]
  /\ who = [n \in Node |-> RootAgent]
  /\ \E R \in SUBSET Act : rights = [n \in Node |-> IF n = Root THEN R ELSE {}]
  /\ killed = {}
  /\ banned = {}
  /\ finished = {}
  /\ allowed = {}
  /\ open = {}
  /\ reported = {}

-----------------------------------------------------------------------------
Below(n)     == {m \in granted : n \in line[m]}
OpenOn(n)    == {c \in Dispatch : <<c, n>> \in open}
Decided      == {t[1] : t \in allowed}

(* Nothing on the way down from the root has been killed, and everyone on   *)
(* it may do x.                                                             *)
MayAct(n, x) ==
  /\ n \in granted
  /\ \A m \in line[n] : m \notin killed /\ x \in rights[m]
  /\ Binding => n \notin finished

Allow(c, n, x, promised) ==
  /\ MayAct(n, x)
  /\ c \notin Decided
  /\ allowed' = allowed \cup {<<c, n, x>>}
  /\ open' = IF promised THEN open \cup {<<c, n>>} ELSE open
  /\ UNCHANGED <<granted, line, who, rights, killed, banned, finished, reported>>

MayGrant(p, a) == p \in granted /\ line[p] \cap killed = {} /\ a \notin banned

Grant(p, n, a, R) ==
  /\ MayGrant(p, a)
  /\ n \notin granted
  /\ R \subseteq rights[p]
  /\ granted' = granted \cup {n}
  /\ line' = [line EXCEPT ![n] = line[p] \cup {n}]
  /\ who' = [who EXCEPT ![n] = a]
  /\ rights' = [rights EXCEPT ![n] = R]
  /\ UNCHANGED <<killed, banned, finished, allowed, open, reported>>

Report(c) ==
  /\ Binding
  /\ c \notin reported
  /\ reported' = reported \cup {c}
  /\ open' = {o \in open : o[1] # c}
  /\ UNCHANGED <<granted, line, who, rights, killed, banned, finished, allowed>>

(* complete refuses while calls are open, and is a no-op the second time. *)
MayFinish(n) == n \in finished \/ (Binding => OpenOn(n) = {})

Finish(n) ==
  /\ n \in granted
  /\ MayFinish(n)
  /\ finished' = finished \cup {n}
  /\ UNCHANGED <<granted, line, who, rights, killed, banned, allowed, open, reported>>

(* Whatever hangs below a killed node is killed with it. *)
Kill(S) ==
  /\ S # {} /\ S \subseteq granted \ killed
  /\ \A n \in S : Below(n) \subseteq S \cup killed
  /\ killed' = killed \cup S
  /\ UNCHANGED <<granted, line, who, rights, banned, finished, allowed, open, reported>>

Ban(a) ==
  /\ banned' = banned \cup {a}
  /\ UNCHANGED <<granted, line, who, rights, killed, finished, allowed, open, reported>>

(* Each disjunct says first what its action changes, which alone tells TLC  *)
(* of most steps that they are not it.                                      *)
AbstractNext ==
  \/ /\ allowed' # allowed
     /\ \E c \in Dispatch, n \in Node, x \in Act, promised \in BOOLEAN : Allow(c, n, x, promised)
  \/ /\ granted' # granted
     /\ \E p, n \in Node, a \in Agent, R \in SUBSET Act : Grant(p, n, a, R)
  \/ reported' # reported /\ \E c \in Dispatch : Report(c)
  \/ finished' # finished /\ \E n \in Node : Finish(n)
  \/ killed' # killed /\ \E S \in SUBSET Node : Kill(S)
  \/ banned' # banned /\ \E a \in Agent : Ban(a)

AbstractSpec == AbstractInit /\ [][AbstractNext]_serviceVars
=============================================================================
