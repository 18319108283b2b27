------------------------------- MODULE Chain -------------------------------
(***************************************************************************)
(* The shared state of one delegation chain (src/attenu_guard/chain.py):   *)
(* the tree of nodes, the grow-only revocation and ban sets, the call and  *)
(* strike meters, the pending calls of execution binding, and the chain    *)
(* lock.  Every Guard of the chain, in every thread, works on this state.  *)
(*                                                                         *)
(* A method that holds the lock from its first to its last access of the   *)
(* state is one step.  The revocation cascade is not: the functions that   *)
(* read without the lock (is_revoked, would_allow, would_delegate, graph)  *)
(* can run between two iterations of its loop, so each iteration is a step *)
(* of its own, taken by the thread that holds the lock.                    *)
(*                                                                         *)
(* Data is abstract.  An authority is a member of Auth, known only through *)
(* the operators below; module Authority defines them as the code does and *)
(* AuthorityProofs proves the laws assumed here.  The integrity seal of a  *)
(* node always verifies: nothing in src/ assigns Node.authority after the  *)
(* node is built.                                                          *)
(***************************************************************************)
EXTENDS Integers, FiniteSets

CONSTANTS
  Thread, Free,      \* the program's threads; the value of an unheld lock
  Agent, RootAgent,  \* agent ids
  Act,               \* what a call asks for: a scope with its context
  Auth, RootAuth,    \* authorities, and the one the chain is issued with
  Request,           \* authorities a delegation asks for
  CanAttenuate(_, _), \* Authority.meet raises no AuthorityError
  Attenuate(_, _),   \* Authority.meet
  Narrower(_, _),    \* Authority.is_narrower_than
  PermitsAct(_, _),  \* Authority.permits, the call limits apart
  CallLimits(_),     \* the bounds of the CallLimits held: {} or {n}
  Ttls(_),           \* the time to live: {} (None) or {seconds}
  MaxDepth, MaxFanout,
  StrikeMode, StrikeLimit,  \* StrikePolicy.mode and .n; StrikeMode "off": none attached
  MaxNodes           \* bound: node ids handed out

ASSUME ThreadAssumption == Free \notin Thread
ASSUME BoundAssumption ==
  /\ MaxNodes \in Nat \ {0}
  /\ MaxDepth \in Nat
  /\ MaxFanout \in Nat
  /\ StrikeLimit \in Nat \ {0}
  /\ StrikeMode \in {"off", "same_scope", "total"}
ASSUME RootAssumption == RootAgent \in Agent /\ RootAuth \in Auth
ASSUME QuantityAssumption ==
  \A a \in Auth : CallLimits(a) \subseteq Nat /\ Ttls(a) \subseteq Nat

(* The laws of the authority lattice the chain relies on. *)
ASSUME MeetLaw ==
  \A a \in Auth, r \in Request :
    CanAttenuate(a, r) => Attenuate(a, r) \in Auth /\ Narrower(Attenuate(a, r), a)
ASSUME NarrowerLaw ==
  \A a, b, c \in Auth :
    /\ Narrower(a, a)
    /\ Narrower(c, b) /\ Narrower(b, a) => Narrower(c, a)
ASSUME PermitsLaw ==
  \A a, b \in Auth : Narrower(b, a) =>
    /\ \A x \in Act : PermitsAct(b, x) => PermitsAct(a, x)
    /\ \A m \in CallLimits(a) : \E n \in CallLimits(b) : n <= m
    /\ \A m \in Ttls(a) : \E n \in Ttls(b) : n <= m

VARIABLES
  next,      \* node ids handed out so far: node k is the k-th, 0 is the root
  parent, agent, auth, depth, issued, complete, marked, \* the fields of Node
  revoked,   \* Chain._revoked
  banned,    \* Chain._banned_agents
  calls,     \* Chain._calls, of the unscoped CallLimit
  strikes,   \* Chain._strikes
  pending,   \* Chain._pending
  outcomed,  \* Chain._outcomed
  now,       \* the chain's clock
  lock,      \* the holder of Chain._lock between two steps, or Free
  work,      \* the stack of the cascade in progress
  swept      \* its revoked_now

treeVars  == <<next, parent, agent, auth, depth, issued>>
lockVars  == <<lock, work, swept>>
bindVars  == <<pending, outcomed>>
chainVars == <<treeVars, complete, marked, revoked, banned, calls, strikes,
               bindVars, now, lockVars>>

NodeId  == 0 .. MaxNodes - 1
Created == 0 .. next - 1
Children(n) == {c \in Created : c # 0 /\ parent[c] = n}
StrikeSlot(x) == IF StrikeMode = "total" THEN "*" ELSE x

ChainInit ==
  /\ next = 1
  /\ parent = [n \in NodeId |-> 0]
  /\ agent = [n \in NodeId |-> RootAgent]
  /\ auth = [n \in NodeId |-> RootAuth]
  /\ depth = [n \in NodeId |-> 0]
  /\ issued = [n \in NodeId |-> 0]
  /\ complete = [n \in NodeId |-> FALSE]
  /\ marked = {}
  /\ revoked = {}
  /\ banned = {}
  /\ calls = [n \in NodeId |-> 0]
  /\ strikes = [s \in NodeId \X (Act \cup {"*"}) |-> 0]
  /\ pending = [n \in NodeId |-> {}]
  /\ outcomed = {}
  /\ now = 0
  /\ lock = Free
  /\ work = {}
  /\ swept = {}

-----------------------------------------------------------------------------
(* is_expired: the node's own ttl, counted from its own issue. *)
IsExpired(n) == \E ttl \in Ttls(auth[n]) : now - issued[n] > ttl

(* Mutants of Delegable: no look at _revoked; none at the ban.              *)
RoomUnder(p) ==
  /\ ~IsExpired(p)
  /\ Cardinality(Children(p)) + 1 <= MaxFanout
DelegableIfRevoked(p, a) == a \notin banned /\ RoomUnder(p) /\ depth[p] + 1 <= MaxDepth
DelegableToBanned(p, a)  == p \notin revoked /\ RoomUnder(p) /\ depth[p] + 1 <= MaxDepth

(* delegation_error finds nothing to raise (the codes are not told apart). *)
Delegable(p, a) ==
  /\ p \notin revoked
  /\ a \notin banned
  /\ ~IsExpired(p)
  /\ depth[p] + 1 <= MaxDepth
  /\ Cardinality(Children(p)) + 1 <= MaxFanout

(* Mutant of AddChild: the child gets what it asked for. *)
AddChildAsRequested(p, a, r) ==
  /\ Delegable(p, a)
  /\ CanAttenuate(auth[p], r)
  /\ next' = next + 1
  /\ parent' = [parent EXCEPT ![next] = p]
  /\ agent' = [agent EXCEPT ![next] = a]
  /\ auth' = [auth EXCEPT ![next] = r]
  /\ depth' = [depth EXCEPT ![next] = depth[p] + 1]
  /\ issued' = [issued EXCEPT ![next] = now]

(* add_child: the child's authority is the meet, never the request. *)
AddChild(p, a, r) ==
  /\ Delegable(p, a)
  /\ CanAttenuate(auth[p], r)
  /\ next' = next + 1
  /\ parent' = [parent EXCEPT ![next] = p]
  /\ agent' = [agent EXCEPT ![next] = a]
  /\ auth' = [auth EXCEPT ![next] = Attenuate(auth[p], r)]
  /\ depth' = [depth EXCEPT ![next] = depth[p] + 1]
  /\ issued' = [issued EXCEPT ![next] = now]

(* revoke and revoke_agent, up to their loop: the lock is taken and kept. *)
StartSweep(t, targets) ==
  /\ lock' = t
  /\ work' = targets
  /\ swept' = {}

(* Mutants of SweepNode: the children are not pushed; a node revoked before *)
(* is reported again.                                                       *)
RevokeNode(n, then) ==
  /\ revoked' = revoked \cup {n}
  /\ marked' = marked \cup {n}
  /\ swept' = swept \cup {n}
  /\ work' = (work \ {n}) \cup then
  /\ UNCHANGED lock
SweepNodeOnly(n)  == RevokeNode(n, {})
SweepNodeAgain(n) == RevokeNode(n, IF n \in revoked THEN {} ELSE Children(n))

(* One iteration of the loop of revoke: a node already revoked is skipped;  *)
(* otherwise it is revoked and its children are pushed.  The stack is a set *)
(* (the order of the pops is left open).  revoke_agent runs the loop from   *)
(* each node of the agent in turn: the same iterations, from all of them.   *)
SweepNode(n) ==
  /\ \/ /\ n \in revoked
        /\ work' = work \ {n}
        /\ UNCHANGED <<revoked, marked, swept>>
     \/ /\ n \notin revoked
        /\ work' = (work \ {n}) \cup Children(n)
        /\ revoked' = revoked \cup {n}
        /\ marked' = marked \cup {n}
        /\ swept' = swept \cup {n}
  /\ UNCHANGED lock

(* Mutant of SweepUnknown: the KeyError leaves without releasing the lock. *)
SweepUnknownHeld(n) ==
  /\ n \notin revoked
  /\ revoked' = revoked \cup {n}
  /\ work' = {}
  /\ UNCHANGED <<lock, swept, marked>>

(* The iteration on an id no node has: the id is added to _revoked before  *)
(* self.nodes[nid] raises KeyError, and the lock is released.              *)
SweepUnknown(n) ==
  /\ n \notin revoked
  /\ revoked' = revoked \cup {n}
  /\ lock' = Free
  /\ work' = {}
  /\ swept' = {}
  /\ UNCHANGED marked

EndSweep ==
  /\ lock' = Free
  /\ work' = {}
  /\ swept' = {}

-----------------------------------------------------------------------------
(* Mutant of AdmitsCall: the calls made so far, without this one. *)
AdmitsOneMore(n) == \A m \in CallLimits(auth[n]) : calls[n] <= m

(* _auto_meter and permits: a held CallLimit admits the count of this call. *)
AdmitsCall(n) == \A m \in CallLimits(auth[n]) : calls[n] + 1 <= m

(* count_call, for a node that holds a CallLimit. *)
CountCall(n) ==
  calls' = IF CallLimits(auth[n]) = {} THEN calls
           ELSE [calls EXCEPT ![n] = @ + 1]

(* record_strike *)
RecordStrike(n, x) == strikes' = [strikes EXCEPT ![<<n, StrikeSlot(x)>>] = @ + 1]

(* register_pending *)
RegisterPending(n, k) == pending' = [pending EXCEPT ![n] = @ \cup {k}]

(* resolve_pending, and mark_outcomed before it: from whichever node's set. *)
ResolvePending(k) ==
  /\ outcomed' = outcomed \cup {k}
  /\ pending' = [m \in NodeId |-> pending[m] \ {k}]

(* The clock the ttls are read against. *)
Tick ==
  /\ now' = now + 1
  /\ UNCHANGED <<treeVars, complete, marked, revoked, banned, calls, strikes,
                 bindVars, lockVars>>
=============================================================================
