-------------------------------- MODULE A2A --------------------------------
(***************************************************************************)
(* Delegation across processes (src/attenu_guard/adapters/a2a.py).  A      *)
(* client mints a node of its chain for a remote agent and sends the path  *)
(* to it as tokens; the remote's server loads them and continues in a      *)
(* chain of its own, whose root holds what the leaf token carries.  A      *)
(* served agent may be a client in its turn.  Messages are lost, delayed   *)
(* and delivered again, and a server may stop and start between any two    *)
(* steps.                                                                  *)
(*                                                                         *)
(* Every chain is v1, as GuardedAgentExecutor issues it, so a tool call    *)
(* records no outcome.  The wall clock of the tokens and the monotonic     *)
(* clocks of the chains are one clock in seconds.  max_fanout is never met *)
(* within the bounds.                                                      *)
(***************************************************************************)
EXTENDS Wire, FiniteSets

CONSTANTS
  Remotes,       \* agents that are served, each by a server of its own
  ClientGrant,   \* what the first client's chain is issued with
  Asks(_),       \* authority_for of a client: {} (None) or {what a remote is given}
  Needs(_),      \* authority_for of a server: {} (None) or {what its agent is given}
  Key,           \* the signer of every process
  Audited,       \* remotes whose server has an audit_dir
  Checked,       \* remotes whose server has a revocation_check
  MaxDepth,      \* max_depth of every chain
  MaxClock,      \* bound: seconds
  MaxSent,       \* bound: messages sent
  MaxRevoked,    \* bound: no revocation once this many nodes are revoked
  MaxNodes       \* bound: nodes of all chains

ASSUME A2AAssumption ==
  /\ Audited \subseteq Remotes /\ Checked \subseteq Remotes
  /\ MaxDepth \in Nat \ {0}
  /\ MaxClock \in Nat /\ MaxSent \in Nat /\ MaxRevoked \in Nat /\ MaxNodes \in Nat \ {0}

VARIABLES
  clock,
  nodes,      \* the nodes of every chain, in the order they were made
  net,        \* the messages ever sent
  listed,     \* the status list: the jti it names, and since when
  ledgers     \* the chains that have a file in an audit_dir

vars == <<clock, nodes, net, listed, ledgers>>

(* A node: the root of its chain, its parent (0: none) and, of a root that  *)
(* continues a chain, the message it was continued from.  minted is what    *)
(* the resolver of delegating_guard_for made for each remote.               *)
Node(root, parent, agent, authority, message) ==
  [root |-> root, parent |-> parent, agent |-> agent, authority |-> authority,
   message |-> message, issued |-> clock, revoked |-> FALSE, stage |-> "live",
   minted |-> [r \in Remotes |-> {}]]

Init ==
  /\ clock = 0
  /\ nodes = <<[Node(1, 0, "client", ClientGrant, {}) EXCEPT !.issued = 0]>>
  /\ net = {}
  /\ listed = <<>>
  /\ ledgers = {}

Ids == DOMAIN nodes

-----------------------------------------------------------------------------
(* Names.  A chain is named by what it continues; a node id is unique in    *)
(* its chain only.                                                          *)

(* continuation_chain_id: the leaf's jti, and a fingerprint of its claims. *)
JtiOnly(ts) == {Last(ts).signed.jti}   \* mutant: without the fingerprint
ContinuationId(ts) == {Last(ts).signed}

ChainName(ns, root) == UNION {ContinuationId(m.tokens) : m \in ns[root].message}
NodeId(ns, n) ==
  [chain |-> ChainName(ns, ns[n].root),
   ordinal |-> Cardinality({k \in 1 .. n : ns[k].root = ns[n].root})]

(* From the root of its chain down to a node. *)
PathTo(ns, n) ==
  LET path[k \in DOMAIN ns] ==
        IF ns[k].parent = 0 THEN <<k>> ELSE Append(path[ns[k].parent], k)
  IN  path[n]
Below(n) == {k \in Ids : \E i \in DOMAIN PathTo(nodes, k) : PathTo(nodes, k)[i] = n}

IsExpired(n) == \E ttl \in nodes[n].authority.ttl : clock - nodes[n].issued > ttl

Served(n) == nodes[n].parent # 0 /\ nodes[nodes[n].parent].message # {}

-----------------------------------------------------------------------------
(* The client's side *)

(* In the client's process, or in inner.execute of a request being served. *)
Acting(n) == nodes[n].stage = "live" /\ (n = 1 \/ Served(n))

(* attach_delegation: a chain whose authorities have no lifetime raises,    *)
(* and nothing is sent.                                                     *)
Attach(ns, child, r) ==
  LET path == PathTo(ns, child)
      hops == [i \in DOMAIN path |->
                 WireNode(NodeId(ns, path[i]), ns[path[i]].agent, ns[path[i]].authority)]
      mint == Mint(Key, "01", {}, {}, {}, clock)
  IN  net' = IF \A i \in DOMAIN hops : Mintable(hops[i], mint)
             THEN net \cup {[to |-> r, child |-> child,
                             tokens |-> SerializeChain(hops, MaxDepth, mint)]}
             ELSE net

(* The resolver's child for a remote, as long as it is in force. *)
Reusable(n, r) == {c \in nodes[n].minted[r] : ~nodes[c].revoked /\ ~IsExpired(c)}

(* DelegationInterceptor.before, of a message another of the same child's   *)
(* went before.                                                             *)
SendAgain(n, r) ==
  /\ Acting(n) /\ Cardinality(net) < MaxSent
  /\ \E c \in Reusable(n, r) : Attach(nodes, c, r)
  /\ UNCHANGED <<clock, nodes, listed, ledgers>>

(* ... of the first, or after the child ended: delegating_guard_for asks    *)
(* for another; what Guard.delegate refuses is not sent.                    *)
SendFirst(n, r) ==
  /\ Acting(n) /\ Cardinality(net) < MaxSent /\ Len(nodes) < MaxNodes
  /\ Reusable(n, r) = {}
  /\ ~nodes[n].revoked /\ ~IsExpired(n)
  /\ Len(PathTo(nodes, n)) <= MaxDepth
  /\ \E request \in Asks(r) :
       /\ Meetable(nodes[n].authority, request)
       /\ nodes' = Append([nodes EXCEPT ![n].minted[r] = {Len(nodes) + 1}],
                          Node(nodes[n].root, n, r, Meet(nodes[n].authority, request), {}))
  /\ Attach(nodes', Len(nodes'), r)
  /\ UNCHANGED <<clock, listed, ledgers>>

(* Guard.revoke, in the process of the chain: it reaches no other process. *)
Revoke(n) ==
  /\ nodes[n].stage # "lost" /\ ~nodes[n].revoked
  /\ Cardinality({k \in Ids : nodes[k].revoked}) < MaxRevoked
  /\ nodes' = [k \in Ids |-> [nodes[k] EXCEPT !.revoked = @ \/ k \in Below(n)]]
  /\ UNCHANGED <<clock, net, listed, ledgers>>

(* The deployment's status list catches up with the revocations. *)
Publish ==
  LET fresh == {NodeId(nodes, k) : k \in {i \in Ids : nodes[i].revoked}} \ DOMAIN listed
  IN  /\ fresh # {}
      /\ listed' = [id \in DOMAIN listed \cup fresh |->
                      IF id \in fresh THEN clock ELSE listed[id]]
      /\ UNCHANGED <<clock, nodes, net, ledgers>>

-----------------------------------------------------------------------------
(* The server's side *)

(* wire.load and revocation_check of _authorize. *)
Unchecked(r, ts) ==   \* mutant: the status list is not asked
  Loads(ts, Verifier(Key, {{Key.kid}}, "01", {}, clock))
Authorizes(r, ts) ==
  /\ Loads(ts, Verifier(Key, {{Key.kid}}, "01", {}, clock))
  /\ r \in Checked => Last(ts).signed.jti \notin DOMAIN listed

(* execute: the chain is continued by an inbound root, for the caller, and  *)
(* the served node below it.  Guard.issue raises on a ledger that exists,   *)
(* and leaves its own behind when the delegation is then refused.           *)
Deliver(m) ==
  LET r     == m.to
      leaf  == LeafAuthority(m.tokens)
      new   == Len(nodes) + 1
      name  == ContinuationId(m.tokens)
      caller == CHOOSE a \in Last(m.tokens).signed.sub : TRUE
  IN  /\ Len(nodes) + 2 <= MaxNodes
      /\ Authorizes(r, m.tokens)
      /\ r \in Audited => name \notin ledgers
      /\ ledgers' = IF r \in Audited THEN ledgers \cup {name} ELSE ledgers
      /\ \E need \in Needs(r) :
           IF Meetable(leaf, need)
           THEN nodes' = nodes \o <<Node(new, 0, caller, leaf, {m}),
                                    Node(new, new, r, Meet(leaf, need), {})>>
           ELSE UNCHANGED nodes
      /\ UNCHANGED <<clock, net, listed>>

(* execute's finally: complete(), which closes a v1 node always. *)
Finish(n) ==
  /\ Served(n) /\ nodes[n].stage = "live"
  /\ nodes' = [nodes EXCEPT ![n].stage = "done"]
  /\ UNCHANGED <<clock, net, listed, ledgers>>

(* A server stops and starts: its chains are gone, its ledger files are     *)
(* not.  Of one without them a restart leaves what a slow server leaves.    *)
Restart(r) ==
  LET gone == {k \in Ids : \E i \in Ids :
                 /\ Served(i) /\ nodes[i].agent = r
                 /\ nodes[k].root = nodes[i].root /\ nodes[k].stage # "lost"}
  IN  /\ r \in Audited /\ gone # {}
      /\ nodes' = [k \in Ids |-> IF k \in gone THEN [nodes[k] EXCEPT !.stage = "lost"] ELSE nodes[k]]
      /\ UNCHANGED <<clock, net, listed, ledgers>>

(* guarded_tool: what the guard of a request answers a call at this moment. *)
(* The node's done entry does not end it: a task the body left running      *)
(* still has the guard in its context.                                      *)
Allowed(n, s, ctx) ==
  /\ Served(n) /\ nodes[n].stage # "lost"
  /\ ~nodes[n].revoked /\ ~IsExpired(n)
  /\ Permits(nodes[n].authority, s, ctx)

-----------------------------------------------------------------------------
(* verify_hop, offline, of a hop's tokens and the ledgers of its two chains *)

SameAuthority(a, b) == IsNarrowerThan(a, b) /\ IsNarrowerThan(b, a)

CheckClient(root, ts) ==
  \E n \in Ids :
    /\ nodes[n].root = root /\ NodeId(nodes, n) = Last(ts).signed.jti
    /\ {nodes[n].agent} = Last(ts).signed.sub
    /\ SameAuthority(nodes[n].authority, LeafAuthority(ts))

CheckServer(root, ts) ==
  /\ ChainName(nodes, root) = ContinuationId(ts)
  /\ {nodes[root].agent} = Last(ts).signed.sub
  /\ SameAuthority(nodes[root].authority, LeafAuthority(ts))

VerifyHop(ts, client, server, now) ==
  /\ Loads(ts, Verifier(Key, {}, "01", {}, now))
  /\ CheckClient(client, ts)
  /\ CheckServer(server, ts)

-----------------------------------------------------------------------------
Tick ==
  /\ clock < MaxClock
  /\ clock' = clock + 1
  /\ UNCHANGED <<nodes, net, listed, ledgers>>

Next ==
  \/ \E n \in Ids, r \in Remotes : SendFirst(n, r) \/ SendAgain(n, r)
  \/ \E n \in Ids : Revoke(n) \/ Finish(n)
  \/ \E m \in net : Deliver(m)
  \/ \E r \in Remotes : Restart(r)
  \/ Publish
  \/ Tick

Spec == Init /\ [][Next]_vars
=============================================================================
