---------------------------- MODULE A2AProperties ----------------------------
(***************************************************************************)
(* What a caller is owed by the agents it delegates to across processes,   *)
(* none of which can see another's chain.                                  *)
(***************************************************************************)
EXTENDS A2A

CONSTANTS
  Asked,      \* scopes a tool call asks for
  Contexts    \* contexts of a tool call

(* The node the tokens of a served request were minted for. *)
MintedFor(n) == CHOOSE c \in {m.child : m \in nodes[nodes[n].root].message} : TRUE

(* Every node a node acts for, up its chain and on through the messages     *)
(* that began it.                                                           *)
Callers(n) ==
  LET up[k \in Ids] ==
        {k} \cup (IF nodes[k].parent # 0 THEN up[nodes[k].parent]
                  ELSE UNION {up[m.child] : m \in nodes[k].message})
  IN  up[n]

(* Whatever passes between the processes, a served agent is allowed only    *)
(* what every caller up to the first client permits: "a subset of the       *)
(* caller's, and the caller never had to be trusted to say so"              *)
(* (a2a.py:20-21).                                                          *)
ServedWithinCallers ==
  \A n \in Ids : \A s \in Asked, ctx \in Contexts :
    Allowed(n, s, ctx) => \A c \in Callers(n) : Permits(nodes[c].authority, s, ctx)

(* verify_hop accepts a hop's tokens with the ledger of the chain that      *)
(* minted them and that of a served request exactly when that request was   *)
(* begun on these tokens, whatever was resent, redelivered or lost.         *)
HopsVerify ==
  \A m \in net : \A n \in Ids :
    Served(n) =>
      (VerifyHop(m.tokens, nodes[m.child].root, nodes[n].root, 0) <=>
         \E begun \in nodes[nodes[n].root].message : begun.tokens = m.tokens)

(* A remote call is over at most three lifetimes after the client's node    *)
(* was issued: one until the last message, one until its token runs out,    *)
(* one from the delivery; and one after its token is listed as revoked,     *)
(* where the server asks (a2a.py:129-134).                                  *)
RemoteCallsEnd ==
  \A n \in Ids : \A s \in Asked, ctx \in Contexts :
    Allowed(n, s, ctx) =>
      LET c == MintedFor(n)
      IN  \A ttl \in nodes[c].authority.ttl :
            /\ clock <= nodes[c].issued + 3 * ttl
            /\ nodes[n].agent \in Checked =>
                 \A id \in {NodeId(nodes, c)} \cap DOMAIN listed : clock <= listed[id] + ttl
=============================================================================
