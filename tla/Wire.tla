-------------------------------- MODULE Wire --------------------------------
(***************************************************************************)
(* Delegation tokens (src/attenu_guard/wire.py): a chain of nodes minted   *)
(* as signed tokens, and the offline check that loads it.                  *)
(*                                                                         *)
(* A token is the claims it signs and the key of the signature over them.  *)
(* A hash is the value it covers, so par_hash is the parent's claims; a    *)
(* member a token may lack is {} or {value}.  Tokens that are not the      *)
(* canonical JSON of such claims are refused by _parse_token before any of *)
(* this and are not represented.                                           *)
(***************************************************************************)
EXTENDS Authority

(* Of the path minted: what serialize reads from a node. *)
WireNode(id, agent, authority) == [id |-> id, agent |-> agent, authority |-> authority]

Signer(alg, kid, key) == [alg |-> alg, kid |-> kid, key |-> key]

(* The arguments of a serialisation, and those of a verification. *)
Mint(signer, draft, principal, aud, cnf, iat) ==
  [signer |-> signer, draft |-> draft, principal |-> principal, aud |-> aud,
   cnf |-> cnf, iat |-> iat]
Verifier(signer, roots, draft, audience, now) ==
  [signer |-> signer, roots |-> roots, draft |-> draft, audience |-> audience, now |-> now]

-----------------------------------------------------------------------------
(* Minting *)

(* ceiling_to_wire_02: a call limit is a bound on a total, an egress level  *)
(* carries its order, and a field other than the key cannot be said.        *)
EgressOrder == <<<<"none">>, <<"internal">>, <<"any">>>>
Descending02(c) ==   \* mutant: the order is listed from its top
  IF c.kind = "rank" THEN Ranked(c.field, Reverse(EgressOrder), 3 - RankOf(c.level)) ELSE c
OnWire02(c) ==
  CASE c.kind = "calls" -> Total("lifetime", c.field, c.bound, c.applies)
    [] c.kind = "rank" -> Ranked(c.field, EgressOrder, RankOf(c.level) + 1)
    [] OTHER -> c
Expressible(a) ==
  \A k \in Keys(a) : a.ceilings[k].kind \in {"allow", "deny", "prefix"} => a.ceilings[k].field = k

OnWire(a, draft) ==
  IF draft = "01" THEN a.ceilings ELSE [k \in Keys(a) |-> OnWire02(a.ceilings[k])]

(* What _build_token does not refuse with a WireError. *)
Mintable(node, m) ==
  /\ node.authority.ttl # {}
  /\ m.draft = "02" =>
       m.principal # {} /\ m.aud # {} /\ m.cnf # {} /\ Expressible(node.authority)

Subject(node, m) == IF m.principal = {} THEN {node.agent} ELSE m.principal

(* _build_token: the claims of the node at the depth given. *)
Claims(node, depth, bound, parent, m) ==
  [alg |-> m.signer.alg, kid |-> m.signer.kid, sub |-> Subject(node, m),
   client |-> IF m.principal = {} THEN {} ELSE {node.agent},
   cnf |-> IF m.draft = "02" THEN m.cnf ELSE {},
   aud |-> m.aud, jti |-> node.id, iat |-> m.iat,
   exp |-> {m.iat + n : n \in node.authority.ttl}, nbf |-> {},
   scopes |-> node.authority.scopes, ceilings |-> OnWire(node.authority, m.draft),
   depth |-> depth, bound |-> bound, parent |-> parent]

Sign(claims, m) == [signed |-> claims, seal |-> m.signer.key]

(* The root is the only token with del_max_depth: one more than the deepest *)
(* node allowed, since the leaf must be strictly below it.                  *)
DeepestBound(maxDepth) == {maxDepth}   \* mutant: the deepest node allowed
RootBound(maxDepth) == {maxDepth + 1}

(* serialize: one token, which no parent's hash links. *)
Serialize(node, depth, maxDepth, m) ==
  Sign(Claims(node, depth, IF depth = 0 THEN RootBound(maxDepth) ELSE {}, {}, m), m)

(* serialize_chain, of a root-to-leaf path. *)
SerializeChain(path, maxDepth, m) ==
  LET claims[i \in DOMAIN path] ==
        IF i = 1 THEN Claims(path[1], 0, RootBound(maxDepth), {}, m)
        ELSE Claims(path[i], i - 1, {}, {claims[i - 1]}, m)
  IN  [i \in DOMAIN path |-> Sign(claims[i], m)]

-----------------------------------------------------------------------------
(* Loading.  Each check is of the whole chain; load raises at the first     *)
(* that fails, which only the wording of its error tells apart.             *)

(* The authority of a token: its lifetime is what its two times span. *)
AuthorityOf(t) ==
  Grant(t.signed.scopes, t.signed.ceilings, {e - t.signed.iat : e \in t.signed.exp})
Untimed(a) == [a EXCEPT !.ttl = {}]

(* _check_token_02 *)
Complete02(ts) ==
  \A i \in DOMAIN ts :
    /\ ts[i].signed.sub # {} /\ ts[i].signed.client # {}
    /\ ts[i].signed.aud # {} /\ ts[i].signed.cnf # {}

(* By one key, from a root it trusts. *)
Authentic(ts, v) ==
  /\ \A roots \in v.roots : ts[1].signed.kid \in roots
  /\ \A i \in DOMAIN ts : ts[i].signed.alg = v.signer.alg /\ ts[i].seal = v.signer.key

(* Each token names the one before it by its hash. *)
RootUnlinked(ts) == ts[1].signed.parent = {}   \* mutant: any child under any parent
Linked(ts) ==
  /\ ts[1].signed.parent = {}
  /\ \A i \in 2 .. Len(ts) : ts[i].signed.parent = {ts[i - 1].signed}

DepthsCount(ts) ==
  /\ \E b \in ts[1].signed.bound : b > 0 /\ Len(ts) - 1 < b
  /\ \A i \in DOMAIN ts : ts[i].signed.depth = i - 1

OnePrincipal(ts) == \A i \in DOMAIN ts : ts[i].signed.sub = ts[1].signed.sub

(* The bounds the tokens carry do not grow (-02, rule 5). *)
BoundsNarrow(ts) ==
  \A i, j \in DOMAIN ts : i <= j =>
    \A m \in ts[i].signed.bound, n \in ts[j].signed.bound : 0 < n /\ n <= m

NarrowsHopByHop(ts, draft) ==
  \A i \in 2 .. Len(ts) :
    LET child  == AuthorityOf(ts[i])
        parent == AuthorityOf(ts[i - 1])
    IN  IF draft = "01" THEN IsNarrowerThan(child, parent)
        ELSE IsNarrowerThan(Untimed(child), Untimed(parent))

(* Each token is in time (-02: not in its last second), and none outlives   *)
(* its parent.                                                              *)
InTime(ts, v) ==
  /\ \A i \in DOMAIN ts : ts[i].signed.exp # {}
  /\ \A i \in DOMAIN ts : \A n \in ts[i].signed.nbf : n <= v.now
  /\ \A i \in DOMAIN ts : \A e \in ts[i].signed.exp :
       v.now < e \/ (v.draft = "01" /\ v.now = e)
  /\ \A i \in 2 .. Len(ts) : \A e \in ts[i].signed.exp : \A p \in ts[i - 1].signed.exp : e <= p

(* _names_audience, of the leaf. *)
Addressed(ts, audience) == \E aud \in Last(ts).signed.aud : audience \in aud

(* load does not raise. *)
Loads(ts, v) ==
  /\ ts # <<>>
  /\ v.draft = "02" => Complete02(ts)
  /\ Authentic(ts, v)
  /\ Linked(ts)
  /\ DepthsCount(ts)
  /\ v.draft = "02" => OnePrincipal(ts) /\ BoundsNarrow(ts)
  /\ NarrowsHopByHop(ts, v.draft)
  /\ InTime(ts, v)
  /\ v.draft = "02" => \A a \in v.audience : Addressed(ts, a)

(* VerifiedChain.leaf_authority *)
RootAuthority(ts) == AuthorityOf(ts[1])   \* mutant: of the wrong end
LeafAuthority(ts) == AuthorityOf(Last(ts))

(* VerifiedChain.permits: an -02 chain nobody checked the audience of       *)
(* permits nothing.                                                         *)
ChainPermits(ts, v, s, ctx) ==
  /\ v.draft = "02" => \E a \in v.audience : Addressed(ts, a)
  /\ Permits(LeafAuthority(ts), s, ctx)
=============================================================================
