----------------------------- MODULE A2AProofs -----------------------------
(***************************************************************************)
(* Delegation across processes, proved for any remotes, whatever they ask  *)
(* of one another and for however long: what a served agent may do and     *)
(* until when, and which hops verify.                                      *)
(***************************************************************************)
EXTENDS A2AProperties, FiniteSetTheorems, AuthorityProofs

-----------------------------------------------------------------------------
(* The way down to a node *)

(* Parents are made before their children. *)
Ordered(ns) == IsSeq(ns) /\ \A k \in DOMAIN ns : ns[k].parent \in 0 .. k - 1

LEMMA PathUnfolds ==
  ASSUME NEW ns, Ordered(ns)
  PROVE  \E path :
           /\ path = [k \in DOMAIN ns |->
                        IF ns[k].parent = 0 THEN <<k>> ELSE Append(path[ns[k].parent], k)]
           /\ \A n \in DOMAIN ns : PathTo(ns, n) = path[n]
<1> DEFINE At(path, k) == IF ns[k].parent = 0 THEN <<k>> ELSE Append(path[ns[k].parent], k)
           Is(path, n) == path = [k \in 1 .. n |-> At(path, k)]
           bad == {n \in 0 .. Len(ns) : ~\E path : Is(path, n)}
<1>0. Len(ns) \in Nat /\ DOMAIN ns = 1 .. Len(ns)
  BY SeqIsIndexed DEF Ordered
<1>1. bad = {}
  <2>1. SUFFICES ASSUME bad # {} PROVE FALSE
    OBVIOUS
  <2>2. PICK n \in bad : \A k \in bad : n <= k
    <3>1. bad \subseteq Nat
      BY <1>0
    <3> HIDE DEF bad
    <3>2. QED  BY <2>1, <3>1, LeastNumber
  <2>3. n # 0
    <3>1. PICK path : path = [k \in 1 .. 0 |-> k]
      OBVIOUS
    <3>2. 1 .. 0 = {}
      OBVIOUS
    <3>3. Is(path, 0)
      BY <3>1, <3>2
    <3>4. QED  BY <2>2, <3>3
  <2>4. n \in 1 .. Len(ns) /\ n - 1 \in 0 .. Len(ns) /\ ~(n <= n - 1)
    BY <1>0, <2>2, <2>3
  <2>5. PICK path : Is(path, n - 1)
    BY <2>2, <2>4
  <2>6. PICK longer : longer = [k \in 1 .. n |-> IF k = n THEN At(path, n) ELSE path[k]]
    OBVIOUS
  <2>7. ASSUME NEW k \in 1 .. n
        PROVE  longer[k] = At(longer, k)
    <3> DEFINE p == ns[k].parent
    <3>1. p \in 0 .. k - 1
      BY <1>0, <2>4 DEF Ordered
    <3> HIDE DEF p
    <3>2. p # 0 => longer[p] = path[p]
      <4>1. SUFFICES ASSUME p # 0 PROVE longer[p] = path[p]
        OBVIOUS
      <4>2. p \in 1 .. n /\ p # n
        BY <2>4, <3>1, <4>1
      <4>3. QED  BY <2>6, <4>2
    <3>3. At(longer, k) = At(path, k)
      BY <3>2 DEF p
    <3>4. CASE k = n
      BY <2>6, <3>3, <3>4
    <3>5. CASE k # n
      <4>1. k \in 1 .. n - 1
        BY <2>4, <3>5
      <4>2. path[k] = At(path, k)
        BY <2>5, <4>1
      <4>3. longer[k] = path[k]
        BY <2>6, <3>5
      <4>4. QED  BY <3>3, <4>2, <4>3
    <3>6. QED  BY <3>4, <3>5
  <2>8. Is(longer, n)
    <3> HIDE DEF At
    <3>1. QED  BY <2>6, <2>7
  <2>9. QED  BY <2>2, <2>8
<1>2. \E path : Is(path, Len(ns))
  BY <1>0, <1>1
<1> DEFINE Down == CHOOSE path : Is(path, Len(ns))
<1>3. Is(Down, Len(ns))
  <2> HIDE DEF Is
  <2>1. QED  BY <1>2
<1>4. \A n \in DOMAIN ns : PathTo(ns, n) = Down[n]
  BY <1>0 DEF PathTo
<1> HIDE DEF Down
<1>5. Down = [k \in DOMAIN ns |-> At(Down, k)]
  BY <1>0, <1>3
<1>6. QED  BY <1>4, <1>5

(* It ends at the node. *)
LEMMA PathEnds ==
  ASSUME NEW ns, Ordered(ns)
  PROVE  \A n \in DOMAIN ns :
           /\ IsSeq(PathTo(ns, n)) /\ PathTo(ns, n) # <<>>
           /\ PathTo(ns, n)[Len(PathTo(ns, n))] = n
           /\ \A i \in DOMAIN PathTo(ns, n) : PathTo(ns, n)[i] \in DOMAIN ns
<1>1. PICK path :
        /\ path = [k \in DOMAIN ns |->
                     IF ns[k].parent = 0 THEN <<k>> ELSE Append(path[ns[k].parent], k)]
        /\ \A n \in DOMAIN ns : PathTo(ns, n) = path[n]
  BY PathUnfolds
<1>2. Len(ns) \in Nat /\ DOMAIN ns = 1 .. Len(ns)
  BY SeqIsIndexed DEF Ordered
<1> DEFINE Ends(s, n) ==
             /\ IsSeq(s) /\ Len(s) \in Nat /\ Len(s) # 0 /\ s[Len(s)] = n
             /\ \A i \in 1 .. Len(s) : s[i] \in DOMAIN ns
           bad == {n \in DOMAIN ns : ~Ends(path[n], n)}
<1>3. bad = {}
  <2>1. SUFFICES ASSUME bad # {} PROVE FALSE
    OBVIOUS
  <2>2. PICK n \in bad : \A k \in bad : n <= k
    <3>1. bad \subseteq Nat
      BY <1>2
    <3> HIDE DEF bad
    <3>2. QED  BY <2>1, <3>1, LeastNumber
  <2>3. path[n] = IF ns[n].parent = 0 THEN <<n>> ELSE Append(path[ns[n].parent], n)
    BY <1>1, <2>2
  <2>4. CASE ns[n].parent = 0
    <3>1. Ends(<<n>>, n)
      <4>1. \A i \in 1 .. 1 : i = 1
        OBVIOUS
      <4>2. QED  BY <2>2, <4>1, SingletonSeq
    <3>2. QED  BY <2>2, <2>3, <2>4, <3>1
  <2>5. CASE ns[n].parent # 0
    <3> DEFINE p == ns[n].parent
    <3>1. p \in 0 .. n - 1
      BY <2>2 DEF Ordered
    <3> HIDE DEF p
    <3>2. p \in DOMAIN ns /\ ~(n <= p)
      BY <1>2, <2>2, <2>5, <3>1 DEF p
    <3>3. Ends(path[p], p)
      BY <2>2, <3>2
    <3> DEFINE s == path[p]
    <3>4. IsSeq(s) /\ Len(s) \in Nat /\ \A i \in 1 .. Len(s) : s[i] \in DOMAIN ns
      BY <3>3
    <3> HIDE DEF s
    <3>5. Ends(Append(s, n), n)
      <4>1. /\ IsSeq(Append(s, n)) /\ Len(Append(s, n)) = Len(s) + 1
            /\ Append(s, n)[Len(s) + 1] = n
            /\ \A i \in 1 .. Len(s) : Append(s, n)[i] = s[i]
        BY <3>4, Appended
      <4>2. \A i \in 1 .. Len(s) + 1 : i \in 1 .. Len(s) \/ i = Len(s) + 1
        BY <3>4
      <4>3. n \in DOMAIN ns
        BY <2>2
      <4>4. QED  BY <3>4, <4>1, <4>2, <4>3
    <3>6. path[n] = Append(s, n)
      BY <2>3, <2>5 DEF s, p
    <3>7. QED  BY <2>2, <3>5, <3>6
  <2>6. QED  BY <2>4, <2>5
<1>4. \A n \in DOMAIN ns : Ends(path[n], n)
  BY <1>3
<1>5. Len(<<>>) = 0
  OBVIOUS
<1>6. ASSUME NEW n \in DOMAIN ns
      PROVE  PathTo(ns, n) = path[n] /\ Ends(path[n], n) /\ path[n] # <<>>
  BY <1>1, <1>4, <1>5
<1> HIDE DEF bad
<1>7. QED  BY <1>6, SeqIsIndexed

-----------------------------------------------------------------------------
(* What is minted for a path: every token is sealed by its signer, and      *)
(* carries the node it was minted for, whatever it is linked to.            *)

IsTokenOf(t, node, m) ==
  \E depth, bound, parent : t = Sign(Claims(node, depth, bound, parent, m), m)

LEMMA SerializedTokens ==
  ASSUME NEW hops, IsSeq(hops), NEW b, NEW m
  PROVE  /\ IsSeq(SerializeChain(hops, b, m)) /\ Len(SerializeChain(hops, b, m)) = Len(hops)
         /\ \A i \in DOMAIN hops : IsTokenOf(SerializeChain(hops, b, m)[i], hops[i], m)
<1>0. Len(hops) \in Nat /\ DOMAIN hops = 1 .. Len(hops)
  BY SeqIsIndexed
<1>1. PICK claims : Chained(hops, b, m, claims)
  BY ChainUnfolds
<1> DEFINE ts == SerializeChain(hops, b, m)
<1>2. ASSUME NEW i \in 1 .. Len(hops)
      PROVE  IsTokenOf(ts[i], hops[i], m)
  <2>1. ts[i] = Sign(claims[i], m)
    BY <1>1 DEF Chained
  <2> HIDE DEF ts
  <2>2. claims[i] = IF i = 1 THEN Claims(hops[1], 0, RootBound(b), {}, m)
                    ELSE Claims(hops[i], i - 1, {}, {claims[i - 1]}, m)
    BY <1>1 DEF Chained
  <2>3. CASE i = 1
    BY <2>1, <2>2, <2>3 DEF IsTokenOf
  <2>4. CASE i # 1
    BY <2>1, <2>2, <2>4 DEF IsTokenOf
  <2>5. QED  BY <2>3, <2>4
<1>3. ts = [i \in 1 .. Len(hops) |-> ts[i]]
  BY <1>1 DEF Chained
<1> HIDE DEF ts
<1>4. IsSeq(ts) /\ Len(ts) = Len(hops)
  BY <1>0, <1>3, IndexedIsSeq
<1>5. QED  BY <1>0, <1>2, <1>4 DEF ts

-----------------------------------------------------------------------------
(* The inductive invariant *)

(* What is asked of a remote, and what it needs, are authorities. *)
WellFormed ==
  /\ IsAuthority(ClientGrant)
  /\ \A r \in Remotes : \A x \in Asks(r) \cup Needs(r) : IsAuthority(x)

IsNode(x) ==
  x = [root |-> x.root, parent |-> x.parent, agent |-> x.agent, authority |-> x.authority,
       message |-> x.message, issued |-> x.issued, revoked |-> x.revoked, stage |-> x.stage,
       minted |-> x.minted]

Leaf(ts) == Last(ts).signed
Server(at) == Verifier(Key, {{Key.kid}}, "01", {}, at)

(* A message carries the node it was sent for, in tokens sealed while that  *)
(* node was in force or when it was made.                                   *)
Minted(ts) ==
  /\ IsSeq(ts) /\ ts # <<>>
  /\ \A i \in DOMAIN ts :
       /\ ts[i] = [signed |-> ts[i].signed, seal |-> Key.key]
       /\ ts[i].signed.nbf = {} /\ ts[i].signed.exp \subseteq Int
Names(ts, c) == Leaf(ts).jti = NodeId(nodes, c) /\ Leaf(ts).sub = {nodes[c].agent}
Timed(ts, c) ==
  /\ Leaf(ts).iat \in Nat /\ Leaf(ts).iat <= clock
  /\ Leaf(ts).exp = {Leaf(ts).iat + t : t \in nodes[c].authority.ttl}
  /\ \/ Leaf(ts).iat = nodes[c].issued
     \/ \A t \in nodes[c].authority.ttl : Leaf(ts).iat <= nodes[c].issued + t
IsMessage(m) ==
  /\ m.to \in Remotes /\ m.child \in Ids
  /\ Minted(m.tokens) /\ Names(m.tokens, m.child) /\ Timed(m.tokens, m.child)
  /\ LeafAuthority(m.tokens) = nodes[m.child].authority

(* The root of a chain that continues one, and where it was refused if its  *)
(* token was listed.                                                        *)
Continues(n, m) ==
  /\ nodes[n].message = {m} /\ m.child \in 1 .. n - 1
  /\ nodes[n].authority = nodes[m.child].authority
  /\ Leaf(m.tokens).sub = {nodes[n].agent} /\ Leaf(m.tokens).iat <= nodes[n].issued
  /\ Loads(m.tokens, Server(nodes[n].issued))
  /\ m.to \in Checked =>
       \A id \in {Leaf(m.tokens).jti} \cap DOMAIN listed : nodes[n].issued <= listed[id]
IsRoot(n) ==
  /\ nodes[n].root = n /\ nodes[n].parent = 0
  /\ \/ n = 1 /\ nodes[n].message = {}
     \/ \E m \in net : Continues(n, m)

(* A node below another; the served one below such a root is made with it. *)
IsChild(n) ==
  /\ nodes[n].parent \in 1 .. n - 1 /\ nodes[n].message = {}
  /\ nodes[n].root = nodes[nodes[n].parent].root
  /\ IsNarrowerThan(nodes[n].authority, nodes[nodes[n].parent].authority)
  /\ \A m \in nodes[nodes[n].parent].message :
       nodes[n].agent = m.to /\ nodes[n].issued = nodes[nodes[n].parent].issued

(* What no step of any process changes, of a node that is made. *)
Made(n) ==
  /\ IsAuthority(nodes[n].authority)
  /\ nodes[n].issued \in Nat /\ nodes[n].issued <= clock
  /\ nodes[n].root \in 1 .. n
  /\ IsRoot(n) \/ IsChild(n)
NodeInv(n) ==
  /\ Made(n) /\ IsNode(nodes[n])
  /\ nodes[n].minted = [r \in Remotes |-> nodes[n].minted[r]]
  /\ \A r \in Remotes : nodes[n].minted[r] \subseteq Ids
NodesInv == IsSeq(nodes) /\ Len(nodes) # 0 /\ \A n \in Ids : NodeInv(n)
NetInv == \A m \in net : IsMessage(m)
ListInv == \A id \in DOMAIN listed : listed[id] \in Nat /\ listed[id] <= clock

IInv == clock \in Nat /\ NodesInv /\ NetInv /\ ListInv

LEMMA NodesOrdered ==
  ASSUME NodesInv
  PROVE  /\ Ordered(nodes) /\ Len(nodes) \in Nat /\ Ids = 1 .. Len(nodes)
         /\ 1 \in Ids /\ nodes[1].message = {}
<1>1. Len(nodes) \in Nat /\ Ids = 1 .. Len(nodes)
  BY SeqIsIndexed DEF NodesInv, Ids
<1>2. 1 \in Ids
  BY <1>1 DEF NodesInv
<1>3. \A n \in Ids : nodes[n].parent \in 0 .. n - 1
  <2>1. SUFFICES ASSUME NEW n \in Ids PROVE nodes[n].parent \in 0 .. n - 1
    OBVIOUS
  <2>2. CASE IsRoot(n)
    BY <1>1, <2>2 DEF IsRoot
  <2>3. CASE IsChild(n)
    BY <1>1, <2>3 DEF IsChild
  <2>4. QED  BY <2>2, <2>3 DEF NodesInv, NodeInv, Made
<1>4. nodes[1].message = {}
  <2>1. NodeInv(1)
    BY <1>2 DEF NodesInv
  <2>2. CASE IsRoot(1)
    BY <2>2 DEF IsRoot, Continues
  <2>3. CASE IsChild(1)
    BY <2>3 DEF IsChild
  <2>4. QED  BY <2>1, <2>2, <2>3 DEF NodeInv, Made
<1>5. QED  BY <1>1, <1>2, <1>3, <1>4 DEF Ordered, NodesInv, Ids

LEMMA InitInv == WellFormed /\ Init => IInv
<1> SUFFICES ASSUME WellFormed, Init
             PROVE  IInv
  OBVIOUS
<1> DEFINE x == [Node(1, 0, "client", ClientGrant, {}) EXCEPT !.issued = 0]
<1>1. IsNode(x) /\ x.root = 1 /\ x.parent = 0 /\ x.message = {} /\ x.issued = 0
      /\ x.authority = ClientGrant /\ x.minted = [r \in Remotes |-> {}]
  <2>1. PICK y : y = Node(1, 0, "client", ClientGrant, {})
    OBVIOUS
  <2>2. PICK z : z = [y EXCEPT !.issued = 0]
    OBVIOUS
  <2>3. IsNode(z) /\ z.root = 1 /\ z.parent = 0 /\ z.message = {} /\ z.issued = 0
        /\ z.authority = ClientGrant /\ z.minted = [r \in Remotes |-> {}]
    BY <2>1, <2>2 DEF Node, IsNode
  <2>4. QED  BY <2>1, <2>2, <2>3
<1>2. nodes = <<x>> /\ clock = 0 /\ net = {} /\ listed = <<>>
  BY DEF Init
<1> HIDE DEF x
<1>3. IsSeq(nodes) /\ Len(nodes) = 1 /\ nodes[1] = x
  BY <1>2, SingletonSeq
<1>4. Ids = {1}
  BY <1>3, SeqIsIndexed DEF Ids
<1>5. NodeInv(1)
  BY <1>1, <1>2, <1>3 DEF NodeInv, Made, IsRoot, WellFormed
<1>6. DOMAIN listed = {}
  BY <1>2
<1>7. QED  BY <1>2, <1>3, <1>4, <1>5, <1>6 DEF IInv, NodesInv, NetInv, ListInv

-----------------------------------------------------------------------------
(* What a client sends *)

LEMMA TokenCarries ==
  ASSUME NEW id, NEW agent, NEW a, IsAuthority(a), NEW at \in Nat, NEW t,
         IsTokenOf(t, WireNode(id, agent, a), Mint(Key, "01", {}, {}, {}, at))
  PROVE  /\ t = [signed |-> t.signed, seal |-> Key.key]
         /\ t.signed.nbf = {} /\ t.signed.jti = id /\ t.signed.sub = {agent}
         /\ t.signed.iat = at
         /\ t.signed.exp = {at + n : n \in a.ttl} /\ t.signed.exp \subseteq Int
         /\ AuthorityOf(t) = a
<1>1. PICK node : node = WireNode(id, agent, a)
  OBVIOUS
<1>2. node.id = id /\ node.agent = agent /\ node.authority = a
  BY <1>1 DEF WireNode
<1>3. PICK m : m = Mint(Key, "01", {}, {}, {}, at)
  OBVIOUS
<1>4. /\ m.signer = Key /\ m.draft = "01" /\ m.principal = {} /\ m.aud = {} /\ m.cnf = {}
      /\ m.iat = at
  BY <1>3 DEF Mint
<1>5. PICK depth, bound, parent : t = Sign(Claims(node, depth, bound, parent, m), m)
  BY <1>1, <1>3 DEF IsTokenOf
<1>6. PICK c : c = Claims(node, depth, bound, parent, m)
  OBVIOUS
<1>7. /\ c.nbf = {} /\ c.jti = id /\ c.sub = {agent} /\ c.iat = at
      /\ c.exp = {at + n : n \in a.ttl} /\ c.scopes = a.scopes /\ c.ceilings = a.ceilings
  BY <1>2, <1>4, <1>6 DEF Claims, Subject, OnWire
<1>8. t = [signed |-> c, seal |-> Key.key]
  BY <1>4, <1>5, <1>6 DEF Sign
<1>9. t.signed = c /\ t = [signed |-> t.signed, seal |-> Key.key]
  BY <1>8
<1>10. a.ttl \subseteq Int /\ a = Grant(a.scopes, a.ceilings, a.ttl)
  BY DEF IsAuthority
<1>11. c.exp \subseteq Int
  BY <1>7, <1>10
<1>12. {e - c.iat : e \in c.exp} = a.ttl
  <2>1. PICK ttl : ttl = a.ttl
    OBVIOUS
  <2>2. ttl \subseteq Int /\ at \in Int /\ c.exp = {at + n : n \in ttl} /\ c.iat = at
    BY <1>7, <1>10, <2>1
  <2>3. {e - at : e \in {at + n : n \in ttl}} = ttl
    BY <2>2, LifeIsKept
  <2>4. QED  BY <2>1, <2>2, <2>3
<1>13. AuthorityOf(t) = a
  BY <1>7, <1>9, <1>10, <1>12 DEF AuthorityOf
<1>14. QED  BY <1>7, <1>9, <1>11, <1>13

LEMMA AttachSends ==
  ASSUME NEW ns, Ordered(ns), \A k \in DOMAIN ns : IsAuthority(ns[k].authority),
         NEW child \in DOMAIN ns, NEW r, clock \in Nat, Attach(ns, child, r),
         NEW m \in net', m \notin net
  PROVE  /\ m.to = r /\ m.child = child /\ Minted(m.tokens)
         /\ Leaf(m.tokens).jti = NodeId(ns, child)
         /\ Leaf(m.tokens).sub = {ns[child].agent}
         /\ Leaf(m.tokens).iat = clock
         /\ Leaf(m.tokens).exp = {clock + t : t \in ns[child].authority.ttl}
         /\ LeafAuthority(m.tokens) = ns[child].authority
<1> DEFINE path == PathTo(ns, child)
           mint == Mint(Key, "01", {}, {}, {}, clock)
           Hop(k) == WireNode(NodeId(ns, k), ns[k].agent, ns[k].authority)
           hops == [i \in DOMAIN path |-> Hop(path[i])]
           ts == SerializeChain(hops, MaxDepth, mint)
<1>1. net' = net \cup {[to |-> r, child |-> child, tokens |-> ts]} \/ net' = net
  BY DEF Attach
<1>2. m = [to |-> r, child |-> child, tokens |-> ts]
  BY <1>1
<1>3. IsSeq(path) /\ path # <<>> /\ path[Len(path)] = child
      /\ \A i \in DOMAIN path : path[i] \in DOMAIN ns
  BY PathEnds
<1> HIDE DEF path, mint, Hop
<1>4. Len(path) \in DOMAIN path /\ Len(path) \in Nat /\ DOMAIN path = 1 .. Len(path)
  BY <1>3, LastOf, SeqIsIndexed
<1>5. IsSeq(hops) /\ Len(hops) = Len(path) /\ DOMAIN hops = DOMAIN path
  <2>1. hops = [i \in 1 .. Len(path) |-> hops[i]]
    BY <1>4
  <2> HIDE DEF hops
  <2>2. QED  BY <1>4, <2>1, IndexedIsSeq
<1>6. \A i \in DOMAIN path : hops[i] = Hop(path[i])
  OBVIOUS
<1> HIDE DEF hops
<1>7. /\ IsSeq(ts) /\ Len(ts) = Len(path)
      /\ \A i \in DOMAIN path : IsTokenOf(ts[i], Hop(path[i]), mint)
  BY <1>5, <1>6, SerializedTokens
<1> HIDE DEF ts
<1>8. DOMAIN ts = DOMAIN path /\ ts # <<>> /\ Last(ts) = ts[Len(path)]
  <2>1. DOMAIN ts = DOMAIN path
    BY <1>4, <1>7, SeqIsIndexed
  <2>2. ts # <<>>
    BY <1>4, <2>1
  <2>3. QED  BY <1>7, <2>1, <2>2, LastOf
<1>9. ASSUME NEW i \in DOMAIN path
      PROVE  LET k == path[i]
             IN  /\ ts[i] = [signed |-> ts[i].signed, seal |-> Key.key]
                 /\ ts[i].signed.nbf = {} /\ ts[i].signed.jti = NodeId(ns, k)
                 /\ ts[i].signed.sub = {ns[k].agent} /\ ts[i].signed.iat = clock
                 /\ ts[i].signed.exp = {clock + n : n \in ns[k].authority.ttl}
                 /\ ts[i].signed.exp \subseteq Int
                 /\ AuthorityOf(ts[i]) = ns[k].authority
  <2> DEFINE k == path[i]
             a == ns[k].authority
             id == NodeId(ns, k)
             t == ts[i]
  <2>1. IsAuthority(a)
    BY <1>3
  <2>2. IsTokenOf(t, WireNode(id, ns[k].agent, a), Mint(Key, "01", {}, {}, {}, clock))
    BY <1>7 DEF Hop, mint
  <2> HIDE DEF k, a, id, t
  <2>3. /\ t = [signed |-> t.signed, seal |-> Key.key]
        /\ t.signed.nbf = {} /\ t.signed.jti = id /\ t.signed.sub = {ns[k].agent}
        /\ t.signed.iat = clock
        /\ t.signed.exp = {clock + n : n \in a.ttl} /\ t.signed.exp \subseteq Int
        /\ AuthorityOf(t) = a
    BY <2>1, <2>2, TokenCarries
  <2>4. QED  BY <2>3 DEF k, a, id, t
<1>10. Minted(ts)
  BY <1>7, <1>8, <1>9 DEF Minted
<1>11. /\ Leaf(ts).jti = NodeId(ns, child) /\ Leaf(ts).sub = {ns[child].agent}
       /\ Leaf(ts).iat = clock
       /\ Leaf(ts).exp = {clock + n : n \in ns[child].authority.ttl}
       /\ LeafAuthority(ts) = ns[child].authority
  BY <1>3, <1>4, <1>8, <1>9 DEF Leaf, LeafAuthority
<1>12. QED  BY <1>2, <1>10, <1>11

-----------------------------------------------------------------------------
(* What every step keeps: nodes are added at the end, and what they are     *)
(* made of does not change; messages and listed revocations are only added. *)

Alike(x, y) ==
  /\ x.root = y.root /\ x.parent = y.parent /\ x.agent = y.agent
  /\ x.authority = y.authority /\ x.message = y.message /\ x.issued = y.issued
Kept ==
  /\ IsSeq(nodes') /\ Ids \subseteq Ids' /\ \A k \in Ids : Alike(nodes'[k], nodes[k])
  /\ net \subseteq net' /\ clock' \in Nat /\ clock <= clock'
  /\ \A id \in DOMAIN listed : id \in DOMAIN listed' /\ listed'[id] = listed[id]
  /\ \A id \in DOMAIN listed' : id \in DOMAIN listed \/ listed'[id] = clock

LEMMA KeptNames ==
  ASSUME IInv, Kept, NEW n \in Ids
  PROVE  NodeId(nodes', n) = NodeId(nodes, n)
<1>1. n \in Nat /\ Ids = 1 .. Len(nodes) /\ Len(nodes) \in Nat /\ n <= Len(nodes)
  BY NodesOrdered DEF IInv
<1>2. nodes[n].root \in 1 .. n
  BY DEF IInv, NodesInv, NodeInv, Made
<1>3. \A k \in 1 .. n : k \in Ids
  BY <1>1
<1>4. ChainName(nodes', nodes'[n].root) = ChainName(nodes, nodes[n].root)
  BY <1>2, <1>3 DEF ChainName, Kept, Alike
<1>5. {k \in 1 .. n : nodes'[k].root = nodes'[n].root}
        = {k \in 1 .. n : nodes[k].root = nodes[n].root}
  BY <1>3 DEF Kept, Alike
<1>6. QED  BY <1>4, <1>5 DEF NodeId

LEMMA KeptNodes ==
  ASSUME IInv, Kept, NEW n \in Ids
  PROVE  Made(n)'
<1>1. n \in Nat /\ Ids = 1 .. Len(nodes) /\ Len(nodes) \in Nat /\ n <= Len(nodes)
  BY NodesOrdered DEF IInv
<1>2. Made(n)
  BY DEF IInv, NodesInv, NodeInv
<1>3. \A k \in 1 .. n : k \in Ids
  BY <1>1
<1>4. /\ IsAuthority(nodes'[n].authority) /\ nodes'[n].issued \in Nat
      /\ nodes'[n].issued <= clock' /\ nodes'[n].root \in 1 .. n
  BY <1>2 DEF Made, Kept, Alike, IInv
<1>5. ASSUME IsRoot(n) PROVE IsRoot(n)'
  <2>1. nodes'[n].root = n /\ nodes'[n].parent = 0
    BY <1>5 DEF IsRoot, Kept, Alike
  <2>2. CASE n = 1 /\ nodes[n].message = {}
    BY <2>1, <2>2 DEF IsRoot, Kept, Alike
  <2>3. ASSUME NEW m \in net, Continues(n, m) PROVE Continues(n, m)'
    <3>1. m.child \in 1 .. n - 1 /\ m.child \in Ids
      BY <1>1, <1>3, <2>3 DEF Continues
    <3>2. /\ nodes'[n].message = {m} /\ nodes'[n].authority = nodes'[m.child].authority
          /\ Leaf(m.tokens).sub = {nodes'[n].agent} /\ Leaf(m.tokens).iat <= nodes'[n].issued
          /\ Loads(m.tokens, Server(nodes'[n].issued))
      BY <2>3, <3>1 DEF Continues, Kept, Alike
    <3>3. ASSUME m.to \in Checked, NEW id \in {Leaf(m.tokens).jti} \cap DOMAIN listed'
          PROVE  nodes'[n].issued <= listed'[id]
      <4>1. CASE id \in DOMAIN listed
        BY <2>3, <3>3, <4>1 DEF Continues, Kept, Alike
      <4>2. CASE listed'[id] = clock
        BY <1>2, <4>2 DEF Made, Kept, Alike
      <4>3. QED  BY <3>3, <4>1, <4>2 DEF Kept, Alike
    <3>4. QED  BY <3>1, <3>2, <3>3 DEF Continues
  <2>4. QED  BY <1>5, <2>1, <2>2, <2>3 DEF IsRoot, Kept, Alike
<1>6. ASSUME IsChild(n) PROVE IsChild(n)'
  <2>1. nodes[n].parent \in 1 .. n - 1 /\ nodes[n].parent \in Ids
    BY <1>1, <1>3, <1>6 DEF IsChild
  <2>2. QED  BY <1>6, <2>1 DEF IsChild, Kept, Alike
<1>7. QED  BY <1>2, <1>4, <1>5, <1>6 DEF Made

LEMMA KeptMessages ==
  ASSUME IInv, Kept, NEW m \in net
  PROVE  IsMessage(m)'
<1>1. IsMessage(m) /\ m.child \in Ids
  BY DEF IInv, NetInv, IsMessage
<1>2. NodeId(nodes', m.child) = NodeId(nodes, m.child)
  BY <1>1, KeptNames
<1>3. Names(m.tokens, m.child)'
  BY <1>1, <1>2 DEF IsMessage, Names, Kept, Alike
<1>4. Timed(m.tokens, m.child)'
  <2>1. Timed(m.tokens, m.child)
    BY <1>1 DEF IsMessage
  <2>2. clock \in Nat /\ clock' \in Nat /\ clock <= clock'
    BY DEF IInv, Kept, Alike
  <2>3. QED  BY <1>1, <2>1, <2>2 DEF Timed, Kept, Alike
<1>5. QED  BY <1>1, <1>3, <1>4 DEF IsMessage, Kept, Alike

(* What is left to say of a step: the nodes and the messages it adds. *)
LEMMA KeptInv ==
  ASSUME IInv, Kept,
         \A n \in Ids' : Made(n)' \/ n \in Ids,
         \A n \in Ids' :
           /\ IsNode(nodes'[n])
           /\ nodes'[n].minted = [r \in Remotes |-> nodes'[n].minted[r]]
           /\ \A r \in Remotes : nodes'[n].minted[r] \subseteq Ids',
         \A m \in net' : IsMessage(m)' \/ m \in net
  PROVE  IInv'
<1>1. \A n \in Ids' : Made(n)'
  BY KeptNodes
<1>2. \A n \in Ids' : NodeInv(n)'
  BY <1>1 DEF NodeInv
<1>3. NodesInv'
  <2>1. Ids # {}
    BY NodesOrdered DEF IInv
  <2>2. Len(nodes') \in Nat /\ Ids' = 1 .. Len(nodes')
    BY SeqIsIndexed DEF Kept, Alike, Ids
  <2>3. Len(nodes') # 0
    <3>1. 1 .. 0 = {}
      OBVIOUS
    <3>2. QED  BY <2>1, <2>2, <3>1 DEF Kept, Alike
  <2>4. QED  BY <1>2, <2>3 DEF NodesInv, Kept, Alike
<1>4. NetInv'
  BY KeptMessages DEF NetInv
<1>5. ListInv'
  <2>1. SUFFICES ASSUME NEW id \in DOMAIN listed'
                 PROVE  listed'[id] \in Nat /\ listed'[id] <= clock'
    BY DEF ListInv
  <2>2. clock \in Nat /\ clock' \in Nat /\ clock <= clock'
    BY DEF IInv, Kept, Alike
  <2>3. CASE id \in DOMAIN listed
    BY <2>2, <2>3 DEF IInv, ListInv, Kept, Alike
  <2>4. CASE listed'[id] = clock
    BY <2>2, <2>4
  <2>5. QED  BY <2>3, <2>4 DEF Kept, Alike
<1>6. QED  BY <1>3, <1>4, <1>5 DEF IInv, Kept, Alike

-----------------------------------------------------------------------------
(* Each step *)

(* Nobody's authority but an earlier node's, or what meets of it with what  *)
(* is asked for or needed.                                                  *)
Given ==
  \A k \in Ids' : \E j \in Ids :
    \/ nodes'[k].authority = nodes[j].authority
    \/ \E r \in Remotes : \E x \in Asks(r) \cup Needs(r) :
         /\ Meetable(nodes[j].authority, x)
         /\ nodes'[k].authority = Meet(nodes[j].authority, x)

LEMMA SameNodes ==
  ASSUME IInv, Kept, nodes' = nodes, \A m \in net' : IsMessage(m)' \/ m \in net
  PROVE  IInv' /\ Given
<1>1. Ids' = Ids
  BY DEF Ids
<1>2. \A n \in Ids' :
        /\ IsNode(nodes'[n])
        /\ nodes'[n].minted = [r \in Remotes |-> nodes'[n].minted[r]]
        /\ \A r \in Remotes : nodes'[n].minted[r] \subseteq Ids'
  BY <1>1 DEF IInv, NodesInv, NodeInv
<1>3. Given
  BY <1>1 DEF Given
<1>4. QED  BY <1>1, <1>2, <1>3, KeptInv

LEMMA KeepsNodes ==
  ASSUME IInv, nodes' = nodes, net \subseteq net', clock' = clock, listed' = listed
  PROVE  Kept
BY DEF Kept, Alike, IInv, NodesInv, Ids

LEMMA TickInv == ASSUME IInv, Tick PROVE IInv' /\ Given
<1>1. Kept
  BY DEF Tick, Kept, Alike, IInv, NodesInv, Ids
<1>2. QED  BY <1>1, SameNodes DEF Tick

LEMMA PublishInv == ASSUME IInv, Publish PROVE IInv' /\ Given
<1> DEFINE fresh == {NodeId(nodes, k) : k \in {i \in Ids : nodes[i].revoked}} \ DOMAIN listed
<1>1. \A id \in fresh : id \notin DOMAIN listed
  OBVIOUS
<1>2. /\ listed' = [id \in DOMAIN listed \cup fresh |-> IF id \in fresh THEN clock ELSE listed[id]]
      /\ UNCHANGED <<clock, nodes, net>>
  BY DEF Publish
<1> HIDE DEF fresh
<1>3. /\ \A id \in DOMAIN listed : id \in DOMAIN listed' /\ listed'[id] = listed[id]
      /\ \A id \in DOMAIN listed' : id \in DOMAIN listed \/ listed'[id] = clock
  BY <1>1, <1>2
<1>4. Kept
  BY <1>2, <1>3 DEF Kept, Alike, IInv, NodesInv, Ids
<1>5. QED  BY <1>2, <1>4, SameNodes

LEMMA SendAgainInv ==
  ASSUME IInv, NEW n \in Ids, NEW r \in Remotes, SendAgain(n, r)
  PROVE  IInv' /\ Given
<1>1. PICK c \in Reusable(n, r) : Attach(nodes, c, r)
  BY DEF SendAgain
<1>2. UNCHANGED <<clock, nodes, listed>>
  BY DEF SendAgain
<1>3. c \in Ids /\ ~IsExpired(c)
  BY <1>1 DEF Reusable, IInv, NodesInv, NodeInv
<1>4. net \subseteq net'
  BY <1>1 DEF Attach
<1>5. Kept
  BY <1>2, <1>4, KeepsNodes
<1>6. /\ Made(c) /\ clock \in Nat /\ Ordered(nodes)
      /\ \A k \in DOMAIN nodes : IsAuthority(nodes[k].authority)
  BY <1>3, NodesOrdered DEF IInv, NodesInv, NodeInv, Made, Ids
<1>7. \A t \in nodes[c].authority.ttl : clock <= nodes[c].issued + t
  <2>1. SUFFICES ASSUME NEW t \in nodes[c].authority.ttl
                 PROVE  clock <= nodes[c].issued + t
    OBVIOUS
  <2>2. t \in Int /\ nodes[c].issued \in Nat
    BY <1>6 DEF Made, IsAuthority
  <2>3. ~(clock - nodes[c].issued > t)
    BY <1>3 DEF IsExpired
  <2>4. QED  BY <1>6, <2>2, <2>3
<1>8. ASSUME NEW m \in net', m \notin net
      PROVE  IsMessage(m)'
  <2>1. /\ m.to = r /\ m.child = c /\ Minted(m.tokens)
        /\ Leaf(m.tokens).jti = NodeId(nodes, c)
        /\ Leaf(m.tokens).sub = {nodes[c].agent}
        /\ Leaf(m.tokens).iat = clock
        /\ Leaf(m.tokens).exp = {clock + t : t \in nodes[c].authority.ttl}
        /\ LeafAuthority(m.tokens) = nodes[c].authority
    BY <1>1, <1>3, <1>6, <1>8, AttachSends DEF Ids
  <2>2. Names(m.tokens, c)'
    BY <1>2, <2>1 DEF Names
  <2>3. Timed(m.tokens, c)'
    BY <1>2, <1>6, <1>7, <2>1 DEF Timed
  <2>4. QED  BY <1>2, <1>3, <2>1, <2>2, <2>3 DEF IsMessage, Ids
<1>9. QED  BY <1>2, <1>5, <1>8, SameNodes

(* Of a node that is made, only its revocation and its stage change. *)
LEMMA RevisedInv ==
  ASSUME IInv, UNCHANGED <<clock, net, listed>>,
         nodes' = [k \in Ids |-> nodes'[k]],
         \A k \in Ids : \/ nodes'[k] = nodes[k]
                        \/ \E v : nodes'[k] = [nodes[k] EXCEPT !.revoked = v]
                        \/ \E v : nodes'[k] = [nodes[k] EXCEPT !.stage = v]
  PROVE  IInv' /\ Given
<1>1. Ids = 1 .. Len(nodes) /\ Len(nodes) \in Nat
  BY NodesOrdered DEF IInv
<1>2. Ids' = Ids /\ IsSeq(nodes')
  BY <1>1, IndexedIsSeq DEF Ids
<1>3. ASSUME NEW k \in Ids
      PROVE  IsNode(nodes'[k]) /\ Alike(nodes'[k], nodes[k]) /\ nodes'[k].minted = nodes[k].minted
  <2>1. IsNode(nodes[k])
    BY DEF IInv, NodesInv, NodeInv
  <2>2. CASE nodes'[k] = nodes[k]
    BY <2>1, <2>2 DEF Alike
  <2>3. ASSUME NEW v, nodes'[k] = [nodes[k] EXCEPT !.revoked = v]
        PROVE  IsNode(nodes'[k]) /\ Alike(nodes'[k], nodes[k]) /\ nodes'[k].minted = nodes[k].minted
    BY <2>1, <2>3 DEF IsNode, Alike
  <2>4. ASSUME NEW v, nodes'[k] = [nodes[k] EXCEPT !.stage = v]
        PROVE  IsNode(nodes'[k]) /\ Alike(nodes'[k], nodes[k]) /\ nodes'[k].minted = nodes[k].minted
    BY <2>1, <2>4 DEF IsNode, Alike
  <2>5. QED  BY <2>2, <2>3, <2>4
<1>4. Kept
  BY <1>2, <1>3 DEF Kept, IInv
<1>5. \A k \in Ids' :
        /\ IsNode(nodes'[k])
        /\ nodes'[k].minted = [r \in Remotes |-> nodes'[k].minted[r]]
        /\ \A r \in Remotes : nodes'[k].minted[r] \subseteq Ids'
  BY <1>2, <1>3 DEF IInv, NodesInv, NodeInv
<1>6. Given
  BY <1>2, <1>3 DEF Given, Alike
<1>7. QED  BY <1>2, <1>4, <1>5, <1>6, KeptInv

LEMMA RevokeInv == ASSUME IInv, NEW n \in Ids, Revoke(n) PROVE IInv' /\ Given
<1>1. /\ nodes' = [k \in Ids |-> [nodes[k] EXCEPT !.revoked = nodes[k].revoked \/ k \in Below(n)]]
      /\ UNCHANGED <<clock, net, listed>>
  BY DEF Revoke
<1>2. nodes' = [k \in Ids |-> nodes'[k]]
  BY <1>1
<1>3. ASSUME NEW k \in Ids
      PROVE  \E v : nodes'[k] = [nodes[k] EXCEPT !.revoked = v]
  BY <1>1
<1>4. QED  BY <1>1, <1>2, <1>3, RevisedInv

LEMMA FinishInv == ASSUME IInv, NEW n \in Ids, Finish(n) PROVE IInv' /\ Given
<1>1. /\ nodes' = [nodes EXCEPT ![n].stage = "done"]
      /\ UNCHANGED <<clock, net, listed>>
  BY DEF Finish
<1>2. nodes' = [k \in Ids |-> nodes'[k]]
  BY <1>1 DEF Ids
<1>3. nodes'[n] = [nodes[n] EXCEPT !.stage = "done"]
  BY <1>1 DEF Ids
<1>4. \A k \in Ids \ {n} : nodes'[k] = nodes[k]
  BY <1>1 DEF Ids
<1>5. \A k \in Ids : nodes'[k] = nodes[k] \/ \E v : nodes'[k] = [nodes[k] EXCEPT !.stage = v]
  BY <1>3, <1>4
<1>6. QED  BY <1>1, <1>2, <1>5, RevisedInv

LEMMA RestartInv == ASSUME IInv, NEW r \in Remotes, Restart(r) PROVE IInv' /\ Given
<1> DEFINE gone == {k \in Ids : \E i \in Ids :
                      /\ Served(i) /\ nodes[i].agent = r
                      /\ nodes[k].root = nodes[i].root /\ nodes[k].stage # "lost"}
<1>1. /\ nodes' = [k \in Ids |-> IF k \in gone THEN [nodes[k] EXCEPT !.stage = "lost"] ELSE nodes[k]]
      /\ UNCHANGED <<clock, net, listed>>
  BY DEF Restart
<1> HIDE DEF gone
<1>2. nodes' = [k \in Ids |-> nodes'[k]]
  BY <1>1
<1>3. ASSUME NEW k \in Ids
      PROVE  nodes'[k] = nodes[k] \/ \E v : nodes'[k] = [nodes[k] EXCEPT !.stage = v]
  BY <1>1
<1>4. QED  BY <1>1, <1>2, <1>3, RevisedInv

(* A node is added: the child a client mints. *)
LEMMA SendFirstInv ==
  ASSUME WellFormed, IInv, NEW n \in Ids, NEW r \in Remotes, SendFirst(n, r)
  PROVE  IInv' /\ Given
<1>0. PICK new : new = Len(nodes) + 1
  OBVIOUS
<1>1. /\ Ordered(nodes) /\ Len(nodes) \in Nat /\ Ids = 1 .. Len(nodes)
      /\ IsSeq(nodes) /\ clock \in Nat /\ new \notin Ids
  BY <1>0, NodesOrdered DEF IInv, NodesInv
<1>2. nodes[n].message = {} /\ NodeInv(n)
  <2>1. NodeInv(n)
    BY DEF IInv, NodesInv
  <2>2. CASE n = 1
    BY <2>1, <2>2, NodesOrdered DEF IInv
  <2>3. CASE nodes[n].parent # 0
    BY <2>1, <2>3 DEF NodeInv, Made, IsRoot, IsChild
  <2>4. QED  BY <2>1, <2>2, <2>3 DEF SendFirst, Acting, Served
<1>3. PICK request \in Asks(r) :
        /\ Meetable(nodes[n].authority, request)
        /\ nodes' = Append([nodes EXCEPT ![n].minted[r] = {Len(nodes) + 1}],
                           Node(nodes[n].root, n, r, Meet(nodes[n].authority, request), {}))
  BY DEF SendFirst
<1>4. Attach(nodes', Len(nodes'), r) /\ UNCHANGED <<clock, listed>>
  BY DEF SendFirst
<1> DEFINE a == Meet(nodes[n].authority, request)
<1>5. IsAuthority(a) /\ IsNarrowerThan(a, nodes[n].authority)
  BY <1>2, <1>3, MeetIsAuthority, MeetIsNarrower DEF NodeInv, Made, WellFormed
<1>6. PICK x : x = Node(nodes[n].root, n, r, a, {})
  OBVIOUS
<1> HIDE DEF a
<1>7. /\ IsNode(x) /\ x.root = nodes[n].root /\ x.parent = n /\ x.agent = r
      /\ x.authority = a /\ x.message = {} /\ x.issued = clock
      /\ x.minted = [s \in Remotes |-> {}]
  BY <1>6 DEF Node, IsNode
<1>8. PICK s : s = [nodes EXCEPT ![n].minted[r] = {new}]
  OBVIOUS
<1>9. nodes' = Append(s, x)
  BY <1>0, <1>3, <1>6, <1>8 DEF a
<1>10. /\ s = [k \in Ids |-> s[k]] /\ \A k \in Ids \ {n} : s[k] = nodes[k]
       /\ s[n] = [nodes[n] EXCEPT !.minted[r] = {new}]
  BY <1>8 DEF Ids
<1>11. IsSeq(s) /\ Len(s) = Len(nodes) /\ DOMAIN s = Ids
  BY <1>1, <1>10, IndexedIsSeq
<1>12. /\ IsSeq(nodes') /\ Len(nodes') = new /\ Ids' = 1 .. new /\ nodes'[new] = x
       /\ \A k \in Ids : nodes'[k] = s[k]
  BY <1>0, <1>1, <1>9, <1>11, Appended DEF Ids
<1>13. PICK made : made = [nodes[n].minted EXCEPT ![r] = {new}]
  OBVIOUS
<1>14. /\ IsNode(nodes'[n]) /\ Alike(nodes'[n], nodes[n]) /\ nodes'[n].minted = made
  <2>1. nodes'[n] = [nodes[n] EXCEPT !.minted = made]
    BY <1>10, <1>12, <1>13
  <2>2. QED  BY <1>2, <2>1 DEF NodeInv, IsNode, Alike
<1>15. /\ made = [q \in Remotes |-> made[q]]
       /\ \A q \in Remotes : made[q] \subseteq Ids \cup {new}
  BY <1>2, <1>13 DEF NodeInv
<1>16. net \subseteq net' /\ Ids \subseteq Ids' /\ new \in Ids'
  BY <1>0, <1>1, <1>4, <1>12 DEF Attach
<1>17. \A k \in Ids : Alike(nodes'[k], nodes[k])
  BY <1>10, <1>12, <1>14 DEF Alike
<1>18. Kept
  BY <1>1, <1>4, <1>12, <1>16, <1>17 DEF Kept
<1>19. \A k \in Ids' : k \in Ids \/ k = new
  BY <1>0, <1>1, <1>12
<1>20. Made(new)'
  <2>1. IsChild(new)'
    <3>1. n \in 1 .. new - 1
      BY <1>0, <1>1
    <3>2. Alike(nodes'[n], nodes[n])
      BY <1>17
    <3>3. QED  BY <1>2, <1>5, <1>7, <1>12, <3>1, <3>2 DEF IsChild, Alike
  <2>2. nodes[n].root \in 1 .. new
    BY <1>0, <1>1, <1>2 DEF NodeInv, Made
  <2>3. QED  BY <1>1, <1>4, <1>5, <1>7, <1>12, <2>1, <2>2 DEF Made
<1>21. ASSUME NEW k \in Ids'
       PROVE  /\ IsNode(nodes'[k])
              /\ nodes'[k].minted = [q \in Remotes |-> nodes'[k].minted[q]]
              /\ \A q \in Remotes : nodes'[k].minted[q] \subseteq Ids'
  <2>1. CASE k = new
    BY <1>7, <1>12, <2>1
  <2>2. CASE k = n
    BY <1>14, <1>15, <1>16, <2>2
  <2>3. CASE k \in Ids \ {n}
    <3>1. nodes'[k] = nodes[k] /\ NodeInv(k)
      BY <1>10, <1>12, <2>3 DEF IInv, NodesInv
    <3>2. QED  BY <1>16, <3>1 DEF NodeInv
  <2>4. QED  BY <1>19, <2>1, <2>2, <2>3
<1>22. ASSUME NEW m \in net', m \notin net
       PROVE  IsMessage(m)'
  <2>1. \A k \in Ids' : Made(k)'
    BY <1>18, <1>19, <1>20, KeptNodes
  <2>2. \A k \in DOMAIN nodes' : IsAuthority(nodes'[k].authority)
    BY <2>1 DEF Made, Ids
  <2>3. Ordered(nodes')
    <3>1. ASSUME NEW k \in Ids' PROVE nodes'[k].parent \in 0 .. k - 1
      <4>1. k \in Nat /\ 1 <= k
        BY <1>0, <1>1, <1>12
      <4>2. IsRoot(k)' \/ IsChild(k)'
        BY <2>1 DEF Made
      <4>3. QED  BY <4>1, <4>2 DEF IsRoot, IsChild
    <3>2. QED  BY <1>12, <3>1 DEF Ordered, Ids
  <2>4. /\ m.to = r /\ m.child = new /\ Minted(m.tokens)
        /\ Leaf(m.tokens).jti = NodeId(nodes', new)
        /\ Leaf(m.tokens).sub = {nodes'[new].agent}
        /\ Leaf(m.tokens).iat = clock
        /\ Leaf(m.tokens).exp = {clock + t : t \in nodes'[new].authority.ttl}
        /\ LeafAuthority(m.tokens) = nodes'[new].authority
    <3>1. PICK ns : ns = nodes'
      OBVIOUS
    <3>2. Attach(ns, new, r)
      BY <1>4, <1>12, <3>1 DEF Attach
    <3>3. /\ new \in DOMAIN ns /\ Ordered(ns)
          /\ \A k \in DOMAIN ns : IsAuthority(ns[k].authority)
      BY <1>12, <1>16, <2>2, <2>3, <3>1 DEF Ids
    <3>4. /\ m.to = r /\ m.child = new /\ Minted(m.tokens)
          /\ Leaf(m.tokens).jti = NodeId(ns, new)
          /\ Leaf(m.tokens).sub = {ns[new].agent}
          /\ Leaf(m.tokens).iat = clock
          /\ Leaf(m.tokens).exp = {clock + t : t \in ns[new].authority.ttl}
          /\ LeafAuthority(m.tokens) = ns[new].authority
      BY <1>1, <1>22, <3>2, <3>3, AttachSends
    <3>5. QED  BY <3>1, <3>4
  <2>5. Names(m.tokens, new)' /\ Timed(m.tokens, new)'
    BY <1>1, <1>4, <1>7, <1>12, <2>4 DEF Names, Timed
  <2>6. QED  BY <1>16, <2>4, <2>5 DEF IsMessage
<1>23. Given
  <2>1. \A k \in Ids : nodes'[k].authority = nodes[k].authority
    BY <1>17 DEF Alike
  <2>2. nodes'[new].authority = Meet(nodes[n].authority, request)
    BY <1>7, <1>12 DEF a
  <2>3. QED  BY <1>3, <1>19, <2>1, <2>2 DEF Given
<1>24. QED  BY <1>18, <1>19, <1>20, <1>21, <1>22, <1>23, KeptInv

LEMMA TwoAppended ==
  ASSUME NEW s, NEW e, NEW f, IsSeq(s)
  PROVE  LET t == s \o <<e, f>>
         IN  /\ IsSeq(t) /\ Len(t) = Len(s) + 2
             /\ DOMAIN t = 1 .. Len(s) + 2
             /\ t[Len(s) + 1] = e /\ t[Len(s) + 2] = f
             /\ \A i \in 1 .. Len(s) : t[i] = s[i]
<1> DEFINE S == Range(s) \cup {e, f}
           t == s \o <<e, f>>
<1>1. s \in Seq(S) /\ e \in S /\ f \in S
  BY SeqMonotonic DEF IsSeq
<1>2. Len(s) \in Nat
  BY SeqIsIndexed
<1> HIDE DEF S
<1>3. PICK p : p = <<e, f>>
  OBVIOUS
<1>4. p \in Seq(S) /\ Len(p) = 2 /\ p[1] = e /\ p[2] = f
  BY <1>1, <1>3
<1>5. t = s \o p
  BY <1>3
<1> HIDE DEF t
<1>6. /\ t \in Seq(S) /\ Len(t) = Len(s) + 2
      /\ \A i \in 1 .. Len(s) + 2 : t[i] = IF i <= Len(s) THEN s[i] ELSE p[i - Len(s)]
  <2>1. /\ s \o p \in Seq(S) /\ Len(s \o p) = Len(s) + Len(p)
        /\ \A i \in 1 .. Len(s) + Len(p) :
             (s \o p)[i] = IF i <= Len(s) THEN s[i] ELSE p[i - Len(s)]
    BY <1>1, <1>4, ConcatProperties
  <2>2. QED  BY <1>2, <1>4, <1>5, <2>1
<1>7. t = [i \in 1 .. Len(s) + 2 |-> t[i]]
  BY <1>6, LenProperties
<1>8. IsSeq(t) /\ DOMAIN t = 1 .. Len(s) + 2
  BY <1>2, <1>7, IndexedIsSeq
<1>9. t[Len(s) + 1] = e /\ t[Len(s) + 2] = f
  <2>1. Len(s) + 1 \in 1 .. Len(s) + 2 /\ Len(s) + 2 \in 1 .. Len(s) + 2
    BY <1>2
  <2>2. t[Len(s) + 1] = p[Len(s) + 1 - Len(s)] /\ t[Len(s) + 2] = p[Len(s) + 2 - Len(s)]
    BY <1>2, <1>6, <2>1
  <2>3. Len(s) + 1 - Len(s) = 1 /\ Len(s) + 2 - Len(s) = 2
    BY <1>2
  <2>4. QED  BY <1>4, <2>2, <2>3
<1>10. \A i \in 1 .. Len(s) : t[i] = s[i]
  BY <1>2, <1>6
<1>11. QED  BY <1>6, <1>8, <1>9, <1>10 DEF t

(* Two nodes are added: the root of a server's chain and the served one.    *)
LEMMA DeliverInv ==
  ASSUME WellFormed, IInv, NEW m \in net, Deliver(m)
  PROVE  IInv' /\ Given
<1>0. PICK new : new = Len(nodes) + 1
  OBVIOUS
<1>1. /\ Len(nodes) \in Nat /\ Ids = 1 .. Len(nodes) /\ IsSeq(nodes) /\ clock \in Nat
  BY NodesOrdered DEF IInv, NodesInv
<1>2. IsMessage(m) /\ m.child \in Ids /\ Made(m.child)
  BY DEF IInv, NetInv, NodesInv, NodeInv, IsMessage
<1>3. Authorizes(m.to, m.tokens) /\ UNCHANGED <<clock, net, listed>>
  BY DEF Deliver
<1> DEFINE leaf == LeafAuthority(m.tokens)
           caller == CHOOSE a \in Last(m.tokens).signed.sub : TRUE
<1>4. PICK need \in Needs(m.to) :
        IF Meetable(leaf, need)
        THEN nodes' = nodes \o <<Node(new, 0, caller, leaf, {m}),
                                 Node(new, new, m.to, Meet(leaf, need), {})>>
        ELSE UNCHANGED nodes
  BY <1>0 DEF Deliver
<1>5. leaf = nodes[m.child].authority /\ IsAuthority(leaf)
  BY <1>2 DEF IsMessage, Made
<1>6. {caller} = Leaf(m.tokens).sub
  BY <1>2 DEF IsMessage, Names, Leaf
<1> HIDE DEF leaf, caller
<1>7. CASE UNCHANGED nodes
  <2>1. Kept
    BY <1>3, <1>7, KeepsNodes
  <2>2. QED  BY <1>3, <1>7, <2>1, SameNodes
<1>8. CASE Meetable(leaf, need) /\
           nodes' = nodes \o <<Node(new, 0, caller, leaf, {m}),
                               Node(new, new, m.to, Meet(leaf, need), {})>>
  <2> DEFINE a == Meet(leaf, need)
  <2>1. IsAuthority(a) /\ IsNarrowerThan(a, leaf)
    BY <1>2, <1>5, <1>8, MeetIsAuthority, MeetIsNarrower DEF WellFormed, IsMessage
  <2>2. PICK x : x = Node(new, 0, caller, leaf, {m})
    OBVIOUS
  <2>3. PICK y : y = Node(new, new, m.to, a, {})
    OBVIOUS
  <2> HIDE DEF a
  <2>4. /\ IsNode(x) /\ x.root = new /\ x.parent = 0 /\ x.agent = caller
        /\ x.authority = leaf /\ x.message = {m} /\ x.issued = clock
        /\ x.minted = [s \in Remotes |-> {}]
    BY <2>2 DEF Node, IsNode
  <2>5. /\ IsNode(y) /\ y.root = new /\ y.parent = new /\ y.agent = m.to
        /\ y.authority = a /\ y.message = {} /\ y.issued = clock
        /\ y.minted = [s \in Remotes |-> {}]
    BY <2>3 DEF Node, IsNode
  <2>6. nodes' = nodes \o <<x, y>>
    BY <1>8, <2>2, <2>3 DEF a
  <2>7. /\ IsSeq(nodes') /\ Ids' = 1 .. new + 1 /\ nodes'[new] = x /\ nodes'[new + 1] = y
        /\ \A k \in Ids : nodes'[k] = nodes[k]
    <3>1. /\ IsSeq(nodes') /\ Ids' = 1 .. Len(nodes) + 2
          /\ nodes'[Len(nodes) + 1] = x /\ nodes'[Len(nodes) + 2] = y
          /\ \A k \in Ids : nodes'[k] = nodes[k]
      BY <1>1, <2>6, TwoAppended DEF Ids
    <3>2. new + 1 = Len(nodes) + 2
      BY <1>0, <1>1
    <3>3. QED  BY <1>0, <3>1, <3>2
  <2>8. new \in Nat /\ Ids \subseteq Ids' /\ new \notin Ids /\ new \in Ids' /\ new + 1 \in Ids'
    BY <1>0, <1>1, <2>7
  <2>9. \A k \in Ids' : k \in Ids \/ k = new \/ k = new + 1
    BY <1>0, <1>1, <2>7
  <2>10. Kept
    BY <1>1, <1>3, <2>7, <2>8 DEF Kept, Alike
  <2>11. Continues(new, m)'
    <3>1. m.child \in 1 .. new - 1
      BY <1>0, <1>1, <1>2
    <3>2. /\ nodes'[new].message = {m} /\ nodes'[new].authority = nodes'[m.child].authority
          /\ Leaf(m.tokens).sub = {nodes'[new].agent}
      BY <1>2, <1>5, <1>6, <2>4, <2>7
    <3>3. nodes'[new].issued = clock /\ Leaf(m.tokens).iat <= clock
      BY <1>2, <2>4, <2>7 DEF IsMessage, Timed
    <3>4. Loads(m.tokens, Server(nodes'[new].issued))
      BY <1>3, <3>3 DEF Authorizes, Server
    <3>5. m.to \in Checked => Leaf(m.tokens).jti \notin DOMAIN listed'
      BY <1>3 DEF Authorizes, Leaf
    <3>6. QED  BY <3>1, <3>2, <3>3, <3>4, <3>5 DEF Continues
  <2>12. Made(new)'
    <3>1. IsRoot(new)'
      BY <1>3, <2>4, <2>7, <2>11 DEF IsRoot
    <3>2. new \in 1 .. new
      BY <1>0, <1>1
    <3>3. QED  BY <1>1, <1>3, <1>5, <2>4, <2>7, <3>1, <3>2 DEF Made
  <2>13. Made(new + 1)'
    <3>1. new \in 1 .. new + 1 - 1 /\ new \in 1 .. new + 1
      BY <1>0, <1>1
    <3>2. IsChild(new + 1)'
      BY <2>1, <2>4, <2>5, <2>7, <3>1 DEF IsChild
    <3>3. QED  BY <1>1, <1>3, <2>1, <2>5, <2>7, <3>1, <3>2 DEF Made
  <2>14. ASSUME NEW k \in Ids'
         PROVE  /\ IsNode(nodes'[k])
                /\ nodes'[k].minted = [q \in Remotes |-> nodes'[k].minted[q]]
                /\ \A q \in Remotes : nodes'[k].minted[q] \subseteq Ids'
    <3>1. CASE k = new
      BY <2>4, <2>7, <3>1
    <3>2. CASE k = new + 1
      BY <2>5, <2>7, <3>2
    <3>3. CASE k \in Ids
      BY <2>7, <2>8, <3>3 DEF IInv, NodesInv, NodeInv
    <3>4. QED  BY <2>9, <3>1, <3>2, <3>3
  <2>15. Given
    <3>1. nodes'[new].authority = nodes[m.child].authority
      BY <1>5, <2>4, <2>7
    <3>2. /\ Meetable(nodes[m.child].authority, need)
          /\ nodes'[new + 1].authority = Meet(nodes[m.child].authority, need)
      BY <1>5, <1>8, <2>5, <2>7 DEF a
    <3>3. m.to \in Remotes /\ need \in Asks(m.to) \cup Needs(m.to)
      BY <1>2 DEF IsMessage
    <3>4. QED  BY <1>2, <2>7, <2>9, <3>1, <3>2, <3>3 DEF Given
  <2>16. QED  BY <1>3, <2>9, <2>10, <2>12, <2>13, <2>14, <2>15, KeptInv
<1>9. QED  BY <1>4, <1>7, <1>8

LEMMA NextInv ==
  ASSUME WellFormed, IInv, [Next]_vars
  PROVE  IInv' /\ Given
<1>1. ASSUME NEW n \in Ids, NEW r \in Remotes, SendFirst(n, r) \/ SendAgain(n, r)
      PROVE  IInv' /\ Given
  BY <1>1, SendFirstInv, SendAgainInv
<1>2. ASSUME NEW n \in Ids, Revoke(n) \/ Finish(n)
      PROVE  IInv' /\ Given
  BY <1>2, RevokeInv, FinishInv
<1>3. ASSUME NEW m \in net, Deliver(m)
      PROVE  IInv' /\ Given
  BY <1>3, DeliverInv
<1>4. ASSUME NEW r \in Remotes, Restart(r)
      PROVE  IInv' /\ Given
  BY <1>4, RestartInv
<1>5. CASE Publish
  BY <1>5, PublishInv
<1>6. CASE Tick
  BY <1>6, TickInv
<1>7. CASE UNCHANGED vars
  <2>1. UNCHANGED <<clock, nodes, net, listed>>
    BY <1>7 DEF vars
  <2>2. Kept
    BY <2>1, KeepsNodes
  <2>3. QED  BY <2>1, <2>2, SameNodes
<1>8. QED  BY <1>1, <1>2, <1>3, <1>4, <1>5, <1>6, <1>7 DEF Next

(* Whatever is sent, lost, delivered again, revoked or restarted, the nodes *)
(* of every chain narrow the one above them, in their own process and       *)
(* across processes, and every message carries the node it was sent for.    *)
THEOREM Invariance == WellFormed /\ Spec => []IInv
<1> SUFFICES ASSUME WellFormed
             PROVE  Spec => []IInv
  OBVIOUS
<1>1. Init => IInv
  BY InitInv
<1>2. IInv /\ [Next]_vars => IInv'
  BY NextInv
<1>3. QED  BY <1>1, <1>2, PTL DEF Spec

-----------------------------------------------------------------------------
(* What is owed to a caller *)

(* What begins a served request: the message its chain was continued from.  *)
Begins(m, n) ==
  LET p == nodes[n].parent
  IN  /\ p \in Ids /\ Continues(p, m) /\ nodes[n].root = p
      /\ nodes[p].root = p /\ nodes[n].agent = m.to /\ nodes[n].issued = nodes[p].issued
      /\ IsNarrowerThan(nodes[n].authority, nodes[p].authority)

LEMMA ServedBegins ==
  ASSUME IInv, NEW n \in Ids, Served(n)
  PROVE  \E m \in net : Begins(m, n)
<1> DEFINE p == nodes[n].parent
<1>1. Ids = 1 .. Len(nodes) /\ Len(nodes) \in Nat
  BY NodesOrdered DEF IInv
<1>2. Made(n)
  BY DEF IInv, NodesInv, NodeInv
<1>3. IsChild(n)
  BY <1>2 DEF Made, IsRoot, Served
<1>4. p \in Ids
  BY <1>1, <1>3 DEF IsChild
<1>5. Made(p) /\ nodes[p].message # {}
  BY <1>4 DEF IInv, NodesInv, NodeInv, Served
<1> HIDE DEF p
<1>6. IsRoot(p)
  BY <1>5 DEF Made, IsChild
<1>7. PICK m \in net : Continues(p, m)
  BY <1>5, <1>6 DEF IsRoot
<1>8. nodes[p].message = {m} /\ nodes[p].root = p
  BY <1>6, <1>7 DEF IsRoot, Continues
<1>9. QED  BY <1>3, <1>4, <1>7, <1>8 DEF Begins, IsChild, p

(* The token of a message that was authorized had not run out. *)
LEMMA LoadedInTime ==
  ASSUME NEW ts, NEW at, Minted(ts), Loads(ts, Server(at))
  PROVE  \A e \in Leaf(ts).exp : at < e \/ at = e
<1>1. PICK v : v = Server(at)
  OBVIOUS
<1>2. v.now = at
  BY <1>1 DEF Server, Verifier
<1>3. InTime(ts, v)
  BY <1>1 DEF Loads
<1>4. Len(ts) \in DOMAIN ts /\ Last(ts) = ts[Len(ts)]
  BY LastOf DEF Minted
<1>5. QED  BY <1>2, <1>3, <1>4 DEF InTime, Leaf

(* However its messages are delayed, resent and delivered again, a remote   *)
(* call is over three lifetimes after the client's node was issued, and     *)
(* one after its token is listed, where the server asks.                    *)
THEOREM RemoteCallsAreBounded == WellFormed /\ Spec => []RemoteCallsEnd
<1> SUFFICES ASSUME WellFormed
             PROVE  Spec => []RemoteCallsEnd
  OBVIOUS
<1>1. IInv => RemoteCallsEnd
  <2> SUFFICES ASSUME IInv, NEW n \in Ids, NEW s \in Asked, NEW ctx \in Contexts,
                      Allowed(n, s, ctx), NEW ttl \in nodes[MintedFor(n)].authority.ttl
               PROVE  LET c == MintedFor(n)
                      IN  /\ clock <= nodes[c].issued + 3 * ttl
                          /\ nodes[n].agent \in Checked =>
                               \A id \in {NodeId(nodes, c)} \cap DOMAIN listed :
                                 clock <= listed[id] + ttl
    BY DEF RemoteCallsEnd
  <2>1. PICK m \in net : Begins(m, n)
    BY ServedBegins DEF Allowed
  <2> DEFINE p == nodes[n].parent
             c == m.child
             ts == m.tokens
  <2>2. p \in Ids /\ Continues(p, m) /\ nodes[n].root = p
    BY <2>1 DEF Begins
  <2>3. MintedFor(n) = c
    BY <2>2 DEF Continues, MintedFor
  <2>4. IsMessage(m) /\ c \in Ids
    BY DEF IInv, NetInv, IsMessage
  <2>5. Made(c) /\ Made(n) /\ Made(p)
    BY <2>2, <2>4 DEF IInv, NodesInv, NodeInv
  <2>6. ttl \in nodes[c].authority.ttl /\ ttl \in Int
    BY <2>3, <2>5 DEF Made, IsAuthority
  <2> DEFINE began == nodes[p].issued
             sent == Leaf(ts).iat
             made == nodes[c].issued
  <2>7. nodes[p].authority = nodes[c].authority /\ sent <= began /\ Loads(ts, Server(began))
    BY <2>2 DEF Continues
  <2>8. began \in Nat /\ made \in Nat /\ sent \in Nat /\ clock \in Nat
    BY <2>4, <2>5 DEF Made, IsMessage, Timed, IInv
  <2>9. began <= sent + ttl
    <3>1. sent + ttl \in Leaf(ts).exp
      BY <2>4, <2>6 DEF IsMessage, Timed
    <3>2. began < sent + ttl \/ began = sent + ttl
      BY <2>4, <2>7, <3>1, LoadedInTime DEF IsMessage
    <3> HIDE DEF began, sent
    <3>3. QED  BY <2>6, <2>8, <3>2
  <2>10. sent = made \/ sent <= made + ttl
    BY <2>4, <2>6 DEF IsMessage, Timed
  <2>11. clock <= began + ttl
    <3>1. IsNarrowerThan(nodes[n].authority, nodes[c].authority) /\ nodes[n].issued = began
      BY <2>1, <2>7 DEF Begins
    <3>2. PICK t \in nodes[n].authority.ttl : t <= ttl
      BY <2>6, <3>1 DEF IsNarrowerThan
    <3>3. ~(clock - began > t) /\ t \in Int
      BY <2>5, <3>1, <3>2 DEF Allowed, IsExpired, Made, IsAuthority
    <3> HIDE DEF began
    <3>4. QED  BY <2>6, <2>8, <3>2, <3>3
  <2>12. ASSUME nodes[n].agent \in Checked, NEW id \in {NodeId(nodes, c)} \cap DOMAIN listed
         PROVE  clock <= listed[id] + ttl
    <3>1. m.to \in Checked /\ id = Leaf(ts).jti
      BY <2>1, <2>4, <2>12 DEF Begins, IsMessage, Names
    <3>2. began <= listed[id] /\ listed[id] \in Nat
      BY <2>2, <2>12, <3>1 DEF Continues, IInv, ListInv
    <3> HIDE DEF began
    <3>3. QED  BY <2>6, <2>8, <2>11, <3>2
  <2>13. clock <= made + 3 * ttl
    <3> HIDE DEF began, sent, made
    <3>1. QED  BY <2>6, <2>7, <2>8, <2>9, <2>10, <2>11
  <2>14. QED  BY <2>3, <2>12, <2>13
<1>2. QED  BY <1>1, Invariance, PTL

(* The keys of ceilings mean the same context fields in every process. *)
KeysMeanFields ==
  \E field, applies :
    /\ Reads(ClientGrant, field, applies)
    /\ \A r \in Remotes : \A x \in Asks(r) \cup Needs(r) : Reads(x, field, applies)

(* What a tool call asks for, and in which contexts. *)
CallsWellFormed == Asked \subseteq ScopeSet /\ \A ctx \in Contexts : IsContext(ctx)

LEMMA CallersUnfold ==
  ASSUME IInv
  PROVE  \E up :
           /\ up = [k \in Ids |-> {k} \cup (IF nodes[k].parent # 0 THEN up[nodes[k].parent]
                                            ELSE UNION {up[m.child] : m \in nodes[k].message})]
           /\ \A n \in Ids : Callers(n) = up[n]
<1> DEFINE At(up, k) == {k} \cup (IF nodes[k].parent # 0 THEN up[nodes[k].parent]
                                  ELSE UNION {up[m.child] : m \in nodes[k].message})
           Is(up, n) == up = [k \in 1 .. n |-> At(up, k)]
           bad == {n \in 0 .. Len(nodes) : ~\E up : Is(up, n)}
<1>0. Len(nodes) \in Nat /\ Ids = 1 .. Len(nodes)
  BY NodesOrdered DEF IInv
<1>1. bad = {}
  <2>1. SUFFICES ASSUME bad # {} PROVE FALSE
    OBVIOUS
  <2>2. PICK n \in bad : \A k \in bad : n <= k
    <3>1. bad \subseteq Nat
      BY <1>0
    <3> HIDE DEF bad
    <3>2. QED  BY <2>1, <3>1, LeastNumber
  <2>3. n # 0
    <3>1. PICK up : up = [k \in 1 .. 0 |-> k]
      OBVIOUS
    <3>2. 1 .. 0 = {}
      OBVIOUS
    <3>3. Is(up, 0)
      BY <3>1, <3>2
    <3> HIDE DEF Is
    <3>4. QED  BY <2>2, <3>3
  <2>4. n \in 1 .. Len(nodes) /\ n - 1 \in 0 .. Len(nodes) /\ ~(n <= n - 1)
    BY <1>0, <2>2, <2>3
  <2>5. PICK up : Is(up, n - 1)
    <3> HIDE DEF Is
    <3>1. QED  BY <2>2, <2>4
  <2>6. PICK more : more = [k \in 1 .. n |-> IF k = n THEN At(up, n) ELSE up[k]]
    OBVIOUS
  <2>7. ASSUME NEW k \in 1 .. n
        PROVE  more[k] = At(more, k)
    <3>1. k \in Nat /\ k \in Ids /\ n \in Nat /\ k <= n
      BY <1>0, <2>4
    <3>2. ASSUME NEW j \in 1 .. k - 1 PROVE more[j] = up[j]
      <4>1. j \in 1 .. n /\ j # n
        BY <3>1
      <4>2. QED  BY <2>6, <4>1
    <3>3. Made(k)
      BY <3>1 DEF IInv, NodesInv, NodeInv
    <3>4. nodes[k].parent # 0 => nodes[k].parent \in 1 .. k - 1
      BY <3>3 DEF Made, IsRoot, IsChild
    <3>5. nodes[k].parent = 0 => \A m \in nodes[k].message : m.child \in 1 .. k - 1
      BY <3>1, <3>3 DEF Made, IsRoot, IsChild, Continues
    <3>6. At(more, k) = At(up, k)
      <4>1. CASE nodes[k].parent # 0
        BY <3>2, <3>4, <4>1
      <4>2. CASE nodes[k].parent = 0
        <5>1. \A m \in nodes[k].message : more[m.child] = up[m.child]
          BY <3>2, <3>5, <4>2
        <5>2. {more[m.child] : m \in nodes[k].message} = {up[m.child] : m \in nodes[k].message}
          BY <5>1
        <5>3. QED  BY <4>2, <5>2
      <4>3. QED  BY <4>1, <4>2
    <3>7. CASE k = n
      BY <2>6, <3>6, <3>7
    <3>8. CASE k # n
      <4>1. k \in 1 .. n - 1
        BY <3>1, <3>8
      <4>2. up[k] = At(up, k)
        BY <2>5, <4>1
      <4>3. more[k] = up[k]
        BY <2>6, <3>8
      <4>4. QED  BY <3>6, <4>2, <4>3
    <3>9. QED  BY <3>7, <3>8
  <2>8. Is(more, n)
    <3> HIDE DEF At
    <3>1. QED  BY <2>6, <2>7
  <2>9. QED  BY <2>2, <2>8
<1>2. \E up : Is(up, Len(nodes))
  <2> HIDE DEF Is
  <2>1. QED  BY <1>0, <1>1
<1> DEFINE Up == CHOOSE up : Is(up, Len(nodes))
<1>3. Is(Up, Len(nodes))
  <2> HIDE DEF Is
  <2>1. QED  BY <1>2
<1>4. \A n \in Ids : Callers(n) = Up[n]
  BY <1>0 DEF Callers
<1> HIDE DEF Up
<1>5. Up = [k \in Ids |-> At(Up, k)]
  BY <1>0, <1>3
<1>6. QED  BY <1>4, <1>5

LEMMA WithinCallers ==
  ASSUME IInv
  PROVE  \A n \in Ids : \A c \in Callers(n) :
           c \in Ids /\ IsNarrowerThan(nodes[n].authority, nodes[c].authority)
<1>1. PICK up :
        /\ up = [k \in Ids |-> {k} \cup (IF nodes[k].parent # 0 THEN up[nodes[k].parent]
                                         ELSE UNION {up[m.child] : m \in nodes[k].message})]
        /\ \A n \in Ids : Callers(n) = up[n]
  BY CallersUnfold
<1>2. Len(nodes) \in Nat /\ Ids = 1 .. Len(nodes)
  BY NodesOrdered DEF IInv
<1>3. \A k \in Ids : Made(k) /\ IsAuthority(nodes[k].authority)
  BY DEF IInv, NodesInv, NodeInv, Made
<1> DEFINE Within(n, c) == c \in Ids /\ IsNarrowerThan(nodes[n].authority, nodes[c].authority)
           bad == {n \in Ids : ~\A c \in up[n] : Within(n, c)}
<1>4. bad = {}
  <2>1. SUFFICES ASSUME bad # {} PROVE FALSE
    OBVIOUS
  <2>2. PICK n \in bad : \A k \in bad : n <= k
    <3>1. bad \subseteq Nat
      BY <1>2
    <3> HIDE DEF bad
    <3>2. QED  BY <2>1, <3>1, LeastNumber
  <2>3. n \in Ids /\ n \in Nat /\ n <= Len(nodes)
    BY <1>2, <2>2
  <2>4. Within(n, n)
    BY <1>3, <2>3, NarrowerReflexive
  <2>5. ASSUME NEW k \in 1 .. n - 1, IsNarrowerThan(nodes[n].authority, nodes[k].authority),
               NEW c \in up[k]
        PROVE  Within(n, c)
    <3>1. k \in Ids /\ ~(n <= k)
      BY <1>2, <2>3
    <3>2. Within(k, c)
      BY <2>2, <2>5, <3>1
    <3>3. QED  BY <1>3, <2>3, <2>5, <3>1, <3>2, NarrowerTransitive
  <2> HIDE DEF Within
  <2>6. up[n] = {n} \cup (IF nodes[n].parent # 0 THEN up[nodes[n].parent]
                          ELSE UNION {up[m.child] : m \in nodes[n].message})
    BY <1>1, <2>3
  <2>7. CASE nodes[n].parent # 0
    <3>1. /\ nodes[n].parent \in 1 .. n - 1
          /\ IsNarrowerThan(nodes[n].authority, nodes[nodes[n].parent].authority)
      BY <1>3, <2>3, <2>7 DEF Made, IsRoot, IsChild
    <3>2. QED  BY <2>2, <2>4, <2>5, <2>6, <2>7, <3>1
  <2>8. CASE nodes[n].parent = 0
    <3>1. ASSUME NEW m \in nodes[n].message, NEW c \in up[m.child]
          PROVE  Within(n, c)
      <4>1. IsRoot(n)
        BY <1>3, <2>3, <2>8 DEF Made, IsChild
      <4>2. Continues(n, m)
        BY <3>1, <4>1 DEF IsRoot, Continues
      <4>3. /\ m.child \in 1 .. n - 1 /\ m.child \in Ids
            /\ nodes[n].authority = nodes[m.child].authority
        BY <1>2, <2>3, <4>2 DEF Continues
      <4>4. IsNarrowerThan(nodes[n].authority, nodes[m.child].authority)
        BY <1>3, <4>3, NarrowerReflexive
      <4>5. QED  BY <2>5, <3>1, <4>3, <4>4
    <3>2. QED  BY <2>2, <2>4, <2>6, <2>8, <3>1
  <2>9. QED  BY <2>7, <2>8
<1>5. QED  BY <1>1, <1>4

(* Nobody in any process is permitted more than anybody it acts for, up to  *)
(* the first client, as long as a key of a ceiling stands for one field.    *)
THEOREM ServedAreWithinCallers ==
  WellFormed /\ KeysMeanFields /\ CallsWellFormed /\ Spec => []ServedWithinCallers
<1> SUFFICES ASSUME WellFormed, KeysMeanFields, CallsWellFormed
             PROVE  Spec => []ServedWithinCallers
  OBVIOUS
<1>1. PICK field, applies :
        /\ Reads(ClientGrant, field, applies)
        /\ \A r \in Remotes : \A x \in Asks(r) \cup Needs(r) : Reads(x, field, applies)
  BY DEF KeysMeanFields
<1> DEFINE Inv == IInv /\ \A n \in Ids : Reads(nodes[n].authority, field, applies)
<1>2. Init => Inv
  <2> SUFFICES ASSUME Init PROVE \A n \in Ids : Reads(nodes[n].authority, field, applies)
    BY InitInv
  <2>1. PICK y : y = Node(1, 0, "client", ClientGrant, {})
    OBVIOUS
  <2>2. PICK x : x = [y EXCEPT !.issued = 0]
    OBVIOUS
  <2>3. nodes = <<x>>
    BY <2>1, <2>2 DEF Init
  <2>4. x.authority = ClientGrant
    BY <2>1, <2>2 DEF Node
  <2>5. Ids = {1} /\ nodes[1] = x
    BY <2>3, SingletonSeq, SeqIsIndexed DEF Ids
  <2>6. QED  BY <1>1, <2>4, <2>5
<1>3. Inv /\ [Next]_vars => Inv'
  <2> SUFFICES ASSUME Inv, [Next]_vars PROVE Inv'
    OBVIOUS
  <2>1. IInv' /\ Given
    BY NextInv
  <2>2. ASSUME NEW k \in Ids'
        PROVE  Reads(nodes'[k].authority, field, applies)
    <3>1. PICK j \in Ids :
            \/ nodes'[k].authority = nodes[j].authority
            \/ \E r \in Remotes : \E x \in Asks(r) \cup Needs(r) :
                 /\ Meetable(nodes[j].authority, x)
                 /\ nodes'[k].authority = Meet(nodes[j].authority, x)
      BY <2>1 DEF Given
    <3>2. Reads(nodes[j].authority, field, applies) /\ IsAuthority(nodes[j].authority)
      BY DEF IInv, NodesInv, NodeInv, Made
    <3>3. CASE nodes'[k].authority = nodes[j].authority
      BY <3>2, <3>3
    <3>4. ASSUME NEW r \in Remotes, NEW x \in Asks(r) \cup Needs(r),
                 Meetable(nodes[j].authority, x),
                 nodes'[k].authority = Meet(nodes[j].authority, x)
          PROVE  Reads(nodes'[k].authority, field, applies)
      BY <1>1, <3>2, <3>4, MeetReads DEF WellFormed
    <3>5. QED  BY <3>1, <3>3, <3>4
  <2>3. QED  BY <2>1, <2>2
<1>4. Inv => ServedWithinCallers
  <2> SUFFICES ASSUME Inv, NEW n \in Ids, NEW s \in Asked, NEW ctx \in Contexts,
                      Allowed(n, s, ctx), NEW c \in Callers(n)
               PROVE  Permits(nodes[c].authority, s, ctx)
    BY DEF ServedWithinCallers
  <2>1. c \in Ids /\ IsNarrowerThan(nodes[n].authority, nodes[c].authority)
    BY WithinCallers
  <2>2. IsAuthority(nodes[n].authority) /\ IsAuthority(nodes[c].authority)
    BY <2>1 DEF IInv, NodesInv, NodeInv, Made
  <2>3. FieldsAgree(nodes[c].authority, nodes[n].authority)
    BY <2>1, ReadingAgrees
  <2>4. s \in ScopeSet /\ IsContext(ctx) /\ Permits(nodes[n].authority, s, ctx)
    BY DEF CallsWellFormed, Allowed
  <2>5. QED  BY <2>1, <2>2, <2>3, <2>4, NarrowerPermits
<1>5. QED  BY <1>2, <1>3, <1>4, PTL DEF Spec

-----------------------------------------------------------------------------
(* Which hops verify *)

(* A leaf's claims fix the whole chain of tokens: each names the one before *)
(* it by its hash, and its depth says how many there are.                   *)
LEMMA LeafFixesTokens ==
  ASSUME NEW s, NEW t, Minted(s), Minted(t), Linked(s), Linked(t),
         DepthsCount(s), DepthsCount(t), Leaf(s) = Leaf(t)
  PROVE  s = t
<1>1. /\ IsSeq(s) /\ Len(s) \in Nat /\ DOMAIN s = 1 .. Len(s) /\ Len(s) \in DOMAIN s
      /\ Last(s) = s[Len(s)] /\ s = [i \in 1 .. Len(s) |-> s[i]]
  BY SeqIsIndexed, LastOf DEF Minted
<1>2. /\ IsSeq(t) /\ Len(t) \in Nat /\ DOMAIN t = 1 .. Len(t) /\ Len(t) \in DOMAIN t
      /\ Last(t) = t[Len(t)] /\ t = [i \in 1 .. Len(t) |-> t[i]]
  BY SeqIsIndexed, LastOf DEF Minted
<1>3. Len(s) = Len(t)
  <2>1. Leaf(s).depth = Len(s) - 1 /\ Leaf(t).depth = Len(t) - 1
    BY <1>1, <1>2 DEF DepthsCount, Leaf
  <2>2. PICK k, l : k = Len(s) /\ l = Len(t)
    OBVIOUS
  <2>3. k \in Nat /\ l \in Nat /\ k - 1 = l - 1
    BY <1>1, <1>2, <2>1, <2>2
  <2>4. k = l
    BY <2>3
  <2>5. QED  BY <2>2, <2>4
<1> DEFINE bad == {d \in 0 .. Len(s) - 1 : s[Len(s) - d].signed # t[Len(s) - d].signed}
<1>4. bad = {}
  <2>1. SUFFICES ASSUME bad # {} PROVE FALSE
    OBVIOUS
  <2>2. PICK d \in bad : \A e \in bad : d <= e
    <3>1. bad \subseteq Nat
      BY <1>1
    <3> HIDE DEF bad
    <3>2. QED  BY <2>1, <3>1, LeastNumber
  <2>3. d \in 0 .. Len(s) - 1 /\ s[Len(s) - d].signed # t[Len(s) - d].signed
    BY <2>2
  <2>4. d # 0
    <3>1. Len(s) - 0 = Len(s)
      BY <1>1
    <3>2. s[Len(s)].signed = t[Len(s)].signed
      BY <1>1, <1>2, <1>3 DEF Leaf
    <3>3. QED  BY <2>3, <3>1, <3>2
  <2>5. PICK i : i = Len(s) - d
    OBVIOUS
  <2>6. /\ i \in Nat /\ i + 1 \in 2 .. Len(s) /\ i + 1 = Len(s) - (d - 1)
        /\ d - 1 \in 0 .. Len(s) - 1 /\ ~(d <= d - 1)
    BY <1>1, <2>3, <2>4, <2>5
  <2>7. s[i + 1].signed = t[i + 1].signed
    BY <2>2, <2>6
  <2>8. s[i + 1].signed.parent = {s[i].signed} /\ t[i + 1].signed.parent = {t[i].signed}
    <3>1. PICK j : j = i + 1
      OBVIOUS
    <3>2. j \in 2 .. Len(s) /\ j \in 2 .. Len(t) /\ j - 1 = i
      <4>1. j \in 2 .. Len(s) /\ i \in Nat
        BY <2>6, <3>1
      <4>2. j - 1 = i
        BY <3>1, <4>1
      <4>3. QED  BY <1>3, <4>1, <4>2
    <3>3. s[j].signed.parent = {s[j - 1].signed} /\ t[j].signed.parent = {t[j - 1].signed}
      BY <3>2 DEF Linked
    <3>4. QED  BY <3>1, <3>2, <3>3
  <2>9. s[i].signed = t[i].signed
    BY <2>7, <2>8
  <2>10. QED  BY <2>3, <2>5, <2>9
<1>5. ASSUME NEW i \in 1 .. Len(s)
      PROVE  s[i] = t[i]
  <2>1. Len(s) - i \in 0 .. Len(s) - 1 /\ Len(s) - (Len(s) - i) = i
    BY <1>1
  <2>2. s[i].signed = t[i].signed
    BY <1>4, <2>1
  <2>3. /\ s[i] = [signed |-> s[i].signed, seal |-> Key.key]
        /\ t[i] = [signed |-> t[i].signed, seal |-> Key.key]
    BY <1>1, <1>2, <1>3 DEF Minted
  <2>4. QED  BY <2>2, <2>3
<1>6. QED  BY <1>1, <1>2, <1>3, <1>5

(* What was loaded when it was delivered loads offline at any earlier time. *)
LEMMA LoadsOffline ==
  ASSUME NEW ts, Minted(ts), NEW at \in Nat, Loads(ts, Server(at))
  PROVE  Loads(ts, Verifier(Key, {}, "01", {}, 0))
<1>1. PICK v : v = Server(at)
  OBVIOUS
<1>2. v.signer = Key /\ v.draft = "01" /\ v.now = at
  BY <1>1 DEF Server, Verifier
<1>3. PICK w : w = Verifier(Key, {}, "01", {}, 0)
  OBVIOUS
<1>4. w.signer = Key /\ w.draft = "01" /\ w.now = 0 /\ w.roots = {}
  BY <1>3 DEF Verifier
<1>5. Loads(ts, v)
  BY <1>1
<1>6. Authentic(ts, w)
  BY <1>2, <1>4, <1>5 DEF Loads, Authentic
<1>7. InTime(ts, w)
  <2>1. \A i \in DOMAIN ts : ts[i].signed.nbf = {} /\ ts[i].signed.exp \subseteq Int
    BY DEF Minted
  <2>2. InTime(ts, v)
    BY <1>5 DEF Loads
  <2>3. ASSUME NEW i \in DOMAIN ts, NEW e \in ts[i].signed.exp
        PROVE  0 < e \/ 0 = e
    <3>1. at < e \/ at = e
      BY <1>2, <2>2, <2>3 DEF InTime
    <3>2. e \in Int
      BY <2>1, <2>3
    <3>3. QED  BY <3>1, <3>2
  <2>4. QED  BY <1>4, <2>1, <2>2, <2>3 DEF InTime
<1>8. Loads(ts, w)
  BY <1>2, <1>4, <1>5, <1>6, <1>7 DEF Loads
<1>9. QED  BY <1>3, <1>8

(* A hop verifies exactly when the served request was begun on its tokens. *)
THEOREM HopsVerifyExactly == WellFormed /\ Spec => []HopsVerify
<1> SUFFICES ASSUME WellFormed
             PROVE  Spec => []HopsVerify
  OBVIOUS
<1>1. IInv => HopsVerify
  <2> SUFFICES ASSUME IInv, NEW m \in net, NEW n \in Ids, Served(n)
               PROVE  VerifyHop(m.tokens, nodes[m.child].root, nodes[n].root, 0)
                        <=> \E begun \in nodes[nodes[n].root].message : begun.tokens = m.tokens
    BY DEF HopsVerify
  <2>1. PICK b \in net : Begins(b, n)
    BY ServedBegins
  <2> DEFINE p == nodes[n].parent
             ts == m.tokens
  <2>2. p \in Ids /\ Continues(p, b) /\ nodes[n].root = p
    BY <2>1 DEF Begins
  <2>3. /\ IsMessage(m) /\ m.child \in Ids /\ Made(m.child)
        /\ IsMessage(b) /\ b.child \in Ids /\ Made(p)
    BY <2>2 DEF IInv, NetInv, NodesInv, NodeInv, IsMessage
  <2>4. nodes[p].message = {b} /\ Loads(b.tokens, Server(nodes[p].issued))
    BY <2>2 DEF Continues
  <2>5. Loads(b.tokens, Verifier(Key, {}, "01", {}, 0))
    BY <2>3, <2>4, LoadsOffline DEF IsMessage, Made
  <2>6. ChainName(nodes, p) = ContinuationId(b.tokens)
    BY <2>4 DEF ChainName
  <2>7. ASSUME VerifyHop(ts, nodes[m.child].root, p, 0)
        PROVE  b.tokens = ts
    <3>1. Loads(ts, Verifier(Key, {}, "01", {}, 0))
      BY <2>7 DEF VerifyHop
    <3>2. Leaf(b.tokens) = Leaf(ts)
      BY <2>6, <2>7 DEF VerifyHop, CheckServer, ContinuationId, Leaf
    <3>3. Linked(ts) /\ DepthsCount(ts) /\ Linked(b.tokens) /\ DepthsCount(b.tokens)
      BY <2>5, <3>1 DEF Loads
    <3>4. QED  BY <2>3, <3>2, <3>3, LeafFixesTokens DEF IsMessage
  <2>8. ASSUME b.tokens = ts
        PROVE  VerifyHop(ts, nodes[m.child].root, p, 0)
    <3>1. CheckClient(nodes[m.child].root, ts)
      <4>1. /\ NodeId(nodes, m.child) = Last(ts).signed.jti
            /\ {nodes[m.child].agent} = Last(ts).signed.sub
            /\ nodes[m.child].authority = LeafAuthority(ts)
        BY <2>3 DEF IsMessage, Names, Leaf
      <4>2. SameAuthority(nodes[m.child].authority, LeafAuthority(ts))
        BY <2>3, <4>1, NarrowerReflexive DEF SameAuthority, Made
      <4>3. QED  BY <2>3, <4>1, <4>2 DEF CheckClient
    <3>2. CheckServer(p, ts)
      <4>1. {nodes[p].agent} = Last(ts).signed.sub /\ nodes[p].authority = LeafAuthority(ts)
        BY <2>2, <2>3, <2>8 DEF Continues, IsMessage, Leaf
      <4>2. SameAuthority(nodes[p].authority, LeafAuthority(ts))
        BY <2>3, <4>1, NarrowerReflexive DEF SameAuthority, Made
      <4>3. QED  BY <2>6, <2>8, <4>1, <4>2 DEF CheckServer
    <3>3. QED  BY <2>5, <2>8, <3>1, <3>2 DEF VerifyHop
  <2>9. QED  BY <2>2, <2>4, <2>7, <2>8
<1>2. QED  BY <1>1, Invariance, PTL
=============================================================================
