-------------------------- MODULE AttenuationProofs --------------------------
(***************************************************************************)
(* What the lattice owes a path of delegations, for every set of well-     *)
(* formed roots and requests and every number of hops: the narrowing that  *)
(* each hop asserts composes, and permits no more than any authority above *)
(* it as long as a key always stands for the same context field.  Minted,  *)
(* the path loads whole or cut short at some hop, and not otherwise, and   *)
(* what is loaded permits no more than what was minted.                    *)
(***************************************************************************)
EXTENDS Tokens, AuthorityProofs

WellFormed == \A x \in Roots \cup Requests : IsAuthority(x)

(* The keys mean the same context fields in every root and request. *)
KeysMeanFields ==
  \E field, applies : \A x \in Roots \cup Requests : Reads(x, field, applies)

-----------------------------------------------------------------------------
PathInv ==
  /\ path \in Seq({x \in Range(path) : IsAuthority(x)}) /\ path # <<>>
  /\ PathNarrows

LEMMA ParentOnPath ==
  ASSUME PathInv
  PROVE  /\ Len(path) \in Nat /\ Hops = 1 .. Len(path) /\ Len(path) \in Hops
         /\ Parent = path[Len(path)]
         /\ \A i \in Hops : IsAuthority(path[i])
<1>1. Len(path) \in Nat /\ Hops = 1 .. Len(path) /\ Len(path) \in Hops
  BY DEF PathInv, Hops
<1>2. \A i \in Hops : IsAuthority(path[i])
  BY <1>1 DEF PathInv
<1>3. QED  BY <1>1, <1>2 DEF Parent, Last

LEMMA OneHopMore ==
  ASSUME PathInv, NEW met, path' = Append(path, met)
  PROVE  /\ Hops' = 1 .. Len(path) + 1
         /\ path'[Len(path) + 1] = met
         /\ \A i \in Hops : path'[i] = path[i]
BY ParentOnPath DEF PathInv, Hops

LEMMA RootPath ==
  ASSUME WellFormed, Init
  PROVE  PathInv
<1>1. PICK root \in Roots : path = <<root>>
  BY DEF Init
<1>2. Len(path) = 1 /\ Hops = {1} /\ path[1] = root
  BY <1>1 DEF Hops
<1>3. IsAuthority(root)
  BY DEF WellFormed
<1>4. PathNarrows
  BY <1>2, <1>3, NarrowerReflexive DEF PathNarrows
<1>5. path \in Seq({x \in Range(path) : IsAuthority(x)})
  BY <1>1, <1>2, <1>3 DEF Range
<1>6. QED  BY <1>1, <1>4, <1>5 DEF PathInv

LEMMA NextHop ==
  ASSUME WellFormed, PathInv, NEW request \in Requests, Delegate(request)
  PROVE  PathInv'
<1> DEFINE met == Meet(Parent, request)
           n == Len(path)
<1>1. IsAuthority(met) /\ IsNarrowerThan(met, Parent) /\ IsAuthority(Parent)
  BY ParentOnPath, MeetIsAuthority, MeetIsNarrower DEF WellFormed, Delegate
<1>2. n \in Nat /\ Hops = 1 .. n /\ n \in Hops /\ Parent = path[n]
      /\ \A i \in Hops : IsAuthority(path[i])
  BY ParentOnPath
<1>3. path' = Append(path, met)
  BY DEF Delegate
<1> HIDE DEF met
<1>4. /\ Hops' = 1 .. n + 1
      /\ path'[n + 1] = met
      /\ \A i \in Hops : path'[i] = path[i]
  BY <1>3, OneHopMore
<1>5. \A i \in Hops' : IsAuthority(path'[i])
  BY <1>1, <1>2, <1>4
<1>6. ASSUME NEW i \in Hops', NEW j \in Hops', i <= j
      PROVE  IsNarrowerThan(path'[j], path'[i])
  <2>1. CASE j \in Hops
    BY <1>2, <1>4, <1>6, <2>1 DEF PathInv, PathNarrows
  <2>2. CASE j = n + 1 /\ i = n + 1
    BY <1>1, <1>4, <2>2, NarrowerReflexive
  <2>3. CASE j = n + 1 /\ i \in Hops
    <3>1. IsNarrowerThan(Parent, path[i])
      BY <1>2, <2>3 DEF PathInv, PathNarrows
    <3>2. IsNarrowerThan(met, path[i])
      BY <1>1, <1>2, <2>3, <3>1, NarrowerTransitive
    <3>3. QED  BY <1>4, <2>3, <3>2
  <2>4. QED  BY <1>2, <1>4, <2>1, <2>2, <2>3
<1>7. PathNarrows'
  BY <1>6 DEF PathNarrows, Hops
<1>8. path' \in Seq({x \in Range(path') : IsAuthority(x)}) /\ path' # <<>>
  BY <1>2, <1>3, <1>4, <1>5 DEF Range, PathInv
<1>9. QED  BY <1>7, <1>8 DEF PathInv

LEMMA PathsKept == WellFormed => (Spec => []PathInv)
<1> SUFFICES ASSUME WellFormed
             PROVE  Spec => []PathInv
  OBVIOUS
<1>1. Init => PathInv
  BY RootPath
<1>2. PathInv /\ [Next]_path => PathInv'
  <2> SUFFICES ASSUME PathInv, [Next]_path
               PROVE  PathInv'
    OBVIOUS
  <2>1. CASE \E request \in Requests : Delegate(request)
    BY <2>1, NextHop
  <2>2. CASE UNCHANGED path
    BY <2>2 DEF PathInv, PathNarrows, Hops
  <2>3. QED  BY <2>1, <2>2 DEF Next
<1>3. QED  BY <1>1, <1>2, PTL DEF Spec

(* Every authority on a path is narrower than every authority above it, by  *)
(* the relation the library asserts hop by hop and the verifiers re-check   *)
(* (chain.py, add_child; wire.py and evidence.py, is_narrower_than).        *)
THEOREM PathsNarrow == WellFormed => (Spec => []PathNarrows)
<1>1. PathInv => PathNarrows
  BY DEF PathInv
<1>2. QED  BY <1>1, PathsKept, PTL

-----------------------------------------------------------------------------
(* No authority on a path permits what one above it does not, as long as a  *)
(* key means one field: the reason is_narrower_than is worth re-checking    *)
(* offline (authority.py:325-327).  Without KeysMeanFields it fails: a key  *)
(* that reads one field above and another below bounds two different things.*)
THEOREM PathsPermitLess ==
  ASSUME WellFormed, KeysMeanFields, Asked \subseteq ScopeSet,
         \A ctx \in Contexts : IsContext(ctx)
  PROVE  Spec => []PathPermits
<1>1. PICK field, applies : \A x \in Roots \cup Requests : Reads(x, field, applies)
  BY DEF KeysMeanFields
<1> DEFINE Inv == PathInv /\ \A i \in Hops : Reads(path[i], field, applies)
<1>2. Init => Inv
  BY <1>1, RootPath DEF Init, Hops
<1>3. Inv /\ [Next]_path => Inv'
  <2> SUFFICES ASSUME Inv, [Next]_path
               PROVE  Inv'
    OBVIOUS
  <2>1. CASE UNCHANGED path
    <3>1. Hops' = Hops /\ \A i \in Hops : path'[i] = path[i]
      BY <2>1 DEF Hops
    <3>2. PathInv'
      BY <2>1 DEF PathInv, PathNarrows, Hops
    <3>3. QED  BY <2>1, <3>1, <3>2
  <2>2. ASSUME NEW request \in Requests, Delegate(request)
        PROVE  Inv'
    <3>1. PathInv'
      BY <2>2, NextHop
    <3>2. Reads(Meet(Parent, request), field, applies)
      BY <1>1, <2>2, ParentOnPath, MeetReads DEF WellFormed, Delegate
    <3>3. path' = Append(path, Meet(Parent, request))
      BY <2>2 DEF Delegate
    <3> DEFINE met == Meet(Parent, request)
    <3>4. Reads(met, field, applies) /\ path' = Append(path, met)
      BY <3>2, <3>3
    <3> HIDE DEF met
    <3>0. Len(path) \in Nat /\ Hops = 1 .. Len(path)
      BY ParentOnPath
    <3>5. /\ Hops' = 1 .. Len(path) + 1
          /\ path'[Len(path) + 1] = met
          /\ \A i \in Hops : path'[i] = path[i]
      BY <3>4, OneHopMore
    <3>6. \A i \in Hops' : Reads(path'[i], field, applies)
      BY <3>0, <3>4, <3>5
    <3>7. QED  BY <3>1, <3>6
  <2>3. QED  BY <2>1, <2>2 DEF Next
<1>4. Inv => PathPermits
  <2> SUFFICES ASSUME Inv, NEW i \in Hops, NEW j \in Hops, i <= j,
                      NEW s \in Asked, NEW ctx \in Contexts, Permits(path[j], s, ctx)
               PROVE  Permits(path[i], s, ctx)
    BY DEF PathPermits, PermitsNoMore
  <2>1. IsAuthority(path[i]) /\ IsAuthority(path[j])
    BY ParentOnPath
  <2>2. IsNarrowerThan(path[j], path[i])
    BY DEF PathInv, PathNarrows
  <2>3. FieldsAgree(path[i], path[j])
    BY <2>2, ReadingAgrees
  <2>4. QED  BY <2>1, <2>2, <2>3, NarrowerPermits
<1>5. QED  BY <1>2, <1>3, <1>4, PTL DEF Spec

(* No delegation loses a scope or a bound: along every path, whatever is    *)
(* requested is met in full (authority.py, Authority.meet; PathsNarrow is   *)
(* the other half, that no delegation gains any).                           *)
THEOREM MeetsAreGreatest == WellFormed => (Spec => []MeetIsGreatest)
<1> SUFFICES ASSUME WellFormed
             PROVE  Spec => []MeetIsGreatest
  OBVIOUS
<1>1. Spec => []PathInv
  BY PathsKept
<1>2. PathInv => MeetIsGreatest
  <2> SUFFICES ASSUME PathInv, NEW request \in Requests, NEW a \in Requests,
                      IsNarrowerThan(a, Parent), IsNarrowerThan(a, request)
               PROVE  IsNarrowerThan(a, Meet(Parent, request))
    BY DEF MeetIsGreatest
  <2>1. IsAuthority(Parent) /\ IsAuthority(request) /\ IsAuthority(a)
    BY ParentOnPath DEF WellFormed
  <2>2. QED  BY <2>1, GreatestWithinBoth
<1>3. QED  BY <1>1, <1>2, PTL

-----------------------------------------------------------------------------
(* The path on the wire *)

(* What mints and verifiers are given: an audience at most, and keys of     *)
(* which each is known by one name.                                         *)
MintsWellFormed ==
  /\ \A m \in Mints : m.iat \in Int /\ (m.aud = {} \/ \E aud : m.aud = {aud})
  /\ \A v \in Verifiers :
       /\ v.now \in Int /\ v.draft \in {"01", "02"}
       /\ \A m \in Mints :
            m.signer.alg = v.signer.alg /\ m.signer.key = v.signer.key => m.signer = v.signer

(* The path is never longer than what the root's token says of it.          *)
TokenInv == PathInv /\ Len(path) <= MaxHops + 1

LEMMA TokensKept == WellFormed => (Spec => []TokenInv)
<1> SUFFICES ASSUME WellFormed
             PROVE  Spec => []TokenInv
  OBVIOUS
<1>1. Init => Len(path) <= MaxHops + 1
  <2> SUFFICES ASSUME Init PROVE Len(path) <= MaxHops + 1
    OBVIOUS
  <2>1. Len(path) = 1
    BY DEF Init
  <2>2. QED  BY <2>1, MaxHopsAssumption
<1>2. PathInv /\ Len(path) <= MaxHops + 1 /\ [Next]_path => (Len(path) <= MaxHops + 1)'
  <2> SUFFICES ASSUME PathInv, Len(path) <= MaxHops + 1, [Next]_path
               PROVE  Len(path') <= MaxHops + 1
    OBVIOUS
  <2>1. ASSUME NEW request \in Requests, Delegate(request)
        PROVE  Len(path') <= MaxHops + 1
    <3>1. PICK met : met = Meet(Parent, request)
      OBVIOUS
    <3>2. path' = Append(path, met) /\ Len(path) <= MaxHops
      BY <2>1, <3>1 DEF Delegate
    <3>3. IsSeq(path)
      BY SeqMonotonic DEF PathInv, IsSeq
    <3>4. Len(path') = Len(path) + 1 /\ Len(path) \in Nat
      BY <3>2, <3>3, Appended, SeqIsIndexed
    <3>5. QED  BY <3>2, <3>4, MaxHopsAssumption
  <2>2. QED  BY <2>1 DEF Next
<1>3. TokenInv <=> PathInv /\ Len(path) <= MaxHops + 1
  BY DEF TokenInv
<1>4. QED  BY <1>1, <1>2, <1>3, PathsKept, PTL DEF Spec

LEMMA WirePathHops ==
  ASSUME PathInv
  PROVE  /\ IsSeq(WirePath) /\ Len(WirePath) = Len(path) /\ DOMAIN WirePath = Hops
         /\ \A i \in Hops : WirePath[i] = WireNode(i, i, path[i])
<1>1. Len(path) \in Nat /\ Hops = 1 .. Len(path)
  BY ParentOnPath
<1>2. WirePath = [i \in 1 .. Len(path) |-> WirePath[i]]
  BY <1>1 DEF WirePath
<1>3. \A i \in Hops : WirePath[i] = WireNode(i, i, path[i])
  BY DEF WirePath
<1>4. QED  BY <1>1, <1>2, <1>3, IndexedIsSeq

(* What a mint makes of the path, token by token. *)
ChainOf(m) == SerializeChain(WirePath, MaxHops, m)
Bound(i) == IF i = 1 THEN RootBound(MaxHops) ELSE {}

LEMMA ChainTokens ==
  ASSUME PathInv, NEW m
  PROVE  /\ IsSeq(ChainOf(m)) /\ Len(ChainOf(m)) = Len(path) /\ DOMAIN ChainOf(m) = Hops
         /\ \A i \in Hops :
              /\ ChainOf(m)[i] = Sign(ChainOf(m)[i].signed, m)
              /\ ChainOf(m)[i].signed
                   = Claims(WirePath[i], i - 1, Bound(i),
                            IF i = 1 THEN {} ELSE {ChainOf(m)[i - 1].signed}, m)
<1>1. Len(path) \in Nat /\ Hops = 1 .. Len(path)
  BY ParentOnPath
<1>2. IsSeq(WirePath) /\ Len(WirePath) = Len(path)
  BY WirePathHops
<1>3. PICK claims : Chained(WirePath, MaxHops, m, claims)
  BY <1>2, ChainUnfolds
<1> DEFINE ts == ChainOf(m)
<1>4. ts = [i \in 1 .. Len(path) |-> Sign(claims[i], m)]
  BY <1>2, <1>3 DEF Chained, ChainOf
<1> HIDE DEF ts
<1>5. ts = [i \in 1 .. Len(path) |-> ts[i]]
  BY <1>4
<1>6. IsSeq(ts) /\ Len(ts) = Len(path) /\ DOMAIN ts = Hops
  BY <1>1, <1>5, IndexedIsSeq
<1>7. \A i \in Hops : ts[i] = Sign(claims[i], m) /\ ts[i].signed = claims[i]
  BY <1>1, <1>4 DEF Sign
<1>8. ASSUME NEW i \in Hops
      PROVE  claims[i] = Claims(WirePath[i], i - 1, Bound(i),
                                IF i = 1 THEN {} ELSE {ts[i - 1].signed}, m)
  <2>1. claims[i] = IF i = 1 THEN Claims(WirePath[1], 0, RootBound(MaxHops), {}, m)
                    ELSE Claims(WirePath[i], i - 1, {}, {claims[i - 1]}, m)
    BY <1>1, <1>2, <1>3 DEF Chained
  <2>2. CASE i = 1
    BY <2>1, <2>2 DEF Bound
  <2>3. CASE i # 1
    <3>1. i - 1 \in Hops
      BY <1>1, <2>3
    <3>2. QED  BY <1>7, <2>1, <2>3, <3>1 DEF Bound
  <2>4. QED  BY <2>2, <2>3
<1>9. QED  BY <1>6, <1>7, <1>8 DEF ts

(* What is on a token of hop i, in the chain or minted by itself. *)
IsToken(t, i, depth, bound, parent, m) ==
  t = Sign(Claims(WirePath[i], depth, bound, parent, m), m)

Carries(t, i, depth, bound, parent, m) ==
  /\ t = [signed |-> t.signed, seal |-> m.signer.key]
  /\ t.signed.alg = m.signer.alg /\ t.signed.kid = m.signer.kid
  /\ t.signed.depth = depth /\ t.signed.bound = bound /\ t.signed.parent = parent
  /\ t.signed.sub = Subject(WirePath[i], m)
  /\ t.signed.client = IF m.principal = {} THEN {} ELSE {i}
  /\ t.signed.cnf = IF m.draft = "02" THEN m.cnf ELSE {}
  /\ t.signed.aud = m.aud /\ t.signed.nbf = {}
  /\ t.signed.exp = {m.iat + n : n \in path[i].ttl}
  /\ AuthorityOf(t) = Grant(path[i].scopes, OnWire(path[i], m.draft), path[i].ttl)

LEMMA TokenClaims ==
  ASSUME PathInv, NEW i \in Hops, NEW depth, NEW bound, NEW parent, NEW m, NEW t,
         m.iat \in Int, IsToken(t, i, depth, bound, parent, m)
  PROVE  Carries(t, i, depth, bound, parent, m)
<1>1. PICK node : node = WirePath[i]
  OBVIOUS
<1>2. node.agent = i /\ node.authority = path[i]
  BY <1>1, WirePathHops DEF WireNode
<1>3. PICK c : c = Claims(node, depth, bound, parent, m)
  OBVIOUS
<1>4. t = [signed |-> c, seal |-> m.signer.key]
  BY <1>1, <1>3 DEF IsToken, Sign
<1>5. t.signed = c
  BY <1>4
<1>6. /\ c.alg = m.signer.alg /\ c.kid = m.signer.kid
      /\ c.depth = depth /\ c.bound = bound /\ c.parent = parent
      /\ c.sub = Subject(node, m)
      /\ c.client = IF m.principal = {} THEN {} ELSE {i}
      /\ c.cnf = IF m.draft = "02" THEN m.cnf ELSE {}
      /\ c.aud = m.aud /\ c.nbf = {} /\ c.iat = m.iat
      /\ c.exp = {m.iat + n : n \in path[i].ttl}
      /\ c.scopes = path[i].scopes /\ c.ceilings = OnWire(path[i], m.draft)
  BY <1>2, <1>3 DEF Claims
<1>7. {e - c.iat : e \in c.exp} = path[i].ttl
  <2>1. PICK ttl : ttl = path[i].ttl
    OBVIOUS
  <2>2. ttl \subseteq Int
    BY <2>1, ParentOnPath DEF IsAuthority
  <2>3. {e - m.iat : e \in {m.iat + n : n \in ttl}} = ttl
    BY <2>2, LifeIsKept
  <2>4. QED  BY <1>6, <2>1, <2>3
<1>8. AuthorityOf(t) = Grant(path[i].scopes, OnWire(path[i], m.draft), path[i].ttl)
  BY <1>5, <1>6, <1>7 DEF AuthorityOf
<1>9. QED  BY <1>1, <1>4, <1>5, <1>6, <1>8 DEF Carries

LEMMA ChainClaims ==
  ASSUME PathInv, NEW m, m.iat \in Int, NEW i \in Hops
  PROVE  Carries(ChainOf(m)[i], i, i - 1, Bound(i),
                 IF i = 1 THEN {} ELSE {ChainOf(m)[i - 1].signed}, m)
<1>1. PICK parent : parent = IF i = 1 THEN {} ELSE {ChainOf(m)[i - 1].signed}
  OBVIOUS
<1>2. PICK depth, bound : depth = i - 1 /\ bound = Bound(i)
  OBVIOUS
<1>3. PICK t : t = ChainOf(m)[i]
  OBVIOUS
<1>4. IsToken(t, i, depth, bound, parent, m)
  BY <1>1, <1>2, <1>3, ChainTokens DEF IsToken
<1>5. Carries(t, i, depth, bound, parent, m)
  BY <1>4, TokenClaims
<1>6. QED  BY <1>1, <1>2, <1>3, <1>5

(* What may be presented, hop by hop. *)
LEMMA PresentedTokens ==
  ASSUME PathInv, NEW v, NEW ts \in Presented(v)
  PROVE  \E n \in Hops : \E skip \in 0 .. Len(path) - n :
           \E cut \in [1 .. n -> Usable(v) \X BOOLEAN] :
             ts = [i \in 1 .. n |-> TokenOf(cut[i][1], i + skip, cut[i][2])]
<1> DEFINE token == [c \in Usable(v) \X Hops \X BOOLEAN |-> TokenOf(c[1], c[2], c[3])]
           Cut(n, skip) == {[i \in 1 .. n |-> token[<<cut[i][1], i + skip, cut[i][2]>>]] :
                              cut \in [1 .. n -> Usable(v) \X BOOLEAN]}
<1>1. Presented(v) = UNION {UNION {Cut(n, skip) : skip \in 0 .. Len(path) - n} : n \in Hops}
  BY DEF Presented
<1> HIDE DEF Cut
<1>2. PICK n \in Hops : ts \in UNION {Cut(n, skip) : skip \in 0 .. Len(path) - n}
  BY <1>1
<1>3. PICK skip \in 0 .. Len(path) - n : ts \in Cut(n, skip)
  BY <1>2
<1> HIDE DEF token
<1>4. PICK cut \in [1 .. n -> Usable(v) \X BOOLEAN] :
        ts = [i \in 1 .. n |-> token[<<cut[i][1], i + skip, cut[i][2]>>]]
  BY <1>3 DEF Cut
<1>5. ASSUME NEW i \in 1 .. n
      PROVE  token[<<cut[i][1], i + skip, cut[i][2]>>] = TokenOf(cut[i][1], i + skip, cut[i][2])
  <2>1. i + skip \in Hops
    <3>1. Len(path) \in Nat /\ Hops = 1 .. Len(path)
      BY ParentOnPath
    <3>2. QED  BY <3>1
  <2>2. cut[i][1] \in Usable(v) /\ cut[i][2] \in BOOLEAN
    OBVIOUS
  <2>3. QED  BY <2>1, <2>2 DEF token
<1>6. ts = [i \in 1 .. n |-> TokenOf(cut[i][1], i + skip, cut[i][2])]
  BY <1>4, <1>5
<1>7. QED  BY <1>6

LEMMA PieceTokens ==
  ASSUME PathInv, NEW m, m.iat \in Int, NEW i \in Hops, NEW alone \in BOOLEAN
  PROVE  /\ Carries(TokenOf(m, i, alone), i, i - 1, Bound(i),
                    IF alone \/ i = 1 THEN {} ELSE {ChainOf(m)[i - 1].signed}, m)
         /\ ~alone \/ i = 1 => TokenOf(m, i, alone) = ChainOf(m)[i]
<1>0. i \in Nat
  BY ParentOnPath
<1>1. CASE ~alone
  <2>1. TokenOf(m, i, alone) = ChainOf(m)[i]
    BY <1>1 DEF TokenOf, ChainOf
  <2>2. QED  BY <1>1, <2>1, ChainClaims
<1>2. CASE alone
  <2>1. PICK t : t = TokenOf(m, i, alone)
    OBVIOUS
  <2>2. PICK depth, bound : depth = i - 1 /\ bound = Bound(i)
    OBVIOUS
  <2>3. depth = 0 <=> i = 1
    BY <1>0, <2>2
  <2>4. t = Sign(Claims(WirePath[i], depth, bound, {}, m), m)
    BY <1>2, <2>1, <2>2, <2>3 DEF TokenOf, Serialize, Bound
  <2>5. Carries(t, i, depth, bound, {}, m)
    BY <2>4, TokenClaims DEF IsToken
  <2>6. i = 1 => t = ChainOf(m)[i]
    BY <2>2, <2>4, ChainTokens
  <2>7. QED  BY <1>2, <2>1, <2>2, <2>5, <2>6
<1>3. QED  BY <1>1, <1>2

(* What is put together from several mints and loads is one of them from    *)
(* its root down: depths start at the root, and parents are named by hash.  *)
LEMMA LoadedIsMint ==
  ASSUME PathInv, MintsWellFormed, NEW v \in Verifiers, NEW ts \in Presented(v), Loads(ts, v)
  PROVE  \E m \in Usable(v) :
           /\ Honours(v, m, Len(ts))
           /\ ts = SubSeq(ChainOf(m), 1, Len(ts))
<1>0. Len(path) \in Nat /\ Hops = 1 .. Len(path)
  BY ParentOnPath
<1>1. PICK n \in Hops : \E skip \in 0 .. Len(path) - n :
        \E cut \in [1 .. n -> Usable(v) \X BOOLEAN] :
          ts = [i \in 1 .. n |-> TokenOf(cut[i][1], i + skip, cut[i][2])]
  BY PresentedTokens
<1>2. PICK skip \in 0 .. Len(path) - n : \E cut \in [1 .. n -> Usable(v) \X BOOLEAN] :
        ts = [i \in 1 .. n |-> TokenOf(cut[i][1], i + skip, cut[i][2])]
  BY <1>1
<1>3. PICK cut \in [1 .. n -> Usable(v) \X BOOLEAN] :
        ts = [i \in 1 .. n |-> TokenOf(cut[i][1], i + skip, cut[i][2])]
  BY <1>2
<1> DEFINE M(i) == cut[i][1]
           Alone(i) == cut[i][2]
<1>4. \A i \in 1 .. n : M(i) \in Usable(v) /\ Alone(i) \in BOOLEAN /\ M(i).iat \in Int
  BY DEF MintsWellFormed, Usable
<1>5. \A i \in 1 .. n : ts[i] = TokenOf(M(i), i + skip, Alone(i))
  BY <1>3
<1> HIDE DEF M, Alone
<1>6. n \in Nat /\ 1 \in 1 .. n /\ n \in 1 .. n /\ n <= Len(path) /\ skip \in Nat
      /\ \A i \in 1 .. n : i \in Hops /\ i + skip \in Hops
  BY <1>0
<1>7. ts = [i \in 1 .. n |-> ts[i]]
  BY <1>3
<1>8. IsSeq(ts) /\ Len(ts) = n /\ DOMAIN ts = 1 .. n /\ Last(ts) = ts[n]
  BY <1>6, <1>7, IndexedIsSeq DEF Last
<1>9. Linked(ts) /\ DepthsCount(ts) /\ Authentic(ts, v) /\ InTime(ts, v)
  BY DEF Loads
<1>10. skip = 0
  <2>1. PICK h, m : h = 1 + skip /\ m = M(1)
    OBVIOUS
  <2>2. h \in Hops /\ ts[1] = TokenOf(m, h, Alone(1)) /\ m.iat \in Int /\ Alone(1) \in BOOLEAN
    BY <1>4, <1>5, <1>6, <2>1
  <2>3. ts[1].signed.depth = h - 1
    <3>1. PICK alone, parent : /\ alone = Alone(1)
                               /\ parent = IF alone \/ h = 1 THEN {}
                                           ELSE {ChainOf(m)[h - 1].signed}
      OBVIOUS
    <3>2. Carries(TokenOf(m, h, alone), h, h - 1, Bound(h), parent, m)
      BY <2>2, <3>1, PieceTokens
    <3>3. QED  BY <2>2, <3>1, <3>2 DEF Carries
  <2>4. ts[1].signed.depth = 1 - 1
    BY <1>6, <1>8, <1>9 DEF DepthsCount
  <2>5. QED  BY <1>6, <2>1, <2>3, <2>4
<1>11. ASSUME NEW i \in 1 .. n
       PROVE  /\ ts[i] = ChainOf(M(i))[i]
              /\ ts[i] = [signed |-> ts[i].signed, seal |-> M(i).signer.key]
  <2>1. i + skip = i /\ i \in Nat
    BY <1>6, <1>10
  <2>2. PICK m, alone : m = M(i) /\ alone = Alone(i)
    OBVIOUS
  <2>3. ts[i] = TokenOf(m, i, alone) /\ m.iat \in Int /\ alone \in BOOLEAN /\ i \in Hops
    BY <1>4, <1>5, <1>6, <2>1, <2>2
  <2>4. Carries(ts[i], i, i - 1, Bound(i),
                IF alone \/ i = 1 THEN {} ELSE {ChainOf(m)[i - 1].signed}, m)
    BY <2>3, PieceTokens
  <2>5. ~alone \/ i = 1
    <3>1. SUFFICES ASSUME alone, i # 1 PROVE FALSE
      OBVIOUS
    <3>2. ts[i].signed.parent = {}
      BY <2>4, <3>1 DEF Carries
    <3>3. i \in 2 .. Len(ts)
      BY <1>6, <1>8, <2>1, <3>1
    <3>4. ts[i].signed.parent = {ts[i - 1].signed}
      BY <1>9, <3>3 DEF Linked
    <3>5. QED  BY <3>2, <3>4
  <2>6. ts[i] = ChainOf(m)[i]
    BY <2>3, <2>5, PieceTokens
  <2>7. QED  BY <2>2, <2>4, <2>6 DEF Carries
<1> DEFINE m == M(n)
<1>12. m \in Usable(v) /\ m \in Mints /\ m.iat \in Int /\ m.draft = v.draft
  BY <1>4, <1>6 DEF Usable
<1>13. ts[n].signed = ChainOf(m)[n].signed
  BY <1>6, <1>11
<1> HIDE DEF m
<1>14. \A i \in Hops : Carries(ChainOf(m)[i], i, i - 1, Bound(i),
                               IF i = 1 THEN {} ELSE {ChainOf(m)[i - 1].signed}, m)
  BY <1>12, ChainClaims
<1> DEFINE bad == {d \in 0 .. n - 1 : ts[n - d].signed # ChainOf(m)[n - d].signed}
<1>15. bad = {}
  <2>1. SUFFICES ASSUME bad # {} PROVE FALSE
    OBVIOUS
  <2>2. PICK d \in bad : \A e \in bad : d <= e
    <3>1. bad \subseteq Nat
      BY <1>6
    <3> HIDE DEF bad
    <3>2. QED  BY <2>1, <3>1, LeastNumber
  <2>3. d \in 0 .. n - 1 /\ ts[n - d].signed # ChainOf(m)[n - d].signed
    BY <2>2
  <2>4. d # 0
    <3>1. n - 0 = n
      BY <1>6
    <3>2. QED  BY <1>13, <2>3, <3>1
  <2>5. PICK j : j = n - (d - 1)
    OBVIOUS
  <2>6. j \in 2 .. n /\ j - 1 = n - d /\ d - 1 \in 0 .. n - 1 /\ ~(d <= d - 1)
    BY <1>6, <2>3, <2>4, <2>5
  <2>7. ts[j].signed = ChainOf(m)[j].signed
    BY <2>2, <2>5, <2>6
  <2>8. ts[j].signed.parent = {ts[j - 1].signed}
    BY <1>8, <1>9, <2>6 DEF Linked
  <2>9. ChainOf(m)[j].signed.parent = {ChainOf(m)[j - 1].signed}
    <3>1. j \in Hops /\ j # 1
      BY <1>6, <2>6
    <3>2. QED  BY <1>14, <3>1 DEF Carries
  <2>10. ts[n - d].signed = ChainOf(m)[n - d].signed
    BY <2>6, <2>7, <2>8, <2>9
  <2>11. QED  BY <2>3, <2>10
<1>16. m.signer.key = v.signer.key /\ m.signer.alg = v.signer.alg
  <2>1. ts[n].seal = v.signer.key /\ ts[n].signed.alg = v.signer.alg
    BY <1>6, <1>8, <1>9 DEF Authentic
  <2>2. ts[n] = ChainOf(m)[n]
    BY <1>6, <1>11 DEF m
  <2>3. Carries(ChainOf(m)[n], n, n - 1, Bound(n),
                IF n = 1 THEN {} ELSE {ChainOf(m)[n - 1].signed}, m)
    BY <1>14
  <2>4. QED  BY <2>1, <2>2, <2>3 DEF Carries
<1>17. ASSUME NEW i \in 1 .. n
       PROVE  ts[i] = ChainOf(m)[i]
  <2>1. n - i \in 0 .. n - 1 /\ n - (n - i) = i
    BY <1>6
  <2>2. ts[i].signed = ChainOf(m)[i].signed
    BY <1>15, <2>1
  <2>3. ts[i].seal = v.signer.key
    BY <1>8, <1>9 DEF Authentic
  <2>4. ts[i] = [signed |-> ts[i].signed, seal |-> ts[i].seal]
    <3>1. PICK key : key = M(i).signer.key
      OBVIOUS
    <3>2. ts[i] = [signed |-> ts[i].signed, seal |-> key]
      BY <1>11, <3>1
    <3>3. ts[i].seal = key
      BY <3>2
    <3>4. QED  BY <3>2, <3>3
  <2>5. ChainOf(m)[i] = [signed |-> ChainOf(m)[i].signed, seal |-> m.signer.key]
    BY <1>6, <1>14 DEF Carries
  <2>6. QED  BY <1>16, <2>2, <2>3, <2>4, <2>5
<1>18. ts = SubSeq(ChainOf(m), 1, n)
  <2>1. IsSeq(ChainOf(m)) /\ Len(ChainOf(m)) = Len(path)
    BY ChainTokens
  <2>2. SubSeq(ChainOf(m), 1, n) = [i \in 1 .. n |-> ChainOf(m)[i]]
    BY <1>0, <2>1, FirstOf
  <2>3. QED  BY <1>7, <1>17, <2>2
<1>19. Honours(v, m, n)
  <2>1. m.signer = v.signer
    BY <1>12, <1>16 DEF MintsWellFormed
  <2>2. \A roots \in v.roots : m.signer.kid \in roots
    <3>1. ts[1].signed.kid = m.signer.kid
      BY <1>6, <1>14, <1>17 DEF Carries
    <3>2. QED  BY <1>9, <3>1 DEF Authentic
  <2>3. \A e \in {m.iat + t : t \in path[n].ttl} : v.now < e \/ (v.draft = "01" /\ v.now = e)
    <3>1. ts[n].signed.exp = {m.iat + t : t \in path[n].ttl}
      BY <1>6, <1>14, <1>17 DEF Carries
    <3>2. QED  BY <1>6, <1>8, <1>9, <3>1 DEF InTime
  <2>4. ASSUME v.draft = "02", NEW a \in v.audience, NEW aud \in m.aud
        PROVE  a \in aud
    <3>1. ts[n].signed.aud = m.aud
      BY <1>6, <1>14, <1>17 DEF Carries
    <3>2. PICK x \in m.aud : a \in x
      BY <1>8, <2>4, <3>1 DEF Loads, Addressed
    <3>3. x = aud
      BY <1>12, <2>4, <3>2 DEF MintsWellFormed
    <3>4. QED  BY <3>2, <3>3
  <2>5. QED  BY <2>1, <2>2, <2>3, <2>4 DEF Honours
<1>20. QED  BY <1>8, <1>12, <1>18, <1>19

-----------------------------------------------------------------------------
(* What the other profile's types say of the same bounds *)
LEMMA WireSubsumes ==
  ASSUME NEW c \in CeilingSet, NEW d \in CeilingSet, Subsumes(c, d)
  PROVE  Subsumes(OnWire02(c), OnWire02(d))
<1>1. c.kind = d.kind
  BY DEF Subsumes
<1>2. CASE c.kind = "calls"
  <2>1. /\ OnWire02(c) = Total("lifetime", c.field, c.bound, c.applies)
        /\ OnWire02(d) = Total("lifetime", d.field, d.bound, d.applies)
    BY <1>1, <1>2 DEF OnWire02
  <2>2. c.bound >= d.bound
    BY <1>2 DEF Subsumes
  <2>3. QED  BY <2>1, <2>2 DEF Subsumes, Total, Caps, Counted, Cumulative
<1>3. CASE c.kind = "rank"
  <2>1. PICK i, j : i = RankOf(c.level) /\ j = RankOf(d.level)
    OBVIOUS
  <2>2. /\ OnWire02(c) = Ranked(c.field, EgressOrder, i + 1)
        /\ OnWire02(d) = Ranked(d.field, EgressOrder, j + 1)
    BY <1>1, <1>3, <2>1 DEF OnWire02
  <2>3. i >= j
    BY <1>3, <2>1 DEF Subsumes, Caps, Counted, Cumulative
  <2>4. i \in Int /\ j \in Int
    BY <2>1, RankIsNumber
  <2>5. QED  BY <2>2, <2>3, <2>4 DEF Subsumes, Ranked
<1>4. CASE c.kind \notin {"calls", "rank"}
  BY <1>1, <1>4 DEF OnWire02
<1>5. QED  BY <1>2, <1>3, <1>4

LEMMA EgressPlaces ==
  ASSUME NEW text, NEW i \in DOMAIN EgressOrder, EgressOrder[i] = text
  PROVE  i \in Int /\ RankOf(text) = i - 1
<1>1. i \in 1 .. 3
  BY DEF EgressOrder
<1>2. <<"none">> # <<"internal">> /\ <<"none">> # <<"any">> /\ <<"internal">> # <<"any">>
  OBVIOUS
<1>3. CASE i = 1
  BY <1>3 DEF EgressOrder, RankOf
<1>4. CASE i = 2
  BY <1>2, <1>4 DEF EgressOrder, RankOf
<1>5. CASE i = 3
  BY <1>2, <1>5 DEF EgressOrder, RankOf
<1>6. QED  BY <1>1, <1>3, <1>4, <1>5

LEMMA WireCeilingPermits ==
  ASSUME NEW c \in CeilingSet, NEW s, NEW ctx, CeilingPermits(OnWire02(c), s, ctx)
  PROVE  CeilingPermits(c, s, ctx)
<1>1. CASE c.kind = "calls"
  <2>1. PICK w : w = OnWire02(c)
    OBVIOUS
  <2>2. w = Total("lifetime", c.field, c.bound, c.applies)
    BY <1>1, <2>1 DEF OnWire02
  <2>3. w.kind = "lifetime" /\ w.field = c.field /\ w.bound = c.bound /\ w.applies = c.applies
    BY <2>2 DEF Total
  <2>4. CeilingPermits(w, s, ctx)
    BY <2>1
  <2>5. CASE ~AppliesTo(w, s)
    BY <1>1, <2>3, <2>5 DEF CeilingPermits, AppliesTo, Counted
  <2>6. CASE AppliesTo(w, s)
    <3>1. \A x \in Declared(w, ctx) : Admits(w, x)
      BY <2>4, <2>6 DEF CeilingPermits
    <3>2. Declared(w, ctx) = Declared(c, ctx)
      BY <2>3 DEF Declared
    <3>3. \A x : Admits(w, x) => Admits(c, x)
      BY <1>1, <2>3 DEF Admits, Caps, Counted, Cumulative
    <3>4. QED  BY <1>1, <3>1, <3>2, <3>3 DEF CeilingPermits, Cumulative
  <2>7. QED  BY <2>5, <2>6
<1>2. CASE c.kind = "rank"
  <2>1. PICK w, r : w = OnWire02(c) /\ r = RankOf(c.level)
    OBVIOUS
  <2>2. w = Ranked(c.field, EgressOrder, r + 1)
    BY <1>2, <2>1 DEF OnWire02
  <2>3. w.kind = "ranked" /\ w.field = c.field /\ w.order = EgressOrder /\ w.bound = r + 1
    BY <2>2 DEF Ranked
  <2>4. \A x \in Declared(w, ctx) : Admits(w, x)
    BY <2>1, <2>3 DEF CeilingPermits, Counted, Cumulative
  <2>5. Declared(w, ctx) = Declared(c, ctx)
    BY <2>3 DEF Declared
  <2>6. ASSUME NEW x, Admits(w, x)
        PROVE  Admits(c, x)
    <3>1. x.kind = "string" /\ \E i \in DOMAIN w.order : i <= w.bound /\ w.order[i] = x.text
      BY <2>3, <2>6 DEF Admits, Caps, Counted, Cumulative
    <3>2. PICK i \in DOMAIN EgressOrder : i <= r + 1 /\ EgressOrder[i] = x.text
      BY <2>3, <3>1
    <3>3. i \in Int /\ RankOf(x.text) = i - 1
      BY <3>2, EgressPlaces
    <3>4. RankOf(x.text) <= RankOf(c.level)
      <4>1. r \in Int
        BY <2>1, RankIsNumber
      <4>2. QED  BY <2>1, <3>2, <3>3, <4>1
    <3>5. QED  BY <1>2, <3>1, <3>4 DEF Admits
  <2>7. QED  BY <1>2, <2>4, <2>5, <2>6 DEF CeilingPermits, Cumulative
<1>3. CASE c.kind \notin {"calls", "rank"}
  BY <1>3 DEF OnWire02
<1>4. QED  BY <1>1, <1>2, <1>3

(* The authority on a token *)
OnToken(a, draft) == Grant(a.scopes, OnWire(a, draft), a.ttl)

LEMMA TokenFields ==
  ASSUME NEW a, IsAuthority(a), NEW draft
  PROVE  LET b == OnToken(a, draft)
         IN  /\ b.scopes = a.scopes /\ b.ttl = a.ttl /\ Keys(b) = Keys(a)
             /\ draft = "01" => b = a
             /\ draft # "01" => \A k \in Keys(a) : b.ceilings[k] = OnWire02(a.ceilings[k])
<1>1. a = Grant(a.scopes, a.ceilings, a.ttl)
  BY DEF IsAuthority
<1> DEFINE b == OnToken(a, draft)
<1>2. b.scopes = a.scopes /\ b.ttl = a.ttl /\ b.ceilings = OnWire(a, draft)
  BY DEF OnToken, Grant
<1>3. CASE draft = "01"
  <2>1. b = a
    BY <1>1, <1>3 DEF OnToken, OnWire
  <2>2. QED  BY <1>3, <2>1
<1>4. CASE draft # "01"
  <2>1. b.ceilings = [k \in Keys(a) |-> OnWire02(a.ceilings[k])]
    BY <1>2, <1>4 DEF OnWire
  <2>2. QED  BY <1>2, <1>4, <2>1 DEF Keys
<1>5. QED  BY <1>3, <1>4

LEMMA TokensNarrow ==
  ASSUME NEW a, NEW b, IsAuthority(a), IsAuthority(b), IsNarrowerThan(a, b),
         NEW draft, draft # "01"
  PROVE  IsNarrowerThan(Untimed(OnToken(a, draft)), Untimed(OnToken(b, draft)))
<1>1. PICK x, y : x = OnToken(a, draft) /\ y = OnToken(b, draft)
  OBVIOUS
<1>2. /\ x.scopes = a.scopes /\ Keys(x) = Keys(a)
      /\ \A k \in Keys(a) : x.ceilings[k] = OnWire02(a.ceilings[k])
      /\ y.scopes = b.scopes /\ Keys(y) = Keys(b)
      /\ \A k \in Keys(b) : y.ceilings[k] = OnWire02(b.ceilings[k])
  BY <1>1, TokenFields
<1>3. PICK p, q : p = Untimed(x) /\ q = Untimed(y)
  OBVIOUS
<1>4. /\ p.scopes = x.scopes /\ p.ceilings = x.ceilings
      /\ q.scopes = y.scopes /\ q.ceilings = y.ceilings /\ q.ttl = {}
  BY <1>1, <1>3 DEF Untimed, OnToken, Grant
<1>5. \A s \in p.scopes : CoversScope(q, s)
  BY <1>2, <1>4 DEF IsNarrowerThan, CoversScope
<1>6. ASSUME NEW k \in Keys(q)
      PROVE  k \in Keys(p) /\ Subsumes(q.ceilings[k], p.ceilings[k])
  <2>1. k \in Keys(b) /\ k \in Keys(a) /\ Subsumes(b.ceilings[k], a.ceilings[k])
    BY <1>2, <1>4 DEF Keys, IsNarrowerThan
  <2>2. a.ceilings[k] \in CeilingSet /\ b.ceilings[k] \in CeilingSet
    BY <2>1 DEF IsAuthority
  <2>3. Subsumes(OnWire02(b.ceilings[k]), OnWire02(a.ceilings[k]))
    BY <2>1, <2>2, WireSubsumes
  <2>4. k \in Keys(p)
    BY <1>2, <1>4, <2>1 DEF Keys
  <2>5. QED  BY <1>2, <1>4, <2>1, <2>3, <2>4
<1>7. IsNarrowerThan(p, q)
  BY <1>4, <1>5, <1>6 DEF IsNarrowerThan
<1>8. QED  BY <1>1, <1>3, <1>7

LEMMA TokensPermitLess ==
  ASSUME NEW a, IsAuthority(a), NEW draft, NEW s, NEW ctx,
         Permits(OnToken(a, draft), s, ctx)
  PROVE  Permits(a, s, ctx)
<1>1. PICK b : b = OnToken(a, draft)
  OBVIOUS
<1>2. /\ b.scopes = a.scopes /\ Keys(b) = Keys(a)
      /\ draft = "01" => b = a
      /\ draft # "01" => \A k \in Keys(a) : b.ceilings[k] = OnWire02(a.ceilings[k])
  BY <1>1, TokenFields
<1>3. CoversScope(b, s) /\ \A k \in Keys(b) : CeilingPermits(b.ceilings[k], s, ctx)
  BY <1>1 DEF Permits
<1>4. CASE draft = "01"
  BY <1>1, <1>2, <1>4
<1>5. CASE draft # "01"
  <2>1. CoversScope(a, s)
    BY <1>2, <1>3 DEF CoversScope
  <2>2. ASSUME NEW k \in Keys(a)
        PROVE  CeilingPermits(a.ceilings[k], s, ctx)
    <3>1. CeilingPermits(OnWire02(a.ceilings[k]), s, ctx)
      BY <1>2, <1>3, <1>5
    <3>2. a.ceilings[k] \in CeilingSet
      BY DEF IsAuthority
    <3>3. QED  BY <3>1, <3>2, WireCeilingPermits
  <2>3. QED  BY <2>1, <2>2 DEF Permits
<1>6. QED  BY <1>4, <1>5

-----------------------------------------------------------------------------
(* What a verifier makes of one mint *)

(* A token of a mint for the profile given. *)
IsMinted(t, i, m, draft) ==
  /\ t.seal = m.signer.key /\ t.signed.alg = m.signer.alg /\ t.signed.kid = m.signer.kid
  /\ t.signed.depth = i - 1 /\ t.signed.bound = Bound(i)
  /\ t.signed.nbf = {} /\ t.signed.aud = m.aud
  /\ draft = "02" =>
       /\ t.signed.sub = m.principal /\ m.principal # {}
       /\ t.signed.client # {} /\ t.signed.cnf # {} /\ m.aud # {}
  /\ \E e \in Int : t.signed.exp = {e}
  /\ AuthorityOf(t) = OnToken(path[i], draft)

LEMMA MintedToken ==
  ASSUME PathInv, MintsWellFormed, NEW v \in Verifiers, NEW m \in Usable(v), NEW i \in Hops
  PROVE  /\ m.iat \in Int
         /\ \E n \in Int : path[i].ttl = {n} /\ ChainOf(m)[i].signed.exp = {m.iat + n}
         /\ i = 1 => ChainOf(m)[i].signed.parent = {}
         /\ i # 1 => ChainOf(m)[i].signed.parent = {ChainOf(m)[i - 1].signed}
         /\ IsMinted(ChainOf(m)[i], i, m, v.draft)
<1>1. /\ m \in Mints /\ m.draft = v.draft /\ m.iat \in Int
      /\ Mintable(WirePath[i], m)
  BY DEF Usable, MintsWellFormed
<1>2. PICK parent, bound : /\ parent = IF i = 1 THEN {} ELSE {ChainOf(m)[i - 1].signed}
                           /\ bound = Bound(i)
  OBVIOUS
<1>3. PICK t : t = ChainOf(m)[i]
  OBVIOUS
<1>4. Carries(t, i, i - 1, bound, parent, m)
  BY <1>1, <1>2, <1>3, ChainClaims
<1>5. PICK node : node = WirePath[i] /\ node.authority = path[i]
  BY WirePathHops DEF WireNode
<1>6. path[i].ttl # {} /\ (m.draft = "02" => m.principal # {} /\ m.aud # {} /\ m.cnf # {})
  BY <1>1, <1>5 DEF Mintable
<1>7. PICK n \in Int : path[i].ttl = {n}
  BY <1>6, ParentOnPath DEF IsAuthority
<1>8. t.signed.exp = {m.iat + n}
  <2>1. t.signed.exp = {m.iat + k : k \in path[i].ttl}
    BY <1>4 DEF Carries
  <2>2. QED  BY <1>7, <2>1
<1>9. /\ t.signed.alg = m.signer.alg /\ t.signed.kid = m.signer.kid
      /\ t.signed.depth = i - 1 /\ t.signed.bound = bound /\ t.signed.parent = parent
      /\ t.signed.nbf = {} /\ t.signed.aud = m.aud
      /\ t.signed.sub = Subject(node, m)
      /\ t.signed.client = IF m.principal = {} THEN {} ELSE {i}
      /\ t.signed.cnf = IF m.draft = "02" THEN m.cnf ELSE {}
  BY <1>4, <1>5 DEF Carries
<1>10. t.seal = m.signer.key
  <2>1. PICK key, claims : key = m.signer.key /\ claims = t.signed
    OBVIOUS
  <2>2. t = [signed |-> claims, seal |-> key]
    BY <1>4, <2>1 DEF Carries
  <2>3. QED  BY <2>1, <2>2
<1>11. AuthorityOf(t) = OnToken(path[i], v.draft)
  BY <1>1, <1>4 DEF Carries, OnToken
<1>12. v.draft = "02" => /\ t.signed.sub = m.principal /\ m.principal # {}
                         /\ t.signed.client # {} /\ t.signed.cnf # {} /\ m.aud # {}
  BY <1>1, <1>6, <1>9 DEF Subject
<1>13. /\ i = 1 => t.signed.parent = {}
       /\ i # 1 => t.signed.parent = {ChainOf(m)[i - 1].signed}
  BY <1>2, <1>9
<1>14. \E e \in Int : t.signed.exp = {e}
  BY <1>1, <1>8
<1>15. IsMinted(t, i, m, v.draft)
  BY <1>2, <1>9, <1>10, <1>11, <1>12, <1>14 DEF IsMinted
<1>16. QED  BY <1>1, <1>3, <1>7, <1>8, <1>13, <1>15

(* Every hop's token expires no later than the one above it. *)
LEMMA ExpiriesFall ==
  ASSUME PathInv, MintsWellFormed, NEW v \in Verifiers, NEW m \in Usable(v),
         NEW i \in Hops, NEW j \in Hops, i <= j,
         NEW e \in ChainOf(m)[i].signed.exp, NEW f \in ChainOf(m)[j].signed.exp
  PROVE  e \in Int /\ f \in Int /\ f <= e
<1>1. m.iat \in Int
  BY MintedToken
<1>2. PICK n \in Int : path[i].ttl = {n} /\ ChainOf(m)[i].signed.exp = {m.iat + n}
  BY MintedToken
<1>3. PICK k \in Int : path[j].ttl = {k} /\ ChainOf(m)[j].signed.exp = {m.iat + k}
  BY MintedToken
<1>4. k <= n
  <2>1. IsNarrowerThan(path[j], path[i])
    BY DEF PathInv, PathNarrows
  <2>2. QED  BY <1>2, <1>3, <2>1 DEF IsNarrowerThan
<1>5. e = m.iat + n /\ f = m.iat + k
  BY <1>2, <1>3
<1>6. QED  BY <1>1, <1>2, <1>3, <1>4, <1>5

(* Down to any hop, a mint loads for whom it is honoured by: what is kept   *)
(* along the path is all that a loader re-checks.                           *)
LEMMA MintLoads ==
  ASSUME TokenInv, MintsWellFormed, NEW v \in Verifiers, NEW m \in Usable(v),
         NEW n \in Hops, Honours(v, m, n), NEW ts, ts = SubSeq(ChainOf(m), 1, n)
  PROVE  Loads(ts, v)
<1>0. PathInv /\ Len(path) \in Nat /\ Hops = 1 .. Len(path) /\ Len(path) <= MaxHops + 1
  BY ParentOnPath DEF TokenInv
<1>1. n \in Nat /\ 1 \in 1 .. n /\ n \in 1 .. n /\ n <= MaxHops + 1
      /\ \A i \in 1 .. n : i \in Hops /\ i \in Nat /\ i >= 1
  BY <1>0, MaxHopsAssumption
<1>2. ts = [i \in 1 .. n |-> ChainOf(m)[i]]
  BY <1>0, ChainTokens, FirstOf
<1>3. ts = [i \in 1 .. n |-> ts[i]] /\ \A i \in 1 .. n : ts[i] = ChainOf(m)[i]
  BY <1>2
<1>4. IsSeq(ts) /\ Len(ts) = n /\ DOMAIN ts = 1 .. n /\ Last(ts) = ts[n]
  BY <1>1, <1>3, IndexedIsSeq DEF Last
<1>5. ts # <<>>
  <2>1. SUFFICES ASSUME ts = <<>> PROVE FALSE
    OBVIOUS
  <2>2. n = 0
    BY <1>4, <2>1
  <2>3. QED  BY <1>1, <2>2
<1> DEFINE Is(i) == IsMinted(ts[i], i, m, v.draft)
<1>6. ASSUME NEW i \in 1 .. n
       PROVE  Is(i)
  <2>1. i \in Hops /\ ts[i] = ChainOf(m)[i]
    BY <1>1, <1>3
  <2>2. IsMinted(ChainOf(m)[i], i, m, v.draft)
    BY <1>0, <2>1, MintedToken
  <2>3. QED  BY <2>1, <2>2
<1> HIDE DEF Is
<1>7. m.signer = v.signer /\ (\A roots \in v.roots : m.signer.kid \in roots)
  BY DEF Honours
<1>8. Authentic(ts, v)
  BY <1>1, <1>4, <1>7, <1>6 DEF Authentic, Is, IsMinted
<1>9. Linked(ts)
  <2>1. ts[1].signed.parent = {}
    BY <1>0, <1>1, <1>3, MintedToken
  <2>2. ASSUME NEW i \in 2 .. Len(ts)
        PROVE  ts[i].signed.parent = {ts[i - 1].signed}
    <3>1. i \in 1 .. n /\ i - 1 \in 1 .. n /\ i # 1
      BY <1>1, <1>4
    <3>2. ChainOf(m)[i].signed.parent = {ChainOf(m)[i - 1].signed}
      BY <1>0, <1>1, <3>1, MintedToken
    <3>3. ts[i] = ChainOf(m)[i] /\ ts[i - 1] = ChainOf(m)[i - 1]
      BY <1>3, <3>1
    <3>4. QED  BY <3>2, <3>3
  <2>3. QED  BY <2>1, <2>2 DEF Linked
<1>10. \A i \in 1 .. n : ts[i].signed.bound = IF i = 1 THEN {MaxHops + 1} ELSE {}
  BY <1>6 DEF Is, IsMinted, Bound, RootBound
<1>11. DepthsCount(ts)
  <2>1. \A i \in 1 .. n : ts[i].signed.depth = i - 1
    BY <1>6 DEF Is, IsMinted
  <2>2. ts[1].signed.bound = {MaxHops + 1}
    BY <1>1, <1>10
  <2>3. MaxHops + 1 > 0 /\ Len(ts) - 1 < MaxHops + 1
    BY <1>1, <1>4, MaxHopsAssumption
  <2>4. QED  BY <1>4, <2>1, <2>2, <2>3 DEF DepthsCount
<1>12. v.draft = "02" => Complete02(ts) /\ OnePrincipal(ts)
  <2>1. SUFFICES ASSUME v.draft = "02"
                 PROVE  Complete02(ts) /\ OnePrincipal(ts)
    OBVIOUS
  <2>2. \A i \in 1 .. n : /\ ts[i].signed.sub = m.principal /\ m.principal # {}
                          /\ ts[i].signed.client # {} /\ ts[i].signed.cnf # {}
                          /\ ts[i].signed.aud = m.aud /\ m.aud # {}
    BY <1>6, <2>1 DEF Is, IsMinted
  <2>3. QED  BY <1>1, <1>4, <2>2 DEF Complete02, OnePrincipal
<1>13. BoundsNarrow(ts)
  <2>1. SUFFICES ASSUME NEW i \in 1 .. n, NEW j \in 1 .. n, i <= j,
                        NEW b \in ts[i].signed.bound, NEW c \in ts[j].signed.bound
                 PROVE  0 < c /\ c <= b
    BY <1>4 DEF BoundsNarrow
  <2>2. j = 1 /\ c = MaxHops + 1
    <3>1. ts[j].signed.bound = IF j = 1 THEN {MaxHops + 1} ELSE {}
      BY <1>10
    <3>2. QED  BY <2>1, <3>1
  <2>3. i = 1
    BY <1>1, <2>1, <2>2
  <2>4. b = MaxHops + 1
    <3>1. ts[1].signed.bound = {MaxHops + 1}
      BY <1>1, <1>10
    <3>2. QED  BY <2>1, <2>3, <3>1
  <2>5. QED  BY <2>2, <2>4, MaxHopsAssumption
<1>14. NarrowsHopByHop(ts, v.draft)
  <2>1. SUFFICES ASSUME NEW i \in 2 .. Len(ts)
                 PROVE  IF v.draft = "01"
                        THEN IsNarrowerThan(AuthorityOf(ts[i]), AuthorityOf(ts[i - 1]))
                        ELSE IsNarrowerThan(Untimed(AuthorityOf(ts[i])),
                                            Untimed(AuthorityOf(ts[i - 1])))
    BY DEF NarrowsHopByHop
  <2>2. PICK h : h = i - 1
    OBVIOUS
  <2>3. i \in 1 .. n /\ h \in 1 .. n /\ h <= i
    BY <1>1, <1>4, <2>2
  <2>4. i \in Hops /\ h \in Hops
    BY <1>1, <2>3
  <2>5. /\ AuthorityOf(ts[i]) = OnToken(path[i], v.draft)
        /\ AuthorityOf(ts[h]) = OnToken(path[h], v.draft)
    BY <1>6, <2>3 DEF Is, IsMinted
  <2>6. IsAuthority(path[i]) /\ IsAuthority(path[h]) /\ IsNarrowerThan(path[i], path[h])
    BY <1>0, <2>3, <2>4, ParentOnPath DEF PathInv, PathNarrows
  <2>7. CASE v.draft = "01"
    <3>1. OnToken(path[i], v.draft) = path[i] /\ OnToken(path[h], v.draft) = path[h]
      BY <2>6, <2>7, TokenFields
    <3>2. QED  BY <2>2, <2>5, <2>6, <2>7, <3>1
  <2>8. CASE v.draft # "01"
    <3>1. IsNarrowerThan(Untimed(OnToken(path[i], v.draft)), Untimed(OnToken(path[h], v.draft)))
      BY <2>6, <2>8, TokensNarrow
    <3>2. QED  BY <2>2, <2>5, <2>8, <3>1
  <2>9. QED  BY <2>7, <2>8
<1>15. InTime(ts, v)
  <2>1. \A i \in 1 .. n : ts[i].signed.nbf = {} /\ ts[i].signed.exp # {}
    BY <1>6 DEF Is, IsMinted
  <2>2. ASSUME NEW i \in 1 .. n, NEW e \in ts[i].signed.exp
        PROVE  v.now < e \/ (v.draft = "01" /\ v.now = e)
    <3>1. ts[i] = ChainOf(m)[i] /\ i \in Hops /\ n \in Hops /\ i <= n
      BY <1>1, <1>3
    <3>2. PICK k \in Int : path[n].ttl = {k} /\ ChainOf(m)[n].signed.exp = {m.iat + k}
      BY <1>0, <3>1, MintedToken
    <3>3. PICK f : f = m.iat + k
      OBVIOUS
    <3>4. v.now < f \/ (v.draft = "01" /\ v.now = f)
      BY <3>2, <3>3 DEF Honours
    <3>5. e \in Int /\ f \in Int /\ f <= e
      BY <1>0, <3>1, <3>2, <3>3, ExpiriesFall
    <3>6. v.now \in Int
      BY DEF MintsWellFormed
    <3>7. QED
      <4>1. ASSUME v.now < e \/ v.now = e, v.draft = "01" PROVE v.now < e \/ (v.draft = "01" /\ v.now = e)
        BY <4>1
      <4>2. v.now < f => v.now < e
        BY <3>5, <3>6
      <4>3. v.now = f => v.now < e \/ v.now = e
        BY <3>5, <3>6
      <4>4. QED  BY <3>4, <4>1, <4>2, <4>3
  <2>3. ASSUME NEW i \in 2 .. Len(ts), NEW e \in ts[i].signed.exp,
               NEW p \in ts[i - 1].signed.exp
        PROVE  e <= p
    <3>1. PICK h : h = i - 1
      OBVIOUS
    <3>2. i \in 1 .. n /\ h \in 1 .. n /\ h <= i
      BY <1>1, <1>4, <3>1
    <3>3. i \in Hops /\ h \in Hops /\ ts[i] = ChainOf(m)[i] /\ ts[h] = ChainOf(m)[h]
      BY <1>1, <1>3, <3>2
    <3>4. QED  BY <1>0, <3>1, <3>2, <3>3, ExpiriesFall
  <2>4. QED  BY <1>4, <2>1, <2>2, <2>3 DEF InTime
<1>16. v.draft = "02" => \A a \in v.audience : Addressed(ts, a)
  <2>1. SUFFICES ASSUME v.draft = "02", NEW a \in v.audience
                 PROVE  Addressed(ts, a)
    OBVIOUS
  <2>2. ts[n].signed.aud = m.aud /\ m.aud # {}
    BY <1>1, <1>6, <2>1 DEF Is, IsMinted
  <2>3. \A aud \in m.aud : a \in aud
    BY <2>1 DEF Honours
  <2>4. QED  BY <1>4, <2>2, <2>3 DEF Addressed
<1>17. QED  BY <1>5, <1>8, <1>9, <1>11, <1>12, <1>13, <1>14, <1>15, <1>16 DEF Loads

(* Of all that can be put together from the tokens of several mints, what   *)
(* loads is one mint from its root down, and all of that does (wire.py,     *)
(* serialize_chain, serialize and load, with what -02 adds to each).        *)
THEOREM MintsLoadExactly ==
  ASSUME WellFormed, MintsWellFormed
  PROVE  Spec => []LoadsExactlyMints
<1>1. Spec => []TokenInv
  BY TokensKept
<1>2. TokenInv => LoadsExactlyMints
  <2> SUFFICES ASSUME TokenInv, NEW v \in Verifiers, NEW ts \in Presented(v)
               PROVE  Loads(ts, v) <=>
                        \E m \in Usable(v) :
                          /\ Honours(v, m, Len(ts))
                          /\ ts = SubSeq(SerializeChain(WirePath, MaxHops, m), 1, Len(ts))
    BY DEF LoadsExactlyMints
  <2>0. PathInv
    BY DEF TokenInv
  <2>1. PICK n \in Hops : \E skip \in 0 .. Len(path) - n :
          \E cut \in [1 .. n -> Usable(v) \X BOOLEAN] :
            ts = [i \in 1 .. n |-> TokenOf(cut[i][1], i + skip, cut[i][2])]
    BY <2>0, PresentedTokens
  <2>2. ts = [i \in 1 .. n |-> ts[i]] /\ n \in Nat
    BY <2>0, <2>1, ParentOnPath
  <2>3. Len(ts) = n
    BY <2>2, IndexedIsSeq
  <2>4. ASSUME Loads(ts, v)
        PROVE  \E m \in Usable(v) : Honours(v, m, Len(ts)) /\ ts = SubSeq(ChainOf(m), 1, Len(ts))
    BY <2>0, <2>4, LoadedIsMint
  <2>5. ASSUME NEW m \in Usable(v), Honours(v, m, Len(ts)), ts = SubSeq(ChainOf(m), 1, Len(ts))
        PROVE  Loads(ts, v)
    BY <2>3, <2>5, MintLoads
  <2>6. QED  BY <2>4, <2>5 DEF ChainOf
<1>3. QED  BY <1>1, <1>2, PTL

(* What a verifier permits on the leaf of a loaded chain, the authority it  *)
(* was minted from permits: no bound is loosened on its way to the types of *)
(* the other profile (draft02.py, ceiling_to_wire_02; VerifiedChain.permits).*)
THEOREM LoadedChainsPermitNoMore ==
  ASSUME WellFormed, MintsWellFormed
  PROVE  Spec => []LoadedPermitsNoMore
<1>1. Spec => []TokenInv
  BY TokensKept
<1>2. TokenInv => LoadedPermitsNoMore
  <2> SUFFICES ASSUME TokenInv, NEW v \in Verifiers, NEW m \in Usable(v),
                      NEW s \in Asked, NEW ctx \in Contexts, NEW ts, ts = ChainOf(m),
                      ChainPermits(ts, v, s, ctx)
               PROVE  Permits(Parent, s, ctx)
    BY DEF LoadedPermitsNoMore, ChainOf
  <2>0. PathInv
    BY DEF TokenInv
  <2>1. Parent = path[Len(path)] /\ Len(path) \in Hops /\ IsAuthority(Parent)
    BY <2>0, ParentOnPath
  <2>2. Last(ts) = ChainOf(m)[Len(path)]
    BY <2>0, ChainTokens DEF Last
  <2>3. LeafAuthority(ts) = OnToken(Parent, v.draft)
    BY <2>0, <2>1, <2>2, MintedToken DEF LeafAuthority, IsMinted
  <2>4. Permits(LeafAuthority(ts), s, ctx)
    BY DEF ChainPermits
  <2>5. QED  BY <2>1, <2>3, <2>4, TokensPermitLess
<1>3. QED  BY <1>1, <1>2, PTL
=============================================================================
