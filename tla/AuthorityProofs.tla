-------------------------- MODULE AuthorityProofs --------------------------
(***************************************************************************)
(* The laws of the authority lattice that module Chain assumes, proved for *)
(* every well-formed authority: narrower-than is a preorder, the meet with *)
(* any request is narrower than the parent, and narrower means permitting  *)
(* no more.  The last needs two ceilings under one key to read the same    *)
(* field of the context, which the code does not enforce.  After them, the  *)
(* facts about sequences and minted chains that later proofs share.        *)
(***************************************************************************)
EXTENDS Wire, SequenceTheorems, WellFoundedInduction, TLAPS

(* What texts are made of. *)
Char == STRING \cup {Nul}

ScopeSet == [path : Seq(Char), wild : BOOLEAN]

ValueSet ==
  [kind : {"string"}, text : Seq(Char)] \cup
  [kind : {"number"}, number : Int] \cup
  [kind : {"boolean", "null", "array", "object"}]

(* What the constructors of the ceilings check. *)
BoundSet ==
  [kind : {"max", "min"}, field : STRING, bound : Int] \cup
  [kind : Counted, field : STRING, bound : Int, applies : SUBSET ScopeSet] \cup
  [kind : {"ranked"}, field : STRING, order : Seq(Seq(Char)), bound : Int]
RankSet    == [kind : {"rank"}, field : STRING, level : Seq(Char)]
MemberSet  == [kind : {"allow", "deny"}, field : STRING, members : SUBSET ValueSet]
PrefixSet  == [kind : {"prefix"}, field : STRING, prefix : Seq(Char)]
UnknownSet == [kind : {"unknown"}, field : STRING, raw : STRING]
CeilingSet == BoundSet \cup RankSet \cup MemberSet \cup PrefixSet \cup UnknownSet

IsAuthority(a) ==
  /\ a = Grant(a.scopes, a.ceilings, a.ttl)
  /\ a.scopes \subseteq ScopeSet
  /\ a.ceilings \in [Keys(a) -> CeilingSet]
  /\ a.ttl = {} \/ \E n \in Int : a.ttl = {n}

IsContext(ctx) == \A f \in DOMAIN ctx : ctx[f] \in ValueSet

-----------------------------------------------------------------------------
(* Prefixes *)

LEMMA PrefixElements ==
  ASSUME NEW s \in Seq(Char), NEW t \in Seq(Char)
  PROVE  IsPrefix(s, t) <=> Len(s) <= Len(t) /\ \A i \in 1 .. Len(s) : s[i] = t[i]
<1>1. Len(s) \in Nat /\ Len(t) \in Nat
  OBVIOUS
<1>2. CASE Len(s) <= Len(t)
  <2>1. /\ SubSeq(s, 1, Len(s)) = [i \in 1 .. Len(s) |-> s[i]]
        /\ SubSeq(t, 1, Len(s)) = [i \in 1 .. Len(s) |-> t[i]]
    BY <1>1, <1>2
  <2>2. QED  BY <1>2, <2>1 DEF IsPrefix
<1>3. CASE ~(Len(s) <= Len(t))
  BY <1>3 DEF IsPrefix
<1>4. QED  BY <1>2, <1>3

LEMMA PrefixReflexive ==
  ASSUME NEW s \in Seq(Char)
  PROVE  IsPrefix(s, s)
BY PrefixElements

LEMMA PrefixTransitive ==
  ASSUME NEW s \in Seq(Char), NEW t \in Seq(Char), NEW u \in Seq(Char),
         IsPrefix(s, t), IsPrefix(t, u)
  PROVE  IsPrefix(s, u)
<1>1. Len(s) \in Nat /\ Len(t) \in Nat /\ Len(u) \in Nat
  OBVIOUS
<1>2. Len(s) <= Len(t) /\ Len(t) <= Len(u)
  BY PrefixElements
<1>3. \A i \in 1 .. Len(s) : s[i] = t[i]
  BY PrefixElements
<1>4. \A i \in 1 .. Len(t) : t[i] = u[i]
  BY PrefixElements
<1>5. \A i \in 1 .. Len(s) : s[i] = u[i]
  BY <1>1, <1>2, <1>3, <1>4
<1>6. QED  BY <1>1, <1>2, <1>5, PrefixElements

(* Two prefixes of one text: one is a prefix of the other. *)
LEMMA PrefixesCompare ==
  ASSUME NEW s \in Seq(Char), NEW t \in Seq(Char), NEW u \in Seq(Char),
         IsPrefix(s, u), IsPrefix(t, u)
  PROVE  IsPrefix(s, t) \/ IsPrefix(t, s)
<1>1. Len(s) \in Nat /\ Len(t) \in Nat
  OBVIOUS
<1>2. \A i \in 1 .. Len(s) : s[i] = u[i]
  BY PrefixElements
<1>3. \A i \in 1 .. Len(t) : t[i] = u[i]
  BY PrefixElements
<1>4. CASE Len(s) <= Len(t)
  <2>1. \A i \in 1 .. Len(s) : s[i] = t[i]
    BY <1>1, <1>2, <1>3, <1>4
  <2>2. QED  BY <1>4, <2>1, PrefixElements
<1>5. CASE Len(t) <= Len(s)
  <2>1. \A i \in 1 .. Len(t) : t[i] = s[i]
    BY <1>1, <1>2, <1>3, <1>5
  <2>2. QED  BY <1>5, <2>1, PrefixElements
<1>6. QED  BY <1>1, <1>4, <1>5

LEMMA StrictPrefixTransitive ==
  ASSUME NEW s \in Seq(Char), NEW t \in Seq(Char), NEW u \in Seq(Char),
         IsStrictPrefix(s, t), IsStrictPrefix(t, u)
  PROVE  IsStrictPrefix(s, u)
<1>1. IsPrefix(s, u)
  BY PrefixTransitive DEF IsStrictPrefix
<1>2. Len(s) \in Nat /\ Len(t) \in Nat /\ Len(u) \in Nat
  OBVIOUS
<1>3. Len(s) <= Len(t) /\ \A i \in 1 .. Len(s) : s[i] = t[i]
  BY PrefixElements DEF IsStrictPrefix
<1>4. Len(t) <= Len(u)
  BY PrefixElements DEF IsStrictPrefix
<1>5. Len(s) # Len(t)
  BY <1>3 DEF IsStrictPrefix
<1>6. Len(s) < Len(u)
  BY <1>2, <1>3, <1>4, <1>5
<1>7. QED  BY <1>1, <1>6 DEF IsStrictPrefix

-----------------------------------------------------------------------------
(* Scopes *)

LEMMA CoversTransitive ==
  ASSUME NEW h \in ScopeSet, NEW r \in ScopeSet, NEW q \in ScopeSet,
         Covers(h, r), Covers(r, q)
  PROVE  Covers(h, q)
<1>1. CASE h = r \/ r = q
  BY <1>1
<1>2. CASE h # r /\ r # q
  <2>1. h.wild /\ IsStrictPrefix(h.path, r.path) /\ IsStrictPrefix(r.path, q.path)
    BY <1>2 DEF Covers
  <2>2. h.path \in Seq(Char) /\ r.path \in Seq(Char) /\ q.path \in Seq(Char)
    BY DEF ScopeSet
  <2>3. IsStrictPrefix(h.path, q.path)
    BY <2>1, <2>2, StrictPrefixTransitive
  <2>4. QED  BY <2>1, <2>3 DEF Covers
<1>3. QED  BY <1>1, <1>2

(* What an authority covers, one whose every scope it covers covers no more. *)
LEMMA CoverageTransitive ==
  ASSUME NEW a, NEW b, NEW s \in ScopeSet,
         a.scopes \subseteq ScopeSet, b.scopes \subseteq ScopeSet,
         \A r \in b.scopes : CoversScope(a, r),
         CoversScope(b, s)
  PROVE  CoversScope(a, s)
<1>1. PICK r \in b.scopes : Covers(r, s)
  BY DEF CoversScope
<1>2. PICK h \in a.scopes : Covers(h, r)
  BY DEF CoversScope
<1>3. Covers(h, s)
  BY <1>1, <1>2, CoversTransitive
<1>4. QED  BY <1>2, <1>3 DEF CoversScope

LEMMA CoverageReflexive ==
  ASSUME NEW a, NEW s \in a.scopes
  PROVE  CoversScope(a, s)
BY DEF CoversScope, Covers

-----------------------------------------------------------------------------
(* Ceilings *)

LEMMA RankIsNumber == \A text : RankOf(text) \in 0 .. 3
BY DEF RankOf

LEMMA SubsumesReflexive ==
  ASSUME NEW c \in CeilingSet
  PROVE  Subsumes(c, c)
<1>1. CASE c \in BoundSet
  BY <1>1 DEF BoundSet, Subsumes, Caps, Counted, Cumulative
<1>2. CASE c \in RankSet
  BY <1>2, RankIsNumber DEF RankSet, Subsumes
<1>3. CASE c \in MemberSet
  BY <1>3 DEF MemberSet, Subsumes
<1>4. CASE c \in PrefixSet
  BY <1>4, PrefixReflexive DEF PrefixSet, Subsumes
<1>5. CASE c \in UnknownSet
  BY <1>5 DEF UnknownSet, Subsumes
<1>6. QED  BY <1>1, <1>2, <1>3, <1>4, <1>5 DEF CeilingSet

(* The kinds that hold one bound. *)
Bounding == Caps \cup {"min", "ranked"}

(* A ceiling has the type its kind says. *)
LEMMA KindIsType ==
  ASSUME NEW c \in CeilingSet
  PROVE  /\ c.kind \in Bounding => c \in BoundSet /\ c.bound \in Int
         /\ c.kind = "rank" => c \in RankSet
         /\ c.kind \in {"allow", "deny"} => c \in MemberSet
         /\ c.kind = "prefix" => c \in PrefixSet /\ c.prefix \in Seq(Char)
         /\ c.kind = "unknown" => c \in UnknownSet
         /\ c.kind \in Bounding \cup {"rank", "allow", "deny", "prefix", "unknown"}
<1> USE DEF Bounding, Caps, Counted, Cumulative
<1>1. CASE c \in BoundSet
  BY <1>1 DEF BoundSet
<1>2. CASE c \in RankSet
  BY <1>2 DEF RankSet
<1>3. CASE c \in MemberSet
  BY <1>3 DEF MemberSet
<1>4. CASE c \in PrefixSet
  BY <1>4 DEF PrefixSet
<1>5. CASE c \in UnknownSet
  BY <1>5 DEF UnknownSet
<1>6. QED  BY <1>1, <1>2, <1>3, <1>4, <1>5 DEF CeilingSet

LEMMA SubsumesTransitive ==
  ASSUME NEW c \in CeilingSet, NEW d \in CeilingSet, NEW e \in CeilingSet,
         Subsumes(c, d), Subsumes(d, e)
  PROVE  Subsumes(c, e)
<1>0. c.kind = d.kind /\ d.kind = e.kind
  BY DEF Subsumes
<1>1. CASE c.kind \in Bounding
  <2>1. c.bound \in Int /\ d.bound \in Int /\ e.bound \in Int
    BY <1>0, <1>1, KindIsType
  <2>2. CASE c.kind = "min"
    <3>1. c.bound <= d.bound /\ d.bound <= e.bound
      BY <1>0, <2>2 DEF Subsumes, Caps, Counted, Cumulative
    <3>2. QED  BY <1>0, <2>1, <2>2, <3>1 DEF Subsumes
  <2>3. CASE c.kind = "ranked"
    <3>1. /\ c.bound >= d.bound /\ d.bound >= e.bound
          /\ c.order = d.order /\ d.order = e.order
      BY <1>0, <2>3 DEF Subsumes, Caps, Counted, Cumulative
    <3>2. QED  BY <1>0, <2>1, <2>3, <3>1 DEF Subsumes
  <2>4. CASE c.kind \in Caps
    <3>1. c.bound >= d.bound /\ d.bound >= e.bound
      BY <1>0, <2>4 DEF Subsumes, Caps, Counted, Cumulative
    <3>2. QED  BY <1>0, <2>1, <2>4, <3>1 DEF Subsumes
  <2>5. QED  BY <1>1, <2>2, <2>3, <2>4 DEF Bounding
<1>2. CASE c.kind = "rank"
  <2>1. RankOf(c.level) >= RankOf(d.level) /\ RankOf(d.level) >= RankOf(e.level)
    BY <1>0, <1>2 DEF Subsumes, Caps, Counted, Cumulative
  <2>2. RankOf(c.level) >= RankOf(e.level)
    BY <2>1, RankIsNumber
  <2>3. QED  BY <1>0, <1>2, <2>2 DEF Subsumes
<1>3. CASE c.kind = "prefix"
  <2>1. IsPrefix(c.prefix, d.prefix) /\ IsPrefix(d.prefix, e.prefix)
    BY <1>0, <1>3 DEF Subsumes, Caps, Counted, Cumulative
  <2>2. c.prefix \in Seq(Char) /\ d.prefix \in Seq(Char) /\ e.prefix \in Seq(Char)
    BY <1>0, <1>3, KindIsType
  <2>3. IsPrefix(c.prefix, e.prefix)
    BY <2>1, <2>2, PrefixTransitive
  <2>4. QED  BY <1>0, <1>3, <2>3 DEF Subsumes
<1>4. CASE c.kind \in {"allow", "deny", "unknown"}
  BY <1>0, <1>4 DEF Subsumes, Caps, Counted, Cumulative
<1>5. QED  BY <1>1, <1>2, <1>3, <1>4, KindIsType

(* A prefix is a prefix of whatever it is continued with. *)
LEMMA PrefixOfConcat ==
  ASSUME NEW s \in Seq(Char), NEW t \in Seq(Char)
  PROVE  IsPrefix(s, s \o t)
<1>1. s \o t \in Seq(Char) /\ Len(s \o t) = Len(s) + Len(t)
  OBVIOUS
<1>2. Len(s) \in Nat /\ Len(t) \in Nat
  OBVIOUS
<1>3. \A i \in 1 .. Len(s) : (s \o t)[i] = s[i]
  BY <1>2
<1> DEFINE u == s \o t
<1>4. u \in Seq(Char) /\ Len(s) <= Len(u) /\ \A i \in 1 .. Len(s) : s[i] = u[i]
  BY <1>1, <1>2, <1>3
<1> HIDE DEF u
<1>5. IsPrefix(s, u)
  BY <1>4, PrefixElements
<1>6. QED  BY <1>5 DEF u

LEMMA JointPrefix ==
  ASSUME NEW s \in Seq(Char), NEW t \in Seq(Char)
  PROVE  s \o <<Nul>> \o t \in Seq(Char) /\ IsPrefix(s, s \o <<Nul>> \o t)
<1>0. Nul \in Char
  BY DEF Char
<1>1. PICK joint \in Seq(Char) : joint = <<Nul>>
  <2>1. \A x : x \in Char => <<x>> \in Seq(Char)
    OBVIOUS
  <2>2. <<Nul>> \in Seq(Char)
    BY <1>0, <2>1, Zenon
  <2>3. QED  BY <2>2, Zenon
<1>2. PICK u \in Seq(Char) : u = s \o joint /\ IsPrefix(s, u)
  BY PrefixOfConcat, ConcatProperties
<1>3. PICK v \in Seq(Char) : v = u \o t /\ IsPrefix(u, v)
  BY PrefixOfConcat, ConcatProperties
<1>4. IsPrefix(s, v)
  BY <1>2, <1>3, PrefixTransitive
<1>5. QED  BY <1>1, <1>2, <1>3, <1>4, Zenon

(* Ceiling.narrow, kind by kind. *)
LEMMA NarrowByKind ==
  ASSUME NEW c, NEW d
  PROVE  /\ c.kind \in Caps \cup {"ranked"} =>
              Narrow(c, d) = [c EXCEPT !.bound = Least(c.bound, d.bound)]
         /\ c.kind = "min" =>
              Narrow(c, d) = [c EXCEPT !.bound = Greatest(c.bound, d.bound)]
         /\ c.kind = "rank" =>
              Narrow(c, d) = IF RankOf(c.level) <= RankOf(d.level) THEN c ELSE d
         /\ c.kind = "allow" => Narrow(c, d) = [c EXCEPT !.members = c.members \cap d.members]
         /\ c.kind = "deny" => Narrow(c, d) = [c EXCEPT !.members = c.members \cup d.members]
         /\ c.kind = "prefix" => Narrow(c, d) = NarrowPrefix(c, d)
         /\ c.kind = "unknown" => Narrow(c, d) = c
<1> USE DEF Caps, Counted, Cumulative
<1>1. CASE c.kind \in Caps \cup {"ranked"}
  BY <1>1, Zenon DEF Narrow
<1>2. CASE c.kind \in {"min"}
  BY <1>2, Zenon DEF Narrow
<1>3. CASE c.kind \in {"rank"}
  BY <1>3, Zenon DEF Narrow
<1>4. CASE c.kind \in {"allow"}
  BY <1>4, Zenon DEF Narrow
<1>5. CASE c.kind \in {"deny"}
  BY <1>5, Zenon DEF Narrow
<1>6. CASE c.kind \in {"prefix"}
  BY <1>6, Zenon DEF Narrow
<1>7. CASE c.kind \in {"unknown"}
  BY <1>7, Zenon DEF Narrow
<1>8. QED  BY <1>1, <1>2, <1>3, <1>4, <1>5, <1>6, <1>7, Zenon

(* What two ceilings of one type narrow to is a ceiling, and each of the    *)
(* parent's side admits at least as much (Ceiling.narrow, Ceiling.subsumes). *)
LEMMA NarrowIsSubsumed ==
  ASSUME NEW c \in CeilingSet, NEW d \in CeilingSet, SameType(c, d)
  PROVE  Narrow(c, d) \in CeilingSet /\ Subsumes(c, Narrow(c, d))
<1>0. c.kind = d.kind
  BY DEF SameType
<1> USE <1>0
<1>1. CASE c.kind \in Caps \cup {"ranked"}
  <2>1. Narrow(c, d) = [c EXCEPT !.bound = Least(c.bound, d.bound)]
    BY <1>1, NarrowByKind
  <2>2. c \in BoundSet /\ c.bound \in Int /\ d.bound \in Int
    BY <1>1, KindIsType DEF Bounding
  <2>3. Least(c.bound, d.bound) \in Int /\ c.bound >= Least(c.bound, d.bound)
    BY <2>2 DEF Least
  <2>4. /\ Narrow(c, d) \in BoundSet
        /\ Narrow(c, d).kind = c.kind
        /\ Narrow(c, d).bound = Least(c.bound, d.bound)
        /\ c.kind = "ranked" => Narrow(c, d).order = c.order
    BY <2>1, <2>2, <2>3 DEF BoundSet
  <2>5. QED  BY <1>1, <2>3, <2>4 DEF CeilingSet, Subsumes
<1>8. CASE c.kind = "min"
  <2>1. Narrow(c, d) = [c EXCEPT !.bound = Greatest(c.bound, d.bound)]
    BY <1>8, NarrowByKind
  <2>2. c \in BoundSet /\ c.bound \in Int /\ d.bound \in Int
    BY <1>8, KindIsType DEF Bounding
  <2>3. Greatest(c.bound, d.bound) \in Int /\ c.bound <= Greatest(c.bound, d.bound)
    BY <2>2 DEF Greatest
  <2>4. /\ Narrow(c, d) \in BoundSet
        /\ Narrow(c, d).kind = c.kind
        /\ Narrow(c, d).bound = Greatest(c.bound, d.bound)
    BY <2>1, <2>2, <2>3 DEF BoundSet
  <2>5. QED  BY <1>8, <2>3, <2>4 DEF CeilingSet, Subsumes
<1>2. CASE c.kind = "rank"
  <2>1. Narrow(c, d) = IF RankOf(c.level) <= RankOf(d.level) THEN c ELSE d
    BY <1>2, NarrowByKind
  <2>2. RankOf(c.level) \in Int /\ RankOf(d.level) \in Int
    BY RankIsNumber
  <2>3. RankOf(c.level) >= RankOf(Narrow(c, d).level)
    BY <2>1, <2>2
  <2>4. Narrow(c, d) \in CeilingSet /\ Narrow(c, d).kind = c.kind
    BY <2>1
  <2>5. QED  BY <1>2, <2>3, <2>4 DEF Subsumes
<1>3. CASE c.kind = "allow"
  <2>1. Narrow(c, d) = [c EXCEPT !.members = c.members \cap d.members]
    BY <1>3, NarrowByKind
  <2>2. c \in MemberSet
    BY <1>3, KindIsType
  <2>3. /\ Narrow(c, d) \in MemberSet
        /\ Narrow(c, d).kind = c.kind
        /\ Narrow(c, d).members \subseteq c.members
    BY <2>1, <2>2 DEF MemberSet
  <2>4. QED  BY <1>3, <2>3 DEF CeilingSet, Subsumes
<1>4. CASE c.kind = "deny"
  <2>1. Narrow(c, d) = [c EXCEPT !.members = c.members \cup d.members]
    BY <1>4, NarrowByKind
  <2>2. c \in MemberSet /\ d \in MemberSet
    BY <1>4, KindIsType
  <2>3. /\ Narrow(c, d) \in MemberSet
        /\ Narrow(c, d).kind = c.kind
        /\ c.members \subseteq Narrow(c, d).members
    BY <2>1, <2>2 DEF MemberSet
  <2>4. QED  BY <1>4, <2>3 DEF CeilingSet, Subsumes
<1>5. CASE c.kind = "prefix"
  <2>1. Narrow(c, d) = NarrowPrefix(c, d)
    BY <1>5, NarrowByKind
  <2>2. c \in PrefixSet /\ c.prefix \in Seq(Char) /\ d.prefix \in Seq(Char)
    BY <1>5, KindIsType
  <2>3. CASE IsPrefix(d.prefix, c.prefix)
    BY <1>5, <2>1, <2>2, <2>3, PrefixReflexive DEF NarrowPrefix, Subsumes
  <2>4. CASE ~IsPrefix(d.prefix, c.prefix) /\ IsPrefix(c.prefix, d.prefix)
    BY <1>5, <2>1, <2>4 DEF NarrowPrefix, Subsumes
  <2>5. CASE ~IsPrefix(d.prefix, c.prefix) /\ ~IsPrefix(c.prefix, d.prefix)
    <3>1. PICK p \in Seq(Char) :
            p = c.prefix \o <<Nul>> \o d.prefix /\ IsPrefix(c.prefix, p)
      BY <2>2, JointPrefix
    <3>2. Narrow(c, d) = [c EXCEPT !.prefix = p]
      BY <2>1, <2>5, <3>1 DEF NarrowPrefix
    <3>3. /\ Narrow(c, d) \in PrefixSet
          /\ Narrow(c, d).kind = c.kind
          /\ Narrow(c, d).prefix = p
      BY <2>2, <3>1, <3>2 DEF PrefixSet
    <3>4. QED  BY <1>5, <3>1, <3>3 DEF CeilingSet, Subsumes
  <2>6. QED  BY <2>3, <2>4, <2>5
<1>6. CASE c.kind = "unknown"
  <2>1. Narrow(c, d) = c
    BY <1>6, NarrowByKind
  <2>2. QED  BY <2>1, SubsumesReflexive
<1>7. QED  BY <1>1, <1>2, <1>3, <1>4, <1>5, <1>6, <1>8, KindIsType DEF Bounding

(* An unknown ceiling stays, whatever the request holds under its key. *)
LEMMA UnknownIsKept ==
  ASSUME NEW c, NEW d, c.kind = "unknown"
  PROVE  Narrow(c, d) = c
BY NarrowByKind

-----------------------------------------------------------------------------
(* The lattice *)

(* Narrower-than is reflexive: an authority is within itself. *)
THEOREM NarrowerReflexive ==
  ASSUME NEW a, IsAuthority(a)
  PROVE  IsNarrowerThan(a, a)
<1>1. \A s \in a.scopes : CoversScope(a, s)
  BY CoverageReflexive
<1>2. \A k \in Keys(a) : Subsumes(a.ceilings[k], a.ceilings[k])
  BY SubsumesReflexive DEF IsAuthority
<1>3. \A n \in a.ttl : n <= n
  BY DEF IsAuthority
<1>4. QED  BY <1>1, <1>2, <1>3 DEF IsNarrowerThan

(* Narrower-than is transitive: narrowing at every hop of a path narrows    *)
(* from its end to its root (authority.py, is_narrower_than).               *)
THEOREM NarrowerTransitive ==
  ASSUME NEW a, NEW b, NEW c, IsAuthority(a), IsAuthority(b), IsAuthority(c),
         IsNarrowerThan(c, b), IsNarrowerThan(b, a)
  PROVE  IsNarrowerThan(c, a)
<1>1. ASSUME NEW s \in c.scopes
      PROVE  CoversScope(a, s)
  <2>1. CoversScope(b, s) /\ \A r \in b.scopes : CoversScope(a, r)
    BY DEF IsNarrowerThan
  <2>2. QED  BY <2>1, CoverageTransitive DEF IsAuthority
<1>2. ASSUME NEW k \in Keys(a)
      PROVE  k \in Keys(c) /\ Subsumes(a.ceilings[k], c.ceilings[k])
  <2>1. k \in Keys(b) /\ Subsumes(a.ceilings[k], b.ceilings[k])
    BY DEF IsNarrowerThan
  <2>2. k \in Keys(c) /\ Subsumes(b.ceilings[k], c.ceilings[k])
    BY <2>1 DEF IsNarrowerThan
  <2>3. /\ a.ceilings[k] \in CeilingSet
        /\ b.ceilings[k] \in CeilingSet
        /\ c.ceilings[k] \in CeilingSet
    BY <2>1, <2>2 DEF IsAuthority
  <2>4. QED  BY <2>1, <2>2, <2>3, SubsumesTransitive
<1>3. ASSUME NEW n \in a.ttl
      PROVE  \E m \in c.ttl : m <= n
  <2>1. PICK p \in b.ttl : p <= n
    BY DEF IsNarrowerThan
  <2>2. PICK m \in c.ttl : m <= p
    BY DEF IsNarrowerThan
  <2>3. m \in Int /\ p \in Int /\ n \in Int
    BY DEF IsAuthority
  <2>4. QED  BY <2>1, <2>2, <2>3
<1>4. QED  BY <1>1, <1>2, <1>3 DEF IsNarrowerThan

LEMMA MeetFields ==
  ASSUME NEW a, NEW b
  PROVE  /\ Meet(a, b).scopes = MeetScopes(a, b)
         /\ Meet(a, b).ceilings = MeetCeilings(a, b)
         /\ Meet(a, b).ttl = MeetTtl(a, b)
         /\ Keys(Meet(a, b)) = Keys(a) \cup Keys(b)
<1>1. /\ Meet(a, b).scopes = MeetScopes(a, b)
      /\ Meet(a, b).ceilings = MeetCeilings(a, b)
      /\ Meet(a, b).ttl = MeetTtl(a, b)
  BY DEF Meet, Grant
<1>2. QED  BY <1>1 DEF Keys, MeetCeilings

LEMMA MeetCeilingIsSubsumed ==
  ASSUME NEW a, NEW b, IsAuthority(a), IsAuthority(b), Meetable(a, b),
         NEW k \in Keys(a) \cup Keys(b)
  PROVE  /\ MeetCeilings(a, b)[k] \in CeilingSet
         /\ k \in Keys(a) => Subsumes(a.ceilings[k], MeetCeilings(a, b)[k])
<1>1. /\ k \in Keys(a) => a.ceilings[k] \in CeilingSet
      /\ k \in Keys(b) => b.ceilings[k] \in CeilingSet
  BY DEF IsAuthority
<1>2. CASE k \notin Keys(b)
  <2>1. MeetCeilings(a, b)[k] = a.ceilings[k]
    BY <1>2 DEF MeetCeilings
  <2>2. QED  BY <1>1, <1>2, <2>1, SubsumesReflexive
<1>3. CASE k \notin Keys(a)
  <2>1. MeetCeilings(a, b)[k] = b.ceilings[k]
    BY <1>3 DEF MeetCeilings
  <2>2. QED  BY <1>1, <1>3, <2>1
<1>4. CASE k \in Keys(a) /\ k \in Keys(b)
  <2>1. MeetCeilings(a, b)[k] = Narrow(a.ceilings[k], b.ceilings[k])
    BY <1>4 DEF MeetCeilings
  <2>2. CASE a.ceilings[k].kind = "unknown"
    BY <1>1, <1>4, <2>1, <2>2, UnknownIsKept, SubsumesReflexive
  <2>3. CASE SameType(a.ceilings[k], b.ceilings[k])
    BY <1>1, <1>4, <2>1, <2>3, NarrowIsSubsumed
  <2>4. QED  BY <1>4, <2>2, <2>3 DEF Meetable
<1>5. QED  BY <1>2, <1>3, <1>4

LEMMA MeetTtlIsLeast ==
  ASSUME NEW a, NEW b, IsAuthority(a), IsAuthority(b)
  PROVE  /\ MeetTtl(a, b) = {} \/ \E n \in Int : MeetTtl(a, b) = {n}
         /\ \A n \in a.ttl : \E m \in MeetTtl(a, b) : m <= n
<1>1. CASE a.ttl = {}
  <2>1. MeetTtl(a, b) = b.ttl
    BY <1>1 DEF IsAuthority, MeetTtl
  <2>2. QED  BY <1>1, <2>1 DEF IsAuthority
<1>2. CASE b.ttl = {}
  <2>1. MeetTtl(a, b) = a.ttl
    BY <1>2 DEF IsAuthority, MeetTtl
  <2>2. QED  BY <1>2, <2>1 DEF IsAuthority
<1>3. CASE a.ttl # {} /\ b.ttl # {}
  <2>1. PICK m \in Int : a.ttl = {m}
    BY <1>3 DEF IsAuthority
  <2>2. PICK n \in Int : b.ttl = {n}
    BY <1>3 DEF IsAuthority
  <2>3. MeetTtl(a, b) = IF m <= n THEN {m} ELSE {n}
    BY <2>1, <2>2 DEF MeetTtl
  <2>4. QED  BY <2>1, <2>2, <2>3
<1>4. QED  BY <1>1, <1>2, <1>3

(* The meet of two authorities is one. *)
THEOREM MeetIsAuthority ==
  ASSUME NEW a, NEW b, IsAuthority(a), IsAuthority(b), Meetable(a, b)
  PROVE  IsAuthority(Meet(a, b))
<1>1. Meet(a, b).scopes \subseteq ScopeSet
  BY MeetFields DEF IsAuthority, MeetScopes, CommonScopes
<1>2. Meet(a, b).ceilings \in [Keys(Meet(a, b)) -> CeilingSet]
  <2> DEFINE both == Keys(a) \cup Keys(b)
  <2>1. \A k \in both : MeetCeilings(a, b)[k] \in CeilingSet
    BY MeetCeilingIsSubsumed
  <2>2. MeetCeilings(a, b) = [k \in both |-> MeetCeilings(a, b)[k]]
    BY DEF MeetCeilings
  <2>3. MeetCeilings(a, b) \in [both -> CeilingSet]
    BY <2>1, <2>2, Zenon
  <2>4. Meet(a, b).ceilings = MeetCeilings(a, b) /\ Keys(Meet(a, b)) = both
    BY MeetFields
  <2>5. QED  BY <2>3, <2>4
<1>3. Meet(a, b).ttl = {} \/ \E n \in Int : Meet(a, b).ttl = {n}
  BY MeetFields, MeetTtlIsLeast
<1>4. Meet(a, b) = Grant(Meet(a, b).scopes, Meet(a, b).ceilings, Meet(a, b).ttl)
  BY MeetFields DEF Meet
<1>5. QED  BY <1>1, <1>2, <1>3, <1>4 DEF IsAuthority

(* The attenuation: whatever is requested, the meet is narrower than the    *)
(* parent (authority.py, meet; re-asserted in chain.py, add_child).         *)
THEOREM MeetIsNarrower ==
  ASSUME NEW a, NEW b, IsAuthority(a), IsAuthority(b), Meetable(a, b)
  PROVE  IsNarrowerThan(Meet(a, b), a)
<1>1. \A s \in Meet(a, b).scopes : CoversScope(a, s)
  BY MeetFields, CoverageReflexive DEF MeetScopes, CommonScopes
<1>2. ASSUME NEW k \in Keys(a)
      PROVE  k \in Keys(Meet(a, b)) /\ Subsumes(a.ceilings[k], Meet(a, b).ceilings[k])
  BY MeetFields, MeetCeilingIsSubsumed
<1>3. \A n \in a.ttl : \E m \in Meet(a, b).ttl : m <= n
  BY MeetFields, MeetTtlIsLeast
<1>4. QED  BY <1>1, <1>2, <1>3 DEF IsNarrowerThan

-----------------------------------------------------------------------------
(* The meet is the greatest                                                *)

LEMMA LeastNumber ==
  ASSUME NEW S, S \subseteq Nat, S # {}
  PROVE  \E m \in S : \A n \in S : m <= n
<1> DEFINE R == OpToRel(<, Nat)
<1>1. \A m \in Nat, n \in Nat : <<n, m>> \in R <=> n < m
  BY DEF OpToRel
<1>2. IsWellFoundedOn(R, Nat)
  BY NatLessThanWellFounded
<1> HIDE DEF R
<1>3. PICK m \in S : \A n \in S : ~(<<n, m>> \in R)
  BY <1>2, WFMin
<1>4. \A n \in S : ~(n < m)
  BY <1>1, <1>3, Zenon
<1>5. QED  BY <1>4

(* Of two scopes that cover a third, one covers the other. *)
LEMMA CoversAlongPath ==
  ASSUME NEW g \in ScopeSet, NEW h \in ScopeSet, NEW s \in ScopeSet,
         Covers(g, s), Covers(h, s)
  PROVE  Covers(g, h) \/ Covers(h, g)
<1>1. CASE g = s \/ h = s
  BY <1>1
<1>2. CASE g # s /\ h # s
  <2>1. /\ g.wild /\ IsStrictPrefix(g.path, s.path)
        /\ h.wild /\ IsStrictPrefix(h.path, s.path)
    BY <1>2 DEF Covers
  <2>2. g.path \in Seq(Char) /\ h.path \in Seq(Char) /\ s.path \in Seq(Char)
    BY DEF ScopeSet
  <2>5. IsPrefix(g.path, h.path) \/ IsPrefix(h.path, g.path)
    BY <2>1, <2>2, PrefixesCompare DEF IsStrictPrefix
  <2>6. CASE g.path = h.path
    <3>1. g = h
      BY <2>1, <2>6 DEF ScopeSet
    <3>2. QED  BY <3>1 DEF Covers
  <2>7. CASE g.path # h.path
    BY <2>1, <2>5, <2>7 DEF Covers, IsStrictPrefix
  <2>8. QED  BY <2>6, <2>7
<1>3. QED  BY <1>1, <1>2

(* A wildcard is shorter than any other scope it covers. *)
LEMMA CoversShorter ==
  ASSUME NEW w \in ScopeSet, NEW r \in ScopeSet, Covers(w, r), w # r
  PROVE  Len(w.path) \in Nat /\ Len(r.path) \in Nat /\ Len(w.path) < Len(r.path)
<1>1. IsStrictPrefix(w.path, r.path)
  BY DEF Covers
<1>2. w.path \in Seq(Char) /\ r.path \in Seq(Char)
  BY DEF ScopeSet
<1>3. Len(w.path) \in Nat /\ Len(r.path) \in Nat
  BY <1>2
<1>4. Len(w.path) <= Len(r.path) /\ \A i \in 1 .. Len(w.path) : w.path[i] = r.path[i]
  BY <1>1, <1>2, PrefixElements DEF IsStrictPrefix
<1>5. Len(w.path) # Len(r.path)
  BY <1>1, <1>2, <1>4 DEF IsStrictPrefix
<1>6. QED  BY <1>3, <1>4, <1>5

(* Pruning keeps, of all that cover a scope, the shortest. *)
LEMMA MeetCovers ==
  ASSUME NEW a, NEW b, IsAuthority(a), IsAuthority(b), NEW s \in ScopeSet,
         CoversScope(a, s), CoversScope(b, s)
  PROVE  \E r \in MeetScopes(a, b) : Covers(r, s)
<1> DEFINE common == CommonScopes(a, b)
           covering == {r \in common : Covers(r, s)}
           lengths == {Len(r.path) : r \in covering}
<1>1. \A r \in common : r \in ScopeSet /\ Len(r.path) \in Nat
  BY DEF CommonScopes, IsAuthority, ScopeSet
<1>2. covering # {}
  <2>1. PICK g \in a.scopes : Covers(g, s)
    BY DEF CoversScope
  <2>2. PICK h \in b.scopes : Covers(h, s)
    BY DEF CoversScope
  <2>3. Covers(g, h) \/ Covers(h, g)
    BY <2>1, <2>2, CoversAlongPath DEF IsAuthority
  <2>4. g \in common \/ h \in common
    BY <2>3 DEF CommonScopes, CoversScope
  <2>5. QED  BY <2>1, <2>2, <2>4
<1>3. PICK m \in lengths : \A n \in lengths : m <= n
  <2>1. lengths \subseteq Nat /\ lengths # {}
    BY <1>1, <1>2
  <2> HIDE DEF lengths
  <2>2. QED  BY <2>1, LeastNumber
<1>4. PICK r \in covering : Len(r.path) = m
  BY <1>3
<1>5. ASSUME NEW w \in common, w.wild, w # r, Covers(w, r)
      PROVE  FALSE
  <2>1. w \in covering
    BY <1>1, <1>4, <1>5, CoversTransitive
  <2>2. Len(r.path) <= Len(w.path)
    BY <1>3, <1>4, <2>1
  <2>3. QED  BY <1>1, <1>4, <1>5, <2>2, CoversShorter
<1>6. r \in MeetScopes(a, b)
  BY <1>4, <1>5 DEF MeetScopes
<1>7. QED  BY <1>4, <1>6

(* What admits at most what each of two ceilings does admits at most what   *)
(* they narrow to.                                                          *)
LEMMA NarrowSubsumes ==
  ASSUME NEW c \in CeilingSet, NEW d \in CeilingSet, NEW e \in CeilingSet,
         Subsumes(c, e), Subsumes(d, e)
  PROVE  Subsumes(Narrow(c, d), e)
<1>0. c.kind = e.kind /\ d.kind = e.kind
  BY DEF Subsumes
<1> USE <1>0
<1>1. CASE c.kind \in Caps \cup {"ranked"}
  <2>1. Narrow(c, d) = [c EXCEPT !.bound = Least(c.bound, d.bound)]
    BY <1>1, NarrowByKind
  <2>2. c \in BoundSet /\ c.bound \in Int /\ d.bound \in Int /\ e.bound \in Int
    BY <1>1, KindIsType DEF Bounding
  <2>3. c.bound >= e.bound /\ d.bound >= e.bound /\ (c.kind = "ranked" => c.order = e.order)
    BY <1>1 DEF Subsumes, Caps, Counted, Cumulative
  <2>4. Least(c.bound, d.bound) >= e.bound
    BY <2>2, <2>3 DEF Least
  <2>5. /\ Narrow(c, d).kind = c.kind
        /\ Narrow(c, d).bound = Least(c.bound, d.bound)
        /\ c.kind = "ranked" => Narrow(c, d).order = c.order
    BY <2>1, <2>2 DEF BoundSet
  <2>6. QED  BY <1>1, <2>3, <2>4, <2>5 DEF Subsumes
<1>2. CASE c.kind = "min"
  <2>1. Narrow(c, d) = [c EXCEPT !.bound = Greatest(c.bound, d.bound)]
    BY <1>2, NarrowByKind
  <2>2. c \in BoundSet /\ c.bound \in Int /\ d.bound \in Int /\ e.bound \in Int
    BY <1>2, KindIsType DEF Bounding
  <2>3. c.bound <= e.bound /\ d.bound <= e.bound
    BY <1>2 DEF Subsumes, Caps, Counted, Cumulative
  <2>4. Greatest(c.bound, d.bound) <= e.bound
    BY <2>2, <2>3 DEF Greatest
  <2>5. Narrow(c, d).kind = c.kind /\ Narrow(c, d).bound = Greatest(c.bound, d.bound)
    BY <2>1, <2>2 DEF BoundSet
  <2>6. QED  BY <1>2, <2>4, <2>5 DEF Subsumes
<1>3. CASE c.kind = "rank"
  <2>1. Narrow(c, d) = IF RankOf(c.level) <= RankOf(d.level) THEN c ELSE d
    BY <1>3, NarrowByKind
  <2>2. QED  BY <2>1
<1>4. CASE c.kind = "allow"
  <2>1. Narrow(c, d) = [c EXCEPT !.members = c.members \cap d.members]
    BY <1>4, NarrowByKind
  <2>2. c \in MemberSet
    BY <1>4, KindIsType
  <2>3. e.members \subseteq c.members /\ e.members \subseteq d.members
    BY <1>4 DEF Subsumes, Caps, Counted, Cumulative
  <2>4. Narrow(c, d).kind = c.kind /\ e.members \subseteq Narrow(c, d).members
    BY <2>1, <2>2, <2>3 DEF MemberSet
  <2>5. QED  BY <1>4, <2>4 DEF Subsumes
<1>5. CASE c.kind = "deny"
  <2>1. Narrow(c, d) = [c EXCEPT !.members = c.members \cup d.members]
    BY <1>5, NarrowByKind
  <2>2. c \in MemberSet
    BY <1>5, KindIsType
  <2>3. c.members \subseteq e.members /\ d.members \subseteq e.members
    BY <1>5 DEF Subsumes, Caps, Counted, Cumulative
  <2>4. Narrow(c, d).kind = c.kind /\ Narrow(c, d).members \subseteq e.members
    BY <2>1, <2>2, <2>3 DEF MemberSet
  <2>5. QED  BY <1>5, <2>4 DEF Subsumes
<1>6. CASE c.kind = "prefix"
  <2>1. Narrow(c, d) = NarrowPrefix(c, d)
    BY <1>6, NarrowByKind
  <2>2. c.prefix \in Seq(Char) /\ d.prefix \in Seq(Char) /\ e.prefix \in Seq(Char)
    BY <1>6, KindIsType
  <2>3. IsPrefix(c.prefix, e.prefix) /\ IsPrefix(d.prefix, e.prefix)
    BY <1>6 DEF Subsumes, Caps, Counted, Cumulative
  <2>4. IsPrefix(c.prefix, d.prefix) \/ IsPrefix(d.prefix, c.prefix)
    BY <2>2, <2>3, PrefixesCompare
  <2>5. Narrow(c, d) = c \/ Narrow(c, d) = d
    BY <2>1, <2>4 DEF NarrowPrefix
  <2>6. QED  BY <2>5
<1>7. CASE c.kind = "unknown"
  BY <1>7, UnknownIsKept
<1>8. QED  BY <1>1, <1>2, <1>3, <1>4, <1>5, <1>6, <1>7, KindIsType DEF Bounding

(* The meet loses nothing: what is narrower than the parent and than the    *)
(* request is narrower than their meet (authority.py, meet).                *)
THEOREM GreatestWithinBoth ==
  ASSUME NEW a, NEW b, NEW x, IsAuthority(a), IsAuthority(b), IsAuthority(x),
         IsNarrowerThan(x, a), IsNarrowerThan(x, b)
  PROVE  IsNarrowerThan(x, Meet(a, b))
<1>1. ASSUME NEW s \in x.scopes
      PROVE  CoversScope(Meet(a, b), s)
  <2>1. s \in ScopeSet /\ CoversScope(a, s) /\ CoversScope(b, s)
    BY DEF IsAuthority, IsNarrowerThan
  <2>2. QED  BY <2>1, MeetCovers, MeetFields DEF CoversScope
<1>2. ASSUME NEW k \in Keys(a) \cup Keys(b)
      PROVE  k \in Keys(x) /\ Subsumes(MeetCeilings(a, b)[k], x.ceilings[k])
  <2>1. /\ k \in Keys(a) => k \in Keys(x) /\ Subsumes(a.ceilings[k], x.ceilings[k])
        /\ k \in Keys(b) => k \in Keys(x) /\ Subsumes(b.ceilings[k], x.ceilings[k])
    BY DEF IsNarrowerThan
  <2>2. /\ k \in Keys(a) => a.ceilings[k] \in CeilingSet
        /\ k \in Keys(b) => b.ceilings[k] \in CeilingSet
        /\ k \in Keys(x) => x.ceilings[k] \in CeilingSet
    BY DEF IsAuthority
  <2>3. MeetCeilings(a, b)[k] =
          IF k \notin Keys(b) THEN a.ceilings[k]
          ELSE IF k \notin Keys(a) THEN b.ceilings[k]
          ELSE Narrow(a.ceilings[k], b.ceilings[k])
    BY DEF MeetCeilings
  <2>4. CASE k \in Keys(a) /\ k \in Keys(b)
    BY <2>1, <2>2, <2>3, <2>4, NarrowSubsumes
  <2>5. QED  BY <1>2, <2>1, <2>3, <2>4
<1>3. \A n \in MeetTtl(a, b) : \E m \in x.ttl : m <= n
  BY DEF MeetTtl, IsNarrowerThan
<1>4. QED  BY <1>1, <1>2, <1>3, MeetFields DEF IsNarrowerThan

-----------------------------------------------------------------------------
(* Narrower means permitting no more *)

LEMMA AdmitsMore ==
  ASSUME NEW c \in CeilingSet, NEW d \in CeilingSet, NEW v \in ValueSet,
         Subsumes(c, d), Admits(d, v)
  PROVE  Admits(c, v)
<1>0. c.kind = d.kind
  BY DEF Subsumes
<1> USE DEF Caps, Counted, Cumulative
<1>1. CASE c.kind \in Caps
  <2>1. v.kind = "number" /\ v.number <= d.bound /\ d.bound <= c.bound
    BY <1>0, <1>1 DEF Admits, Subsumes
  <2>2. v.number \in Int /\ c.bound \in Int /\ d.bound \in Int
    BY <1>0, <1>1, <2>1, KindIsType DEF ValueSet, Bounding
  <2>3. v.number <= c.bound
    BY <2>1, <2>2
  <2>4. QED  BY <1>1, <2>1, <2>3 DEF Admits
<1>7. CASE c.kind = "min"
  <2>1. v.kind = "number" /\ v.number >= d.bound /\ d.bound >= c.bound
    BY <1>0, <1>7 DEF Admits, Subsumes
  <2>2. v.number \in Int /\ c.bound \in Int /\ d.bound \in Int
    BY <1>0, <1>7, <2>1, KindIsType DEF ValueSet, Bounding
  <2>3. v.number >= c.bound
    BY <2>1, <2>2
  <2>4. QED  BY <1>7, <2>1, <2>3 DEF Admits
<1>8. CASE c.kind = "ranked"
  <2>1. v.kind = "string" /\ d.bound <= c.bound /\ c.order = d.order
    BY <1>0, <1>8 DEF Admits, Subsumes
  <2>2. PICK i \in DOMAIN d.order : i <= d.bound /\ d.order[i] = v.text
    BY <1>0, <1>8 DEF Admits
  <2>3. c.bound \in Int /\ d.bound \in Int /\ i \in Int
    <3>1. d \in BoundSet /\ c.bound \in Int /\ d.bound \in Int
      BY <1>0, <1>8, KindIsType DEF Bounding
    <3>2. d.order \in Seq(Seq(Char))
      BY <1>0, <1>8, <3>1 DEF BoundSet
    <3>3. QED  BY <2>2, <3>1, <3>2
  <2>4. i <= c.bound
    BY <2>1, <2>2, <2>3
  <2>5. QED  BY <1>8, <2>1, <2>2, <2>4 DEF Admits
<1>2. CASE c.kind = "rank"
  <2>1. v.kind = "string" /\ RankOf(v.text) <= RankOf(d.level) /\ RankOf(c.level) >= RankOf(d.level)
    BY <1>0, <1>2 DEF Admits, Subsumes
  <2>2. RankOf(v.text) <= RankOf(c.level)
    BY <2>1, RankIsNumber
  <2>3. QED  BY <1>2, <2>1, <2>2 DEF Admits
<1>3. CASE c.kind \in {"allow", "deny"}
  BY <1>0, <1>3 DEF Admits, Subsumes
<1>4. CASE c.kind = "prefix"
  <2>1. v.kind = "string" /\ IsPrefix(d.prefix, v.text) /\ IsPrefix(c.prefix, d.prefix)
    BY <1>0, <1>4 DEF Admits, Subsumes
  <2>2. v.text \in Seq(Char) /\ c.prefix \in Seq(Char) /\ d.prefix \in Seq(Char)
    BY <1>0, <1>4, <2>1, KindIsType DEF ValueSet
  <2>3. IsPrefix(c.prefix, v.text)
    BY <2>1, <2>2, PrefixTransitive
  <2>4. QED  BY <1>4, <2>1, <2>3 DEF Admits
<1>5. CASE c.kind = "unknown"
  BY <1>0, <1>5 DEF Admits
<1>6. QED  BY <1>1, <1>2, <1>3, <1>4, <1>5, <1>7, <1>8, KindIsType DEF Bounding

(* Two ceilings that constrain the same calls by the same context field. *)
SameReading(c, d) ==
  /\ c.field = d.field
  /\ c.kind \in Counted => c.applies = d.applies

LEMMA CeilingPermitsMore ==
  ASSUME NEW c \in CeilingSet, NEW d \in CeilingSet, NEW s, NEW ctx, IsContext(ctx),
         Subsumes(c, d), SameReading(c, d), CeilingPermits(d, s, ctx)
  PROVE  CeilingPermits(c, s, ctx)
<1>0. c.kind = d.kind /\ Declared(c, ctx) = Declared(d, ctx)
  BY DEF Subsumes, SameReading, Declared
<1>1. CASE d.kind \in Counted /\ ~AppliesTo(d, s)
  BY <1>0, <1>1 DEF CeilingPermits, SameReading, AppliesTo
<1>2. CASE /\ d.kind # "unknown"
           /\ d.kind \in Cumulative => Declared(d, ctx) # {}
           /\ \A v \in Declared(d, ctx) : Admits(d, v)
  <2>1. \A v \in Declared(c, ctx) : v \in ValueSet
    BY DEF Declared, IsContext
  <2>2. \A v \in Declared(c, ctx) : Admits(c, v)
    BY <1>0, <1>2, <2>1, AdmitsMore
  <2>3. QED  BY <1>0, <1>2, <2>2 DEF CeilingPermits
<1>3. QED  BY <1>1, <1>2 DEF CeilingPermits

(* Under each key both hold, the two read the context alike. *)
FieldsAgree(a, b) ==
  \A k \in Keys(a) \cap Keys(b) : SameReading(a.ceilings[k], b.ceilings[k])

(* The contract of Authority.is_narrower_than ("no more powerful in every   *)
(* dimension"): a narrower authority permits only what the wider one does.  *)
(* FieldsAgree is what the code leaves to its callers.                      *)
THEOREM NarrowerPermits ==
  ASSUME NEW a, NEW b, IsAuthority(a), IsAuthority(b),
         IsNarrowerThan(b, a), FieldsAgree(a, b),
         NEW s \in ScopeSet, NEW ctx, IsContext(ctx), Permits(b, s, ctx)
  PROVE  Permits(a, s, ctx)
<1>1. CoversScope(a, s)
  BY CoverageTransitive DEF IsAuthority, IsNarrowerThan, Permits
<1>2. ASSUME NEW k \in Keys(a)
      PROVE  CeilingPermits(a.ceilings[k], s, ctx)
  <2>1. k \in Keys(b) /\ Subsumes(a.ceilings[k], b.ceilings[k])
    BY <1>2 DEF IsNarrowerThan
  <2>2. a.ceilings[k] \in CeilingSet /\ b.ceilings[k] \in CeilingSet
    BY <1>2, <2>1 DEF IsAuthority
  <2>3. SameReading(a.ceilings[k], b.ceilings[k])
    BY <1>2, <2>1 DEF FieldsAgree
  <2>4. CeilingPermits(b.ceilings[k], s, ctx)
    BY <2>1 DEF Permits
  <2>5. QED  BY <2>1, <2>2, <2>3, <2>4, CeilingPermitsMore
<1>3. QED  BY <1>1, <1>2 DEF Permits

-----------------------------------------------------------------------------
(* What the meet reads *)

(* Every ceiling under key k reads field[k], for the calls of applies[k]. *)
Reads(x, field, applies) ==
  \A k \in Keys(x) :
    /\ x.ceilings[k].field = field[k]
    /\ x.ceilings[k].kind \in Counted => x.ceilings[k].applies = applies[k]

LEMMA NarrowReads ==
  ASSUME NEW c \in CeilingSet, NEW d \in CeilingSet, SameType(c, d)
  PROVE  /\ Narrow(c, d).field \in {c.field, d.field}
         /\ Narrow(c, d).kind = c.kind
         /\ c.kind \in Counted => Narrow(c, d).applies = c.applies
<1>0. c.kind = d.kind
  BY DEF SameType
<1> USE <1>0 DEF Bounding, Caps, Counted, Cumulative
<1>1. CASE c.kind \in Bounding
  <2>1. \/ Narrow(c, d) = [c EXCEPT !.bound = Least(c.bound, d.bound)]
        \/ Narrow(c, d) = [c EXCEPT !.bound = Greatest(c.bound, d.bound)]
    BY <1>1, NarrowByKind
  <2>2. c \in BoundSet
    BY <1>1, KindIsType
  <2>3. QED  BY <2>1, <2>2 DEF BoundSet
<1>2. CASE c.kind = "rank"
  <2>1. Narrow(c, d) = IF RankOf(c.level) <= RankOf(d.level) THEN c ELSE d
    BY <1>2, NarrowByKind
  <2>2. QED  BY <1>2, <2>1
<1>3. CASE c.kind = "allow"
  <2>1. Narrow(c, d) = [c EXCEPT !.members = c.members \cap d.members]
    BY <1>3, NarrowByKind
  <2>2. QED  BY <1>3, <2>1, KindIsType DEF MemberSet
<1>4. CASE c.kind = "deny"
  <2>1. Narrow(c, d) = [c EXCEPT !.members = c.members \cup d.members]
    BY <1>4, NarrowByKind
  <2>2. QED  BY <1>4, <2>1, KindIsType DEF MemberSet
<1>5. CASE c.kind = "prefix"
  <2>1. Narrow(c, d) = NarrowPrefix(c, d)
    BY <1>5, NarrowByKind
  <2>2. c \in PrefixSet
    BY <1>5, KindIsType
  <2>3. QED  BY <1>5, <2>1, <2>2 DEF NarrowPrefix, PrefixSet
<1>6. CASE c.kind = "unknown"
  <2>1. Narrow(c, d) = c
    BY <1>6, UnknownIsKept
  <2>2. QED  BY <1>6, <2>1
<1>7. QED  BY <1>1, <1>2, <1>3, <1>4, <1>5, <1>6, KindIsType

LEMMA MeetReads ==
  ASSUME NEW a, NEW b, IsAuthority(a), IsAuthority(b), Meetable(a, b),
         NEW field, NEW applies, Reads(a, field, applies), Reads(b, field, applies)
  PROVE  Reads(Meet(a, b), field, applies)
<1> SUFFICES ASSUME NEW k \in Keys(a) \cup Keys(b)
             PROVE  /\ MeetCeilings(a, b)[k].field = field[k]
                    /\ MeetCeilings(a, b)[k].kind \in Counted
                         => MeetCeilings(a, b)[k].applies = applies[k]
  BY MeetFields DEF Reads
<1>1. CASE k \notin Keys(b)
  BY <1>1 DEF MeetCeilings, Reads
<1>2. CASE k \notin Keys(a)
  BY <1>2 DEF MeetCeilings, Reads
<1>3. CASE k \in Keys(a) /\ k \in Keys(b)
  <2>1. MeetCeilings(a, b)[k] = Narrow(a.ceilings[k], b.ceilings[k])
    BY <1>3 DEF MeetCeilings
  <2>2. a.ceilings[k] \in CeilingSet /\ b.ceilings[k] \in CeilingSet
    BY <1>3 DEF IsAuthority
  <2>3. CASE SameType(a.ceilings[k], b.ceilings[k])
    BY <1>3, <2>1, <2>2, <2>3, NarrowReads DEF Reads
  <2>4. CASE a.ceilings[k].kind = "unknown"
    BY <1>3, <2>1, <2>2, <2>4, UnknownIsKept DEF Reads
  <2>5. QED  BY <1>3, <2>3, <2>4 DEF Meetable
<1>4. QED  BY <1>1, <1>2, <1>3

LEMMA ReadingAgrees ==
  ASSUME NEW a, NEW b, NEW field, NEW applies,
         Reads(a, field, applies), Reads(b, field, applies), IsNarrowerThan(b, a)
  PROVE  FieldsAgree(a, b)
BY DEF Reads, IsNarrowerThan, Subsumes, FieldsAgree, SameReading

-----------------------------------------------------------------------------
(* Sequences of anything *)

IsSeq(s) == s \in Seq(Range(s))

LEMMA IndexedIsSeq ==
  ASSUME NEW n \in Nat, NEW s, s = [i \in 1 .. n |-> s[i]]
  PROVE  IsSeq(s) /\ Len(s) = n /\ DOMAIN s = 1 .. n
<1>1. DOMAIN s = 1 .. n
  OBVIOUS
<1>2. \A i \in 1 .. n : s[i] \in Range(s)
  BY <1>1 DEF Range
<1>3. s \in [1 .. n -> Range(s)]
  BY <1>2
<1>4. s \in Seq(Range(s))
  BY <1>3, SeqDef
<1>5. Len(s) = n
  BY <1>3
<1>6. QED  BY <1>1, <1>4, <1>5 DEF IsSeq

LEMMA SeqIsIndexed ==
  ASSUME NEW s, IsSeq(s)
  PROVE  /\ Len(s) \in Nat /\ DOMAIN s = 1 .. Len(s)
         /\ s = [i \in 1 .. Len(s) |-> s[i]]
BY LenProperties DEF IsSeq

(* What appending does, whatever is appended. *)
LEMMA Appended ==
  ASSUME NEW s, NEW e, IsSeq(s)
  PROVE  /\ IsSeq(Append(s, e)) /\ Len(Append(s, e)) = Len(s) + 1
         /\ DOMAIN Append(s, e) = 1 .. Len(s) + 1
         /\ Append(s, e)[Len(s) + 1] = e
         /\ \A i \in 1 .. Len(s) : Append(s, e)[i] = s[i]
<1> DEFINE S == Range(s) \cup {e}
<1>1. s \in Seq(S) /\ e \in S
  BY SeqMonotonic DEF IsSeq
<1>2. Len(s) \in Nat
  BY SeqIsIndexed
<1> HIDE DEF S
<1>3. /\ Append(s, e) \in Seq(S) /\ Len(Append(s, e)) = Len(s) + 1
      /\ \A i \in 1 .. Len(s) : Append(s, e)[i] = s[i]
      /\ Append(s, e)[Len(s) + 1] = e
  BY <1>1, AppendProperties
<1>4. Append(s, e) = [i \in 1 .. Len(s) + 1 |-> Append(s, e)[i]]
  BY <1>3, LenProperties
<1>5. IsSeq(Append(s, e)) /\ DOMAIN Append(s, e) = 1 .. Len(s) + 1
  BY <1>2, <1>4, IndexedIsSeq
<1>6. QED  BY <1>3, <1>5

LEMMA LastOf ==
  ASSUME NEW s, IsSeq(s), s # <<>>
  PROVE  Len(s) \in DOMAIN s /\ Last(s) = s[Len(s)]
<1>1. Len(s) \in Nat /\ DOMAIN s = 1 .. Len(s)
  BY SeqIsIndexed
<1>2. Len(s) # 0
  BY EmptySeq DEF IsSeq
<1>3. QED  BY <1>1, <1>2 DEF Last

LEMMA SingletonSeq ==
  ASSUME NEW e
  PROVE  IsSeq(<<e>>) /\ Len(<<e>>) = 1 /\ <<e>>[1] = e
<1>1. \A i \in 1 .. 1 : i = 1
  OBVIOUS
<1>2. <<e>> = [i \in 1 .. 1 |-> <<e>>[i]]
  OBVIOUS
<1>3. QED  BY <1>2, IndexedIsSeq

LEMMA FirstOf ==
  ASSUME NEW s, IsSeq(s), NEW n \in 1 .. Len(s)
  PROVE  SubSeq(s, 1, n) = [i \in 1 .. n |-> s[i]]
<1>1. Len(s) \in Nat /\ n \in Nat
  BY SeqIsIndexed
<1>2. SubSeq(s, 1, n) = [i \in 1 .. n |-> s[i + 1 - 1]]
  BY <1>1
<1>3. \A i \in 1 .. n : i + 1 - 1 = i
  BY <1>1
<1>4. QED  BY <1>2, <1>3

-----------------------------------------------------------------------------
(* The claims of a chain of tokens, each linked to the one before. *)

Chained(hops, b, m, claims) ==
  /\ claims = [i \in 1 .. Len(hops) |->
                 IF i = 1 THEN Claims(hops[1], 0, RootBound(b), {}, m)
                 ELSE Claims(hops[i], i - 1, {}, {claims[i - 1]}, m)]
  /\ SerializeChain(hops, b, m) = [i \in 1 .. Len(hops) |-> Sign(claims[i], m)]

LEMMA ChainUnfolds ==
  ASSUME NEW hops, IsSeq(hops), NEW b, NEW m
  PROVE  \E claims : Chained(hops, b, m, claims)
<1> DEFINE At(claims, i) == IF i = 1 THEN Claims(hops[1], 0, RootBound(b), {}, m)
                            ELSE Claims(hops[i], i - 1, {}, {claims[i - 1]}, m)
           Is(claims, n) == claims = [i \in 1 .. n |-> At(claims, i)]
           bad == {n \in 0 .. Len(hops) : ~\E claims : Is(claims, n)}
<1>0. Len(hops) \in Nat /\ DOMAIN hops = 1 .. Len(hops)
  BY SeqIsIndexed
<1>1. bad = {}
  <2>1. SUFFICES ASSUME bad # {} PROVE FALSE
    OBVIOUS
  <2>2. PICK n \in bad : \A k \in bad : n <= k
    <3>1. bad \subseteq Nat
      BY <1>0
    <3> HIDE DEF bad
    <3>2. QED  BY <2>1, <3>1, LeastNumber
  <2>3. n # 0
    <3>1. PICK claims : claims = [k \in 1 .. 0 |-> k]
      OBVIOUS
    <3>2. 1 .. 0 = {}
      OBVIOUS
    <3>3. Is(claims, 0)
      BY <3>1, <3>2
    <3> HIDE DEF Is
    <3>4. QED  BY <2>2, <3>3
  <2>4. n \in 1 .. Len(hops) /\ n - 1 \in 0 .. Len(hops) /\ ~(n <= n - 1)
    BY <1>0, <2>2, <2>3
  <2>5. PICK claims : Is(claims, n - 1)
    BY <2>2, <2>4
  <2>6. PICK longer : longer = [k \in 1 .. n |-> IF k = n THEN At(claims, n) ELSE claims[k]]
    OBVIOUS
  <2>7. ASSUME NEW k \in 1 .. n
        PROVE  longer[k] = At(longer, k)
    <3>1. k # 1 => longer[k - 1] = claims[k - 1]
      <4>1. SUFFICES ASSUME k # 1 PROVE longer[k - 1] = claims[k - 1]
        OBVIOUS
      <4>2. k - 1 \in 1 .. n /\ k - 1 # n
        BY <2>4, <4>1
      <4>3. QED  BY <2>6, <4>2
    <3>2. At(longer, k) = At(claims, k)
      BY <3>1
    <3>3. CASE k = n
      BY <2>6, <3>2, <3>3
    <3>4. CASE k # n
      <4>1. k \in 1 .. n - 1
        BY <2>4, <3>4
      <4>2. claims[k] = At(claims, k)
        BY <2>5, <4>1
      <4>3. longer[k] = claims[k]
        BY <2>6, <3>4
      <4>4. QED  BY <3>2, <4>2, <4>3
    <3>5. QED  BY <3>3, <3>4
  <2>8. Is(longer, n)
    <3> HIDE DEF At
    <3>1. QED  BY <2>6, <2>7
  <2>9. QED  BY <2>2, <2>8
<1>2. \E claims : Is(claims, Len(hops))
  <2> HIDE DEF Is
  <2>1. QED  BY <1>0, <1>1
<1> DEFINE Signed == CHOOSE claims : Is(claims, Len(hops))
<1>3. Is(Signed, Len(hops))
  <2> HIDE DEF Is
  <2>1. QED  BY <1>2
<1>4. SerializeChain(hops, b, m) = [i \in 1 .. Len(hops) |-> Sign(Signed[i], m)]
  BY <1>0 DEF SerializeChain
<1> HIDE DEF Signed
<1>5. Chained(hops, b, m, Signed)
  BY <1>3, <1>4 DEF Chained
<1>6. QED  BY <1>5

(* What its two times span is the lifetime a token was minted with. *)
LEMMA LifeIsKept ==
  ASSUME NEW at \in Int, NEW ttl, ttl \subseteq Int
  PROVE  {e - at : e \in {at + n : n \in ttl}} = ttl
<1> DEFINE Life(e) == e - at
           End(n) == at + n
           ends == {End(n) : n \in ttl}
           lives == {Life(e) : e \in ends}
<1>1. \A n \in ttl : Life(End(n)) = n
  OBVIOUS
<1> HIDE DEF Life, End
<1>2. ASSUME NEW x \in lives PROVE x \in ttl
  <2>1. PICK e \in ends : x = Life(e)
    OBVIOUS
  <2>2. PICK n \in ttl : e = End(n)
    OBVIOUS
  <2>3. QED  BY <1>1, <2>1, <2>2
<1>3. ASSUME NEW x \in ttl PROVE x \in lives
  <2>1. End(x) \in ends /\ Life(End(x)) = x
    BY <1>1
  <2>2. QED  BY <2>1
<1>4. lives = ttl
  BY <1>2, <1>3
<1>5. lives = {e - at : e \in {at + n : n \in ttl}}
  BY DEF Life, End
<1>6. QED  BY <1>4, <1>5
=============================================================================
