----------------------------- MODULE HooksProofs -----------------------------
(***************************************************************************)
(* The hook processes of a Claude Code session, proved for any number of   *)
(* them, of faults, and for every project they may find.                   *)
(***************************************************************************)
EXTENDS Hooks, SequenceTheorems, FiniteSetTheorems, WellFoundedInduction, TLAPS

IsSeq(s) == s \in Seq(Range(s))
IsEntry(e) == e = [seq |-> e.seq, prev |-> e.prev, hash |-> e.hash, body |-> e.body]
IsLedger(es) == IsSeq(es) /\ \A i \in DOMAIN es : IsEntry(es[i])

Begins(es, fs) == Len(es) <= Len(fs) /\ \A i \in DOMAIN es : es[i] = fs[i]

(* What the hashes of a chain that verifies are. *)
Formed(es) ==
  \A i \in DOMAIN es :
    es[i].seq = i - 1 /\ es[i].prev = Trail(es, i - 1) /\ es[i].hash = Trail(es, i)

-----------------------------------------------------------------------------
(* Numbers and sequences *)

LEMMA LeastNumber ==
  ASSUME NEW S, S \subseteq Nat, S # {}
  PROVE  \E m \in S : \A n \in S : m <= n
<1> DEFINE R == OpToRel(<, Nat)
<1>1. \A m \in Nat, n \in Nat : <<n, m>> \in R <=> n < m
  BY DEF OpToRel
<1>2. IsWellFoundedOn(R, Nat)
  BY NatLessThanWellFounded
<1> HIDE DEF R
<1>3. PICK m \in S : \A n \in S : ~(<<n, m>> \in R)
  BY <1>2, WFMin
<1>4. \A n \in S : ~(n < m)
  BY <1>1, <1>3, Zenon
<1>5. QED  BY <1>4

LEMMA IndexedIsSeq ==
  ASSUME NEW n \in Nat, NEW s, s = [i \in 1 .. n |-> s[i]]
  PROVE  IsSeq(s) /\ Len(s) = n /\ DOMAIN s = 1 .. n
<1>1. DOMAIN s = 1 .. n
  OBVIOUS
<1>2. \A i \in 1 .. n : s[i] \in Range(s)
  BY <1>1 DEF Range
<1>3. s \in [1 .. n -> Range(s)]
  BY <1>2
<1>4. s \in Seq(Range(s))
  BY <1>3, SeqDef
<1>5. Len(s) = n
  BY <1>3
<1>6. QED  BY <1>1, <1>4, <1>5 DEF IsSeq

LEMMA SeqIsIndexed ==
  ASSUME NEW s, IsSeq(s)
  PROVE  /\ Len(s) \in Nat /\ DOMAIN s = 1 .. Len(s)
         /\ s = [i \in 1 .. Len(s) |-> s[i]]
BY LenProperties DEF IsSeq

LEMMA SeqsEqual ==
  ASSUME NEW s, NEW t, IsSeq(s), IsSeq(t), Len(s) = Len(t), \A i \in DOMAIN s : s[i] = t[i]
  PROVE  s = t
BY SeqIsIndexed

(* What appending does, whatever is appended. *)
LEMMA Appended ==
  ASSUME NEW s, NEW e, IsSeq(s)
  PROVE  /\ IsSeq(Append(s, e)) /\ Len(Append(s, e)) = Len(s) + 1
         /\ DOMAIN Append(s, e) = 1 .. Len(s) + 1
         /\ Append(s, e) = [i \in 1 .. Len(s) + 1 |-> IF i <= Len(s) THEN s[i] ELSE e]
<1> DEFINE S == Range(s) \cup {e}
<1>1. s \in Seq(S) /\ e \in S
  BY SeqMonotonic DEF IsSeq
<1>2. Len(s) \in Nat
  BY SeqIsIndexed
<1> HIDE DEF S
<1>3. /\ Append(s, e) \in Seq(S) /\ Len(Append(s, e)) = Len(s) + 1
      /\ \A i \in 1 .. Len(s) : Append(s, e)[i] = s[i]
      /\ Append(s, e)[Len(s) + 1] = e
  BY <1>1, AppendProperties
<1>4. Append(s, e) = [i \in 1 .. Len(s) + 1 |-> Append(s, e)[i]]
  BY <1>3, LenProperties
<1>5. IsSeq(Append(s, e)) /\ DOMAIN Append(s, e) = 1 .. Len(s) + 1
  BY <1>2, <1>4, IndexedIsSeq
<1>6. \A i \in 1 .. Len(s) + 1 : Append(s, e)[i] = IF i <= Len(s) THEN s[i] ELSE e
  BY <1>2, <1>3
<1>7. QED  BY <1>3, <1>4, <1>5, <1>6

LEMMA Prefix ==
  ASSUME NEW es, IsSeq(es), NEW k \in 0 .. Len(es)
  PROVE  /\ IsSeq(SubSeq(es, 1, k)) /\ Len(SubSeq(es, 1, k)) = k
         /\ DOMAIN SubSeq(es, 1, k) = 1 .. k
         /\ SubSeq(es, 1, k) = [i \in 1 .. k |-> es[i]]
<1> DEFINE s == SubSeq(es, 1, k)
<1>1. Len(es) \in Nat /\ DOMAIN es = 1 .. Len(es) /\ k \in Nat
  BY SeqIsIndexed
<1>2. \A i \in 1 .. k : es[i] \in Range(es)
  BY <1>1 DEF Range
<1>3. /\ s \in Seq(Range(es)) /\ Len(s) = IF 1 <= k THEN k - 1 + 1 ELSE 0
      /\ \A i \in 1 .. k - 1 + 1 : s[i] = es[1 + i - 1]
  BY <1>1, <1>2, SubSeqProperties
<1>4. Len(s) = k
  BY <1>1, <1>3
<1>5. \A i \in 1 .. k : s[i] = es[i]
  BY <1>1, <1>3
<1> HIDE DEF s
<1>6. s = [i \in 1 .. k |-> s[i]]
  BY <1>3, <1>4, LenProperties
<1>7. IsSeq(s) /\ DOMAIN s = 1 .. k
  BY <1>1, <1>6, IndexedIsSeq
<1>8. QED  BY <1>4, <1>5, <1>6, <1>7 DEF s

-----------------------------------------------------------------------------
(* The hash chain *)

LEMMA TrailIsSeq ==
  ASSUME NEW es, NEW k \in Nat
  PROVE  IsSeq(Trail(es, k)) /\ Len(Trail(es, k)) = k /\ DOMAIN Trail(es, k) = 1 .. k
<1> DEFINE t == Trail(es, k)
<1>1. t = [i \in 1 .. k |-> t[i]]
  BY DEF Trail
<1> HIDE DEF t
<1>2. QED  BY <1>1, IndexedIsSeq DEF t

LEMMA TrailGrows ==
  ASSUME NEW es, NEW k \in Nat \ {0}
  PROVE  Append(Trail(es, k - 1), <<es[k].seq, es[k].body>>) = Trail(es, k)
<1> DEFINE t == Trail(es, k - 1)
           e == <<es[k].seq, es[k].body>>
<1>1. k - 1 \in Nat /\ k - 1 + 1 = k
  OBVIOUS
<1>2. IsSeq(t) /\ Len(t) = k - 1
  BY <1>1, TrailIsSeq
<1>3. \A i \in 1 .. k : i <= k - 1 => t[i] = <<es[i].seq, es[i].body>>
  BY DEF Trail
<1> HIDE DEF t
<1>4. Append(t, e) = [i \in 1 .. k |-> IF i <= k - 1 THEN t[i] ELSE e]
  BY <1>1, <1>2, Appended
<1>5. ASSUME NEW i \in 1 .. k
      PROVE  (IF i <= k - 1 THEN t[i] ELSE e) = <<es[i].seq, es[i].body>>
  <2>1. CASE i <= k - 1
    BY <1>3, <2>1
  <2>2. CASE ~(i <= k - 1)
    <3>1. i = k
      BY <2>2
    <3>2. QED  BY <2>2, <3>1
  <2>3. QED  BY <2>1, <2>2
<1>6. Append(t, e) = [i \in 1 .. k |-> <<es[i].seq, es[i].body>>]
  BY <1>4, <1>5
<1>7. QED  BY <1>6 DEF t, Trail

LEMMA NoTrail ==
  ASSUME NEW es
  PROVE  Trail(es, 0) = <<>>
<1>1. IsSeq(Trail(es, 0)) /\ Len(Trail(es, 0)) = 0
  BY TrailIsSeq
<1>2. QED  BY <1>1, EmptySeq DEF IsSeq

LEMMA FormedVerifies ==
  ASSUME NEW es, IsSeq(es), Formed(es)
  PROVE  ChainVerifies(es)
<1> SUFFICES ASSUME NEW i \in DOMAIN es
             PROVE  /\ es[i].seq = i - 1
                    /\ es[i].prev = IF i = 1 THEN Genesis ELSE es[i - 1].hash
                    /\ es[i].hash = Hash(es[i].prev, es[i])
  BY DEF ChainVerifies
<1>1. i \in 1 .. Len(es) /\ Len(es) \in Nat /\ DOMAIN es = 1 .. Len(es)
  BY SeqIsIndexed
<1>2. i \in Nat \ {0}
  BY <1>1
<1>3. es[i].seq = i - 1 /\ es[i].prev = Trail(es, i - 1) /\ es[i].hash = Trail(es, i)
  BY DEF Formed
<1>4. es[i].hash = Hash(es[i].prev, es[i])
  BY <1>2, <1>3, TrailGrows DEF Hash, Payload
<1>5. CASE i = 1
  BY <1>3, <1>4, <1>5, NoTrail DEF Genesis
<1>6. CASE i # 1
  <2>1. i - 1 \in DOMAIN es
    BY <1>1, <1>6
  <2>2. es[i - 1].hash = Trail(es, i - 1)
    BY <2>1 DEF Formed
  <2>3. QED  BY <1>3, <1>4, <1>6, <2>2
<1>7. QED  BY <1>5, <1>6

LEMMA VerifiesFormed ==
  ASSUME NEW es, IsSeq(es), ChainVerifies(es)
  PROVE  Formed(es)
<1> DEFINE Holds(i) == es[i].seq = i - 1 /\ es[i].prev = Trail(es, i - 1) /\ es[i].hash = Trail(es, i)
           bad == {i \in DOMAIN es : ~Holds(i)}
<1>1. DOMAIN es = 1 .. Len(es) /\ Len(es) \in Nat
  BY SeqIsIndexed
<1>2. \A i \in DOMAIN es : /\ es[i].seq = i - 1
                           /\ es[i].prev = IF i = 1 THEN Genesis ELSE es[i - 1].hash
                           /\ es[i].hash = Hash(es[i].prev, es[i])
  BY DEF ChainVerifies
<1>3. SUFFICES ASSUME bad # {} PROVE FALSE
  BY <1>3 DEF Formed
<1>4. PICK i \in bad : \A j \in bad : i <= j
  <2>1. bad \subseteq Nat
    BY <1>1
  <2> HIDE DEF bad
  <2>2. QED  BY <1>3, <2>1, LeastNumber
<1>5. i \in DOMAIN es /\ i \in Nat \ {0}
  BY <1>1
<1>6. es[i].prev = Trail(es, i - 1)
  <2>1. CASE i = 1
    BY <1>2, <1>5, <2>1, NoTrail DEF Genesis
  <2>2. CASE i # 1
    <3>1. i - 1 \in DOMAIN es /\ ~(i <= i - 1)
      BY <1>1, <1>5, <2>2
    <3>2. Holds(i - 1)
      BY <1>4, <3>1
    <3>3. QED  BY <1>2, <1>5, <2>2, <3>2
  <2>3. QED  BY <2>1, <2>2
<1>7. es[i].hash = Append(es[i].prev, <<es[i].seq, es[i].body>>)
  BY <1>2, <1>5 DEF Hash, Payload
<1>8. es[i].hash = Trail(es, i)
  BY <1>5, <1>6, <1>7, TrailGrows
<1>9. QED  BY <1>2, <1>4, <1>5, <1>6, <1>8


(* One sequence after another, whatever is in them. *)
Joined(s, t) == [i \in 1 .. Len(s) + Len(t) |-> IF i <= Len(s) THEN s[i] ELSE t[i - Len(s)]]

LEMMA JoinedIsSeq ==
  ASSUME NEW s, NEW t, IsSeq(s), IsSeq(t)
  PROVE  /\ IsSeq(Joined(s, t)) /\ Len(Joined(s, t)) = Len(s) + Len(t)
         /\ DOMAIN Joined(s, t) = 1 .. Len(s) + Len(t)
         /\ \A i \in 1 .. Len(s) : Joined(s, t)[i] = s[i]
         /\ \A i \in 1 .. Len(t) : Joined(s, t)[Len(s) + i] = t[i]
<1> DEFINE m == Len(s)
           n == Len(t)
           j == Joined(s, t)
<1>1. m \in Nat /\ n \in Nat /\ m + n \in Nat
  BY SeqIsIndexed
<1>2. j = [i \in 1 .. m + n |-> IF i <= m THEN s[i] ELSE t[i - m]]
  BY DEF Joined
<1>3. j = [i \in 1 .. m + n |-> j[i]]
  BY <1>2
<1> HIDE DEF j
<1>4. IsSeq(j) /\ Len(j) = m + n /\ DOMAIN j = 1 .. m + n
  BY <1>1, <1>3, IndexedIsSeq
<1>5. \A i \in 1 .. m : j[i] = s[i]
  BY <1>1, <1>2
<1>6. ASSUME NEW i \in 1 .. n
      PROVE  j[m + i] = t[i]
  <2>1. m + i \in 1 .. m + n /\ ~(m + i <= m) /\ m + i - m = i
    BY <1>1
  <2>2. QED  BY <1>2, <2>1
<1>7. QED  BY <1>4, <1>5, <1>6 DEF j

LEMMA Concatenated ==
  ASSUME NEW s, NEW t, IsSeq(s), IsSeq(t)
  PROVE  s \o t = Joined(s, t)
<1> DEFINE S == Range(s) \cup Range(t)
           c == s \o t
<1>1. s \in Seq(S) /\ t \in Seq(S)
  BY SeqMonotonic DEF IsSeq
<1>2. Len(s) \in Nat /\ Len(t) \in Nat
  BY SeqIsIndexed
<1> HIDE DEF S
<1>3. /\ c \in Seq(S) /\ Len(c) = Len(s) + Len(t)
      /\ \A i \in 1 .. Len(s) + Len(t) : c[i] = IF i <= Len(s) THEN s[i] ELSE t[i - Len(s)]
  BY <1>1, ConcatProperties
<1> HIDE DEF c
<1>4. c = [i \in 1 .. Len(s) + Len(t) |-> c[i]]
  BY <1>3, LenProperties
<1>5. c = [i \in 1 .. Len(s) + Len(t) |-> IF i <= Len(s) THEN s[i] ELSE t[i - Len(s)]]
  BY <1>3, <1>4
<1>6. QED  BY <1>5 DEF c, Joined

-----------------------------------------------------------------------------
(* Going on with a chain *)

(* What follows a ledger that verifies, hashed after it. *)
After(es, bodies) ==
  HashedAfter(HeadHash(es), [i \in DOMAIN bodies |-> Entry(Len(es) + i - 1, bodies[i])])

LEMMA HeadIsTrail ==
  ASSUME NEW es, IsLedger(es), ChainVerifies(es)
  PROVE  HeadHash(es) = Trail(es, Len(es))
<1>1. IsSeq(es) /\ Len(es) \in Nat /\ DOMAIN es = 1 .. Len(es)
  BY SeqIsIndexed DEF IsLedger
<1>2. CASE es = <<>>
  <2>1. Len(es) = 0
    BY <1>2
  <2>2. QED  BY <1>2, <2>1, NoTrail DEF HeadHash, Genesis
<1>3. CASE es # <<>>
  <2>1. Len(es) # 0
    BY <1>1, <1>3, EmptySeq DEF IsSeq
  <2>2. Len(es) \in DOMAIN es
    BY <1>1, <2>1
  <2>3. HeadHash(es) = es[Len(es)].hash
    BY <1>3 DEF HeadHash, Last
  <2>4. QED  BY <1>1, <2>2, <2>3, VerifiesFormed DEF Formed
<1>4. QED  BY <1>2, <1>3

(* u has the payloads of s up to m, and those of t, up to k, after it. *)
Follows(s, m, t, k, u) ==
  /\ \A i \in 1 .. m : u[i].seq = s[i].seq /\ u[i].body = s[i].body
  /\ \A i \in 1 .. k : u[m + i].seq = t[i].seq /\ u[m + i].body = t[i].body

LEMMA TrailJoined ==
  ASSUME NEW s, NEW t, NEW u, NEW m \in Nat, NEW k \in Nat, Follows(s, m, t, k, u)
  PROVE  Joined(Trail(s, m), Trail(t, k)) = Trail(u, m + k)
<1> DEFINE a == Trail(s, m)
           b == Trail(t, k)
           c == Trail(u, m + k)
<1>1. IsSeq(a) /\ Len(a) = m /\ IsSeq(b) /\ Len(b) = k
  BY TrailIsSeq
<1>2. m + k \in Nat
  OBVIOUS
<1>3. \A i \in 1 .. m : a[i] = <<u[i].seq, u[i].body>>
  BY DEF Trail, Follows
<1>4. \A i \in 1 .. k : b[i] = <<u[m + i].seq, u[m + i].body>>
  BY DEF Trail, Follows
<1> HIDE DEF a, b
<1>5. Joined(a, b) = [i \in 1 .. m + k |-> IF i <= m THEN a[i] ELSE b[i - m]]
  BY <1>1 DEF Joined
<1>6. ASSUME NEW i \in 1 .. m + k
      PROVE  (IF i <= m THEN a[i] ELSE b[i - m]) = <<u[i].seq, u[i].body>>
  <2>1. CASE i <= m
    <3>1. i \in 1 .. m
      BY <2>1
    <3>2. QED  BY <1>3, <2>1, <3>1
  <2>2. CASE ~(i <= m)
    <3>1. i - m \in 1 .. k /\ m + (i - m) = i
      BY <2>2
    <3>2. QED  BY <1>4, <2>2, <3>1
  <2>3. QED  BY <2>1, <2>2
<1>7. Joined(a, b) = c
  BY <1>5, <1>6 DEF Trail
<1>8. QED  BY <1>7 DEF a, b

LEMMA AfterIs ==
  ASSUME NEW es, NEW bodies, IsLedger(es), ChainVerifies(es), IsSeq(bodies)
  PROVE  /\ IsLedger(After(es, bodies)) /\ Len(After(es, bodies)) = Len(bodies)
         /\ \A i \in DOMAIN bodies : After(es, bodies)[i].body = bodies[i]
         /\ IsLedger(Joined(es, After(es, bodies)))
         /\ ChainVerifies(Joined(es, After(es, bodies)))
<1> DEFINE m == Len(es)
           n == Len(bodies)
           raw == [i \in 1 .. n |-> Entry(m + i - 1, bodies[i])]
           head == Trail(es, m)
           fs == After(es, bodies)
           ws == Joined(es, fs)
<1>1. /\ m \in Nat /\ DOMAIN es = 1 .. m /\ IsSeq(es)
      /\ n \in Nat /\ DOMAIN bodies = 1 .. n
  BY SeqIsIndexed DEF IsLedger
<1>2. \A i \in 1 .. n : raw[i] = [seq |-> m + i - 1, prev |-> Genesis, hash |-> Genesis, body |-> bodies[i]]
  BY DEF Entry
<1>3. DOMAIN raw = 1 .. n
  OBVIOUS
<1>4. fs = [i \in 1 .. n |-> [raw[i] EXCEPT !.prev = head \o Trail(raw, i - 1),
                                            !.hash = head \o Trail(raw, i)]]
  BY <1>1, <1>3, HeadIsTrail DEF After, HashedAfter
<1> HIDE DEF raw
<1>5. ASSUME NEW i \in 1 .. n
      PROVE  fs[i] = [seq |-> m + i - 1, prev |-> head \o Trail(raw, i - 1),
                      hash |-> head \o Trail(raw, i), body |-> bodies[i]]
  <2> DEFINE prev == head \o Trail(raw, i - 1)
             hash == head \o Trail(raw, i)
             seq == m + i - 1
             body == bodies[i]
  <2>1. raw[i] = [seq |-> seq, prev |-> Genesis, hash |-> Genesis, body |-> body]
    BY <1>2
  <2>2. fs[i] = [raw[i] EXCEPT !.prev = prev, !.hash = hash]
    BY <1>4
  <2> HIDE DEF prev, hash, seq, body
  <2>3. [raw[i] EXCEPT !.prev = prev, !.hash = hash]
          = [seq |-> seq, prev |-> prev, hash |-> hash, body |-> body]
    <3>1. PICK e : e = raw[i]
      OBVIOUS
    <3>2. PICK g : g = Genesis
      OBVIOUS
    <3>3. e = [seq |-> seq, prev |-> g, hash |-> g, body |-> body]
      BY <2>1, <3>1, <3>2
    <3>4. PICK f : f = [e EXCEPT !.prev = prev]
      OBVIOUS
    <3>5. f = [seq |-> seq, prev |-> prev, hash |-> g, body |-> body]
      BY <3>3, <3>4
    <3>6. [f EXCEPT !.hash = hash] = [seq |-> seq, prev |-> prev, hash |-> hash, body |-> body]
      BY <3>5
    <3>7. [e EXCEPT !.prev = prev, !.hash = hash] = [f EXCEPT !.hash = hash]
      BY <3>4
    <3>8. QED  BY <3>1, <3>6, <3>7
  <2>4. QED  BY <2>2, <2>3 DEF prev, hash, seq, body
<1>6. fs = [i \in 1 .. n |-> fs[i]]
  BY <1>4
<1> HIDE DEF fs
<1>7. IsSeq(fs) /\ Len(fs) = n /\ DOMAIN fs = 1 .. n
  BY <1>1, <1>6, IndexedIsSeq
<1>8. \A i \in 1 .. n : fs[i].body = bodies[i] /\ IsEntry(fs[i])
  <2>1. SUFFICES ASSUME NEW i \in 1 .. n PROVE fs[i].body = bodies[i] /\ IsEntry(fs[i])
    OBVIOUS
  <2>2. PICK prev, hash : fs[i] = [seq |-> m + i - 1, prev |-> prev, hash |-> hash, body |-> bodies[i]]
    BY <1>5
  <2>3. QED  BY <2>2 DEF IsEntry
<1>9. /\ IsSeq(ws) /\ Len(ws) = m + n /\ DOMAIN ws = 1 .. m + n
      /\ \A i \in 1 .. m : ws[i] = es[i]
      /\ \A i \in 1 .. n : ws[m + i] = fs[i]
  BY <1>1, <1>7, JoinedIsSeq
<1> HIDE DEF ws
<1>10. \A i \in 1 .. m + n : (i \in 1 .. m /\ ws[i] = es[i])
                              \/ (i - m \in 1 .. n /\ i = m + (i - m) /\ ws[i] = fs[i - m])
  <2>1. SUFFICES ASSUME NEW i \in 1 .. m + n, i \notin 1 .. m
                 PROVE  i - m \in 1 .. n /\ i = m + (i - m) /\ ws[i] = fs[i - m]
    BY <1>9
  <2>2. i - m \in 1 .. n /\ i = m + (i - m)
    BY <1>1, <2>1
  <2>3. QED  BY <1>9, <2>2
<1>11. IsLedger(ws)
  <2>1. \A i \in 1 .. m : IsEntry(es[i])
    BY <1>1 DEF IsLedger
  <2>2. QED  BY <1>8, <1>9, <1>10, <2>1 DEF IsLedger
<1>12. ASSUME NEW k \in 0 .. n
       PROVE  head \o Trail(raw, k) = Trail(ws, m + k)
  <2>1. \A i \in 1 .. m : ws[i].seq = es[i].seq /\ ws[i].body = es[i].body
    BY <1>9
  <2>2. \A i \in 1 .. k : i \in 1 .. n
    BY <1>1
  <2>3. \A i \in 1 .. n : ws[m + i].seq = raw[i].seq /\ ws[m + i].body = raw[i].body
    <3>1. SUFFICES ASSUME NEW i \in 1 .. n
                   PROVE  ws[m + i].seq = raw[i].seq /\ ws[m + i].body = raw[i].body
      OBVIOUS
    <3>2. PICK prev, hash : fs[i] = [seq |-> m + i - 1, prev |-> prev, hash |-> hash, body |-> bodies[i]]
      BY <1>5
    <3>3. PICK g : raw[i] = [seq |-> m + i - 1, prev |-> g, hash |-> g, body |-> bodies[i]]
      BY <1>2
    <3>4. QED  BY <1>9, <3>2, <3>3
  <2>4. Follows(es, m, raw, k, ws)
    BY <2>1, <2>2, <2>3 DEF Follows
  <2>5. k \in Nat /\ m \in Nat
    BY <1>1
  <2>6. Joined(head, Trail(raw, k)) = Trail(ws, m + k)
    BY <2>4, <2>5, TrailJoined
  <2>7. IsSeq(head) /\ IsSeq(Trail(raw, k))
    BY <2>5, TrailIsSeq
  <2>8. head \o Trail(raw, k) = Joined(head, Trail(raw, k))
    <3> HIDE DEF head
    <3>1. QED  BY <2>7, Concatenated
  <2>9. QED  BY <2>6, <2>8
<1>13. Formed(ws)
  <2>1. SUFFICES ASSUME NEW i \in 1 .. m + n
                 PROVE  ws[i].seq = i - 1 /\ ws[i].prev = Trail(ws, i - 1) /\ ws[i].hash = Trail(ws, i)
    BY <1>9 DEF Formed
  <2>2. CASE i \in 1 .. m
    <3>1. es[i].seq = i - 1 /\ es[i].prev = Trail(es, i - 1) /\ es[i].hash = Trail(es, i)
      BY <1>1, <2>2, VerifiesFormed DEF Formed
    <3>2. \A j \in 1 .. i : j \in 1 .. m
      BY <1>1, <2>2
    <3>3. Trail(es, i) = Trail(ws, i)
      BY <1>9, <3>2 DEF Trail
    <3>4. \A j \in 1 .. i - 1 : j \in 1 .. m
      BY <1>1, <2>2
    <3>5. Trail(es, i - 1) = Trail(ws, i - 1)
      BY <1>9, <3>4 DEF Trail
    <3>6. QED  BY <1>9, <2>2, <3>1, <3>3, <3>5
  <2>3. CASE i \notin 1 .. m
    <3>1. PICK k : k = i - m
      OBVIOUS
    <3>2. k \in 1 .. n /\ i = m + k /\ ws[i] = fs[k]
      BY <1>10, <2>3, <3>1
    <3>3. k \in 0 .. n /\ k - 1 \in 0 .. n /\ m + (k - 1) = i - 1 /\ m + k - 1 = i - 1
      BY <1>1, <3>2
    <3>4. head \o Trail(raw, k) = Trail(ws, i) /\ head \o Trail(raw, k - 1) = Trail(ws, i - 1)
      BY <1>12, <3>2, <3>3
    <3>5. fs[k] = [seq |-> i - 1, prev |-> Trail(ws, i - 1), hash |-> Trail(ws, i), body |-> bodies[k]]
      BY <1>5, <3>2, <3>3, <3>4
    <3>6. QED  BY <3>2, <3>5
  <2>4. QED  BY <2>2, <2>3
<1>14. ChainVerifies(ws)
  BY <1>9, <1>13, FormedVerifies
<1>15. IsLedger(fs)
  BY <1>7, <1>8 DEF IsLedger
<1>16. QED  BY <1>1, <1>7, <1>8, <1>11, <1>14, <1>15 DEF fs, ws

LEMMA ChainedVerifies ==
  ASSUME NEW bodies, IsSeq(bodies)
  PROVE  /\ IsLedger(Chained(bodies)) /\ ChainVerifies(Chained(bodies))
         /\ Len(Chained(bodies)) = Len(bodies)
         /\ \A i \in DOMAIN bodies : Chained(bodies)[i].body = bodies[i]
<1>1. PICK none : none = <<>>
  OBVIOUS
<1>2. IsSeq(none) /\ Len(none) = 0 /\ DOMAIN none = {}
  <2>1. none \in Seq(Range(none))
    BY <1>1, EmptySeq
  <2>2. Len(none) = 0
    BY <1>1, <2>1, EmptySeq
  <2>3. DOMAIN none = 1 .. 0 /\ 1 .. 0 = {}
    BY <2>1, <2>2, LenProperties
  <2>4. QED  BY <2>1, <2>2, <2>3 DEF IsSeq
<1>3. IsLedger(none) /\ ChainVerifies(none)
  BY <1>2 DEF IsLedger, ChainVerifies
<1>4. Len(bodies) \in Nat /\ DOMAIN bodies = 1 .. Len(bodies)
  BY SeqIsIndexed
<1>5. After(none, bodies) = Chained(bodies)
  <2>1. HeadHash(none) = Genesis
    BY <1>1 DEF HeadHash
  <2>2. \A i \in DOMAIN bodies : Len(none) + i - 1 = i - 1
    BY <1>2, <1>4
  <2>3. [i \in DOMAIN bodies |-> Entry(Len(none) + i - 1, bodies[i])]
          = [i \in DOMAIN bodies |-> Entry(i - 1, bodies[i])]
    BY <2>2
  <2>4. QED  BY <2>1, <2>3 DEF After, Chained, Rehashed
<1>6. /\ IsLedger(After(none, bodies)) /\ Len(After(none, bodies)) = Len(bodies)
      /\ \A i \in DOMAIN bodies : After(none, bodies)[i].body = bodies[i]
      /\ ChainVerifies(Joined(none, After(none, bodies)))
  BY <1>3, AfterIs
<1>7. Joined(none, Chained(bodies)) = Chained(bodies)
  <2> DEFINE c == Chained(bodies)
             j == Joined(none, c)
  <2>1. IsSeq(c) /\ Len(c) = Len(bodies)
    BY <1>5, <1>6 DEF IsLedger
  <2> HIDE DEF c
  <2>2. /\ IsSeq(j) /\ Len(j) = 0 + Len(c)
        /\ \A i \in 1 .. Len(c) : j[0 + i] = c[i]
    BY <1>2, <2>1, JoinedIsSeq
  <2> HIDE DEF j
  <2>3. Len(j) = Len(c) /\ DOMAIN j = 1 .. Len(c)
    BY <1>4, <2>1, <2>2, SeqIsIndexed
  <2>4. \A i \in 1 .. Len(c) : 0 + i = i
    BY <1>4, <2>1
  <2>5. QED  BY <2>1, <2>2, <2>3, <2>4, SeqsEqual DEF c, j
<1>8. QED  BY <1>5, <1>6, <1>7

-----------------------------------------------------------------------------
(* The elements of a sequence that are in a set *)

(* f gives the positions among the first n of s of the elements of es,     *)
(* which are those in keep.                                                *)
Picks(f, es, s, n, keep) ==
  /\ IsSeq(es)
  /\ \A k \in 1 .. Len(es) : f[k] \in 1 .. n /\ es[k] = s[f[k]] /\ s[f[k]] \in keep
  /\ \A j, k \in 1 .. Len(es) : j < k => f[j] < f[k]
  /\ \A i \in 1 .. n : s[i] \in keep => \E k \in 1 .. Len(es) : f[k] = i

LEMMA OneMorePicked ==
  ASSUME NEW f, NEW es, NEW s, NEW n \in Nat, NEW keep, Picks(f, es, s, n, keep),
         s[n + 1] \in keep
  PROVE  \E g : Picks(g, Append(es, s[n + 1]), s, n + 1, keep)
<1> DEFINE m == Len(es)
           e == s[n + 1]
           fs == Append(es, e)
<1>1. m \in Nat /\ IsSeq(es)
  BY SeqIsIndexed DEF Picks
<1>2. /\ IsSeq(fs) /\ Len(fs) = m + 1
      /\ fs = [i \in 1 .. m + 1 |-> IF i <= m THEN es[i] ELSE e]
  BY <1>1, Appended
<1> HIDE DEF fs
<1>3. PICK g : g = [k \in 1 .. m + 1 |-> IF k <= m THEN f[k] ELSE n + 1]
  OBVIOUS
<1>4. ASSUME NEW k \in 1 .. m + 1
      PROVE  /\ k <= m => /\ k \in 1 .. m /\ g[k] = f[k] /\ fs[k] = es[k] /\ f[k] \in 1 .. n
                          /\ es[k] = s[f[k]] /\ s[f[k]] \in keep
             /\ ~(k <= m) => k = m + 1 /\ g[k] = n + 1 /\ fs[k] = e
  <2>1. CASE k <= m
    <3>1. k \in 1 .. m
      BY <1>1, <2>1
    <3>2. QED  BY <1>2, <1>3, <2>1, <3>1 DEF Picks
  <2>2. CASE ~(k <= m)
    BY <1>1, <1>2, <1>3, <2>2
  <2>3. QED  BY <2>1, <2>2
<1>5. \A k \in 1 .. m + 1 : g[k] \in 1 .. n + 1 /\ fs[k] = s[g[k]] /\ s[g[k]] \in keep
  <2>1. SUFFICES ASSUME NEW k \in 1 .. m + 1
                 PROVE  g[k] \in 1 .. n + 1 /\ fs[k] = s[g[k]] /\ s[g[k]] \in keep
    OBVIOUS
  <2>2. CASE k <= m
    BY <1>4, <2>2
  <2>3. CASE ~(k <= m)
    BY <1>4, <2>3
  <2>4. QED  BY <2>2, <2>3
<1>6. ASSUME NEW j \in 1 .. m + 1, NEW k \in 1 .. m + 1, j < k
      PROVE  g[j] < g[k]
  <2>1. j <= m
    BY <1>1, <1>6
  <2>2. CASE k <= m
    <3>1. f[j] < f[k]
      BY <1>4, <1>6, <2>1, <2>2 DEF Picks
    <3>2. QED  BY <1>4, <2>1, <2>2, <3>1
  <2>3. CASE ~(k <= m)
    BY <1>4, <2>1, <2>3
  <2>4. QED  BY <2>2, <2>3
<1>7. ASSUME NEW i \in 1 .. n + 1, s[i] \in keep
      PROVE  \E k \in 1 .. m + 1 : g[k] = i
  <2>1. CASE i \in 1 .. n
    <3>1. PICK k \in 1 .. m : f[k] = i
      BY <1>7, <2>1 DEF Picks
    <3>2. k \in 1 .. m + 1 /\ k <= m
      BY <1>1
    <3>3. QED  BY <1>4, <3>1, <3>2
  <2>2. CASE i \notin 1 .. n
    <3>1. i = n + 1 /\ m + 1 \in 1 .. m + 1 /\ ~(m + 1 <= m)
      BY <1>1, <2>2
    <3>2. QED  BY <1>4, <3>1
  <2>3. QED  BY <2>1, <2>2
<1>8. Picks(g, fs, s, n + 1, keep)
  BY <1>2, <1>5, <1>6, <1>7 DEF Picks
<1>9. QED  BY <1>8 DEF fs

LEMMA AmongPicks ==
  ASSUME NEW s, NEW keep, IsSeq(s)
  PROVE  \E f : Picks(f, Among(s, keep), s, Len(s), keep)
<1> DEFINE At(kept, i) == IF i = 0 THEN <<>>
                          ELSE IF s[i] \in keep THEN Append(kept[i - 1], s[i]) ELSE kept[i - 1]
           Is(kept, n) == kept = [i \in 0 .. n |-> At(kept, i)]
           all == CHOOSE kept : Is(kept, Len(s))
           bad == {n \in 0 .. Len(s) : ~\E kept : Is(kept, n)}
           worse == {n \in 0 .. Len(s) : ~\E f : Picks(f, all[n], s, n, keep)}
<1>0. Len(s) \in Nat
  BY SeqIsIndexed
<1>1. bad = {}
  <2>1. SUFFICES ASSUME bad # {} PROVE FALSE
    OBVIOUS
  <2>2. PICK n \in bad : \A k \in bad : n <= k
    <3>1. bad \subseteq Nat
      BY <1>0
    <3> HIDE DEF bad
    <3>2. QED  BY <2>1, <3>1, LeastNumber
  <2>3. n \in Nat /\ n <= Len(s)
    BY <1>0
  <2>4. n # 0
    <3>1. PICK kept : kept = [i \in 0 .. 0 |-> <<>>]
      OBVIOUS
    <3>2. \A i \in 0 .. 0 : At(kept, i) = <<>>
      OBVIOUS
    <3>3. Is(kept, 0)
      <4> HIDE DEF At
      <4>1. QED  BY <3>1, <3>2
    <3> HIDE DEF Is
    <3>4. QED  BY <2>2, <3>3
  <2>5. n - 1 \in 0 .. Len(s) /\ ~(n <= n - 1)
    BY <1>0, <2>3, <2>4
  <2>6. PICK kept : Is(kept, n - 1)
    <3> HIDE DEF Is
    <3>1. QED  BY <2>2, <2>5
  <2>7. PICK more : more = [i \in 0 .. n |-> IF i = n THEN At(kept, n) ELSE kept[i]]
    OBVIOUS
  <2>8. ASSUME NEW i \in 0 .. n
        PROVE  more[i] = At(more, i)
    <3>1. i # 0 => i - 1 \in 0 .. n /\ i - 1 # n
      BY <2>3
    <3>2. i # 0 => more[i - 1] = kept[i - 1]
      BY <2>7, <3>1
    <3>3. At(more, i) = At(kept, i)
      BY <3>2
    <3>4. CASE i = n
      <4> HIDE DEF At
      <4>1. QED  BY <2>7, <3>3, <3>4
    <3>5. CASE i # n
      <4>1. i \in 0 .. n - 1
        BY <2>3, <3>5
      <4>2. kept[i] = At(kept, i)
        <5> HIDE DEF At
        <5>1. QED  BY <2>6, <4>1
      <4>3. more[i] = kept[i]
        BY <2>7, <3>5
      <4> HIDE DEF At
      <4>4. QED  BY <3>3, <4>2, <4>3
    <3>6. QED  BY <3>4, <3>5
  <2>9. Is(more, n)
    <3> HIDE DEF At
    <3>1. QED  BY <2>7, <2>8
  <2> HIDE DEF Is
  <2>10. QED  BY <2>2, <2>9
<1>2. Is(all, Len(s))
  <2>1. \E kept : Is(kept, Len(s))
    <3>1. Len(s) \in 0 .. Len(s)
      BY <1>0
    <3> HIDE DEF Is
    <3>2. QED  BY <1>1, <3>1
  <2> HIDE DEF Is
  <2>2. QED  BY <2>1
<1>3. Among(s, keep) = all[Len(s)]
  BY DEF Among
<1> HIDE DEF all
<1>4. \A n \in 0 .. Len(s) : all[n] = At(all, n)
  <2> HIDE DEF At
  <2>1. QED  BY <1>2
<1>5. worse = {}
  <2>1. SUFFICES ASSUME worse # {} PROVE FALSE
    OBVIOUS
  <2>2. PICK n \in worse : \A k \in worse : n <= k
    <3>1. worse \subseteq Nat
      BY <1>0
    <3> HIDE DEF worse
    <3>2. QED  BY <2>1, <3>1, LeastNumber
  <2>3. n \in Nat /\ n <= Len(s) /\ n \in 0 .. Len(s)
    BY <1>0
  <2>4. n # 0
    <3>1. SUFFICES ASSUME n = 0 PROVE FALSE
      OBVIOUS
    <3>2. all[0] = <<>>
      BY <1>4, <2>3, <3>1
    <3>3. 1 .. 0 = {}
      OBVIOUS
    <3>4. PICK none : none = all[0]
      OBVIOUS
    <3>5. none = <<>>
      BY <3>2, <3>4
    <3>6. none \in Seq(Range(none)) /\ Len(none) = 0
      BY <3>5, EmptySeq
    <3>7. Picks(<<>>, all[0], s, 0, keep)
      BY <3>3, <3>4, <3>6 DEF Picks, IsSeq
    <3>8. QED  BY <2>2, <3>1, <3>7
  <2>5. PICK k : k = n - 1
    OBVIOUS
  <2>6. k \in Nat /\ k \in 0 .. Len(s) /\ ~(n <= k) /\ n = k + 1
    BY <1>0, <2>3, <2>4, <2>5
  <2>7. PICK f : Picks(f, all[k], s, k, keep)
    BY <2>2, <2>6
  <2>8. all[n] = IF s[n] \in keep THEN Append(all[k], s[n]) ELSE all[k]
    BY <1>4, <2>3, <2>4, <2>5
  <2>9. CASE s[n] \in keep
    <3>1. s[k + 1] \in keep /\ all[n] = Append(all[k], s[k + 1])
      BY <2>6, <2>8, <2>9
    <3>2. \E g : Picks(g, all[n], s, k + 1, keep)
      BY <2>6, <2>7, <3>1, OneMorePicked
    <3>3. QED  BY <2>2, <2>6, <3>2
  <2>10. CASE s[n] \notin keep
    <3>1. all[n] = all[k]
      BY <2>8, <2>10
    <3>2. \A i \in 1 .. n : i \in 1 .. k \/ i = n
      BY <2>6
    <3>3. \A i \in 1 .. k : i \in 1 .. n
      BY <2>6
    <3>4. Picks(f, all[n], s, n, keep)
      BY <2>7, <2>10, <3>1, <3>2, <3>3 DEF Picks
    <3>5. QED  BY <2>2, <3>4
  <2>11. QED  BY <2>9, <2>10
<1>6. Len(s) \in 0 .. Len(s)
  BY <1>0
<1>7. QED  BY <1>3, <1>5, <1>6

-----------------------------------------------------------------------------
(* The scopes of a project *)

IsScope(s) == IsSeq(s) /\ s # <<>>
AreScopes(S) == \A s \in S : IsScope(s)

LEMMA SeqIsSeq ==
  ASSUME NEW S, NEW s \in Seq(S)
  PROVE  IsSeq(s)
BY LenProperties, IndexedIsSeq

LEMMA AppendedScope ==
  ASSUME NEW s, NEW e, IsSeq(s)
  PROVE  IsScope(Append(s, e))
<1>1. PICK t : t = Append(s, e)
  OBVIOUS
<1>2. IsSeq(t) /\ Len(t) = Len(s) + 1 /\ Len(s) \in Nat
  BY <1>1, Appended, SeqIsIndexed
<1>3. t # <<>>
  BY <1>2, EmptySeq
<1>4. QED  BY <1>1, <1>2, <1>3 DEF IsScope

LEMMA ShortScope ==
  ASSUME NEW x, NEW y
  PROVE  IsScope(<<x, y>>)
<1>1. PICK s : s = <<x, y>>
  OBVIOUS
<1>2. PICK S : S = {x, y}
  OBVIOUS
<1>3. x \in S /\ y \in S
  BY <1>2
<1>4. s \in Seq(S) /\ s # <<>>
  BY <1>1, <1>3
<1>5. QED  BY <1>1, <1>4, SeqIsSeq DEF IsScope

LEMMA LongerScope ==
  ASSUME NEW x, NEW y, NEW z
  PROVE  IsScope(<<x, y, z>>)
<1>1. PICK s : s = <<x, y, z>>
  OBVIOUS
<1>2. PICK S : S = {x, y, z}
  OBVIOUS
<1>3. x \in S /\ y \in S /\ z \in S
  BY <1>2
<1>4. s \in Seq(S) /\ s # <<>>
  BY <1>1, <1>3
<1>5. QED  BY <1>1, <1>4, SeqIsSeq DEF IsScope

LEMMA RuleScopes ==
  ASSUME NEW rules, AreRules(rules)
  PROVE  AreScopes(ScopesFor(rules))
<1> SUFFICES ASSUME NEW rule \in rules
             PROVE  AreScopes(ScopesForDeclaration(rule))
  BY DEF ScopesFor, AreScopes
<1>1. IsScope(rule.name)
  BY SeqIsSeq DEF AreRules, IsScope
<1>2. IsScope(McpScope(rule.name))
  BY <1>1, AppendedScope DEF McpScope, IsScope
<1>3. IsScope(<<"agent", "delegate", "*">>) /\ \A a \in rule.args : IsScope(<<"agent", "delegate", a>>)
  BY LongerScope
<1>4. IsScope(ScopeOfName(rule.name[1]))
  BY ShortScope DEF ScopeOfName
<1>5. AreScopes({<<"agent", "delegate", a>> : a \in rule.args})
  BY <1>3 DEF AreScopes
<1>6. ASSUME NEW s \in ScopesForDeclaration(rule)
      PROVE  IsScope(s)
  <2>1. \/ s = McpScope(rule.name) \/ s = <<"agent", "delegate", "*">>
        \/ s \in {<<"agent", "delegate", a>> : a \in rule.args} \/ s = ScopeOfName(rule.name[1])
    BY <1>6 DEF ScopesForDeclaration
  <2>2. QED  BY <1>2, <1>3, <1>4, <1>5, <2>1 DEF AreScopes
<1>7. QED  BY <1>6 DEF AreScopes

LEMMA ProjectScopes ==
  ASSUME NEW r, IsProject(r)
  PROVE  /\ AreScopes(RootScopes(r))
         /\ \A n \in DOMAIN r.agents : AreScopes(AgentScopes(r, n))
<1>1. AreScopes(ScopesFor(r.allow))
  <2>1. AreRules(r.allow)
    BY DEF IsProject, AreRules
  <2>2. QED  BY <2>1, RuleScopes
<1>2. ASSUME NEW n \in DOMAIN r.agents, NEW pool, AreScopes(pool)
      PROVE  AreScopes(ResolveAgentScopes(r.agents[n], pool))
  <2>1. r.agents[n].tools = Inherits \/ AreScopes(ScopesFor(r.agents[n].tools))
    BY RuleScopes DEF IsProject
  <2>2. PICK given : given = IF r.agents[n].tools = Inherits THEN pool
                             ELSE ScopesFor(r.agents[n].tools)
    OBVIOUS
  <2>3. AreScopes(given)
    BY <1>2, <2>1, <2>2
  <2>4. ResolveAgentScopes(r.agents[n], pool) = Subtract(given, ScopesFor(r.agents[n].disallowed))
    BY <2>2 DEF ResolveAgentScopes
  <2>5. QED  BY <2>3, <2>4 DEF Subtract, AreScopes
<1>3. AreScopes(RootScopes(r))
  <2>1. AreScopes({})
    BY DEF AreScopes
  <2>2. \A n \in DOMAIN r.agents : AreScopes(ResolveAgentScopes(r.agents[n], {}))
    BY <1>2, <2>1
  <2>3. PICK given : given = {<<"agent", "delegate", n>> : n \in DOMAIN r.agents}
    OBVIOUS
  <2>4. PICK own : own = UNION {ResolveAgentScopes(r.agents[n], {}) : n \in DOMAIN r.agents}
    OBVIOUS
  <2>5. PICK all : all = ScopesFor(r.allow) \cup own \cup given
    OBVIOUS
  <2>6. AreScopes(given) /\ AreScopes(own)
    <3>1. AreScopes({<<"agent", "delegate", n>> : n \in DOMAIN r.agents})
      BY LongerScope DEF AreScopes
    <3>2. AreScopes(UNION {ResolveAgentScopes(r.agents[n], {}) : n \in DOMAIN r.agents})
      BY <2>2 DEF AreScopes
    <3>3. QED  BY <2>3, <2>4, <3>1, <3>2
  <2>7. AreScopes(all)
    BY <1>1, <2>5, <2>6 DEF AreScopes
  <2>8. RootScopes(r) = Subtract(all, ScopesFor(r.deny))
    <3>1. all = ScopesFor(r.allow)
                  \cup (UNION {ResolveAgentScopes(r.agents[n], {}) : n \in DOMAIN r.agents})
                  \cup {<<"agent", "delegate", n>> : n \in DOMAIN r.agents}
      BY <2>3, <2>4, <2>5, Zenon
    <3>2. QED  BY <3>1, Zenon DEF RootScopes
  <2>9. QED  BY <2>7, <2>8 DEF AreScopes, Subtract
<1>4. \A n \in DOMAIN r.agents : AreScopes(AgentScopes(r, n))
  BY <1>2, <1>3 DEF AgentScopes, Subtract, AreScopes
<1>5. QED  BY <1>3, <1>4

LEMMA FrontOf ==
  ASSUME NEW s, IsScope(s)
  PROVE  /\ Len(s) \in Nat /\ Len(s) # 0 /\ IsSeq(Front(s)) /\ Len(Front(s)) = Len(s) - 1
         /\ \A i \in 1 .. Len(s) - 1 : Front(s)[i] = s[i]
<1>1. Len(s) \in Nat /\ Len(s) # 0 /\ IsSeq(s)
  BY SeqIsIndexed, EmptySeq DEF IsScope, IsSeq
<1>2. Len(s) - 1 \in 0 .. Len(s)
  BY <1>1
<1>3. Front(s) = SubSeq(s, 1, Len(s) - 1)
  BY DEF Front
<1>4. /\ IsSeq(SubSeq(s, 1, Len(s) - 1)) /\ Len(SubSeq(s, 1, Len(s) - 1)) = Len(s) - 1
      /\ SubSeq(s, 1, Len(s) - 1) = [i \in 1 .. Len(s) - 1 |-> s[i]]
  BY <1>1, <1>2, Prefix
<1>5. QED  BY <1>1, <1>3, <1>4

(* A wildcard, by the parts before the star. *)
LEMMA CoversIs ==
  ASSUME NEW p, NEW s, IsScope(p), IsScope(s)
  PROVE  Covers(p, s) <=>
           \/ p = s
           \/ /\ Last(p) = "*" /\ Len(s) >= Len(p)
              /\ \A i \in 1 .. Len(p) - 1 : p[i] = s[i]
<1>1. Len(p) \in Nat /\ Len(p) # 0 /\ Len(s) \in Nat
  BY FrontOf
<1>2. SUFFICES ASSUME Len(s) >= Len(p)
               PROVE  IsPrefix(Front(p), s) <=> \A i \in 1 .. Len(p) - 1 : p[i] = s[i]
  BY <1>2 DEF Covers
<1>3. PICK f : f = Front(p)
  OBVIOUS
<1>4. PICK k : k = Len(p) - 1
  OBVIOUS
<1>5. k \in Nat /\ k <= Len(s) /\ k \in 0 .. Len(s) /\ k \in 0 .. k
  BY <1>1, <1>2, <1>4
<1>6. IsSeq(f) /\ IsSeq(s) /\ Len(f) = k /\ \A i \in 1 .. k : f[i] = p[i]
  BY <1>3, <1>4, FrontOf DEF IsScope
<1>7. SubSeq(s, 1, k) = [i \in 1 .. k |-> s[i]] /\ SubSeq(f, 1, k) = [i \in 1 .. k |-> f[i]]
  BY <1>5, <1>6, Prefix
<1>8. IsPrefix(f, s) <=> SubSeq(f, 1, k) = SubSeq(s, 1, k)
  BY <1>5, <1>6 DEF IsPrefix
<1>9. SubSeq(f, 1, k) = SubSeq(s, 1, k) <=> \A i \in 1 .. k : p[i] = s[i]
  <2>1. SubSeq(f, 1, k) = [i \in 1 .. k |-> p[i]]
    BY <1>6, <1>7
  <2>2. ASSUME [i \in 1 .. k |-> p[i]] = [i \in 1 .. k |-> s[i]], NEW i \in 1 .. k
        PROVE  p[i] = s[i]
    <3>1. PICK a : a = [j \in 1 .. k |-> p[j]]
      OBVIOUS
    <3>2. a[i] = p[i] /\ a[i] = s[i]
      BY <2>2, <3>1
    <3>3. QED  BY <3>2
  <2>3. (\A i \in 1 .. k : p[i] = s[i]) => [i \in 1 .. k |-> p[i]] = [i \in 1 .. k |-> s[i]]
    OBVIOUS
  <2>4. QED  BY <1>7, <2>1, <2>2, <2>3
<1>10. QED  BY <1>3, <1>4, <1>8, <1>9

LEMMA CoversTransitive ==
  ASSUME NEW p, NEW s, NEW a, IsScope(p), IsScope(s), IsScope(a), Covers(p, s), Covers(s, a)
  PROVE  Covers(p, a)
<1>1. Len(p) \in Nat /\ Len(s) \in Nat /\ Len(a) \in Nat
  BY FrontOf
<1>2. CASE p = s \/ s = a
  BY <1>2
<1>3. CASE ~(p = s \/ s = a)
  <2>1. /\ Last(p) = "*" /\ Len(s) >= Len(p) /\ \A i \in 1 .. Len(p) - 1 : p[i] = s[i]
        /\ Len(a) >= Len(s) /\ \A i \in 1 .. Len(s) - 1 : s[i] = a[i]
    BY <1>3, CoversIs
  <2>2. \A i \in 1 .. Len(p) - 1 : i \in 1 .. Len(s) - 1
    BY <1>1, <2>1
  <2>3. Len(a) >= Len(p) /\ \A i \in 1 .. Len(p) - 1 : p[i] = a[i]
    BY <1>1, <2>1, <2>2
  <2>4. QED  BY <2>1, <2>3, CoversIs
<1>4. QED  BY <1>2, <1>3

(* What an agent holds, it and the session were given. *)
LEMMA HeldIsWithin ==
  ASSUME NEW r \in DOMAIN Declared, NEW n \in Agents[r], NEW a \in Held[r][n]
  PROVE  /\ a \in Session[r] /\ a \in Acts
         /\ PermitsScope(AgentScopes(Declared[r], n), a)
<1> DEFINE d == Declared[r]
           own == AgentScopes(d, n)
           all == RootScopes(d)
<1>1. IsProject(d) /\ n \in DOMAIN d.agents
  BY DeclaredAssumption DEF Agents
<1>2. AreScopes(own) /\ AreScopes(all)
  BY <1>1, ProjectScopes
<1>3. a \in Acts /\ PermitsScope(HeldScopes(d, n), a)
  BY <1>1 DEF Held, ActsWithin, Agents
<1>4. IsScope(a)
  BY <1>3, ActsAssumption, SeqIsSeq DEF IsScope
<1>5. PICK s \in HeldScopes(d, n) : Covers(s, a)
  BY <1>3 DEF PermitsScope
<1> HIDE DEF own, all
<1>6. /\ IsScope(s)
      /\ \E p \in own : IsScope(p) /\ Covers(p, s)
      /\ \E p \in all : IsScope(p) /\ Covers(p, s)
  <2>1. Covers(s, s)
    BY DEF Covers
  <2>2. \/ s \in own /\ \E p \in all : Covers(p, s)
        \/ s \in all /\ \E p \in own : Covers(p, s)
    BY <1>5 DEF HeldScopes, PermitsScope, own, all
  <2>3. QED  BY <1>2, <2>1, <2>2 DEF AreScopes
<1>7. PermitsScope(own, a) /\ PermitsScope(all, a)
  BY <1>4, <1>5, <1>6, CoversTransitive DEF PermitsScope
<1>8. a \in Session[r]
  BY <1>3, <1>7 DEF Session, ActsWithin, all
<1>9. QED  BY <1>3, <1>7, <1>8 DEF own

-----------------------------------------------------------------------------
(* What a hook process writes *)

Root(r) == [Body(r) EXCEPT !.auth = Session[r]]
Spawn(r, n) == [Body(r) EXCEPT !.event = "spawn", !.node = n, !.auth = Held[r][n]]
IsBodyOf(b, r) ==
  \/ b = Root(r)
  \/ \E n \in Agents[r] : b = Spawn(r, n)
  \/ \E call \in Calls, p \in Procs : call.event = "PreToolUse" /\ b = Decision(r, call, p)

(* What all of them have. *)
Common(b, r) ==
  /\ b.v = 1 /\ b.chain = ChainId[r] /\ b.parent = "" /\ b.revoked = {}
  /\ b.members = {} /\ b.malformed = {}

LEMMA RootIs ==
  ASSUME NEW r
  PROVE  /\ Common(Root(r), r) /\ Root(r).event = "root" /\ Root(r).node = ""
         /\ Root(r).auth = Session[r] /\ Root(r).call = NoOne
<1>1. PICK b : b = Body(r)
  OBVIOUS
<1>2. PICK chain : chain = ChainId[r]
  OBVIOUS
<1>3. b = [v |-> 1, chain |-> chain, event |-> "root", node |-> "", parent |-> "", auth |-> {},
           act |-> <<>>, call |-> NoOne, revoked |-> {}, state |-> "", params |-> "",
           members |-> {}, malformed |-> {}]
  BY <1>1, <1>2 DEF Body
<1>4. PICK auth : auth = Session[r]
  OBVIOUS
<1>5. PICK c : c = [b EXCEPT !.auth = auth]
  OBVIOUS
<1>6. /\ c.v = 1 /\ c.chain = chain /\ c.parent = "" /\ c.revoked = {}
      /\ c.members = {} /\ c.malformed = {}
      /\ c.event = "root" /\ c.node = "" /\ c.auth = auth /\ c.call = NoOne
  BY <1>3, <1>5
<1>7. Root(r) = c
  BY <1>1, <1>4, <1>5 DEF Root
<1>8. QED  BY <1>2, <1>4, <1>6, <1>7 DEF Common

LEMMA SpawnIs ==
  ASSUME NEW r, NEW n
  PROVE  /\ Common(Spawn(r, n), r) /\ Spawn(r, n).event = "spawn" /\ Spawn(r, n).node = n
         /\ Spawn(r, n).auth = Held[r][n] /\ Spawn(r, n).call = NoOne
<1>1. PICK b : b = Body(r)
  OBVIOUS
<1>2. PICK chain : chain = ChainId[r]
  OBVIOUS
<1>3. b = [v |-> 1, chain |-> chain, event |-> "root", node |-> "", parent |-> "", auth |-> {},
           act |-> <<>>, call |-> NoOne, revoked |-> {}, state |-> "", params |-> "",
           members |-> {}, malformed |-> {}]
  BY <1>1, <1>2 DEF Body
<1>4. PICK auth : auth = Held[r][n]
  OBVIOUS
<1>5. PICK c : c = [b EXCEPT !.event = "spawn", !.node = n, !.auth = auth]
  OBVIOUS
<1>6. /\ c.v = 1 /\ c.chain = chain /\ c.parent = "" /\ c.revoked = {}
      /\ c.members = {} /\ c.malformed = {}
      /\ c.event = "spawn" /\ c.node = n /\ c.auth = auth /\ c.call = NoOne
  BY <1>3, <1>5
<1>7. Spawn(r, n) = c
  BY <1>1, <1>4, <1>5 DEF Spawn
<1>8. QED  BY <1>2, <1>4, <1>6, <1>7 DEF Common

DecisionNode(r, call, node) ==
  IF call.agent \in Agents[r] THEN node = call.agent ELSE node = ""

(* All of it at once is more than the provers instantiate. *)
LEMMA DecisionParts ==
  ASSUME NEW r, NEW call, NEW p
  PROVE  /\ Common(Decision(r, call, p), r)
         /\ Decision(r, call, p).event = IF Allowed(r, call) THEN "allow" ELSE "deny"
         /\ DecisionNode(r, call, Decision(r, call, p).node)
         /\ Decision(r, call, p).act = ScopeForTool(call.tool, call.target)
         /\ Decision(r, call, p).call = p
<1>1. PICK b : b = Body(r)
  OBVIOUS
<1>2. PICK chain : chain = ChainId[r]
  OBVIOUS
<1>3. b = [v |-> 1, chain |-> chain, event |-> "root", node |-> "", parent |-> "", auth |-> {},
           act |-> <<>>, call |-> NoOne, revoked |-> {}, state |-> "", params |-> "",
           members |-> {}, malformed |-> {}]
  BY <1>1, <1>2 DEF Body
<1>4. PICK event : event = IF Allowed(r, call) THEN "allow" ELSE "deny"
  OBVIOUS
<1>5. PICK node : node = IF call.agent \in Agents[r] THEN call.agent ELSE ""
  OBVIOUS
<1>6. PICK act : act = ScopeForTool(call.tool, call.target)
  OBVIOUS
<1>7. PICK c : c = [b EXCEPT !.event = event, !.node = node, !.act = act, !.call = p]
  OBVIOUS
<1>8. /\ c.v = 1 /\ c.chain = chain /\ c.parent = "" /\ c.revoked = {}
      /\ c.members = {} /\ c.malformed = {}
      /\ c.event = event /\ c.node = node /\ c.act = act /\ c.call = p
  BY <1>3, <1>7
<1>9. Decision(r, call, p) = c
  BY <1>1, <1>4, <1>5, <1>6, <1>7 DEF Decision
<1>10. DecisionNode(r, call, node)
  BY <1>5 DEF DecisionNode
<1>11. QED  BY <1>2, <1>4, <1>6, <1>8, <1>9, <1>10 DEF Common

LEMMA DecisionIs ==
  ASSUME NEW r, NEW call, NEW p
  PROVE  /\ Common(Decision(r, call, p), r)
         /\ Allowed(r, call) => Decision(r, call, p).event = "allow"
         /\ ~Allowed(r, call) => Decision(r, call, p).event = "deny"
         /\ Decision(r, call, p).call = p
BY DecisionParts

LEMMA DecisionNodeIs ==
  ASSUME NEW r, NEW call, NEW p
  PROVE  /\ call.agent \in Agents[r] => Decision(r, call, p).node = call.agent
         /\ call.agent \notin Agents[r] => Decision(r, call, p).node = ""
<1>1. DecisionNode(r, call, Decision(r, call, p).node)
  BY DecisionParts
<1>2. QED  BY <1>1 DEF DecisionNode

LEMMA DecisionActIs ==
  ASSUME NEW r, NEW call, NEW p
  PROVE  Decision(r, call, p).act = ScopeForTool(call.tool, call.target)
BY DecisionParts

(* Derivations of one chain are the same. *)
LEMMA SameChainSameHeld ==
  ASSUME NEW r \in DOMAIN Declared, NEW q \in DOMAIN Declared, ChainId[r] = ChainId[q]
  PROVE  Session[r] = Session[q] /\ Agents[r] = Agents[q] /\ \A n \in Agents[r] : Held[r][n] = Held[q][n]
<1> DEFINE d(n) == Declared[n]
<1>1. \A m \in DOMAIN Declared : Digest(d(ChainId[m])) = Digest(d(m))
  <2>1. SUFFICES ASSUME NEW m \in DOMAIN Declared PROVE Digest(d(ChainId[m])) = Digest(d(m))
    OBVIOUS
  <2>2. ChainId[m] = CHOOSE n \in DOMAIN Declared : Digest(d(n)) = Digest(d(m))
    BY DEF ChainId
  <2>3. \E n \in DOMAIN Declared : Digest(d(n)) = Digest(d(m))
    OBVIOUS
  <2> HIDE DEF d
  <2>4. QED  BY <2>2, <2>3
<1>2. Digest(d(r)) = Digest(d(q))
  BY <1>1
<1>3. \A m : Digest(d(m)).root = RootScopes(d(m))
             /\ Digest(d(m)).agents = [n \in DOMAIN d(m).agents |-> AgentScopes(d(m), n)]
  BY DEF Digest
<1> HIDE DEF d
<1>4. RootScopes(d(r)) = RootScopes(d(q))
  BY <1>2, <1>3
<1>5. PICK f : f = Digest(d(r)).agents
  OBVIOUS
<1>6. /\ f = [n \in DOMAIN d(r).agents |-> AgentScopes(d(r), n)]
      /\ f = [n \in DOMAIN d(q).agents |-> AgentScopes(d(q), n)]
  BY <1>2, <1>3, <1>5
<1>7. DOMAIN d(r).agents = DOMAIN d(q).agents
  <2>1. DOMAIN f = DOMAIN d(r).agents
    BY <1>6
  <2>2. DOMAIN f = DOMAIN d(q).agents
    BY <1>6
  <2>3. QED  BY <2>1, <2>2
<1>8. \A n \in DOMAIN d(r).agents : AgentScopes(d(r), n) = AgentScopes(d(q), n)
  BY <1>6, <1>7
<1>9. \A n \in DOMAIN d(r).agents : HeldScopes(d(r), n) = HeldScopes(d(q), n)
  BY <1>4, <1>8 DEF HeldScopes
<1>10. Session[r] = Session[q]
  BY <1>4 DEF Session, d
<1>11. Agents[r] = DOMAIN d(r).agents /\ Agents[q] = DOMAIN d(q).agents
  BY DEF Agents, d
<1>12. \A n \in Agents[r] : Held[r][n] = Held[q][n]
  BY <1>7, <1>9, <1>11 DEF Held, d
<1>13. QED  BY <1>7, <1>10, <1>11, <1>12

LEMMA AgentsOfIs ==
  ASSUME NEW r \in DOMAIN Declared
  PROVE  /\ IsSeq(AgentsOf(Declared[r])) /\ "" \notin Agents[r]
         /\ \A i \in DOMAIN AgentsOf(Declared[r]) : AgentsOf(Declared[r])[i] \in Agents[r]
         /\ \A n \in Agents[r] : \E i \in DOMAIN AgentsOf(Declared[r]) : AgentsOf(Declared[r])[i] = n
         /\ \A i, j \in DOMAIN AgentsOf(Declared[r]) :
              AgentsOf(Declared[r])[i] = AgentsOf(Declared[r])[j] => i = j
<1>1. PICK keep : keep = Agents[r]
  OBVIOUS
<1>2. PICK es : es = AgentsOf(Declared[r])
  OBVIOUS
<1>3. es = Among(Names, keep)
  BY <1>1, <1>2 DEF Agents, AgentsOf
<1>4. IsSeq(Names)
  BY NamesAssumption, SeqIsSeq
<1>5. DOMAIN Names = 1 .. Len(Names) /\ Len(Names) \in Nat
  BY <1>4, SeqIsIndexed
<1>6. keep \subseteq ToSet(Names)
  BY <1>1, DeclaredAssumption DEF Agents, IsProject
<1>7. PICK f : Picks(f, es, Names, Len(Names), keep)
  BY <1>3, <1>4, AmongPicks
<1>8. IsSeq(es)
  BY <1>7 DEF Picks
<1>9. DOMAIN es = 1 .. Len(es) /\ Len(es) \in Nat
  BY <1>8, SeqIsIndexed
<1>10. \A i \in 1 .. Len(es) : es[i] \in keep /\ f[i] \in DOMAIN Names /\ es[i] = Names[f[i]]
  BY <1>5, <1>7 DEF Picks
<1>11. \A n \in keep : \E i \in 1 .. Len(es) : es[i] = n
  <2>1. SUFFICES ASSUME NEW n \in keep PROVE \E i \in 1 .. Len(es) : es[i] = n
    OBVIOUS
  <2>2. PICK k \in DOMAIN Names : Names[k] = n
    BY <1>6 DEF ToSet
  <2>3. PICK i \in 1 .. Len(es) : f[i] = k
    BY <1>5, <1>7, <2>2 DEF Picks
  <2>4. QED  BY <1>10, <2>2, <2>3
<1>12. ASSUME NEW i \in 1 .. Len(es), NEW j \in 1 .. Len(es), es[i] = es[j], i # j
       PROVE  FALSE
  <2>1. f[i] = f[j] /\ f[i] \in Nat
    <3>1. \A a, b \in DOMAIN Names : Names[a] = Names[b] => a = b
      BY NamesAssumption
    <3>2. f[i] \in DOMAIN Names /\ f[j] \in DOMAIN Names /\ Names[f[i]] = Names[f[j]]
      BY <1>10, <1>12
    <3>3. QED  BY <1>5, <3>1, <3>2
  <2>2. i < j \/ j < i
    BY <1>9, <1>12
  <2>3. f[i] < f[j] \/ f[j] < f[i]
    BY <1>7, <2>2 DEF Picks
  <2>4. QED  BY <2>1, <2>3
<1>13. "" \notin keep
  BY <1>6, NamesAssumption
<1>14. QED  BY <1>1, <1>2, <1>8, <1>9, <1>10, <1>11, <1>12, <1>13

LEMMA StructureIs ==
  ASSUME NEW r \in DOMAIN Declared
  PROVE  /\ IsSeq(Structure(r)) /\ Len(Structure(r)) # 0 /\ Structure(r)[1] = Root(r)
         /\ \A i \in DOMAIN Structure(r) :
              i = 1 \/ \E n \in Agents[r] : Structure(r)[i] = Spawn(r, n)
         /\ \A n \in Agents[r] : \E i \in DOMAIN Structure(r) : Structure(r)[i] = Spawn(r, n)
         /\ \A i, j \in DOMAIN Structure(r) :
              Structure(r)[i].node = Structure(r)[j].node => i = j
<1>1. PICK as : as = AgentsOf(Declared[r])
  OBVIOUS
<1>2. /\ IsSeq(as) /\ "" \notin Agents[r]
      /\ \A i \in DOMAIN as : as[i] \in Agents[r]
      /\ \A n \in Agents[r] : \E i \in DOMAIN as : as[i] = n
      /\ \A i, j \in DOMAIN as : as[i] = as[j] => i = j
  BY <1>1, AgentsOfIs
<1>3. PICK k : k = Len(as)
  OBVIOUS
<1>4. k \in Nat /\ DOMAIN as = 1 .. k
  BY <1>2, <1>3, SeqIsIndexed
<1>5. PICK root : root = Root(r)
  OBVIOUS
<1>6. PICK first : first = <<root>>
  OBVIOUS
<1>7. PICK rest : rest = [i \in 1 .. k |-> Spawn(r, as[i])]
  OBVIOUS
<1>8. PICK all : all = Structure(r)
  OBVIOUS
<1>9. all = first \o rest
  <2>1. all = <<Root(r)>> \o [i \in DOMAIN as |-> Spawn(r, as[i])]
    BY <1>1, <1>8, Zenon DEF Structure, Root, Spawn
  <2>2. [i \in DOMAIN as |-> Spawn(r, as[i])] = rest
    BY <1>4, <1>7
  <2>3. QED  BY <1>5, <1>6, <2>1, <2>2
<1>10. IsSeq(first) /\ Len(first) = 1 /\ first[1] = root
  <2>1. PICK S : S = {root}
    OBVIOUS
  <2>2. first \in Seq(S) /\ Len(first) = 1 /\ first[1] = root
    BY <1>6, <2>1
  <2>3. QED  BY <2>2, SeqIsSeq
<1>11. IsSeq(rest) /\ Len(rest) = k
  <2>1. rest = [i \in 1 .. k |-> rest[i]]
    BY <1>7
  <2>2. QED  BY <1>4, <2>1, IndexedIsSeq
<1>12. all = Joined(first, rest)
  BY <1>9, <1>10, <1>11, Concatenated
<1>13. /\ IsSeq(all) /\ Len(all) = 1 + k /\ DOMAIN all = 1 .. 1 + k /\ all[1] = root
       /\ \A i \in 1 .. k : all[1 + i] = rest[i]
  <2>0. /\ IsSeq(all) /\ Len(all) = Len(first) + Len(rest)
        /\ DOMAIN all = 1 .. Len(first) + Len(rest)
        /\ \A i \in 1 .. Len(first) : all[i] = first[i]
        /\ \A i \in 1 .. Len(rest) : all[Len(first) + i] = rest[i]
    <3>1. IsSeq(first) /\ IsSeq(rest)
      BY <1>10, <1>11
    <3>2. QED  BY <1>12, <3>1, JoinedIsSeq
  <2>1. /\ IsSeq(all) /\ Len(all) = 1 + k /\ DOMAIN all = 1 .. 1 + k
        /\ \A i \in 1 .. 1 : all[i] = first[i]
        /\ \A i \in 1 .. k : all[1 + i] = rest[i]
    BY <1>10, <1>11, <2>0
  <2>2. 1 \in 1 .. 1
    OBVIOUS
  <2>3. QED  BY <1>10, <2>1, <2>2
<1>14. \A i \in 1 .. k : all[1 + i] = Spawn(r, as[i])
  BY <1>7, <1>13
<1>15. \A i \in DOMAIN all : i = 1 \/ (i - 1 \in 1 .. k /\ i = 1 + (i - 1))
  BY <1>4, <1>13
<1>16. \A i \in DOMAIN all : i = 1 \/ \E n \in Agents[r] : all[i] = Spawn(r, n)
  <2>1. SUFFICES ASSUME NEW i \in DOMAIN all, i # 1
                 PROVE  \E n \in Agents[r] : all[i] = Spawn(r, n)
    OBVIOUS
  <2>2. PICK j \in 1 .. k : i = 1 + j
    BY <1>15, <2>1
  <2>3. QED  BY <1>2, <1>4, <1>14, <2>2
<1>17. \A n \in Agents[r] : \E i \in DOMAIN all : all[i] = Spawn(r, n)
  <2>1. SUFFICES ASSUME NEW n \in Agents[r] PROVE \E i \in DOMAIN all : all[i] = Spawn(r, n)
    OBVIOUS
  <2>2. PICK j \in 1 .. k : as[j] = n
    BY <1>2, <1>4
  <2>3. 1 + j \in DOMAIN all
    BY <1>4, <1>13
  <2>4. QED  BY <1>14, <2>2, <2>3
<1>18. \A i \in 1 .. k : all[1 + i].node = as[i] /\ as[i] # ""
  <2>1. SUFFICES ASSUME NEW i \in 1 .. k PROVE all[1 + i].node = as[i] /\ as[i] # ""
    OBVIOUS
  <2>2. PICK n : n = as[i]
    OBVIOUS
  <2>3. all[1 + i] = Spawn(r, n) /\ n \in Agents[r]
    BY <1>2, <1>4, <1>14, <2>2
  <2>4. Spawn(r, n).node = n
    BY SpawnIs
  <2>5. n # ""
    BY <1>2, <2>3
  <2>6. QED  BY <2>2, <2>3, <2>4, <2>5
<1>19. all[1].node = ""
  <2>1. Root(r).node = ""
    BY RootIs
  <2>2. QED  BY <1>5, <1>13, <2>1
<1>20. ASSUME NEW i \in DOMAIN all, NEW j \in DOMAIN all, all[i].node = all[j].node
       PROVE  i = j
  <2>1. CASE i = 1
    <3>1. j = 1
      BY <1>15, <1>18, <1>19, <1>20, <2>1
    <3>2. QED  BY <2>1, <3>1
  <2>2. CASE j = 1
    <3>1. i = 1
      BY <1>15, <1>18, <1>19, <1>20, <2>2
    <3>2. QED  BY <2>2, <3>1
  <2>3. CASE i # 1 /\ j # 1
    <3>1. PICK a \in 1 .. k : i = 1 + a
      BY <1>15, <2>3
    <3>2. PICK b \in 1 .. k : j = 1 + b
      BY <1>15, <2>3
    <3>3. as[a] = as[b]
      BY <1>18, <1>20, <3>1, <3>2
    <3>4. a = b
      BY <1>2, <1>4, <3>3
    <3>5. QED  BY <3>1, <3>2, <3>4
  <2>4. QED  BY <2>1, <2>2, <2>3
<1>21. Len(all) # 0
  BY <1>4, <1>13
<1>22. QED  BY <1>5, <1>8, <1>13, <1>16, <1>17, <1>20, <1>21

LEMMA BodyIs ==
  ASSUME NEW r, NEW b, IsBodyOf(b, r)
  PROVE  /\ Common(b, r) /\ b.event \in {"root", "spawn", "allow", "deny"}
         /\ IsDefinition(b) <=> b.event \in {"root", "spawn"}
         /\ b.event = "root" => b = Root(r)
         /\ b.event = "spawn" => \E n \in Agents[r] : b = Spawn(r, n)
         /\ b.event = "allow" => \E call \in Calls, p \in Procs :
              call.event = "PreToolUse" /\ Allowed(r, call) /\ b = Decision(r, call, p)
<1>1. CASE b = Root(r)
  <2>1. Common(b, r) /\ b.event = "root"
    BY <1>1, RootIs
  <2>2. QED  BY <1>1, <2>1 DEF IsDefinition, Common
<1>2. CASE \E n \in Agents[r] : b = Spawn(r, n)
  <2>1. Common(b, r) /\ b.event = "spawn"
    BY <1>2, SpawnIs
  <2>2. QED  BY <1>2, <2>1 DEF IsDefinition, Common
<1>3. CASE \E call \in Calls, p \in Procs : call.event = "PreToolUse" /\ b = Decision(r, call, p)
  <2>1. PICK call \in Calls, p \in Procs : call.event = "PreToolUse" /\ b = Decision(r, call, p)
    BY <1>3
  <2>2. Common(b, r) /\ (Allowed(r, call) => b.event = "allow") /\ (~Allowed(r, call) => b.event = "deny")
    <3>1. Common(b, r)
      BY <2>1, DecisionIs
    <3>2. Allowed(r, call) => b.event = "allow"
      BY <2>1, DecisionIs
    <3>3. ~Allowed(r, call) => b.event = "deny"
      BY <2>1, DecisionIs
    <3>4. QED  BY <3>1, <3>2, <3>3
  <2>3. CASE Allowed(r, call)
    BY <2>1, <2>2, <2>3 DEF IsDefinition, Common
  <2>4. CASE ~Allowed(r, call)
    BY <2>1, <2>2, <2>4 DEF IsDefinition, Common
  <2>5. QED  BY <2>3, <2>4
<1>4. QED  BY <1>1, <1>2, <1>3 DEF IsBodyOf

(* What a process adds for a call under derivation r, known whether an     *)
(* entry is of its chain already.                                          *)
Adds(bodies, r, call, p, known) ==
  /\ IsSeq(bodies)
  /\ \A i \in DOMAIN bodies : IsBodyOf(bodies[i], r)
  /\ known => \A i \in DOMAIN bodies : ~IsDefinition(bodies[i])
  /\ ~known =>
       /\ 1 \in DOMAIN bodies /\ bodies[1].event = "root"
       /\ \A n \in {""} \cup Agents[r] :
            \E i \in DOMAIN bodies : IsDefinition(bodies[i]) /\ bodies[i].node = n
  /\ \A i, j \in DOMAIN bodies :
       (IsDefinition(bodies[i]) /\ IsDefinition(bodies[j]) /\ bodies[i].node = bodies[j].node) => i = j
  /\ \A i, j \in DOMAIN bodies :
       bodies[i].event = "allow" =>
         bodies[i].node \in {""} \cup Agents[r] /\ (IsDefinition(bodies[j]) => j < i)
  /\ \A i \in DOMAIN bodies : \A q \in Procs :
       bodies[i].call = q =>
         i = Len(bodies) /\ q = p /\ call.event = "PreToolUse" /\ bodies[i] = Decision(r, call, p)
  /\ call.event = "PreToolUse" => \E i \in DOMAIN bodies : bodies[i].call = p

Known(es, r) == \E i \in DOMAIN es : es[i].body.chain = ChainId[r]

LEMMA NewBodiesAre ==
  ASSUME NEW r \in DOMAIN Declared, NEW call \in Calls, NEW p \in Procs
  PROVE  Adds(NewBodies(r, call, p), r, call, p, Known(file, r))
<1>1. PICK known : known = Known(file, r)
  OBVIOUS
<1>2. PICK st : st = IF known THEN <<>> ELSE Structure(r)
  OBVIOUS
<1>3. PICK d : d = Decision(r, call, p)
  OBVIOUS
<1>4. PICK asks : asks = (call.event = "PreToolUse")
  OBVIOUS
<1>5. PICK dec : dec = IF asks THEN <<d>> ELSE <<>>
  OBVIOUS
<1>6. PICK all : all = NewBodies(r, call, p)
  OBVIOUS
<1>7. all = st \o dec
  BY <1>1, <1>2, <1>3, <1>4, <1>5, <1>6 DEF NewBodies, Known
<1>8. PICK none : none = <<>>
  OBVIOUS
<1>9. IsSeq(none) /\ Len(none) = 0
  <2>1. none \in Seq(Range(none))
    BY <1>8, EmptySeq
  <2>2. QED  BY <1>8, <2>1, EmptySeq DEF IsSeq
<1>10. PICK one : one = <<d>>
  OBVIOUS
<1>11. IsSeq(one) /\ Len(one) = 1 /\ one[1] = d
  <2>1. PICK S : S = {d}
    OBVIOUS
  <2>2. one \in Seq(S) /\ Len(one) = 1 /\ one[1] = d
    BY <1>10, <2>1
  <2>3. QED  BY <2>2, SeqIsSeq
<1>12. IsSeq(st) /\ IsSeq(dec)
  BY <1>2, <1>5, <1>8, <1>9, <1>10, <1>11, StructureIs
<1>13. PICK m : m = Len(st)
  OBVIOUS
<1>14. PICK k : k = Len(dec)
  OBVIOUS
<1>15. /\ m \in Nat /\ DOMAIN st = 1 .. m /\ (known => m = 0) /\ (~known => m # 0)
       /\ k = IF asks THEN 1 ELSE 0
  BY <1>2, <1>5, <1>8, <1>9, <1>10, <1>11, <1>12, <1>13, <1>14, SeqIsIndexed, StructureIs
<1>16. /\ IsSeq(all) /\ Len(all) = m + k /\ DOMAIN all = 1 .. m + k
       /\ \A i \in 1 .. m : all[i] = st[i]
       /\ \A i \in 1 .. k : all[m + i] = dec[i]
  <2>1. all = Joined(st, dec)
    BY <1>7, <1>12, Concatenated
  <2>2. QED  BY <1>12, <1>13, <1>14, <2>1, JoinedIsSeq
<1>17. ASSUME NEW i \in DOMAIN all
       PROVE  \/ ~known /\ i \in DOMAIN Structure(r) /\ i \in 1 .. m /\ all[i] = Structure(r)[i]
              \/ asks /\ i = m + 1 /\ i = Len(all) /\ all[i] = d
  <2>1. CASE i \in 1 .. m
    <3>1. ~known
      BY <1>15, <2>1
    <3>2. QED  BY <1>2, <1>15, <1>16, <2>1, <3>1
  <2>2. CASE i \notin 1 .. m
    <3>1. asks /\ i = m + 1
      BY <1>15, <1>16, <2>2
    <3>2. all[m + 1] = d
      BY <1>5, <1>10, <1>11, <1>15, <1>16, <3>1
    <3>3. QED  BY <1>15, <1>16, <3>1, <3>2
  <2>3. QED  BY <2>1, <2>2
<1>18. ~known => DOMAIN Structure(r) \subseteq DOMAIN all /\ \A i \in DOMAIN Structure(r) : all[i] = Structure(r)[i]
  <2>1. SUFFICES ASSUME ~known, NEW i \in DOMAIN Structure(r)
                 PROVE  i \in DOMAIN all /\ all[i] = Structure(r)[i]
    OBVIOUS
  <2>2. i \in 1 .. m
    BY <1>2, <1>15, <2>1
  <2>3. i \in DOMAIN all
    BY <1>15, <1>16, <2>2
  <2>4. QED  BY <1>2, <1>16, <2>1, <2>2, <2>3
<1>19. asks => m + 1 \in DOMAIN all /\ all[m + 1] = d
  BY <1>5, <1>10, <1>11, <1>15, <1>16
<1>20. \A i \in DOMAIN Structure(r) : IsBodyOf(Structure(r)[i], r) /\ IsDefinition(Structure(r)[i])
                                      /\ Structure(r)[i].call = NoOne
                                      /\ Structure(r)[i].event \in {"root", "spawn"}
  <2>1. SUFFICES ASSUME NEW i \in DOMAIN Structure(r), NEW b, b = Structure(r)[i]
                 PROVE  IsBodyOf(b, r) /\ IsDefinition(b) /\ b.call = NoOne /\ b.event \in {"root", "spawn"}
    OBVIOUS
  <2>2. b = Root(r) \/ \E n \in Agents[r] : b = Spawn(r, n)
    BY <2>1, StructureIs
  <2>3. IsBodyOf(b, r)
    BY <2>2 DEF IsBodyOf
  <2>4. b.call = NoOne /\ b.event \in {"root", "spawn"}
    <3>1. CASE b = Root(r)
      BY <3>1, RootIs
    <3>2. CASE \E n \in Agents[r] : b = Spawn(r, n)
      BY <3>2, SpawnIs
    <3>3. QED  BY <2>2, <3>1, <3>2
  <2>5. QED  BY <2>3, <2>4, BodyIs
<1>21. asks => IsBodyOf(d, r) /\ ~IsDefinition(d) /\ d.call = p /\ d.node \in {""} \cup Agents[r]
  <2>1. SUFFICES ASSUME asks PROVE IsBodyOf(d, r) /\ ~IsDefinition(d) /\ d.call = p /\ d.node \in {""} \cup Agents[r]
    OBVIOUS
  <2>2. IsBodyOf(d, r)
    BY <1>3, <1>4, <2>1 DEF IsBodyOf
  <2>3. d.event \in {"allow", "deny"} /\ d.call = p /\ d.node \in {""} \cup Agents[r]
    <3>1. d.call = p
      BY <1>3, DecisionIs
    <3>2. Allowed(r, call) => d.event = "allow"
      BY <1>3, DecisionIs
    <3>3. ~Allowed(r, call) => d.event = "deny"
      BY <1>3, DecisionIs
    <3>4. call.agent \in Agents[r] => d.node = call.agent
      BY <1>3, DecisionNodeIs
    <3>5. call.agent \notin Agents[r] => d.node = ""
      BY <1>3, DecisionNodeIs
    <3>6. QED  BY <3>1, <3>2, <3>3, <3>4, <3>5
  <2>4. QED  BY <2>2, <2>3, BodyIs
<1>22. \A i \in DOMAIN all : IsBodyOf(all[i], r)
  BY <1>17, <1>20, <1>21
<1>23. known => \A i \in DOMAIN all : ~IsDefinition(all[i])
  BY <1>17, <1>21
<1>24. ~known => /\ 1 \in DOMAIN all /\ all[1].event = "root"
                 /\ \A n \in {""} \cup Agents[r] : \E i \in DOMAIN all : IsDefinition(all[i]) /\ all[i].node = n
  <2>1. SUFFICES ASSUME ~known
                 PROVE  /\ 1 \in DOMAIN all /\ all[1].event = "root"
                        /\ \A n \in {""} \cup Agents[r] :
                             \E i \in DOMAIN all : IsDefinition(all[i]) /\ all[i].node = n
    OBVIOUS
  <2>2. 1 \in DOMAIN Structure(r)
    BY <1>2, <1>15, <2>1
  <2>3. 1 \in DOMAIN all /\ all[1] = Root(r)
    BY <1>18, <2>1, <2>2, StructureIs
  <2>4. all[1].event = "root" /\ all[1].node = "" /\ IsDefinition(all[1])
    BY <1>18, <1>20, <2>1, <2>2, <2>3, RootIs
  <2>5. ASSUME NEW n \in Agents[r]
        PROVE  \E i \in DOMAIN all : IsDefinition(all[i]) /\ all[i].node = n
    <3>1. PICK i \in DOMAIN Structure(r) : Structure(r)[i] = Spawn(r, n)
      BY StructureIs
    <3>2. i \in DOMAIN all /\ all[i] = Spawn(r, n) /\ IsDefinition(all[i])
      BY <1>18, <1>20, <2>1, <3>1
    <3>3. QED  BY <3>2, SpawnIs
  <2>6. QED  BY <2>3, <2>4, <2>5
<1>25. ASSUME NEW i \in DOMAIN all, NEW j \in DOMAIN all,
              IsDefinition(all[i]), IsDefinition(all[j]), all[i].node = all[j].node
       PROVE  i = j
  <2>1. /\ i \in DOMAIN Structure(r) /\ all[i] = Structure(r)[i]
        /\ j \in DOMAIN Structure(r) /\ all[j] = Structure(r)[j]
    BY <1>17, <1>21, <1>25
  <2>2. QED  BY <1>25, <2>1, StructureIs
<1>26. ASSUME NEW i \in DOMAIN all, NEW j \in DOMAIN all, all[i].event = "allow"
       PROVE  all[i].node \in {""} \cup Agents[r] /\ (IsDefinition(all[j]) => j < i)
  <2>1. asks /\ i = m + 1 /\ all[i] = d
    BY <1>17, <1>20, <1>26
  <2>2. IsDefinition(all[j]) => j \in 1 .. m
    BY <1>17, <1>21
  <2>3. all[i].node \in {""} \cup Agents[r]
    BY <1>21, <2>1
  <2>4. \A l \in 1 .. m : l < m + 1
    BY <1>15
  <2>5. QED  BY <2>1, <2>2, <2>3, <2>4
<1>27. ASSUME NEW i \in DOMAIN all, NEW q \in Procs, all[i].call = q
       PROVE  i = Len(all) /\ q = p /\ asks /\ all[i] = d
  <2>1. all[i].call # NoOne
    BY <1>27, ProcsAssumption
  <2>2. QED  BY <1>17, <1>20, <1>21, <1>27, <2>1
<1>28. asks => \E i \in DOMAIN all : all[i].call = p
  BY <1>19, <1>21
<1>29. Adds(all, r, call, p, known)
  BY <1>3, <1>4, <1>16, <1>22, <1>23, <1>24, <1>25, <1>26, <1>27, <1>28 DEF Adds
<1>30. QED  BY <1>1, <1>6, <1>29

-----------------------------------------------------------------------------
(* The ledger of a session *)

SameChain(es, i, j) == es[i].body.chain = es[j].body.chain

(* A ledger of one chain of hashes, in which every derivation begins with  *)
(* its root, and defines a node once.                                      *)
Told(es) ==
  /\ IsLedger(es) /\ ChainVerifies(es)
  /\ \A i \in DOMAIN es : \E r \in DOMAIN Declared : IsBodyOf(es[i].body, r)
  /\ \A i \in DOMAIN es : \E j \in 1 .. i : es[j].body.event = "root" /\ SameChain(es, i, j)
  /\ \A i, j \in DOMAIN es :
       (i # j /\ IsDefinition(es[i].body) /\ IsDefinition(es[j].body) /\ SameChain(es, i, j)) =>
         es[i].body.node # es[j].body.node

(* What is allowed is allowed to a node defined before. *)
Gated(es) ==
  \A i \in DOMAIN es :
    es[i].body.event = "allow" =>
      \E j \in 1 .. i - 1 :
        IsDefinition(es[j].body) /\ SameChain(es, i, j) /\ es[j].body.node = es[i].body.node

(* A derivation that is there is there in full. *)
Complete(es) ==
  \A i \in DOMAIN es : \A r \in DOMAIN Declared :
    es[i].body.chain = ChainId[r] =>
      \A n \in {""} \cup Agents[r] :
        \E j \in DOMAIN es :
          IsDefinition(es[j].body) /\ es[j].body.chain = ChainId[r] /\ es[j].body.node = n

OfOne(es) == \A i \in DOMAIN es : es[i].body.chain = ChainId[Initially]

LEMMA BeginsToo ==
  ASSUME NEW es, NEW fs, IsSeq(es), IsSeq(fs), Begins(es, fs)
  PROVE  /\ DOMAIN es \subseteq DOMAIN fs /\ DOMAIN es = 1 .. Len(es) /\ Len(es) \in Nat
         /\ \A i \in DOMAIN es : es[i] = fs[i]
         /\ Told(fs) => Told(es)
         /\ Gated(fs) => Gated(es)
         /\ OfOne(fs) => OfOne(es)
<1>1. /\ DOMAIN es = 1 .. Len(es) /\ Len(es) \in Nat
      /\ DOMAIN fs = 1 .. Len(fs) /\ Len(fs) \in Nat
      /\ Len(es) <= Len(fs) /\ \A i \in DOMAIN es : es[i] = fs[i]
  BY SeqIsIndexed DEF Begins
<1>2. /\ DOMAIN es \subseteq DOMAIN fs
      /\ \A i \in DOMAIN es : /\ \A j \in 1 .. i : j \in DOMAIN es /\ es[j] = fs[j]
                              /\ \A j \in 1 .. i - 1 : j \in DOMAIN es /\ es[j] = fs[j]
                              /\ i # 1 => i - 1 \in DOMAIN es /\ es[i - 1] = fs[i - 1]
  BY <1>1
<1>3. ASSUME Told(fs)
      PROVE  Told(es)
  <2>1. IsLedger(es)
    BY <1>1, <1>2, <1>3 DEF Told, IsLedger
  <2>2. ChainVerifies(es)
    <3>1. ChainVerifies(fs)
      BY <1>3 DEF Told
    <3>2. SUFFICES ASSUME NEW i \in DOMAIN es
                   PROVE  /\ es[i].seq = i - 1
                          /\ es[i].prev = IF i = 1 THEN Genesis ELSE es[i - 1].hash
                          /\ es[i].hash = Hash(es[i].prev, es[i])
      BY DEF ChainVerifies
    <3>3. /\ fs[i].seq = i - 1
          /\ fs[i].prev = IF i = 1 THEN Genesis ELSE fs[i - 1].hash
          /\ fs[i].hash = Hash(fs[i].prev, fs[i])
      BY <1>2, <3>1 DEF ChainVerifies
    <3>4. es[i] = fs[i] /\ (i # 1 => es[i - 1] = fs[i - 1])
      BY <1>1, <1>2
    <3>5. QED  BY <3>3, <3>4
  <2>3. \A i \in DOMAIN es : \E r \in DOMAIN Declared : IsBodyOf(es[i].body, r)
    BY <1>1, <1>2, <1>3 DEF Told
  <2>4. ASSUME NEW i \in DOMAIN es
        PROVE  \E j \in 1 .. i : es[j].body.event = "root" /\ SameChain(es, i, j)
    <3>1. PICK j \in 1 .. i : fs[j].body.event = "root" /\ SameChain(fs, i, j)
      BY <1>2, <1>3 DEF Told
    <3>2. es[j] = fs[j] /\ es[i] = fs[i]
      BY <1>1, <1>2
    <3>3. QED  BY <3>1, <3>2 DEF SameChain
  <2>5. \A i, j \in DOMAIN es :
          (i # j /\ IsDefinition(es[i].body) /\ IsDefinition(es[j].body) /\ SameChain(es, i, j)) =>
            es[i].body.node # es[j].body.node
    BY <1>1, <1>2, <1>3 DEF Told, SameChain
  <2>6. QED  BY <2>1, <2>2, <2>3, <2>4, <2>5 DEF Told
<1>4. ASSUME Gated(fs)
      PROVE  Gated(es)
  <2>1. SUFFICES ASSUME NEW i \in DOMAIN es, es[i].body.event = "allow"
                 PROVE  \E j \in 1 .. i - 1 : /\ IsDefinition(es[j].body) /\ SameChain(es, i, j)
                                              /\ es[j].body.node = es[i].body.node
    BY DEF Gated
  <2>2. es[i] = fs[i] /\ i \in DOMAIN fs
    BY <1>1, <1>2
  <2>3. PICK j \in 1 .. i - 1 : /\ IsDefinition(fs[j].body) /\ SameChain(fs, i, j)
                                /\ fs[j].body.node = fs[i].body.node
    BY <1>4, <2>1, <2>2 DEF Gated
  <2>4. es[j] = fs[j]
    BY <1>2
  <2>5. QED  BY <2>2, <2>3, <2>4 DEF SameChain
<1>5. OfOne(fs) => OfOne(es)
  BY <1>1, <1>2 DEF OfOne
<1>6. QED  BY <1>1, <1>2, <1>3, <1>4, <1>5

(* What a ledger and the bodies added to it make. *)
Extended(ws, es, bodies) ==
  /\ IsSeq(es) /\ DOMAIN es \subseteq DOMAIN ws /\ \A i \in DOMAIN es : ws[i] = es[i]
  /\ IsSeq(bodies)
  /\ \A k \in DOMAIN bodies : Len(es) + k \in DOMAIN ws /\ ws[Len(es) + k].body = bodies[k]
  /\ \A i \in DOMAIN ws : i \in DOMAIN es \/ \E k \in DOMAIN bodies : i = Len(es) + k

LEMMA ExtendedIs ==
  ASSUME NEW es, NEW bodies, IsLedger(es), ChainVerifies(es), IsSeq(bodies)
  PROVE  Extended(Joined(es, After(es, bodies)), es, bodies)
<1>1. PICK fs : fs = After(es, bodies)
  OBVIOUS
<1>2. PICK ws : ws = Joined(es, fs)
  OBVIOUS
<1>3. /\ IsSeq(fs) /\ Len(fs) = Len(bodies) /\ IsSeq(es)
      /\ \A i \in DOMAIN bodies : fs[i].body = bodies[i]
  BY <1>1, AfterIs DEF IsLedger
<1>4. /\ DOMAIN ws = 1 .. Len(es) + Len(bodies)
      /\ \A i \in 1 .. Len(es) : ws[i] = es[i]
      /\ \A i \in 1 .. Len(bodies) : ws[Len(es) + i] = fs[i]
  BY <1>2, <1>3, JoinedIsSeq
<1>5. /\ Len(es) \in Nat /\ DOMAIN es = 1 .. Len(es)
      /\ Len(bodies) \in Nat /\ DOMAIN bodies = 1 .. Len(bodies)
  BY <1>3, SeqIsIndexed
<1>6. \A k \in DOMAIN bodies : Len(es) + k \in DOMAIN ws /\ ws[Len(es) + k].body = bodies[k]
  BY <1>3, <1>4, <1>5
<1>7. ASSUME NEW i \in DOMAIN ws, i \notin DOMAIN es
      PROVE  \E k \in DOMAIN bodies : i = Len(es) + k
  <2>1. i - Len(es) \in DOMAIN bodies /\ i = Len(es) + (i - Len(es))
    BY <1>4, <1>5, <1>7
  <2>2. QED  BY <2>1
<1>8. Extended(ws, es, bodies)
  BY <1>3, <1>4, <1>5, <1>6, <1>7 DEF Extended
<1>9. QED  BY <1>1, <1>2, <1>8

LEMMA ToldGrows ==
  ASSUME NEW r \in DOMAIN Declared, NEW call, NEW p, NEW es, NEW bodies,
         Told(es), Adds(bodies, r, call, p, Known(es, r))
  PROVE  /\ Told(Joined(es, After(es, bodies)))
         /\ (Gated(es) /\ Complete(es)) => Gated(Joined(es, After(es, bodies)))
         /\ Complete(es) => Complete(Joined(es, After(es, bodies)))
         /\ (OfOne(es) /\ r = Initially) => OfOne(Joined(es, After(es, bodies)))
<1>1. PICK ws : ws = Joined(es, After(es, bodies))
  OBVIOUS
<1>2. PICK known : known = Known(es, r)
  OBVIOUS
<1>3. PICK m : m = Len(es)
  OBVIOUS
<1>4. IsLedger(es) /\ ChainVerifies(es) /\ IsSeq(es) /\ IsSeq(bodies) /\ Adds(bodies, r, call, p, known)
  BY <1>2 DEF Told, Adds, IsLedger
<1>5. IsLedger(ws) /\ ChainVerifies(ws) /\ Extended(ws, es, bodies)
  BY <1>1, <1>4, AfterIs, ExtendedIs
<1>6. /\ m \in Nat /\ DOMAIN es = 1 .. m /\ DOMAIN bodies = 1 .. Len(bodies) /\ Len(bodies) \in Nat
      /\ \A i \in DOMAIN es : i \in DOMAIN ws /\ ws[i] = es[i]
      /\ \A k \in DOMAIN bodies : m + k \in DOMAIN ws /\ ws[m + k].body = bodies[k]
      /\ \A i \in DOMAIN ws : i \in DOMAIN es \/ \E k \in DOMAIN bodies : i = m + k
  BY <1>3, <1>4, <1>5, SeqIsIndexed DEF Extended
<1>7. \A k \in DOMAIN bodies : IsBodyOf(bodies[k], r) /\ bodies[k].chain = ChainId[r]
  <2>1. \A k \in DOMAIN bodies : IsBodyOf(bodies[k], r)
    BY <1>4 DEF Adds
  <2>2. QED  BY <2>1, BodyIs DEF Common
<1>8. known => \E i \in DOMAIN es : es[i].body.chain = ChainId[r]
  BY <1>2 DEF Known
<1>9. ~known => \A i \in DOMAIN es : es[i].body.chain # ChainId[r]
  BY <1>2 DEF Known
<1>10. \A i \in DOMAIN ws : \E q \in DOMAIN Declared : IsBodyOf(ws[i].body, q)
  <2>1. SUFFICES ASSUME NEW i \in DOMAIN ws PROVE \E q \in DOMAIN Declared : IsBodyOf(ws[i].body, q)
    OBVIOUS
  <2>2. CASE i \in DOMAIN es
    BY <1>6, <2>2 DEF Told
  <2>3. CASE \E k \in DOMAIN bodies : i = m + k
    BY <1>6, <1>7, <2>3
  <2>4. QED  BY <1>6, <2>2, <2>3
<1>11. ASSUME NEW i \in DOMAIN ws
       PROVE  \E j \in 1 .. i : ws[j].body.event = "root" /\ SameChain(ws, i, j)
  <2>1. CASE i \in DOMAIN es
    <3>1. PICK j \in 1 .. i : es[j].body.event = "root" /\ SameChain(es, i, j)
      BY <2>1 DEF Told
    <3>2. j \in DOMAIN es
      BY <1>6, <2>1
    <3>3. QED  BY <1>6, <2>1, <3>1, <3>2 DEF SameChain
  <2>2. CASE known /\ i \notin DOMAIN es
    <3>1. PICK k \in DOMAIN bodies : i = m + k
      BY <1>6, <2>2
    <3>2. PICK l \in DOMAIN es : es[l].body.chain = ChainId[r]
      BY <1>8, <2>2
    <3>3. PICK j \in 1 .. l : es[j].body.event = "root" /\ SameChain(es, l, j)
      BY DEF Told
    <3>4. j \in DOMAIN es /\ j \in 1 .. i
      BY <1>6, <3>1
    <3>5. QED  BY <1>6, <1>7, <3>1, <3>2, <3>3, <3>4 DEF SameChain
  <2>3. CASE ~known /\ i \notin DOMAIN es
    <3>1. PICK k \in DOMAIN bodies : i = m + k
      BY <1>6, <2>3
    <3>2. 1 \in DOMAIN bodies /\ bodies[1].event = "root"
      BY <1>4, <2>3 DEF Adds
    <3>3. m + 1 \in 1 .. i
      BY <1>6, <3>1
    <3>4. QED  BY <1>6, <1>7, <3>1, <3>2, <3>3 DEF SameChain
  <2>4. QED  BY <2>1, <2>2, <2>3
<1>12. ASSUME NEW i \in DOMAIN ws, NEW j \in DOMAIN ws, i # j,
              IsDefinition(ws[i].body), IsDefinition(ws[j].body), SameChain(ws, i, j)
       PROVE  ws[i].body.node # ws[j].body.node
  <2>1. ASSUME NEW k \in DOMAIN bodies, IsDefinition(bodies[k])
        PROVE  ~known
    BY <1>4, <2>1 DEF Adds
  <2>2. CASE i \in DOMAIN es /\ j \in DOMAIN es
    <3>1. es[i] = ws[i] /\ es[j] = ws[j]
      BY <1>6, <2>2
    <3>2. QED  BY <1>12, <2>2, <3>1 DEF Told, SameChain
  <2>3. CASE i \in DOMAIN es /\ j \notin DOMAIN es
    <3>1. PICK k \in DOMAIN bodies : j = m + k
      BY <1>6, <2>3
    <3>2. ws[j].body = bodies[k] /\ ws[i] = es[i]
      BY <1>6, <2>3, <3>1
    <3>3. ~known /\ es[i].body.chain = ChainId[r]
      BY <1>7, <1>12, <2>1, <3>2 DEF SameChain
    <3>4. QED  BY <1>9, <2>3, <3>3
  <2>4. CASE i \notin DOMAIN es /\ j \in DOMAIN es
    <3>1. PICK k \in DOMAIN bodies : i = m + k
      BY <1>6, <2>4
    <3>2. ws[i].body = bodies[k] /\ ws[j] = es[j]
      BY <1>6, <2>4, <3>1
    <3>3. ~known /\ es[j].body.chain = ChainId[r]
      BY <1>7, <1>12, <2>1, <3>2 DEF SameChain
    <3>4. QED  BY <1>9, <2>4, <3>3
  <2>5. CASE i \notin DOMAIN es /\ j \notin DOMAIN es
    <3>1. PICK k \in DOMAIN bodies : i = m + k
      BY <1>6, <2>5
    <3>2. PICK l \in DOMAIN bodies : j = m + l
      BY <1>6, <2>5
    <3>3. ws[i].body = bodies[k] /\ ws[j].body = bodies[l] /\ k # l
      BY <1>6, <1>12, <3>1, <3>2
    <3>4. \A a, b \in DOMAIN bodies :
            (IsDefinition(bodies[a]) /\ IsDefinition(bodies[b]) /\ bodies[a].node = bodies[b].node) => a = b
      BY <1>4 DEF Adds
    <3>5. QED  BY <1>12, <3>3, <3>4
  <2>6. QED  BY <2>2, <2>3, <2>4, <2>5
<1>13. Told(ws)
  BY <1>5, <1>10, <1>11, <1>12 DEF Told
<1>14. ASSUME Complete(es), known, NEW n \in {""} \cup Agents[r]
       PROVE  \E j \in DOMAIN es : /\ IsDefinition(es[j].body) /\ es[j].body.chain = ChainId[r]
                                   /\ es[j].body.node = n
  <2>1. PICK l \in DOMAIN es : es[l].body.chain = ChainId[r]
    BY <1>8, <1>14
  <2>2. QED  BY <1>14, <2>1 DEF Complete
<1>15. ASSUME Gated(es), Complete(es)
       PROVE  Gated(ws)
  <2>1. SUFFICES ASSUME NEW i \in DOMAIN ws, ws[i].body.event = "allow"
                 PROVE  \E j \in 1 .. i - 1 : /\ IsDefinition(ws[j].body) /\ SameChain(ws, i, j)
                                              /\ ws[j].body.node = ws[i].body.node
    BY DEF Gated
  <2>2. CASE i \in DOMAIN es
    <3>1. es[i] = ws[i]
      BY <1>6, <2>2
    <3>2. PICK j \in 1 .. i - 1 : /\ IsDefinition(es[j].body) /\ SameChain(es, i, j)
                                  /\ es[j].body.node = es[i].body.node
      BY <1>15, <2>1, <2>2, <3>1 DEF Gated
    <3>3. j \in DOMAIN es
      BY <1>6, <2>2
    <3>4. es[j] = ws[j]
      BY <1>6, <3>3
    <3>5. QED  BY <3>1, <3>2, <3>4 DEF SameChain
  <2>3. CASE i \notin DOMAIN es
    <3>1. PICK k \in DOMAIN bodies : i = m + k
      BY <1>6, <2>3
    <3>2. ws[i].body = bodies[k]
      BY <1>6, <3>1
    <3>3. bodies[k].node \in {""} \cup Agents[r] /\ \A l \in DOMAIN bodies : IsDefinition(bodies[l]) => l < k
      BY <1>4, <2>1, <3>2 DEF Adds
    <3>4. CASE known
      <4>1. PICK j \in DOMAIN es : /\ IsDefinition(es[j].body) /\ es[j].body.chain = ChainId[r]
                                   /\ es[j].body.node = bodies[k].node
        BY <1>14, <1>15, <3>3, <3>4
      <4>2. j \in 1 .. i - 1 /\ es[j] = ws[j]
        BY <1>6, <3>1
      <4>3. QED  BY <1>7, <3>2, <4>1, <4>2 DEF SameChain
    <3>5. CASE ~known
      <4>1. PICK l \in DOMAIN bodies : IsDefinition(bodies[l]) /\ bodies[l].node = bodies[k].node
        BY <1>4, <3>3, <3>5 DEF Adds
      <4>2. l < k
        BY <3>3, <4>1
      <4>3. m + l \in 1 .. i - 1 /\ ws[m + l].body = bodies[l]
        BY <1>6, <3>1, <4>2
      <4>4. QED  BY <1>7, <3>2, <4>1, <4>3 DEF SameChain
    <3>6. QED  BY <3>4, <3>5
  <2>4. QED  BY <2>2, <2>3
<1>16. ASSUME Complete(es)
       PROVE  Complete(ws)
  <2>1. SUFFICES ASSUME NEW i \in DOMAIN ws, NEW q \in DOMAIN Declared, ws[i].body.chain = ChainId[q],
                        NEW n \in {""} \cup Agents[q]
                 PROVE  \E j \in DOMAIN ws : /\ IsDefinition(ws[j].body) /\ ws[j].body.chain = ChainId[q]
                                             /\ ws[j].body.node = n
    BY DEF Complete
  <2>2. CASE i \in DOMAIN es
    <3>1. es[i].body.chain = ChainId[q]
      BY <1>6, <2>1, <2>2
    <3>2. PICK j \in DOMAIN es : /\ IsDefinition(es[j].body) /\ es[j].body.chain = ChainId[q]
                                 /\ es[j].body.node = n
      BY <1>16, <2>1, <2>2, <3>1 DEF Complete
    <3>3. QED  BY <1>6, <3>2
  <2>3. CASE i \notin DOMAIN es
    <3>1. PICK k \in DOMAIN bodies : i = m + k
      BY <1>6, <2>3
    <3>2. ChainId[q] = ChainId[r]
      BY <1>6, <1>7, <2>1, <3>1
    <3>3. Agents[q] = Agents[r]
      BY <3>2, SameChainSameHeld
    <3>4. CASE known
      <4>1. PICK j \in DOMAIN es : /\ IsDefinition(es[j].body) /\ es[j].body.chain = ChainId[r]
                                   /\ es[j].body.node = n
        BY <1>14, <1>16, <2>1, <3>3, <3>4
      <4>2. QED  BY <1>6, <3>2, <4>1
    <3>5. CASE ~known
      <4>1. PICK l \in DOMAIN bodies : IsDefinition(bodies[l]) /\ bodies[l].node = n
        BY <1>4, <2>1, <3>3, <3>5 DEF Adds
      <4>2. QED  BY <1>6, <1>7, <3>2, <4>1
    <3>6. QED  BY <3>4, <3>5
  <2>4. QED  BY <2>2, <2>3
<1>17. ASSUME OfOne(es), r = Initially
       PROVE  OfOne(ws)
  BY <1>6, <1>7, <1>17 DEF OfOne
<1>18. QED  BY <1>1, <1>13, <1>15, <1>16, <1>17

-----------------------------------------------------------------------------
(* What the verifier makes of a derivation's entries *)

LEMMA DefinitionIs ==
  ASSUME NEW r \in DOMAIN Declared, NEW b, IsBodyOf(b, r), IsDefinition(b)
  PROVE  /\ \/ b.node = "" /\ b.auth = Session[r]
            \/ b.node \in Agents[r] /\ b.auth = Held[r][b.node]
         /\ b.auth \subseteq Session[r] /\ b.auth \in SUBSET Acts
         /\ b.event = "root" <=> b.node = ""
<1>1. Session[r] \subseteq Acts
  BY DEF Session, ActsWithin
<1>2. b.event \in {"root", "spawn"}
  BY BodyIs
<1>3. CASE b.event = "root"
  <2>0. b = Root(r)
    BY <1>3, BodyIs
  <2>1. b.node = "" /\ b.auth = Session[r]
    <3>1. b.node = ""
      BY <2>0, RootIs
    <3>2. b.auth = Session[r]
      BY <2>0, RootIs
    <3>3. QED  BY <3>1, <3>2
  <2>2. QED  BY <1>1, <1>3, <2>1
<1>4. CASE b.event = "spawn"
  <2>1. PICK n \in Agents[r] : b = Spawn(r, n)
    BY <1>4, BodyIs
  <2>2. b.node = n /\ b.auth = Held[r][n]
    BY <2>1, SpawnIs
  <2>3. n # ""
    BY AgentsOfIs
  <2>4. \A a \in Held[r][n] : a \in Session[r]
    BY HeldIsWithin
  <2>5. QED  BY <1>1, <1>4, <2>2, <2>3, <2>4
<1>5. QED  BY <1>2, <1>3, <1>4

(* An act that is allowed is within what the node was given, whichever     *)
(* derivation of the chain gave it.                                        *)
LEMMA AllowedIsGiven ==
  ASSUME NEW r \in DOMAIN Declared, NEW q \in DOMAIN Declared, ChainId[r] = ChainId[q],
         NEW b, IsBodyOf(b, r), b.event = "allow",
         NEW c, IsBodyOf(c, q), IsDefinition(c), c.node = b.node
  PROVE  b.act \in c.auth
<1>1. Session[r] = Session[q] /\ Agents[r] = Agents[q] /\ \A n \in Agents[r] : Held[r][n] = Held[q][n]
  BY SameChainSameHeld
<1>2. PICK call \in Calls, p \in Procs : Allowed(r, call) /\ b = Decision(r, call, p)
  BY BodyIs
<1>3. PICK scope : scope = ScopeForTool(call.tool, call.target)
  OBVIOUS
<1>4. b.act = scope
  BY <1>2, <1>3, DecisionActIs
<1>5. call.agent \in Agents[r] => b.node = call.agent
  BY <1>2, DecisionNodeIs
<1>6. call.agent \notin Agents[r] => b.node = ""
  BY <1>2, DecisionNodeIs
<1>7. "" \notin Agents[r]
  BY AgentsOfIs
<1>8. \/ call.agent = "" /\ scope \in Session[r]
      \/ call.agent \in Agents[r] /\ scope \in Held[r][call.agent]
  BY <1>2, <1>3 DEF Allowed
<1>9. \/ c.node = "" /\ c.auth = Session[q]
      \/ c.node \in Agents[q] /\ c.auth = Held[q][c.node]
  BY DefinitionIs
<1>10. CASE call.agent = "" /\ scope \in Session[r]
  <2>1. c.node = ""
    BY <1>6, <1>7, <1>10
  <2>2. c.auth = Session[q]
    BY <1>1, <1>7, <1>9, <2>1
  <2>3. QED  BY <1>1, <1>4, <1>10, <2>2
<1>11. CASE call.agent \in Agents[r] /\ scope \in Held[r][call.agent]
  <2>1. c.node = call.agent
    BY <1>5, <1>11
  <2>2. c.auth = Held[q][call.agent]
    BY <1>1, <1>7, <1>9, <1>11, <2>1
  <2>3. QED  BY <1>1, <1>4, <1>11, <2>2
<1>12. QED  BY <1>8, <1>10, <1>11

LEMMA LeastOfOne ==
  ASSUME NEW i \in Nat
  PROVE  Min({i}) = i
<1>1. PICK S : S = {i}
  OBVIOUS
<1>2. \A x \in S : x = i /\ \A y \in S : x <= y
  BY <1>1
<1>3. i \in S
  BY <1>1
<1>4. Min(S) = i
  BY <1>2, <1>3 DEF Min
<1>5. QED  BY <1>1, <1>4

(* A ledger of one derivation, gated, is one the verifier accepts, with no *)
(* anchor or with its own.                                                 *)
LEMMA ChainAccepted ==
  ASSUME NEW es, Told(es), Gated(es), es # <<>>,
         NEW chain, \A i \in DOMAIN es : es[i].body.chain = chain,
         NEW anchor, anchor = NoAnchor \/ \E k : anchor = AnchorFor(es, k)
  PROVE  LedgerOk(BundleOf(es, anchor, <<>>))
<1> DEFINE body(i) == es[i].body
           b == BundleOf(es, anchor, <<>>)
<1>1. IsSeq(es) /\ DOMAIN es = 1 .. Len(es) /\ Len(es) \in Nat /\ Len(es) # 0
  BY SeqIsIndexed, EmptySeq DEF Told, IsLedger, IsSeq
<1>2. \A i \in DOMAIN es : \E r \in DOMAIN Declared : IsBodyOf(body(i), r) /\ Common(body(i), r)
  <2>1. SUFFICES ASSUME NEW i \in DOMAIN es
                 PROVE  \E r \in DOMAIN Declared : IsBodyOf(body(i), r) /\ Common(body(i), r)
    OBVIOUS
  <2>2. PICK r \in DOMAIN Declared : IsBodyOf(body(i), r)
    BY DEF Told
  <2>3. Common(body(i), r)
    BY <2>2, BodyIs
  <2>4. QED  BY <2>2, <2>3
<1>3. \A i \in DOMAIN es :
        /\ body(i).v = 1 /\ body(i).parent = "" /\ body(i).revoked = {}
        /\ body(i).members = {} /\ body(i).malformed = {}
        /\ body(i).event \in {"root", "spawn", "allow", "deny"}
        /\ IsDefinition(body(i)) <=> body(i).event \in {"root", "spawn"}
  <2> HIDE DEF body
  <2>1. SUFFICES ASSUME NEW i \in DOMAIN es
                 PROVE  /\ body(i).v = 1 /\ body(i).parent = "" /\ body(i).revoked = {}
                        /\ body(i).members = {} /\ body(i).malformed = {}
                        /\ body(i).event \in {"root", "spawn", "allow", "deny"}
                        /\ IsDefinition(body(i)) <=> body(i).event \in {"root", "spawn"}
    OBVIOUS
  <2>2. PICK r \in DOMAIN Declared : IsBodyOf(body(i), r) /\ Common(body(i), r)
    BY <1>2
  <2>3. /\ body(i).event \in {"root", "spawn", "allow", "deny"}
        /\ IsDefinition(body(i)) <=> body(i).event \in {"root", "spawn"}
    BY <2>2, BodyIs
  <2>4. QED  BY <2>2, <2>3 DEF Common
<1>4. \A i \in DOMAIN es : IsDefinition(body(i)) =>
        /\ body(i).event = "root" <=> body(i).node = ""
        /\ body(i).auth \in SUBSET Acts
  <2> HIDE DEF body
  <2>1. SUFFICES ASSUME NEW i \in DOMAIN es, IsDefinition(body(i))
                 PROVE  (body(i).event = "root" <=> body(i).node = "") /\ body(i).auth \in SUBSET Acts
    OBVIOUS
  <2>2. PICK r \in DOMAIN Declared : IsBodyOf(body(i), r)
    BY <1>2
  <2>3. QED  BY <2>1, <2>2, DefinitionIs
<1>5. \A i, j \in DOMAIN es :
        (IsDefinition(body(i)) /\ IsDefinition(body(j)) /\ body(i).node = body(j).node) => i = j
  BY DEF Told, SameChain
<1>6. PICK d \in DOMAIN es : body(d).event = "root"
  <2>1. 1 \in DOMAIN es
    BY <1>1
  <2>2. PICK j \in 1 .. 1 : body(j).event = "root"
    BY <2>1 DEF Told
  <2>3. QED  BY <2>1, <2>2
<1>7. {i \in DOMAIN es : body(i).event = "root"} = {d}
  <2>1. \A i \in DOMAIN es : body(i).event = "root" => i = d
    <3> HIDE DEF body
    <3>1. QED  BY <1>3, <1>4, <1>5, <1>6
  <2>2. QED  BY <1>6, <2>1
<1>8. VersionOf(es) = 1
  <2>1. d \in Nat
    BY <1>1
  <2>2. {i \in DOMAIN es : es[i].body.event = "root"} = {d} /\ {d} # {}
    BY <1>7
  <2>3. VersionOf(es) = es[Min({d})].body.v
    BY <2>2 DEF VersionOf
  <2>4. QED  BY <1>3, <2>1, <2>3, LeastOfOne
<1>9. ChainIdOf(es) = chain
  BY <1>1 DEF ChainIdOf
<1>10. /\ b.v = 1 /\ b.chain = chain /\ b.entries = es /\ b.anchor = anchor
  BY <1>8, <1>9 DEF BundleOf
<1>11. anchor = NoAnchor \/ (anchor.body["v"] = 1 /\ anchor.body["chain"] = chain)
  BY <1>8, <1>9 DEF AnchorFor
<1> HIDE DEF b
<1>12. VersionOk(b)
  BY <1>3, <1>10, <1>11 DEF VersionOk, AnchorAgrees
<1>13. RootOk(es)
  <2>1. RootOk(es) <=> Cardinality({i \in DOMAIN es : body(i).event = "root"}) = 1
    BY DEF RootOk
  <2>2. QED  BY <1>7, <2>1, FS_Singleton
<1>14. FieldsOk(b)
  BY <1>3, <1>10 DEF FieldsOk, LedgerEvents
<1>15. NodesOk(es)
  BY <1>3 DEF NodesOk
<1>16. ChainIdOk(b)
  BY <1>10, <1>11 DEF ChainIdOk, AnchorAgrees
<1>17. \A i \in DOMAIN es : IsDefinition(body(i)) =>
         /\ i \in Definitions(es, body(i).node) /\ AuthorityOf(es, body(i).node) = body(i).auth
  <2>1. SUFFICES ASSUME NEW i \in DOMAIN es, IsDefinition(body(i))
                 PROVE  /\ i \in Definitions(es, body(i).node)
                        /\ AuthorityOf(es, body(i).node) = body(i).auth
    OBVIOUS
  <2>2. Definitions(es, body(i).node) = {i}
    BY <1>5, <2>1 DEF Definitions
  <2>3. i \in Nat
    BY <1>1
  <2>4. QED  BY <2>2, <2>3, LeastOfOne DEF AuthorityOf
<1>18. \A i \in DOMAIN es : \A n : ~IsRevoked(es, n, i)
  <2>1. SUFFICES ASSUME NEW i \in DOMAIN es, NEW n, IsRevoked(es, n, i)
                 PROVE  FALSE
    OBVIOUS
  <2>2. PICK k \in 1 .. i - 1 : body(k).event = "kill"
    BY <2>1 DEF IsRevoked
  <2>3. k \in DOMAIN es
    BY <1>1
  <2>4. QED  BY <1>3, <2>2, <2>3
<1>19. GraphReadable(es)
  <2>1. SUFFICES ASSUME NEW i \in DOMAIN es, body(i).event \in {"root", "spawn"}
                 PROVE  "node" \notin body(i).malformed /\ AuthorityOf(es, body(i).node) # Unreadable
    BY DEF GraphReadable
  <2>2. IsDefinition(body(i)) /\ body(i).malformed = {}
    BY <1>3, <2>1
  <2>3. AuthorityOf(es, body(i).node) \in SUBSET Acts
    <3> HIDE DEF body
    <3>1. QED  BY <1>4, <1>17, <2>2
  <2>4. QED  BY <2>2, <2>3, ActsAssumption
<1>20. ASSUME NEW i \in DOMAIN es
       PROVE  MonotoneAt(es, i)
  <2>1. SUFFICES ASSUME IsDefinition(body(i))
                 PROVE  /\ ~IsDefined(es, body(i).node, i)
                        /\ body(i).event = "spawn" =>
                             /\ IsDefined(es, body(i).parent, i)
                             /\ ~IsRevoked(es, body(i).parent, i)
                             /\ NarrowerIfRead(AuthorityOf(es, body(i).node), AuthorityOf(es, body(i).parent))
    BY DEF MonotoneAt
  <2>2. ~IsDefined(es, body(i).node, i)
    BY <1>1, <1>5, <2>1 DEF IsDefined, Definitions
  <2>3. ASSUME body(i).event = "spawn"
        PROVE  /\ IsDefined(es, "", i)
               /\ NarrowerIfRead(AuthorityOf(es, body(i).node), AuthorityOf(es, ""))
    <3>1. PICK j \in 1 .. i : body(j).event = "root"
      BY DEF Told
    <3>2. j \in DOMAIN es /\ j \in Nat /\ i \in Nat /\ j <= i
      BY <1>1
    <3>3. j # i
      BY <2>3, <3>1
    <3>4. IsDefinition(body(j)) /\ body(j).node = ""
      <4> HIDE DEF body
      <4>1. QED  BY <1>3, <1>4, <3>1, <3>2
    <3>5. IsDefined(es, "", i)
      <4>1. j \in Definitions(es, "")
        BY <3>2, <3>4 DEF Definitions
      <4>2. j < i
        BY <3>2, <3>3
      <4>3. QED  BY <4>1, <4>2 DEF IsDefined
    <3>6. AuthorityOf(es, body(i).node) = body(i).auth /\ AuthorityOf(es, "") = body(j).auth
      BY <1>17, <2>1, <3>2, <3>4
    <3>7. body(i).auth \subseteq body(j).auth
      <4> HIDE DEF body
      <4>1. PICK r \in DOMAIN Declared : IsBodyOf(body(i), r) /\ Common(body(i), r)
        BY <1>2
      <4>2. PICK q \in DOMAIN Declared : IsBodyOf(body(j), q) /\ Common(body(j), q)
        BY <1>2, <3>2
      <4>3. ChainId[r] = ChainId[q]
        <5>1. body(i).chain = body(j).chain
          BY <3>2 DEF body
        <5>2. QED  BY <4>1, <4>2, <5>1 DEF Common
      <4>4. body(i).auth \subseteq Session[r]
        BY <2>1, <4>1, DefinitionIs
      <4>5. body(j).auth = Session[q]
        <5>1. /\ \/ body(j).node = "" /\ body(j).auth = Session[q]
                 \/ body(j).node \in Agents[q] /\ body(j).auth = Held[q][body(j).node]
          BY <3>4, <4>2, DefinitionIs
        <5>2. "" \notin Agents[q]
          BY AgentsOfIs
        <5>3. QED  BY <3>4, <5>1, <5>2
      <4>6. Session[r] = Session[q]
        BY <4>3, SameChainSameHeld
      <4>7. QED  BY <4>4, <4>5, <4>6
    <3>8. QED  BY <3>5, <3>6, <3>7 DEF NarrowerIfRead
  <2>4. body(i).parent = ""
    BY <1>3
  <2>5. QED  BY <1>18, <2>2, <2>3, <2>4
<1>21. ASSUME NEW i \in DOMAIN es
       PROVE  ContainedAt(es, i)
  <2>1. SUFFICES ASSUME body(i).event = "allow"
                 PROVE  /\ "node" \notin body(i).malformed
                        /\ IsDefined(es, body(i).node, i)
                        /\ ~IsRevoked(es, body(i).node, i)
                        /\ AuthorityOf(es, body(i).node) # Unreadable
                        /\ body(i).act \in AuthorityOf(es, body(i).node)
    BY DEF ContainedAt
  <2>2. PICK j \in 1 .. i - 1 : IsDefinition(body(j)) /\ body(j).node = body(i).node
    BY <2>1 DEF Gated
  <2>3. j \in DOMAIN es /\ j < i
    BY <1>1
  <2>4. j \in Definitions(es, body(i).node) /\ AuthorityOf(es, body(i).node) = body(j).auth
    BY <1>17, <2>2, <2>3
  <2>5. IsDefined(es, body(i).node, i)
    BY <2>3, <2>4 DEF IsDefined
  <2>6. AuthorityOf(es, body(i).node) # Unreadable
    <3>1. body(j).auth \in SUBSET Acts
      <4> HIDE DEF body
      <4>1. QED  BY <1>4, <2>2, <2>3
    <3>2. QED  BY <2>4, <3>1, ActsAssumption
  <2>7. body(i).act \in body(j).auth
    <3> HIDE DEF body
    <3>1. PICK r \in DOMAIN Declared : IsBodyOf(body(i), r) /\ Common(body(i), r)
      BY <1>2
    <3>2. PICK q \in DOMAIN Declared : IsBodyOf(body(j), q) /\ Common(body(j), q)
      BY <1>2, <2>3
    <3>3. ChainId[r] = ChainId[q]
      <4>1. body(i).chain = body(j).chain
        BY <2>3 DEF body
      <4>2. QED  BY <3>1, <3>2, <4>1 DEF Common
    <3>4. QED  BY <2>1, <2>2, <3>1, <3>2, <3>3, AllowedIsGiven
  <2>8. body(i).malformed = {}
    BY <1>3
  <2>9. QED  BY <1>18, <2>4, <2>5, <2>6, <2>7, <2>8
<1>22. BindingOk(b)
  BY <1>3, <1>10 DEF BindingOk, NoV2Field
<1>23. PolicyOk(es)
  BY <1>3 DEF PolicyOk
<1>24. ChainVerifies(es)
  BY DEF Told
<1>25. LedgerOk(b)
  BY <1>10, <1>12, <1>13, <1>14, <1>15, <1>16, <1>19, <1>20, <1>21, <1>22, <1>23, <1>24 DEF LedgerOk
<1>26. QED  BY <1>25 DEF b

-----------------------------------------------------------------------------
(* The lines before one that does not parse *)

LedgerIn(lines) ==
  LET garbled == {i \in DOMAIN lines : lines[i] = Garbled}
  IN  IF garbled = {} THEN lines ELSE SubSeq(lines, 1, Min(garbled) - 1)

LEMMA LedgerInIs ==
  ASSUME NEW lines, IsSeq(lines)
  PROVE  \E k \in 0 .. Len(lines) :
           /\ IsSeq(LedgerIn(lines)) /\ Len(LedgerIn(lines)) = k
           /\ \A i \in 1 .. k : LedgerIn(lines)[i] = lines[i] /\ lines[i] # Garbled
           /\ k < Len(lines) => lines[k + 1] = Garbled
<1>1. PICK garbled : garbled = {i \in DOMAIN lines : lines[i] = Garbled}
  OBVIOUS
<1>2. DOMAIN lines = 1 .. Len(lines) /\ Len(lines) \in Nat
  BY SeqIsIndexed
<1>3. CASE garbled = {}
  <2>1. LedgerIn(lines) = lines
    BY <1>1, <1>3 DEF LedgerIn
  <2>2. \A i \in 1 .. Len(lines) : lines[i] # Garbled
    BY <1>1, <1>2, <1>3
  <2>3. Len(lines) \in 0 .. Len(lines) /\ ~(Len(lines) < Len(lines))
    BY <1>2
  <2>4. QED  BY <2>1, <2>2, <2>3
<1>4. CASE garbled # {}
  <2>1. garbled \subseteq Nat
    BY <1>1, <1>2
  <2>2. PICK m \in garbled : \A n \in garbled : m <= n
    BY <1>4, <2>1, LeastNumber
  <2>3. \A x \in garbled : (\A y \in garbled : x <= y) => x = m
    BY <2>1, <2>2
  <2>4. Min(garbled) = m
    BY <2>2, <2>3 DEF Min
  <2>5. PICK k : k = m - 1
    OBVIOUS
  <2>6. /\ k \in 0 .. Len(lines) /\ k < Len(lines) /\ k + 1 = m /\ lines[k + 1] = Garbled
        /\ \A i \in 1 .. k : i \in DOMAIN lines /\ ~(m <= i)
    BY <1>1, <1>2, <2>2, <2>5
  <2>7. LedgerIn(lines) = SubSeq(lines, 1, k)
    BY <1>1, <1>4, <2>4, <2>5 DEF LedgerIn
  <2>8. /\ IsSeq(SubSeq(lines, 1, k)) /\ Len(SubSeq(lines, 1, k)) = k
        /\ SubSeq(lines, 1, k) = [i \in 1 .. k |-> lines[i]]
    BY <2>6, Prefix
  <2>9. \A i \in 1 .. k : LedgerIn(lines)[i] = lines[i]
    BY <2>7, <2>8
  <2>10. \A i \in 1 .. k : lines[i] # Garbled
    BY <1>1, <2>2, <2>6
  <2>11. QED  BY <2>6, <2>7, <2>8, <2>9, <2>10
<1>5. QED  BY <1>3, <1>4

(* What comes after a line that does not parse changes nothing. *)
LEMMA SameLedgerIn ==
  ASSUME NEW es, NEW fs, IsSeq(es), IsSeq(fs), NEW n \in 1 .. Len(es), es[n] = Garbled,
         n <= Len(fs), \A i \in 1 .. n : fs[i] = es[i]
  PROVE  LedgerIn(fs) = LedgerIn(es)
<1>1. Len(es) \in Nat /\ Len(fs) \in Nat
  BY SeqIsIndexed
<1>2. PICK s : s = LedgerIn(es)
  OBVIOUS
<1>3. PICK t : t = LedgerIn(fs)
  OBVIOUS
<1>4. PICK k \in 0 .. Len(es) : /\ IsSeq(s) /\ Len(s) = k
                                /\ \A i \in 1 .. k : s[i] = es[i] /\ es[i] # Garbled
                                /\ k < Len(es) => es[k + 1] = Garbled
  BY <1>2, LedgerInIs
<1>5. PICK l \in 0 .. Len(fs) : /\ IsSeq(t) /\ Len(t) = l
                                /\ \A i \in 1 .. l : t[i] = fs[i] /\ fs[i] # Garbled
                                /\ l < Len(fs) => fs[l + 1] = Garbled
  BY <1>3, LedgerInIs
<1>6. k < n
  <2>1. SUFFICES ASSUME ~(k < n) PROVE FALSE
    OBVIOUS
  <2>2. n \in 1 .. k
    BY <1>1, <2>1
  <2>3. QED  BY <1>4, <2>2
<1>7. l < n
  <2>1. SUFFICES ASSUME ~(l < n) PROVE FALSE
    OBVIOUS
  <2>2. n \in 1 .. l /\ n \in 1 .. n
    BY <1>1, <2>1
  <2>3. QED  BY <1>5, <2>2
<1>8. k + 1 \in 1 .. n /\ l + 1 \in 1 .. n
  BY <1>1, <1>6, <1>7
<1>9. es[k + 1] = Garbled /\ fs[k + 1] = Garbled /\ es[l + 1] = Garbled /\ fs[l + 1] = Garbled
  BY <1>1, <1>4, <1>5, <1>6, <1>7, <1>8
<1>10. k = l
  <2>1. CASE k < l
    <3>1. k + 1 \in 1 .. l
      BY <1>1, <2>1
    <3>2. QED  BY <1>5, <1>9, <3>1
  <2>2. CASE l < k
    <3>1. l + 1 \in 1 .. k
      BY <1>1, <2>2
    <3>2. QED  BY <1>4, <1>9, <3>1
  <2>3. k < l \/ l < k \/ k = l
    BY <1>1
  <2>4. QED  BY <2>1, <2>2, <2>3
<1>11. \A i \in 1 .. k : s[i] = t[i]
  <2>1. \A i \in 1 .. k : i \in 1 .. n
    BY <1>1, <1>6
  <2>2. QED  BY <1>4, <1>5, <1>10, <2>1
<1>12. s = t
  BY <1>4, <1>5, <1>10, <1>11, SeqsEqual, SeqIsIndexed
<1>13. QED  BY <1>2, <1>3, <1>12

-----------------------------------------------------------------------------
(* The inductive invariant *)

(* The first n lines of a file, and what is to be written after them. *)
PlanOf(lines, n, todo) ==
  [i \in 1 .. n + Len(todo) |-> IF i <= n THEN lines[i] ELSE todo[i - n]]

IsPlan(plan, lines, n, todo) ==
  /\ IsSeq(plan) /\ Len(plan) = n + Len(todo) /\ DOMAIN plan = 1 .. n + Len(todo)
  /\ \A i \in 1 .. n : i \in DOMAIN plan /\ plan[i] = lines[i]
  /\ \A i \in DOMAIN todo : n + i \in DOMAIN plan /\ plan[n + i] = todo[i]

LEMMA PlanOfIs ==
  ASSUME NEW lines, NEW n \in Nat, NEW todo, IsSeq(todo)
  PROVE  IsPlan(PlanOf(lines, n, todo), lines, n, todo)
<1>1. PICK plan : plan = PlanOf(lines, n, todo)
  OBVIOUS
<1>2. Len(todo) \in Nat /\ DOMAIN todo = 1 .. Len(todo)
  BY SeqIsIndexed
<1>3. n + Len(todo) \in Nat
  BY <1>2
<1>4. plan = [i \in 1 .. n + Len(todo) |-> IF i <= n THEN lines[i] ELSE todo[i - n]]
  BY <1>1 DEF PlanOf
<1>5. plan = [i \in 1 .. n + Len(todo) |-> plan[i]]
  BY <1>4
<1>6. IsSeq(plan) /\ Len(plan) = n + Len(todo) /\ DOMAIN plan = 1 .. n + Len(todo)
  BY <1>3, <1>5, IndexedIsSeq
<1>7. \A i \in 1 .. n : i \in DOMAIN plan /\ plan[i] = lines[i]
  BY <1>2, <1>4
<1>8. \A i \in DOMAIN todo : n + i \in DOMAIN plan /\ plan[n + i] = todo[i]
  <2>1. SUFFICES ASSUME NEW i \in 1 .. Len(todo) PROVE n + i \in DOMAIN plan /\ plan[n + i] = todo[i]
    BY <1>2
  <2>2. n + i \in 1 .. n + Len(todo) /\ ~(n + i <= n) /\ n + i - n = i
    BY <1>2
  <2>3. QED  BY <1>4, <2>2
<1>9. QED  BY <1>1, <1>6, <1>7, <1>8 DEF IsPlan

LEMMA BeginsPlan ==
  ASSUME NEW lines, NEW n \in Nat, NEW todo, IsSeq(todo), NEW es, IsSeq(es),
         \A i \in DOMAIN es : es[i] = lines[i],
         Len(es) <= n \/ (Len(es) = n + 1 /\ todo # <<>> /\ lines[n + 1] = Head(todo))
  PROVE  Begins(es, PlanOf(lines, n, todo))
<1>1. PICK plan : plan = PlanOf(lines, n, todo)
  OBVIOUS
<1>2. /\ Len(plan) = n + Len(todo)
      /\ \A i \in 1 .. n : plan[i] = lines[i]
      /\ \A i \in DOMAIN todo : plan[n + i] = todo[i]
  <2>1. IsPlan(plan, lines, n, todo)
    BY <1>1, PlanOfIs
  <2>2. QED  BY <2>1 DEF IsPlan
<1>3. /\ Len(todo) \in Nat /\ DOMAIN todo = 1 .. Len(todo)
      /\ Len(es) \in Nat /\ DOMAIN es = 1 .. Len(es)
  BY SeqIsIndexed
<1>4. CASE Len(es) <= n
  <2>1. PICK m : m = Len(es)
    OBVIOUS
  <2>2. m \in Nat /\ m <= n /\ DOMAIN es = 1 .. m
    BY <1>3, <1>4, <2>1
  <2>3. \A i \in 1 .. m : i \in 1 .. n
    BY <2>2
  <2>4. \A i \in DOMAIN es : es[i] = plan[i]
    BY <1>2, <2>2, <2>3
  <2>5. m <= Len(plan)
    <3>1. PICK k : k = Len(todo)
      OBVIOUS
    <3>2. k \in Nat /\ Len(plan) = n + k
      BY <1>2, <1>3, <3>1
    <3>3. QED  BY <2>2, <3>2
  <2>6. QED  BY <1>1, <2>1, <2>4, <2>5 DEF Begins
<1>5. CASE Len(es) = n + 1 /\ todo # <<>> /\ lines[n + 1] = Head(todo)
  <2>1. Len(todo) # 0
    BY <1>5, EmptySeq DEF IsSeq
  <2>2. 1 \in DOMAIN todo /\ Head(todo) = todo[1]
    BY <1>3, <2>1, <1>5
  <2>3. plan[n + 1] = lines[n + 1]
    BY <1>2, <1>5, <2>2
  <2>4. \A i \in DOMAIN es : i \in 1 .. n \/ i = n + 1
    BY <1>3, <1>5
  <2>5. \A i \in DOMAIN es : es[i] = plan[i]
    BY <1>2, <2>3, <2>4
  <2>6. Len(es) <= Len(plan)
    BY <1>2, <1>3, <1>5, <2>1
  <2>7. QED  BY <1>1, <2>5, <2>6 DEF Begins
<1>6. QED  BY <1>4, <1>5

(* The lines that stay as they are, what the process that holds the lock   *)
(* is to write after them, and the ledger that makes.                      *)
Owns == holder # NoOne /\ hook[holder].begun = "own"
Pre == IF Owns THEN Len(file) - 1 ELSE Len(file)
Todo == IF holder = NoOne THEN <<>> ELSE hook[holder].todo
Plan == PlanOf(file, Pre, Todo)

(* A line that does not parse will stay. *)
Broken == \E i \in 1 .. Pre : file[i] = Garbled

IsHook(h) ==
  h = [pc |-> h.pc, call |-> h.call, seen |-> h.seen, todo |-> h.todo, begun |-> h.begun,
       answer |-> h.answer, entries |-> h.entries, key |-> h.key, report |-> h.report]
HookInv(p) ==
  LET h == hook[p]
  IN  /\ IsHook(h) /\ IsSeq(h.todo)
      /\ h.pc \in {"idle", "ready", "writing", "export", "key", "verify", "done"}
      /\ h.begun \in {"no", "own", "glued"}
      /\ h.pc = "writing" <=> holder = p
      /\ h.begun # "no" => h.pc = "writing" /\ h.todo # <<>> /\ file # <<>> /\ ~ended
      /\ h.begun = "own" => file[Len(file)] \in {Garbled, Head(h.todo)}
      /\ h.begun = "glued" => file[Len(file)] = Garbled
      /\ h.pc # "idle" => h.call \in Calls /\ h.seen \in DOMAIN Declared
      /\ h.pc # "idle" /\ ~edited => h.seen = Initially
      /\ h.pc \in {"ready", "writing"} => h.call.event # "Stop"
      /\ h.pc \in {"export", "key", "verify"} => h.call.event = "Stop"
      /\ h.pc \in {"idle", "ready", "writing", "export", "key"} => h.key = NoOne
      /\ (h.pc = "done" /\ h.answer \in {"pass", "deny"} /\ h.call.event = "PreToolUse") =>
            h.answer = Verdict(h)
HooksInv ==
  /\ hook = [p \in Procs |-> hook[p]]
  /\ holder \in Procs \cup {NoOne}
  /\ \A p \in Procs : HookInv(p)
FileInv ==
  /\ IsSeq(file) /\ faults \in Nat
  /\ roster \in DOMAIN Declared /\ (~edited => roster = Initially)
  /\ ~ended => file # <<>> /\ (faults = 0 => holder # NoOne /\ hook[holder].begun # "no")

(* An entry of a call is of the hook that wrote it, once. *)
CallInv ==
  \A i \in DOMAIN Plan : \A p \in Procs :
    Plan[i].body.call = p =>
      /\ hook[p].pc \in {"writing", "done"} /\ hook[p].call.event = "PreToolUse"
      /\ Plan[i].body = Decision(hook[p].seen, hook[p].call, p)
      /\ \A j \in DOMAIN Plan : Plan[j].body.call = p => j = i
AnswerFor(p) ==
  hook[p].pc # "idle" /\ hook[p].call.event = "PreToolUse" =>
    /\ hook[p].pc = "writing" => \E i \in DOMAIN Plan : Plan[i].body.call = p
    /\ (hook[p].pc = "done" /\ hook[p].answer \in {"pass", "deny"}) =>
         \E i \in 1 .. Pre : file[i].body.call = p
AnswerInv == \A p \in Procs : AnswerFor(p)
PlanInv ==
  /\ Told(Plan) /\ CallInv /\ AnswerInv
  /\ faults = 0 => Gated(Plan) /\ Complete(Plan)
  /\ ~edited => OfOne(Plan)

ReadInv ==
  \A p \in Procs :
    /\ (hook[p].pc \in {"key", "verify"} /\ faults = 0 /\ ~edited) =>
         Told(hook[p].entries) /\ Gated(hook[p].entries) /\ OfOne(hook[p].entries)
    /\ (hook[p].pc = "verify" /\ \A q \in Procs \ {p} : hook[q].key # q) => hook[p].key = key

LedgerInv == IF Broken THEN faults # 0 /\ Told(Ledger) ELSE PlanInv
IInv == HooksInv /\ FileInv /\ LedgerInv /\ ReadInv

-----------------------------------------------------------------------------
(* What a step makes of the hooks *)

(* Only the hook of p is other than it was. *)
Alone(p, hooks) ==
  /\ hooks = [q \in Procs |-> hooks[q]] /\ IsHook(hooks[p])
  /\ \A q \in Procs \ {p} : hooks[q] = hook[q]

LEMMA DoneIs ==
  ASSUME HooksInv, NEW p \in Procs, NEW answer
  PROVE  /\ Alone(p, Done(p, answer))
         /\ Done(p, answer)[p] = [hook[p] EXCEPT !.pc = "done", !.answer = answer, !.todo = <<>>,
                                                 !.begun = "no", !.entries = <<>>]
<1>1. hook = [q \in Procs |-> hook[q]] /\ IsHook(hook[p])
  BY DEF HooksInv, HookInv
<1>2. PICK d : d = Done(p, answer)
  OBVIOUS
<1>3. PICK h : h = hook[p]
  OBVIOUS
<1>4. PICK k : k = [h EXCEPT !.pc = "done", !.answer = answer, !.todo = <<>>, !.begun = "no", !.entries = <<>>]
  OBVIOUS
<1>5. d = [q \in Procs |-> IF q = p THEN k ELSE hook[q]]
  BY <1>1, <1>2, <1>3, <1>4 DEF Done
<1>6. IsHook(k)
  BY <1>1, <1>3, <1>4 DEF IsHook
<1>7. QED  BY <1>2, <1>3, <1>4, <1>5, <1>6 DEF Alone

LEMMA HookStays ==
  ASSUME NEW q \in Procs, HookInv(q), hook'[q] = hook[q], holder' = q <=> holder = q,
         holder = q => file' = file /\ ended' = ended, config' = config, ~edited' => ~edited
  PROVE  HookInv(q)'
<1>1. Verdict(hook[q])' = Verdict(hook[q])
  BY DEF Verdict, Denied
<1>2. hook[q].begun # "no" => holder = q
  BY DEF HookInv
<1>3. hook[q].begun \in {"no", "own", "glued"}
  BY DEF HookInv
<1>4. hook[q].begun # "no" => file' = file /\ ended' = ended
  BY <1>2
<1> HIDE DEF Verdict
<1>5. QED  BY <1>1, <1>3, <1>4 DEF HookInv

LEMMA HooksStay ==
  ASSUME HooksInv, NEW p \in Procs, Alone(p, hook'), HookInv(p)', holder' \in {holder, p, NoOne},
         holder' # holder => holder \in {p, NoOne},
         file' # file \/ ended' # ended => holder = p,
         config' = config, ~edited' => ~edited
  PROVE  HooksInv'
<1>1. ASSUME NEW q \in Procs, q # p
      PROVE  HookInv(q)'
  <2>1. hook'[q] = hook[q] /\ HookInv(q)
    BY <1>1 DEF Alone, HooksInv
  <2>2. holder' = q <=> holder = q
    BY <1>1, ProcsAssumption DEF HooksInv
  <2>3. holder = q => file' = file /\ ended' = ended
    BY <1>1
  <2>4. QED  BY <2>1, <2>2, <2>3, HookStays
<1>2. QED  BY <1>1 DEF HooksInv, Alone

LEMMA StartHook ==
  ASSUME HooksInv, FileInv, NEW p \in Procs, NEW call \in Calls, Start(p, call)
  PROVE  HooksInv' /\ FileInv' /\ Alone(p, hook')
<1>1. hook = [q \in Procs |-> hook[q]] /\ HookInv(p) /\ hook[p].pc = "idle"
  BY DEF HooksInv, Start
<1>2. PICK h : h = hook[p]
  OBVIOUS
<1>3. PICK pc : pc = IF call.event = "Stop" THEN "export" ELSE "ready"
  OBVIOUS
<1>4. PICK k : k = [h EXCEPT !.pc = pc, !.call = call, !.seen = roster]
  OBVIOUS
<1>5. hook' = [q \in Procs |-> IF q = p THEN k ELSE hook[q]]
  BY <1>1, <1>2, <1>3, <1>4 DEF Start
<1>6. IsHook(h)
  BY <1>1, <1>2 DEF HookInv
<1>7. /\ IsHook(k) /\ k.pc = pc /\ k.call = call /\ k.seen = roster /\ k.todo = h.todo
      /\ k.begun = h.begun /\ k.key = h.key /\ k.answer = h.answer
  BY <1>4, <1>6 DEF IsHook
<1>8. Alone(p, hook')
  BY <1>5, <1>7 DEF Alone
<1>9. UNCHANGED <<project, disk, holder, key, faults>>
  BY DEF Start
<1>10. hook'[p] = k
  BY <1>5
<1>11. HookInv(p)'
  <2>1. h.begun = "no" /\ holder # p /\ IsSeq(h.todo) /\ h.key = NoOne
    BY <1>1, <1>2 DEF HookInv
  <2>2. pc \in {"export", "ready"} /\ (pc = "export" <=> call.event = "Stop")
    BY <1>3
  <2>3. roster \in DOMAIN Declared /\ (~edited => roster = Initially)
    BY DEF FileInv
  <2>4. QED  BY <1>7, <1>9, <1>10, <2>1, <2>2, <2>3 DEF HookInv, project
<1>12. HooksInv'
  BY <1>8, <1>9, <1>11, HooksStay DEF project, disk
<1>13. holder # NoOne => holder \in Procs \ {p}
  BY <1>1 DEF HookInv, HooksInv
<1>14. FileInv'
  BY <1>8, <1>9, <1>13 DEF FileInv, project, disk, Alone
<1>15. QED  BY <1>8, <1>12, <1>14

(* A process that is done, whatever it answers. *)
LEMMA DoneHook ==
  ASSUME HooksInv, NEW p \in Procs, NEW answer, hook[p].pc # "idle", holder' = IF holder = p THEN NoOne ELSE holder,
         hook' = Done(p, answer),
         UNCHANGED <<project, disk>>,
         (answer \in {"pass", "deny"} /\ hook[p].call.event = "PreToolUse") => answer = Verdict(hook[p])
  PROVE  HooksInv' /\ Alone(p, hook')
<1>1. hook = [q \in Procs |-> hook[q]] /\ HookInv(p)
  BY DEF HooksInv
<1>2. PICK h : h = hook[p]
  OBVIOUS
<1>3. PICK k : k = [h EXCEPT !.pc = "done", !.answer = answer, !.todo = <<>>, !.begun = "no", !.entries = <<>>]
  OBVIOUS
<1>4. Alone(p, hook') /\ hook'[p] = k
  BY <1>2, <1>3, DoneIs
<1>5. /\ IsHook(k) /\ k.pc = "done" /\ k.answer = answer /\ k.todo = <<>> /\ k.begun = "no"
      /\ k.call = h.call /\ k.seen = h.seen /\ k.key = h.key
  BY <1>1, <1>2, <1>3 DEF IsHook, HookInv
<1>6. IsSeq(<<>>)
  <2>1. PICK none : none = <<>>
    OBVIOUS
  <2>2. none \in Seq(Range(none))
    BY <2>1, EmptySeq
  <2>3. QED  BY <2>1, <2>2 DEF IsSeq
<1>7. Verdict(hook[p])' = Verdict(hook[p])
  BY <1>2, <1>4, <1>5 DEF Verdict, Denied, project
<1>8. holder' # p
  BY ProcsAssumption
<1>9. HookInv(p)'
  <2>1. h.call \in Calls /\ h.seen \in DOMAIN Declared /\ (~edited => h.seen = Initially)
    BY <1>1, <1>2 DEF HookInv
  <2>2. (k.answer \in {"pass", "deny"} /\ k.call.event = "PreToolUse") => k.answer = Verdict(hook[p])'
    BY <1>2, <1>5, <1>7
  <2> HIDE DEF Verdict
  <2>3. edited' = edited
    BY DEF project
  <2>4. QED  BY <1>4, <1>5, <1>6, <1>8, <2>1, <2>2, <2>3 DEF HookInv
<1>10. QED  BY <1>4, <1>9, HooksStay DEF project, disk

LEMMA EmptyIsSeq ==
  IsSeq(<<>>) /\ Len(<<>>) = 0
<1>1. PICK none : none = <<>>
  OBVIOUS
<1>2. none \in Seq(Range(none)) /\ Len(none) = 0
  BY <1>1, EmptySeq
<1>3. QED  BY <1>1, <1>2 DEF IsSeq

(* A process that holds no lock. *)
LEMMA FileStays ==
  ASSUME HooksInv, FileInv, NEW p \in Procs, holder # p, Alone(p, hook'), holder' = holder,
         UNCHANGED <<project, disk>>, faults' \in {faults, faults + 1}
  PROVE  FileInv'
<1>1. holder # NoOne => holder \in Procs \ {p}
  BY DEF HooksInv
<1>2. faults' \in Nat /\ (faults' = 0 => faults = 0)
  BY DEF FileInv
<1>3. QED  BY <1>1, <1>2 DEF FileInv, Alone, project, disk

LEMMA WaitingHook ==
  ASSUME HooksInv, NEW p \in Procs, hook[p].pc # "writing"
  PROVE  holder # p
BY DEF HooksInv, HookInv

(* The process gives up, or is refused, before it has the lock. *)
LEMMA RefusedHook ==
  ASSUME HooksInv, FileInv, NEW p \in Procs, Fails(p) \/ Refuse(p)
  PROVE  HooksInv' /\ FileInv' /\ Alone(p, hook')
<1>1. hook[p].pc = "ready" /\ hook' = Done(p, "fail") /\ holder' = holder
  BY DEF Fails, Refuse
<1>2. UNCHANGED <<project, disk>> /\ faults' \in {faults, faults + 1}
  BY DEF Fails, Refuse, Fault
<1>3. holder # p
  BY <1>1, WaitingHook
<1>4. HooksInv' /\ Alone(p, hook')
  BY <1>1, <1>2, <1>3, DoneHook
<1>5. QED  BY <1>1, <1>2, <1>3, <1>4, FileStays

(* The process answers, fails or is killed at its lines. *)
LEMMA UnlockedHook ==
  ASSUME HooksInv, FileInv, NEW p \in Procs, WriteFails(p) \/ Die(p) \/ Answer(p)
  PROVE  /\ HooksInv' /\ FileInv' /\ Alone(p, hook')
         /\ holder = p /\ holder' = NoOne /\ UNCHANGED <<project, disk, key>> /\ faults' \in Nat
         /\ (Answer(p) /\ faults' = faults) \/ faults' # 0
<1>1. hook[p].pc = "writing" /\ Unlock(p) /\ UNCHANGED <<project, disk, key>>
  BY DEF WriteFails, Die, Answer
<1>2. holder = p /\ holder' = NoOne
  BY <1>1 DEF HooksInv, HookInv, Unlock
<1>3. PICK answer : /\ hook' = Done(p, answer)
                    /\ answer \in {"pass", "deny"} => answer = Verdict(hook[p])
  BY DEF WriteFails, Die, Answer
<1>4. HooksInv' /\ Alone(p, hook')
  BY <1>1, <1>2, <1>3, DoneHook
<1>5. faults \in Nat
  BY DEF FileInv
<1>6. (Answer(p) /\ faults' = faults) \/ faults' = faults + 1
  BY DEF WriteFails, Die, Answer, Fault
<1>7. faults' \in Nat /\ ((Answer(p) /\ faults' = faults) \/ faults' # 0)
  BY <1>5, <1>6
<1>8. FileInv'
  <2>1. ~ended => faults' # 0
    <3>1. SUFFICES ASSUME ~ended, faults' = 0 PROVE FALSE
      OBVIOUS
    <3>2. Answer(p) /\ faults = 0
      BY <1>7, <3>1
    <3>3. hook[p].begun # "no"
      BY <1>2, <3>1, <3>2 DEF FileInv
    <3>4. hook[p].todo # <<>>
      BY <3>3 DEF HooksInv, HookInv
    <3>5. QED  BY <3>2, <3>4 DEF Answer
  <2>2. QED  BY <1>1, <1>7, <2>1 DEF FileInv, project, disk
<1>9. QED  BY <1>1, <1>2, <1>4, <1>7, <1>8

(* A stop reads the ledger, makes a key and verifies. *)
LEMMA ExportHook ==
  ASSUME HooksInv, FileInv, NEW p \in Procs, ExportRead(p) \/ ExportKey(p) \/ ExportVerify(p)
  PROVE  /\ HooksInv' /\ FileInv' /\ Alone(p, hook') /\ holder' = holder /\ holder # p
         /\ hook[p].call.event = "Stop" /\ hook'[p].call = hook[p].call
         /\ hook'[p].pc \in {"key", "verify", "done"} /\ UNCHANGED <<project, disk, faults>>
<1>1. hook = [q \in Procs |-> hook[q]] /\ HookInv(p)
  BY DEF HooksInv
<1>2. hook[p].pc \in {"export", "key", "verify"} /\ holder' = holder /\ UNCHANGED <<project, disk, faults>>
  BY DEF ExportRead, ExportKey, ExportVerify
<1>3. holder # p /\ hook[p].call.event = "Stop"
  BY <1>1, <1>2, WaitingHook DEF HookInv
<1>4. PICK h : h = hook[p]
  OBVIOUS
<1>5. IsHook(h) /\ IsSeq(h.todo) /\ h.begun = "no" /\ h.call \in Calls /\ h.seen \in DOMAIN Declared
      /\ (~edited => h.seen = Initially)
  BY <1>1, <1>2, <1>3, <1>4 DEF HookInv
<1>6. CASE \E answer : hook' = Done(p, answer)
  <2>1. PICK answer : hook' = Done(p, answer)
    BY <1>6
  <2>2. HooksInv' /\ Alone(p, hook')
    BY <1>2, <1>3, <2>1, DoneHook DEF project, disk
  <2>3. hook'[p] = [h EXCEPT !.pc = "done", !.answer = answer, !.todo = <<>>, !.begun = "no", !.entries = <<>>]
    BY <1>4, <2>1, DoneIs
  <2>4. hook'[p].pc = "done" /\ hook'[p].call = h.call
    BY <1>5, <2>3 DEF IsHook
  <2>5. FileInv'
    BY <1>2, <1>3, <2>2, FileStays
  <2>6. QED  BY <1>2, <1>3, <1>4, <2>2, <2>4, <2>5
<1>7. CASE \E report : hook' = [Done(p, "pass") EXCEPT ![p].report = report]
  <2>1. PICK report : hook' = [Done(p, "pass") EXCEPT ![p].report = report]
    BY <1>7
  <2>2. PICK d : d = Done(p, "pass")
    OBVIOUS
  <2>3. PICK k : k = [h EXCEPT !.pc = "done", !.answer = "pass", !.todo = <<>>, !.begun = "no", !.entries = <<>>]
    OBVIOUS
  <2>4. Alone(p, d) /\ d[p] = k
    BY <1>4, <2>2, <2>3, DoneIs
  <2>5. /\ IsHook(k) /\ k.pc = "done" /\ k.answer = "pass" /\ k.todo = <<>> /\ k.begun = "no"
        /\ k.call = h.call /\ k.seen = h.seen
    BY <1>5, <2>3 DEF IsHook
  <2>6. PICK l : l = [k EXCEPT !.report = report]
    OBVIOUS
  <2>7. /\ IsHook(l) /\ l.pc = "done" /\ l.todo = <<>> /\ l.begun = "no"
        /\ l.call = h.call /\ l.seen = h.seen
    BY <2>5, <2>6 DEF IsHook
  <2>8. hook' = [q \in Procs |-> IF q = p THEN l ELSE d[q]]
    BY <2>1, <2>2, <2>4, <2>6 DEF Alone
  <2>9. Alone(p, hook') /\ hook'[p] = l
    BY <2>4, <2>7, <2>8 DEF Alone
  <2>10. HookInv(p)'
    BY <1>2, <1>3, <1>4, <1>5, <2>7, <2>9, EmptyIsSeq DEF HookInv, project
  <2>11. HooksInv'
    BY <1>2, <1>3, <2>9, <2>10, HooksStay DEF project, disk
  <2>12. FileInv'
    BY <1>2, <1>3, <2>9, FileStays
  <2>13. QED  BY <1>2, <1>3, <1>4, <2>7, <2>9, <2>11, <2>12
<1>8. CASE \E pc, entries, k : /\ pc \in {"key", "verify"} /\ (pc = "key" => k = NoOne)
                              /\ hook' = [hook EXCEPT ![p].pc = pc, ![p].entries = entries, ![p].key = k]
  <2>1. PICK pc, entries, k :
          /\ pc \in {"key", "verify"} /\ (pc = "key" => k = NoOne)
          /\ hook' = [hook EXCEPT ![p].pc = pc, ![p].entries = entries, ![p].key = k]
    BY <1>8
  <2>2. PICK l : l = [h EXCEPT !.pc = pc, !.entries = entries, !.key = k]
    OBVIOUS
  <2>3. hook' = [q \in Procs |-> IF q = p THEN l ELSE hook[q]]
    BY <1>1, <1>4, <2>1, <2>2
  <2>4. /\ IsHook(l) /\ l.pc = pc /\ l.todo = h.todo /\ l.begun = "no"
        /\ l.call = h.call /\ l.seen = h.seen /\ l.key = k
    BY <1>5, <2>2 DEF IsHook
  <2>5. Alone(p, hook') /\ hook'[p] = l
    BY <2>3, <2>4 DEF Alone
  <2>6. HookInv(p)'
    BY <1>2, <1>3, <1>4, <1>5, <2>1, <2>4, <2>5 DEF HookInv, project
  <2>7. HooksInv'
    BY <1>2, <1>3, <2>5, <2>6, HooksStay DEF project, disk
  <2>8. FileInv'
    BY <1>2, <1>3, <2>5, FileStays
  <2>9. QED  BY <1>2, <1>3, <1>4, <2>1, <2>4, <2>5, <2>7, <2>8
<1>9. CASE ExportRead(p)
  <2>1. CASE ~(config.export /\ exists) \/ ~Readable(file)
    BY <1>6, <1>9, <2>1 DEF ExportRead
  <2>2. CASE ~(~(config.export /\ exists) \/ ~Readable(file))
    <3>1. PICK pc : pc = IF key = NoOne THEN "key" ELSE "verify"
      OBVIOUS
    <3>2. /\ pc \in {"key", "verify"} /\ (pc = "key" => key = NoOne)
          /\ hook' = [hook EXCEPT ![p].pc = pc, ![p].entries = file, ![p].key = key]
      BY <1>9, <2>2, <3>1 DEF ExportRead
    <3>3. QED  BY <1>8, <3>2
  <2>3. QED  BY <2>1, <2>2
<1>10. CASE ExportKey(p)
  <2>1. PICK l : l = [h EXCEPT !.pc = "verify", !.key = p]
    OBVIOUS
  <2>2. hook' = [q \in Procs |-> IF q = p THEN l ELSE hook[q]]
    BY <1>1, <1>4, <1>10, <2>1 DEF ExportKey
  <2>3. /\ IsHook(l) /\ l.pc = "verify" /\ l.todo = h.todo /\ l.begun = "no"
        /\ l.call = h.call /\ l.seen = h.seen
    BY <1>5, <2>1 DEF IsHook
  <2>4. Alone(p, hook') /\ hook'[p] = l
    BY <2>2, <2>3 DEF Alone
  <2>5. HookInv(p)'
    BY <1>2, <1>3, <1>4, <1>5, <2>3, <2>4 DEF HookInv, project
  <2>6. HooksInv'
    BY <1>2, <1>3, <2>4, <2>5, HooksStay DEF project, disk
  <2>7. FileInv'
    BY <1>2, <1>3, <2>4, FileStays
  <2>8. QED  BY <1>2, <1>3, <1>4, <2>3, <2>4, <2>6, <2>7
<1>11. CASE ExportVerify(p)
  BY <1>7, <1>11 DEF ExportVerify
<1>12. QED  BY <1>9, <1>10, <1>11

-----------------------------------------------------------------------------
(* The lock *)

LEMMA WholeFile ==
  ASSUME IsSeq(file)
  PROVE  PlanOf(file, Len(file), <<>>) = file
<1>1. PICK plan : plan = PlanOf(file, Len(file), <<>>)
  OBVIOUS
<1>2. Len(file) \in Nat /\ DOMAIN file = 1 .. Len(file)
  BY SeqIsIndexed
<1>3. IsPlan(plan, file, Len(file), <<>>)
  BY <1>1, <1>2, EmptyIsSeq, PlanOfIs
<1>4. IsSeq(plan) /\ Len(plan) = Len(file) /\ \A i \in 1 .. Len(file) : plan[i] = file[i]
  BY <1>2, <1>3, EmptyIsSeq DEF IsPlan
<1>5. DOMAIN plan = 1 .. Len(file)
  BY <1>4, SeqIsIndexed
<1>6. QED  BY <1>1, <1>4, <1>5, SeqsEqual

(* When no process holds the lock and every line parses, the file is the   *)
(* ledger.                                                                 *)
LEMMA UnlockedFile ==
  ASSUME IInv, holder = NoOne, Readable(file)
  PROVE  Plan = file /\ Pre = Len(file) /\ ~Broken /\ PlanInv
<1>1. IsSeq(file) /\ DOMAIN file = 1 .. Len(file)
  BY SeqIsIndexed DEF IInv, FileInv
<1>2. Pre = Len(file) /\ Todo = <<>>
  BY DEF Pre, Owns, Todo
<1>3. Plan = file
  BY <1>1, <1>2, WholeFile DEF Plan
<1>4. ~Broken
  BY <1>1, <1>2 DEF Broken, Readable, ToSet
<1>5. QED  BY <1>2, <1>3, <1>4 DEF IInv, LedgerInv

LEMMA LockHook ==
  ASSUME IInv, NEW p \in Procs, Lock(p),
         NEW bodies, bodies = NewBodies(hook[p].seen, hook[p].call, p)
  PROVE  /\ HooksInv' /\ FileInv' /\ Alone(p, hook')
         /\ holder = NoOne /\ holder' = p /\ UNCHANGED <<project, file, ended, key, faults>>
         /\ hook[p].pc = "ready" /\ hook[p].seen \in DOMAIN Declared /\ hook[p].call \in Calls
         /\ hook'[p] = [hook[p] EXCEPT !.pc = "writing", !.todo = After(file, bodies)]
         /\ hook'[p].pc = "writing" /\ hook'[p].call = hook[p].call /\ hook'[p].seen = hook[p].seen
         /\ Told(file) /\ Adds(bodies, hook[p].seen, hook[p].call, p, Known(file, hook[p].seen))
         /\ Pre' = Len(file) /\ Plan' = Joined(file, After(file, bodies))
<1>1. hook = [q \in Procs |-> hook[q]] /\ HookInv(p) /\ IsSeq(file)
  BY DEF IInv, HooksInv, FileInv
<1>2. /\ hook[p].pc = "ready" /\ Readable(file) /\ ChainVerifies(file)
      /\ holder = NoOne /\ holder' = p /\ UNCHANGED <<project, file, ended, key, faults>>
  BY DEF Lock, Locked
<1>3. Told(file)
  BY <1>2, UnlockedFile DEF PlanInv
<1>4. PICK h : h = hook[p]
  OBVIOUS
<1>5. h.seen \in DOMAIN Declared /\ h.call \in Calls /\ IsHook(h) /\ h.begun = "no" /\ h.call.event # "Stop"
      /\ h.key = NoOne /\ (~edited => h.seen = Initially)
  BY <1>1, <1>2, <1>4, ProcsAssumption DEF HookInv
<1>6. Adds(bodies, h.seen, h.call, p, Known(file, h.seen))
  BY <1>4, <1>5, NewBodiesAre
<1>7. IsSeq(bodies)
  BY <1>6 DEF Adds
<1>8. PICK todo : todo = After(file, bodies)
  OBVIOUS
<1>9. IsSeq(todo)
  BY <1>3, <1>7, <1>8, AfterIs DEF Told, IsLedger
<1>10. todo = Rechained(NewBodies(h.seen, h.call, p))
  BY <1>4, <1>8 DEF After, Rechained
<1>11. PICK k : k = [h EXCEPT !.pc = "writing", !.todo = todo]
  OBVIOUS
<1>12. hook' = [q \in Procs |-> IF q = p THEN k ELSE hook[q]]
  BY <1>1, <1>4, <1>10, <1>11 DEF Lock
<1>13. /\ IsHook(k) /\ k.pc = "writing" /\ k.todo = todo /\ k.begun = "no"
       /\ k.call = h.call /\ k.seen = h.seen /\ k.key = h.key
  BY <1>5, <1>11 DEF IsHook
<1>14. Alone(p, hook') /\ hook'[p] = k
  BY <1>12, <1>13 DEF Alone
<1>15. HookInv(p)'
  BY <1>2, <1>5, <1>9, <1>13, <1>14 DEF HookInv, project
<1>16. HooksInv
  BY DEF IInv
<1>17. HooksInv'
  BY <1>2, <1>14, <1>15, <1>16, HooksStay DEF project
<1>18. FileInv'
  BY <1>2, ProcsAssumption DEF IInv, FileInv, project
<1>19. Pre' = Len(file) /\ Todo' = todo
  BY <1>2, <1>13, <1>14, ProcsAssumption DEF Pre, Owns, Todo
<1>20. Plan' = Joined(file, todo)
  BY <1>2, <1>19 DEF Plan, PlanOf, Joined
<1>21. QED  BY <1>2, <1>3, <1>4, <1>5, <1>6, <1>8, <1>11, <1>13, <1>14, <1>17, <1>18, <1>19, <1>20

LEMMA LockPlan ==
  ASSUME IInv, NEW p \in Procs, Lock(p)
  PROVE  ~Broken' /\ PlanInv'
<1>1. PICK bodies : bodies = NewBodies(hook[p].seen, hook[p].call, p)
  OBVIOUS
<1>2. PICK r : r = hook[p].seen
  OBVIOUS
<1>3. PICK call : call = hook[p].call
  OBVIOUS
<1>4. /\ HooksInv' /\ FileInv' /\ Alone(p, hook')
      /\ holder = NoOne /\ holder' = p /\ UNCHANGED <<project, file, ended, key, faults>>
      /\ hook[p].pc = "ready" /\ r \in DOMAIN Declared /\ call \in Calls
      /\ hook'[p].pc = "writing" /\ hook'[p].call = call /\ hook'[p].seen = r
      /\ Told(file) /\ Adds(bodies, r, call, p, Known(file, r))
      /\ Pre' = Len(file)
  BY <1>1, <1>2, <1>3, LockHook
<1>5. PICK ws : ws = Joined(file, After(file, bodies))
  OBVIOUS
<1>6. Plan' = ws
  BY <1>1, <1>5, LockHook
<1>7. Plan = file /\ Pre = Len(file) /\ ~Broken /\ PlanInv
  BY <1>4, UnlockedFile DEF Lock
<1>8. ~Broken'
  BY <1>4, <1>7 DEF Broken
<1>9. /\ Told(ws)
      /\ (Gated(file) /\ Complete(file)) => Gated(ws)
      /\ Complete(file) => Complete(ws)
      /\ (OfOne(file) /\ r = Initially) => OfOne(ws)
  BY <1>4, <1>5, ToldGrows
<1>10. PICK m : m = Len(file)
  OBVIOUS
<1>11. Extended(ws, file, bodies)
  BY <1>4, <1>5, ExtendedIs DEF Told, Adds
<1>12. /\ m \in Nat /\ DOMAIN file = 1 .. m /\ DOMAIN bodies = 1 .. Len(bodies)
       /\ \A i \in DOMAIN file : i \in DOMAIN ws /\ ws[i] = file[i]
       /\ \A k \in DOMAIN bodies : m + k \in DOMAIN ws /\ ws[m + k].body = bodies[k]
       /\ \A i \in DOMAIN ws : i \in DOMAIN file \/ \E k \in DOMAIN bodies : i = m + k
  BY <1>10, <1>11, SeqIsIndexed DEF Extended
<1>13. \A i \in DOMAIN file : file[i].body.call # p
  BY <1>4, <1>7 DEF PlanInv, CallInv
<1>14. \A k \in DOMAIN bodies : \A q \in Procs :
         bodies[k].call = q =>
           k = Len(bodies) /\ q = p /\ call.event = "PreToolUse" /\ bodies[k] = Decision(r, call, p)
  BY <1>4 DEF Adds
<1>15. ASSUME NEW i \in DOMAIN ws, NEW q \in Procs, ws[i].body.call = q
       PROVE  /\ hook'[q].pc \in {"writing", "done"} /\ hook'[q].call.event = "PreToolUse"
              /\ ws[i].body = Decision(hook'[q].seen, hook'[q].call, q)
              /\ \A j \in DOMAIN ws : ws[j].body.call = q => j = i
  <2>1. CASE i \in DOMAIN file
    <3>1. file[i] = ws[i]
      BY <1>12, <2>1
    <3>2. q # p
      BY <1>13, <1>15, <2>1, <3>1
    <3>3. /\ hook[q].pc \in {"writing", "done"} /\ hook[q].call.event = "PreToolUse"
          /\ ws[i].body = Decision(hook[q].seen, hook[q].call, q)
          /\ \A j \in DOMAIN file : file[j].body.call = q => j = i
      BY <1>7, <1>15, <2>1, <3>1 DEF PlanInv, CallInv
    <3>4. hook'[q] = hook[q]
      BY <1>4, <3>2 DEF Alone
    <3>5. ASSUME NEW j \in DOMAIN ws, ws[j].body.call = q
          PROVE  j = i
      <4>1. CASE j \in DOMAIN file
        BY <1>12, <3>3, <3>5, <4>1
      <4>2. CASE \E k \in DOMAIN bodies : j = m + k
        <5>1. PICK k \in DOMAIN bodies : j = m + k
          BY <4>2
        <5>2. bodies[k].call = q
          BY <1>12, <3>5, <5>1
        <5>3. QED  BY <1>14, <3>2, <5>2
      <4>3. QED  BY <1>12, <4>1, <4>2
    <3>6. QED  BY <3>3, <3>4, <3>5
  <2>2. CASE i \notin DOMAIN file
    <3>1. PICK k \in DOMAIN bodies : i = m + k
      BY <1>12, <2>2
    <3>2. bodies[k].call = q /\ ws[i].body = bodies[k]
      BY <1>12, <1>15, <3>1
    <3>3. k = Len(bodies) /\ q = p /\ call.event = "PreToolUse" /\ bodies[k] = Decision(r, call, p)
      BY <1>14, <3>2
    <3>4. ASSUME NEW j \in DOMAIN ws, ws[j].body.call = q
          PROVE  j = i
      <4>1. j \notin DOMAIN file
        BY <1>12, <1>13, <3>3, <3>4
      <4>2. PICK l \in DOMAIN bodies : j = m + l
        BY <1>12, <4>1
      <4>3. bodies[l].call = q
        BY <1>12, <3>4, <4>2
      <4>4. l = Len(bodies)
        BY <1>14, <4>3
      <4>5. QED  BY <3>1, <3>3, <4>2, <4>4
    <3>5. QED  BY <1>4, <3>2, <3>3, <3>4
  <2>3. QED  BY <2>1, <2>2
<1>16. CallInv'
  BY <1>6, <1>15 DEF CallInv
<1>17. AnswerInv'
  <2>1. SUFFICES ASSUME NEW q \in Procs, hook'[q].pc # "idle", hook'[q].call.event = "PreToolUse"
                 PROVE  /\ hook'[q].pc = "writing" => \E i \in DOMAIN ws : ws[i].body.call = q
                        /\ (hook'[q].pc = "done" /\ hook'[q].answer \in {"pass", "deny"}) =>
                             \E i \in 1 .. m : file[i].body.call = q
    BY <1>4, <1>6, <1>10 DEF AnswerInv, AnswerFor
  <2>2. CASE q = p
    <3>1. PICK k \in DOMAIN bodies : bodies[k].call = p
      BY <1>4, <2>1, <2>2 DEF Adds
    <3>2. QED  BY <1>4, <1>12, <2>2, <3>1
  <2>3. CASE q # p
    <3>1. hook'[q] = hook[q]
      BY <1>4, <2>3 DEF Alone
    <3>2. hook[q].pc # "writing"
      BY <1>4, ProcsAssumption DEF IInv, HooksInv, HookInv
    <3>3. (hook[q].pc = "done" /\ hook[q].answer \in {"pass", "deny"}) => \E i \in 1 .. m : file[i].body.call = q
      BY <1>7, <1>10, <2>1, <3>1 DEF PlanInv, AnswerInv, AnswerFor
    <3>4. QED  BY <3>1, <3>2, <3>3
  <2>4. QED  BY <2>2, <2>3
<1>18. faults' = 0 => Gated(ws) /\ Complete(ws)
  BY <1>4, <1>7, <1>9 DEF PlanInv
<1>19. ~edited' => OfOne(ws)
  <2>1. ~edited => r = Initially
    BY <1>2, <1>4 DEF IInv, HooksInv, HookInv
  <2>2. QED  BY <1>4, <1>7, <1>9, <2>1 DEF PlanInv, project
<1>20. QED  BY <1>6, <1>8, <1>9, <1>16, <1>17, <1>18, <1>19 DEF PlanInv

-----------------------------------------------------------------------------
(* What a step makes of the plan *)

LEMMA PlanIs ==
  ASSUME HooksInv, FileInv
  PROVE  /\ IsPlan(Plan, file, Pre, Todo) /\ IsSeq(Todo) /\ Pre \in Nat /\ Len(file) \in Nat
         /\ DOMAIN file = 1 .. Len(file)
         /\ ~Owns => Pre = Len(file)
         /\ Owns => /\ Len(file) = Pre + 1 /\ Todo # <<>>
                    /\ file[Len(file)] \in {Garbled, Head(Todo)}
<1>1. IsSeq(file) /\ Len(file) \in Nat /\ DOMAIN file = 1 .. Len(file)
  BY SeqIsIndexed DEF FileInv
<1>2. IsSeq(Todo)
  BY EmptyIsSeq DEF Todo, HooksInv, HookInv
<1>3. ~Owns => Pre = Len(file)
  BY DEF Pre
<1>4. ASSUME Owns
      PROVE  /\ Pre = Len(file) - 1 /\ Todo # <<>> /\ file[Len(file)] \in {Garbled, Head(Todo)}
             /\ Len(file) # 0
  <2>1. holder \in Procs /\ hook[holder].begun = "own" /\ Todo = hook[holder].todo
    BY <1>4 DEF Owns, Todo, HooksInv
  <2>2. HookInv(holder)
    BY <2>1 DEF HooksInv
  <2>3. hook[holder].todo # <<>> /\ file # <<>> /\ file[Len(file)] \in {Garbled, Head(hook[holder].todo)}
    BY <2>1, <2>2 DEF HookInv
  <2>4. Len(file) # 0
    BY <1>1, <2>3, EmptySeq DEF IsSeq
  <2>5. QED  BY <1>4, <2>1, <2>3, <2>4 DEF Pre
<1>5. Pre \in Nat
  BY <1>1, <1>3, <1>4
<1>6. IsPlan(Plan, file, Pre, Todo)
  BY <1>2, <1>5, PlanOfIs DEF Plan
<1>7. Owns => Len(file) = Pre + 1
  BY <1>1, <1>4
<1>8. QED  BY <1>1, <1>2, <1>3, <1>4, <1>5, <1>6, <1>7

LEMMA PreIs ==
  ASSUME HooksInv, FileInv
  PROVE  Pre \in Nat /\ Len(file) \in Nat /\ Pre <= Len(file)
<1>1. PICK n : n = Pre
  OBVIOUS
<1>2. PICK m : m = Len(file)
  OBVIOUS
<1>3. n \in Nat /\ m \in Nat /\ (n = m \/ m = n + 1)
  BY <1>1, <1>2, PlanIs
<1>4. n <= m
  BY <1>3
<1>5. QED  BY <1>1, <1>2, <1>3, <1>4

LEMMA SamePlanOf ==
  ASSUME NEW f, NEW g, NEW n \in Nat, NEW todo, IsSeq(todo), \A i \in 1 .. n : f[i] = g[i]
  PROVE  PlanOf(f, n, todo) = PlanOf(g, n, todo)
<1>1. Len(todo) \in Nat
  BY SeqIsIndexed
<1>2. \A i \in 1 .. n + Len(todo) : (IF i <= n THEN f[i] ELSE todo[i - n]) = (IF i <= n THEN g[i] ELSE todo[i - n])
  BY <1>1
<1>3. QED  BY <1>2 DEF PlanOf

LEMMA NextPlanOf ==
  ASSUME NEW f, NEW g, NEW n \in Nat, NEW todo, IsSeq(todo), todo # <<>>,
         \A i \in 1 .. n : f[i] = g[i], g[n + 1] = Head(todo)
  PROVE  PlanOf(f, n, todo) = PlanOf(g, n + 1, Tail(todo)) /\ IsSeq(Tail(todo))
<1>1. PICK rest : rest = Tail(todo)
  OBVIOUS
<1>2. PICK l : l = Len(todo)
  OBVIOUS
<1>3. todo \in Seq(Range(todo)) /\ l \in Nat /\ l # 0 /\ DOMAIN todo = 1 .. l
  BY <1>2, SeqIsIndexed, EmptySeq DEF IsSeq
<1>4. rest \in Seq(Range(todo)) /\ Len(rest) = l - 1 /\ \A i \in 1 .. l - 1 : rest[i] = todo[i + 1]
  BY <1>1, <1>2, <1>3, HeadTailProperties
<1>5. IsSeq(rest)
  BY <1>4, SeqIsSeq
<1>6. Head(todo) = todo[1]
  BY <1>3
<1>7. ASSUME NEW i \in 1 .. n + l
      PROVE  (IF i <= n THEN f[i] ELSE todo[i - n]) = (IF i <= n + 1 THEN g[i] ELSE rest[i - (n + 1)])
  <2>1. CASE i <= n
    BY <1>7, <2>1
  <2>2. CASE i = n + 1
    <3>1. ~(i <= n) /\ i - n = 1 /\ i <= n + 1
      BY <2>2
    <3>2. QED  BY <1>6, <2>2, <3>1
  <2>3. CASE i > n + 1
    <3>1. PICK j : j = i - (n + 1)
      OBVIOUS
    <3>2. j \in 1 .. l - 1 /\ i - n = j + 1 /\ ~(i <= n) /\ ~(i <= n + 1)
      BY <1>3, <2>3, <3>1
    <3>3. rest[j] = todo[j + 1]
      BY <1>4, <3>2
    <3>4. QED  BY <3>1, <3>2, <3>3
  <2>4. QED  BY <1>3, <2>1, <2>2, <2>3
<1>8. n + 1 + Len(rest) = n + l
  BY <1>3, <1>4
<1>9. PlanOf(f, n, todo) = PlanOf(g, n + 1, rest)
  BY <1>2, <1>7, <1>8 DEF PlanOf
<1>10. QED  BY <1>1, <1>5, <1>9

(* The lines before one that does not parse are those that were to be      *)
(* there.                                                                  *)
LEMMA LedgerBegins ==
  ASSUME HooksInv, FileInv, ~Broken
  PROVE  /\ Begins(Ledger, Plan) /\ IsSeq(Ledger) /\ Len(Ledger) \in Nat
         /\ Len(Ledger) >= Pre /\ \A i \in 1 .. Pre : Ledger[i] = file[i]
<1>1. PICK es : es = Ledger
  OBVIOUS
<1>2. es = LedgerIn(file)
  BY <1>1 DEF Ledger, LedgerIn
<1>3. /\ IsPlan(Plan, file, Pre, Todo) /\ IsSeq(Todo) /\ Pre \in Nat /\ Len(file) \in Nat
      /\ ~Owns => Pre = Len(file)
      /\ Owns => /\ Len(file) = Pre + 1 /\ Todo # <<>>
                 /\ file[Len(file)] \in {Garbled, Head(Todo)}
  BY PlanIs
<1>4. PICK k \in 0 .. Len(file) :
        /\ IsSeq(es) /\ Len(es) = k
        /\ \A i \in 1 .. k : es[i] = file[i] /\ file[i] # Garbled
        /\ k < Len(file) => file[k + 1] = Garbled
  BY <1>2, LedgerInIs DEF FileInv
<1>5. PICK n : n = Pre
  OBVIOUS
<1>6. k >= n
  <2>1. SUFFICES ASSUME k < n PROVE FALSE
    BY <1>3, <1>5
  <2>2. k + 1 \in 1 .. Pre /\ k < Len(file)
    BY <1>3, <1>5, <2>1
  <2>3. QED  BY <1>4, <2>2 DEF Broken
<1>7. \A i \in 1 .. n : es[i] = file[i]
  <2>1. \A i \in 1 .. n : i \in 1 .. k
    BY <1>3, <1>5, <1>6
  <2>2. QED  BY <1>4, <2>1
<1>8. DOMAIN es = 1 .. k
  BY <1>4, SeqIsIndexed
<1>9. k <= n \/ (k = n + 1 /\ Todo # <<>> /\ file[n + 1] = Head(Todo))
  <2>1. CASE Owns /\ ~(k <= n)
    <3>1. k = Len(file) /\ k = n + 1 /\ k \in 1 .. k
      BY <1>3, <1>5, <2>1
    <3>2. file[k] # Garbled
      BY <1>4, <3>1
    <3>3. QED  BY <1>3, <2>1, <3>1, <3>2
  <2>2. CASE ~Owns
    BY <1>3, <1>5, <2>2
  <2>3. QED  BY <2>1, <2>2
<1>10. \A i \in DOMAIN es : es[i] = file[i]
  BY <1>4, <1>8
<1>11. Begins(es, PlanOf(file, n, Todo))
  BY <1>3, <1>4, <1>5, <1>9, <1>10, BeginsPlan
<1>12. Begins(es, Plan)
  BY <1>5, <1>11 DEF Plan
<1>13. QED  BY <1>1, <1>4, <1>5, <1>6, <1>7, <1>12

(* A line that does not parse stays, and the ledger before it. *)
LEMMA BrokenStays ==
  ASSUME HooksInv, FileInv, Broken, IsSeq(file'), Pre' \in Nat, Pre <= Pre', Pre' <= Len(file'),
         \A i \in 1 .. Pre : file'[i] = file[i] \/ (i = Len(file) /\ file'[i] = Garbled)
  PROVE  Broken' /\ Ledger' = Ledger
<1>1. Pre \in Nat /\ Len(file) \in Nat /\ Pre <= Len(file)
  BY PreIs
<1>2. PICK n \in 1 .. Pre : file[n] = Garbled
  BY DEF Broken
<1>3. n \in 1 .. Pre' /\ n \in 1 .. Len(file) /\ n <= Len(file')
  <2>1. PICK a : a = Pre
    OBVIOUS
  <2>2. PICK b : b = Pre'
    OBVIOUS
  <2>3. PICK c : c = Len(file')
    OBVIOUS
  <2>4. PICK d : d = Len(file)
    OBVIOUS
  <2>5. c \in Nat
    BY <2>3, SeqIsIndexed
  <2>6. a \in Nat /\ b \in Nat /\ d \in Nat /\ a <= b /\ b <= c /\ a <= d /\ n \in 1 .. a
    BY <1>1, <1>2, <2>1, <2>2, <2>3, <2>4
  <2>7. n \in 1 .. b /\ n \in 1 .. d /\ n <= c
    BY <2>5, <2>6
  <2>8. QED  BY <2>2, <2>3, <2>4, <2>7
<1>4. \A i \in 1 .. n : file'[i] = file[i]
  <2>1. SUFFICES ASSUME NEW i \in 1 .. n PROVE file'[i] = file[i]
    OBVIOUS
  <2>2. i \in 1 .. Pre /\ (i = Len(file) => i = n)
    BY <1>1, <1>2, <1>3
  <2>3. QED  BY <1>2, <2>2
<1>5. LedgerIn(file') = LedgerIn(file)
  BY <1>2, <1>3, <1>4, SameLedgerIn DEF FileInv
<1>6. Ledger' = LedgerIn(file') /\ Ledger = LedgerIn(file)
  BY DEF Ledger, LedgerIn
<1>7. n \in 1 .. n
  BY <1>3
<1>8. file'[n] = Garbled
  BY <1>2, <1>4, <1>7
<1>9. Broken'
  BY <1>3, <1>8 DEF Broken
<1>10. QED  BY <1>5, <1>6, <1>9

(* A fact of one state is not one of the next to the provers. *)
LEMMA NextPreIs ==
  ASSUME HooksInv', FileInv'
  PROVE  IsSeq(Plan') /\ Pre' \in Nat /\ Len(file') \in Nat /\ Pre' <= Len(file')
<1>1. IsSeq(file') /\ Len(file') \in Nat
  BY SeqIsIndexed DEF FileInv
<1>2. IsSeq(Todo')
  BY EmptyIsSeq DEF Todo, HooksInv, HookInv
<1>3. ~Owns' => Pre' = Len(file')
  BY DEF Pre
<1>4. Owns' => Pre' = Len(file') - 1 /\ Len(file') # 0
  <2>1. SUFFICES ASSUME Owns' PROVE Pre' = Len(file') - 1 /\ Len(file') # 0
    OBVIOUS
  <2>2. holder' \in Procs /\ hook'[holder'].begun = "own"
    BY <2>1 DEF Owns, HooksInv
  <2>3. file' # <<>>
    BY <2>2 DEF HooksInv, HookInv
  <2>4. Len(file') # 0
    BY <1>1, <2>3, EmptySeq DEF IsSeq
  <2>5. QED  BY <2>1, <2>4 DEF Pre
<1>5. Pre' \in Nat /\ Pre' <= Len(file')
  <2>1. PICK n : n = Pre'
    OBVIOUS
  <2>2. PICK m : m = Len(file')
    OBVIOUS
  <2>3. m \in Nat /\ (n = m \/ (n = m - 1 /\ m # 0))
    BY <1>1, <1>3, <1>4, <2>1, <2>2
  <2>4. n \in Nat /\ n <= m
    BY <2>3
  <2>5. QED  BY <2>1, <2>2, <2>4
<1>6. IsPlan(PlanOf(file', Pre', Todo'), file', Pre', Todo')
  BY <1>2, <1>5, PlanOfIs
<1>7. IsSeq(Plan')
  BY <1>6 DEF IsPlan, Plan
<1>8. QED  BY <1>1, <1>5, <1>7

(* What a step that is not of the lock keeps of the plan, if every line     *)
(* parses, or loses.                                                        *)
Kept(p) ==
  /\ Plan' = Plan \/ (holder = p /\ faults' # 0 /\ Begins(Plan', Plan))
  /\ Pre <= Pre' /\ \A i \in 1 .. Pre : file'[i] = file[i]
  /\ hook[p].pc \in {"writing", "done"} =>
       hook'[p].pc \in {"writing", "done"} /\ hook'[p].call = hook[p].call /\ hook'[p].seen = hook[p].seen
  /\ AnswerFor(p)'

LEMMA KeptPlan ==
  ASSUME HooksInv, FileInv, PlanInv, HooksInv', FileInv', NEW p \in Procs, Alone(p, hook'), Kept(p),
         faults' = 0 => faults = 0, edited' = edited
  PROVE  PlanInv'
<1>1. PICK plan : plan = Plan
  OBVIOUS
<1>2. PICK next : next = Plan'
  OBVIOUS
<1>3. IsSeq(plan) /\ IsSeq(next)
  <2>1. IsSeq(Plan)
    BY PlanIs DEF IsPlan
  <2>2. IsSeq(Plan')
    BY NextPreIs
  <2>3. QED  BY <1>1, <1>2, <2>1, <2>2
<1>4. DOMAIN next \subseteq DOMAIN plan /\ (\A i \in DOMAIN next : next[i] = plan[i]) /\ (Told(plan) => Told(next))
      /\ (OfOne(plan) => OfOne(next))
  <2>1. CASE next = plan
    BY <2>1
  <2>2. CASE Begins(next, plan)
    BY <1>3, <2>2, BeginsToo
  <2>3. QED  BY <1>1, <1>2, <2>1, <2>2 DEF Kept
<1>5. Told(next)
  BY <1>1, <1>4 DEF PlanInv
<1>6. edited' = FALSE => OfOne(next)
  BY <1>1, <1>4 DEF PlanInv
<1>7. faults' = 0 => Gated(next) /\ Complete(next)
  <2>1. faults' = 0 => next = plan
    BY <1>1, <1>2 DEF Kept
  <2>2. QED  BY <1>1, <2>1 DEF PlanInv
<1>8. ASSUME NEW i \in DOMAIN next, NEW q \in Procs, next[i].body.call = q
      PROVE  /\ hook'[q].pc \in {"writing", "done"} /\ hook'[q].call.event = "PreToolUse"
             /\ next[i].body = Decision(hook'[q].seen, hook'[q].call, q)
             /\ \A j \in DOMAIN next : next[j].body.call = q => j = i
  <2>1. i \in DOMAIN plan /\ plan[i] = next[i]
    BY <1>4
  <2>2. /\ hook[q].pc \in {"writing", "done"} /\ hook[q].call.event = "PreToolUse"
        /\ plan[i].body = Decision(hook[q].seen, hook[q].call, q)
        /\ \A j \in DOMAIN plan : plan[j].body.call = q => j = i
    BY <1>1, <1>8, <2>1 DEF PlanInv, CallInv
  <2>3. hook'[q].pc \in {"writing", "done"} /\ hook'[q].call = hook[q].call /\ hook'[q].seen = hook[q].seen
    BY <2>2 DEF Kept, Alone
  <2>4. \A j \in DOMAIN next : next[j].body.call = q => j = i
    BY <1>4, <2>2
  <2>5. QED  BY <2>1, <2>2, <2>3, <2>4
<1>9. CallInv'
  BY <1>2, <1>8 DEF CallInv
<1>10. ASSUME NEW q \in Procs, q # p
       PROVE  AnswerFor(q)'
  <2>1. hook'[q] = hook[q] /\ AnswerFor(q)
    BY <1>10 DEF Alone, PlanInv, AnswerInv
  <2>2. hook[q].pc = "writing" => Plan' = Plan
    BY <1>10 DEF Kept, HooksInv, HookInv
  <2>3. \A i \in 1 .. Pre : i \in 1 .. Pre' /\ file'[i] = file[i]
    <3>1. Pre \in Nat /\ Pre' \in Nat
      <4>1. Pre' \in Nat
        BY NextPreIs
      <4>2. QED  BY <4>1, PlanIs
    <3>2. QED  BY <3>1 DEF Kept
  <2>4. QED  BY <2>1, <2>2, <2>3 DEF AnswerFor
<1>11. AnswerInv'
  BY <1>10 DEF AnswerInv, Kept
<1>12. QED  BY <1>2, <1>5, <1>6, <1>7, <1>9, <1>11 DEF PlanInv

-----------------------------------------------------------------------------
(* The lines of a file *)

LEMMA BeginHook ==
  ASSUME HooksInv, FileInv, NEW p \in Procs, BeginLine(p)
  PROVE  /\ HooksInv' /\ FileInv' /\ Alone(p, hook')
         /\ holder = p /\ holder' = p /\ UNCHANGED <<project, exists, holder, key, faults>>
         /\ hook[p].pc = "writing" /\ hook'[p].pc = "writing"
         /\ hook'[p].call = hook[p].call /\ hook'[p].seen = hook[p].seen
         /\ ~Owns /\ Todo # <<>> /\ Todo' = Todo
         /\ \/ /\ Owns'
               /\ \E line \in {Garbled, Head(Todo)} : file' = Append(file, line)
            \/ /\ ~Owns' /\ faults # 0 /\ Len(file) # 0
               /\ file' = [file EXCEPT ![Len(file)] = Garbled]
<1>1. hook = [q \in Procs |-> hook[q]] /\ HookInv(p)
  BY DEF HooksInv
<1>2. /\ hook[p].pc = "writing" /\ hook[p].todo # <<>> /\ hook[p].begun = "no"
      /\ ended' = FALSE /\ UNCHANGED <<project, exists, holder, key, faults>>
  BY DEF BeginLine
<1>3. holder = p
  BY <1>1, <1>2 DEF HookInv
<1>4. PICK h : h = hook[p]
  OBVIOUS
<1>5. PICK begun : /\ begun \in {"own", "glued"} /\ hook' = [hook EXCEPT ![p].begun = begun]
                   /\ begun = "own" =>
                        ended /\ \E line \in {Garbled, Head(h.todo)} : file' = Append(file, line)
                   /\ begun = "glued" =>
                        ~ended /\ file' = [file EXCEPT ![Len(file)] = Garbled]
  <2>1. CASE ended
    BY <1>4, <2>1 DEF BeginLine
  <2>2. CASE ~ended
    BY <1>4, <2>2 DEF BeginLine
  <2>3. QED  BY <2>1, <2>2
<1>6. PICK k : k = [h EXCEPT !.begun = begun]
  OBVIOUS
<1>7. hook' = [q \in Procs |-> IF q = p THEN k ELSE hook[q]]
  BY <1>1, <1>4, <1>5, <1>6
<1>8. IsHook(h) /\ IsSeq(h.todo) /\ h.call \in Calls /\ h.seen \in DOMAIN Declared
      /\ (~edited => h.seen = Initially) /\ h.call.event # "Stop" /\ h.key = NoOne
  BY <1>1, <1>2, <1>4 DEF HookInv
<1>9. /\ IsHook(k) /\ k.pc = "writing" /\ k.todo = h.todo /\ k.begun = begun
      /\ k.call = h.call /\ k.seen = h.seen /\ k.key = h.key
  BY <1>2, <1>4, <1>6, <1>8 DEF IsHook
<1>10. Alone(p, hook') /\ hook'[p] = k
  BY <1>7, <1>9 DEF Alone
<1>11. /\ IsSeq(file') /\ file' # <<>>
       /\ begun = "own" => file'[Len(file')] \in {Garbled, Head(h.todo)}
       /\ begun = "glued" => file'[Len(file')] = Garbled /\ Len(file) # 0
  <2>1. IsSeq(file) /\ Len(file) \in Nat /\ DOMAIN file = 1 .. Len(file)
    BY SeqIsIndexed DEF FileInv
  <2>2. PICK fs : fs = file'
    OBVIOUS
  <2>3. CASE begun = "own"
    <3>1. PICK line \in {Garbled, Head(h.todo)} : fs = Append(file, line)
      BY <1>5, <2>2, <2>3
    <3>2. /\ IsSeq(fs) /\ Len(fs) = Len(file) + 1
          /\ fs = [i \in 1 .. Len(file) + 1 |-> IF i <= Len(file) THEN file[i] ELSE line]
      BY <2>1, <3>1, Appended
    <3>3. Len(fs) # 0 /\ fs[Len(fs)] = line
      BY <2>1, <3>2
    <3>4. fs # <<>>
      BY <3>3, EmptyIsSeq
    <3>5. QED  BY <2>2, <2>3, <3>1, <3>2, <3>3, <3>4
  <2>4. CASE begun = "glued"
    <3>1. file # <<>>
      BY <1>5, <2>4 DEF FileInv
    <3>2. Len(file) # 0
      BY <2>1, <3>1, EmptySeq DEF IsSeq
    <3>3. PICK m : m = Len(file)
      OBVIOUS
    <3>4. fs = [i \in 1 .. m |-> IF i = m THEN Garbled ELSE file[i]]
      BY <1>5, <2>1, <2>2, <2>4, <3>3
    <3>5. fs = [i \in 1 .. m |-> fs[i]]
      BY <3>4
    <3>6. IsSeq(fs) /\ Len(fs) = m
      BY <2>1, <3>3, <3>5, IndexedIsSeq
    <3>7. m \in 1 .. m
      BY <2>1, <3>2, <3>3
    <3>8. fs[m] = Garbled
      BY <3>4, <3>7
    <3>9. fs # <<>>
      BY <3>2, <3>3, <3>6, EmptyIsSeq
    <3>10. QED  BY <2>2, <2>4, <3>2, <3>6, <3>8, <3>9
  <2>5. QED  BY <1>5, <2>3, <2>4
<1>12. HookInv(p)'
  BY <1>2, <1>3, <1>4, <1>5, <1>8, <1>9, <1>10, <1>11 DEF HookInv, project
<1>13. HooksInv'
  BY <1>2, <1>3, <1>10, <1>12, HooksStay DEF project
<1>14. holder' = p /\ p # NoOne
  BY <1>2, <1>3, ProcsAssumption
<1>15. FileInv'
  BY <1>2, <1>5, <1>9, <1>10, <1>11, <1>14 DEF FileInv, project
<1>16. ~Owns /\ Todo # <<>> /\ Todo = h.todo /\ Todo' = h.todo /\ (Owns' <=> begun = "own")
  BY <1>2, <1>3, <1>4, <1>5, <1>9, <1>10, <1>14 DEF Owns, Todo
<1>17. begun = "glued" => faults # 0
  BY <1>2, <1>3, <1>5 DEF FileInv
<1>18. QED  BY <1>2, <1>3, <1>4, <1>5, <1>9, <1>10, <1>11, <1>13, <1>14, <1>15, <1>16, <1>17

LEMMA EndHook ==
  ASSUME HooksInv, FileInv, NEW p \in Procs, EndLine(p)
  PROVE  /\ HooksInv' /\ FileInv' /\ Alone(p, hook')
         /\ holder = p /\ holder' = p /\ UNCHANGED <<project, exists, holder, key, faults>>
         /\ hook[p].pc = "writing" /\ hook'[p].pc = "writing"
         /\ hook'[p].call = hook[p].call /\ hook'[p].seen = hook[p].seen
         /\ ~Owns' /\ Todo # <<>> /\ Todo' = Tail(Todo)
         /\ \/ Owns /\ file' = [file EXCEPT ![Len(file)] = Head(Todo)]
            \/ ~Owns /\ file' = file /\ Len(file) # 0 /\ file[Len(file)] = Garbled
<1>1. hook = [q \in Procs |-> hook[q]] /\ HookInv(p)
  BY DEF HooksInv
<1>2. /\ hook[p].pc = "writing" /\ hook[p].begun # "no"
      /\ ended' = TRUE /\ UNCHANGED <<project, exists, holder, key, faults>>
  BY DEF EndLine
<1>3. holder = p
  BY <1>1, <1>2 DEF HookInv
<1>4. PICK h : h = hook[p]
  OBVIOUS
<1>5. PICK k : k = [h EXCEPT !.todo = Tail(h.todo), !.begun = "no"]
  OBVIOUS
<1>6. hook' = [q \in Procs |-> IF q = p THEN k ELSE hook[q]]
  BY <1>1, <1>4, <1>5 DEF EndLine
<1>7. /\ IsHook(h) /\ IsSeq(h.todo) /\ h.todo # <<>> /\ h.call \in Calls /\ h.seen \in DOMAIN Declared
      /\ (~edited => h.seen = Initially) /\ h.call.event # "Stop" /\ h.key = NoOne
      /\ file # <<>> /\ h.begun \in {"own", "glued"}
      /\ (h.begun = "glued" => file[Len(file)] = Garbled)
  BY <1>1, <1>2, <1>4 DEF HookInv
<1>8. PICK rest : rest = Tail(h.todo)
  OBVIOUS
<1>9. IsSeq(rest)
  <2>1. h.todo \in Seq(Range(h.todo))
    BY <1>7 DEF IsSeq
  <2>2. rest \in Seq(Range(h.todo))
    BY <1>7, <1>8, <2>1, HeadTailProperties
  <2>3. QED  BY <2>2, SeqIsSeq
<1>10. /\ IsHook(k) /\ k.pc = "writing" /\ k.todo = rest /\ k.begun = "no"
       /\ k.call = h.call /\ k.seen = h.seen /\ k.key = h.key
  BY <1>2, <1>4, <1>5, <1>7, <1>8 DEF IsHook
<1>11. Alone(p, hook') /\ hook'[p] = k
  BY <1>6, <1>10 DEF Alone
<1>12. HookInv(p)'
  BY <1>2, <1>3, <1>7, <1>9, <1>10, <1>11 DEF HookInv, project
<1>13. HooksInv'
  BY <1>2, <1>3, <1>11, <1>12, HooksStay DEF project
<1>14. IsSeq(file) /\ Len(file) \in Nat /\ DOMAIN file = 1 .. Len(file)
  BY SeqIsIndexed DEF FileInv
<1>15. Len(file) # 0
  BY <1>7, <1>14, EmptySeq DEF IsSeq
<1>16. IsSeq(file')
  <2>1. CASE h.begun = "own"
    <3>1. PICK m : m = Len(file)
      OBVIOUS
    <3>2. PICK fs : fs = file'
      OBVIOUS
    <3>3. PICK line : line = Head(h.todo)
      OBVIOUS
    <3>4. fs = [file EXCEPT ![m] = line]
      BY <1>4, <2>1, <3>1, <3>2, <3>3 DEF EndLine
    <3>5. fs = [i \in 1 .. m |-> fs[i]]
      BY <1>14, <3>1, <3>4
    <3>6. QED  BY <1>14, <3>1, <3>2, <3>5, IndexedIsSeq
  <2>2. CASE h.begun # "own"
    BY <1>4, <1>14, <2>2 DEF EndLine
  <2>3. QED  BY <2>1, <2>2
<1>17. FileInv'
  BY <1>2, <1>16 DEF FileInv, project
<1>18. holder' = p /\ p # NoOne
  BY <1>2, <1>3, ProcsAssumption
<1>19. /\ ~Owns' /\ Todo = h.todo /\ Todo' = rest /\ (Owns <=> h.begun = "own")
  BY <1>3, <1>4, <1>10, <1>11, <1>18 DEF Owns, Todo
<1>20. /\ Owns => file' = [file EXCEPT ![Len(file)] = Head(Todo)]
       /\ ~Owns => file' = file
  BY <1>4, <1>19 DEF EndLine
<1>21. QED  BY <1>2, <1>3, <1>4, <1>7, <1>8, <1>10, <1>11, <1>13, <1>15, <1>17, <1>18, <1>19, <1>20

LEMMA LedgerStays ==
  ASSUME IInv, HooksInv', FileInv', NEW p \in Procs, Alone(p, hook'),
         faults' = 0 => faults = 0, edited' = edited,
         Broken => Broken' /\ Ledger' = Ledger,
         ~Broken => \/ ~Broken' /\ Kept(p)
                    \/ Broken' /\ faults' # 0 /\ IsSeq(Ledger') /\ Begins(Ledger', Plan)
  PROVE  LedgerInv'
<1>1. HooksInv /\ FileInv /\ LedgerInv
  BY DEF IInv
<1>2. CASE Broken
  <2>1. Told(Ledger) /\ faults # 0
    BY <1>1, <1>2 DEF LedgerInv
  <2>2. QED  BY <1>2, <2>1 DEF LedgerInv
<1>3. CASE ~Broken /\ ~Broken' /\ Kept(p)
  <2>1. PlanInv
    BY <1>1, <1>3 DEF LedgerInv
  <2>2. PlanInv'
    BY <1>1, <1>3, <2>1, KeptPlan
  <2>3. QED  BY <1>3, <2>2 DEF LedgerInv
<1>4. CASE ~Broken /\ Broken' /\ faults' # 0 /\ IsSeq(Ledger') /\ Begins(Ledger', Plan)
  <2>1. Told(Plan)
    BY <1>1, <1>4 DEF LedgerInv, PlanInv
  <2>2. IsSeq(Plan)
    BY <1>1, PlanIs DEF IsPlan
  <2>3. PICK es : es = Ledger'
    OBVIOUS
  <2>4. Told(es)
    BY <1>4, <2>1, <2>2, <2>3, BeginsToo
  <2>5. QED  BY <1>4, <2>3, <2>4 DEF LedgerInv
<1>5. QED  BY <1>2, <1>3, <1>4

(* A process that does not hold the lock. *)
LEMMA StillLedger ==
  ASSUME IInv, HooksInv', FileInv', NEW p \in Procs, Alone(p, hook'),
         faults' = 0 => faults = 0, UNCHANGED <<project, disk>>, holder' = holder, holder # p,
         hook[p].pc \notin {"writing", "done"}, hook'[p].pc # "writing",
         (hook'[p].pc = "done" /\ hook'[p].answer \in {"pass", "deny"}) => hook'[p].call.event # "PreToolUse"
  PROVE  LedgerInv'
<1>1. HooksInv /\ FileInv /\ file' = file /\ edited' = edited
  BY DEF IInv, disk, project
<1>2. Pre' = Pre /\ Todo' = Todo
  BY <1>1 DEF HooksInv, Pre, Owns, Todo, Alone
<1>3. Plan' = Plan
  BY <1>1, <1>2 DEF Plan
<1>4. (Broken' <=> Broken) /\ Ledger' = Ledger
  BY <1>1, <1>2 DEF Broken, Ledger
<1>5. Pre <= Pre'
  BY <1>1, <1>2, PreIs
<1>6. Kept(p)
  BY <1>1, <1>2, <1>3, <1>5 DEF Kept, AnswerFor
<1>7. QED  BY <1>1, <1>4, <1>6, LedgerStays

LEMMA UnlockedLedger ==
  ASSUME IInv, NEW p \in Procs, WriteFails(p) \/ Die(p) \/ Answer(p)
  PROVE  LedgerInv'
<1>1. HooksInv /\ FileInv
  BY DEF IInv
<1>2. /\ HooksInv' /\ FileInv' /\ Alone(p, hook')
      /\ holder = p /\ holder' = NoOne /\ UNCHANGED <<project, disk, key>>
      /\ (Answer(p) /\ faults' = faults) \/ faults' # 0
  BY <1>1, UnlockedHook
<1>3. file' = file /\ edited' = edited
  BY <1>2 DEF disk, project
<1>4. hook[p].pc = "writing" /\ p # NoOne
  BY ProcsAssumption DEF WriteFails, Die, Answer
<1>5. PICK answer : hook' = Done(p, answer) /\ (~Answer(p) => answer \in {"fail", "none"})
  BY DEF WriteFails, Die, Answer
<1>6. PICK h : h = hook[p]
  OBVIOUS
<1>7. PICK k : k = [h EXCEPT !.pc = "done", !.answer = answer, !.todo = <<>>, !.begun = "no", !.entries = <<>>]
  OBVIOUS
<1>8. hook'[p] = k
  BY <1>1, <1>5, <1>6, <1>7, DoneIs
<1>9. IsHook(h)
  BY <1>1, <1>6 DEF HooksInv, HookInv
<1>10. k.pc = "done" /\ k.answer = answer /\ k.call = h.call /\ k.seen = h.seen
  BY <1>7, <1>9 DEF IsHook
<1>11. /\ IsPlan(Plan, file, Pre, Todo) /\ IsSeq(Todo) /\ Pre \in Nat /\ Len(file) \in Nat
       /\ DOMAIN file = 1 .. Len(file)
       /\ ~Owns => Pre = Len(file)
       /\ Owns => Len(file) = Pre + 1 /\ Todo # <<>> /\ file[Len(file)] \in {Garbled, Head(Todo)}
  BY <1>1, PlanIs
<1>12. Todo = h.todo /\ (Owns <=> h.begun = "own")
  BY <1>2, <1>4, <1>6 DEF Todo, Owns
<1>13. Pre' = Len(file) /\ Todo' = <<>>
  BY <1>2, <1>3 DEF Pre, Owns, Todo
<1>14. Pre <= Pre'
  <2>1. PICK n : n = Pre
    OBVIOUS
  <2>2. PICK m : m = Len(file)
    OBVIOUS
  <2>3. n \in Nat /\ (m = n \/ m = n + 1)
    BY <1>11, <2>1, <2>2
  <2>4. n <= m
    BY <2>3
  <2>5. QED  BY <1>13, <2>1, <2>2, <2>4
<1>15. IsSeq(file)
  BY <1>1 DEF FileInv
<1> DEFINE n == Pre
           m == Len(file)
<1>0. n \in Nat /\ m \in Nat /\ (~Owns => m = n) /\ (Owns => m = n + 1)
  BY <1>11
<1> HIDE DEF n, m
<1>16. Plan' = file
  BY <1>3, <1>13, <1>15, WholeFile DEF Plan
<1>17. CASE Broken
  <2>1. Pre' \in Nat /\ Pre' <= Len(file')
    <3>1. m \in Nat /\ m <= m
      BY <1>0
    <3>2. QED  BY <1>3, <1>13, <3>1 DEF m
  <2>2. Broken' /\ Ledger' = Ledger
    BY <1>1, <1>3, <1>14, <1>15, <1>17, <2>1, BrokenStays
  <2>3. faults' = 0 => faults = 0
    BY <1>2
  <2>4. QED  BY <1>2, <1>3, <1>17, <2>2, <2>3, LedgerStays
<1>18. CASE ~Broken /\ Owns /\ file[Len(file)] = Garbled
  <2>1. ~Answer(p)
    BY <1>6, <1>11, <1>12, <1>18 DEF Answer
  <2>2. Len(file) \in 1 .. Pre'
    BY <1>11, <1>13, <1>18
  <2>3. Broken'
    BY <1>3, <1>18, <2>2 DEF Broken
  <2>4. Ledger' = Ledger /\ Begins(Ledger, Plan) /\ IsSeq(Ledger)
    <3>1. Ledger' = Ledger
      BY <1>3 DEF Ledger
    <3>2. QED  BY <1>1, <1>18, <3>1, LedgerBegins
  <2>5. faults' # 0
    BY <1>2, <2>1
  <2>6. QED  BY <1>2, <1>3, <1>18, <2>3, <2>4, <2>5, LedgerStays
<1>19. CASE ~Broken /\ ~(Owns /\ file[Len(file)] = Garbled)
  <2>1. Len(file) <= Pre \/ (Len(file) = Pre + 1 /\ Todo # <<>> /\ file[Pre + 1] = Head(Todo))
    <3>1. CASE Owns
      <4>1. m = n + 1 /\ Todo # <<>> /\ file[m] = Head(Todo)
        BY <1>0, <1>11, <1>19, <3>1 DEF m
      <4>2. QED  BY <4>1 DEF m, n
    <3>2. CASE ~Owns
      <4>1. m <= n
        BY <1>0, <3>2
      <4>2. QED  BY <4>1 DEF m, n
    <3>3. QED  BY <3>1, <3>2
  <2>2. Begins(file, PlanOf(file, Pre, Todo))
    BY <1>11, <1>15, <2>1, BeginsPlan
  <2>3. Begins(Plan', Plan)
    BY <1>16, <2>2 DEF Plan
  <2>4. ~Broken'
    <3>1. SUFFICES ASSUME NEW i \in 1 .. Len(file), file[i] = Garbled PROVE FALSE
      BY <1>3, <1>13 DEF Broken
    <3>2. i \notin 1 .. Pre
      BY <1>19, <3>1 DEF Broken
    <3>3. Owns /\ i = Len(file)
      <4>1. i \in 1 .. m /\ i \notin 1 .. n
        BY <3>1, <3>2 DEF m, n
      <4>2. Owns /\ i = m
        BY <1>0, <4>1
      <4>3. QED  BY <4>2 DEF m
    <3>4. QED  BY <1>19, <3>1, <3>3
  <2>5. Answer(p) => Plan' = Plan /\ Pre = Len(file)
    <3>1. SUFFICES ASSUME Answer(p) PROVE Plan' = Plan /\ Pre = Len(file)
      OBVIOUS
    <3>2. Todo = <<>>
      BY <1>6, <1>12, <3>1 DEF Answer
    <3>3. Pre = Len(file)
      BY <1>11, <3>2
    <3>4. Plan = file
      BY <1>15, <3>2, <3>3, WholeFile DEF Plan
    <3>5. QED  BY <1>16, <3>3, <3>4
  <2>6. AnswerFor(p)'
    <3>1. SUFFICES ASSUME h.call.event = "PreToolUse", answer \in {"pass", "deny"}
                   PROVE  \E i \in 1 .. Len(file) : file[i].body.call = p
      BY <1>3, <1>8, <1>10, <1>13 DEF AnswerFor
    <3>2. Answer(p)
      BY <1>5, <3>1
    <3>3. PlanInv
      BY <1>19 DEF IInv, LedgerInv
    <3>4. AnswerFor(p)
      BY <3>3 DEF PlanInv, AnswerInv
    <3>5. PICK i \in DOMAIN Plan : Plan[i].body.call = p
      BY <1>4, <1>6, <3>1, <3>4 DEF AnswerFor
    <3>6. Plan = file
      BY <1>16, <2>5, <3>2
    <3>7. QED  BY <1>11, <3>5, <3>6
  <2>7. Plan' = Plan \/ (holder = p /\ faults' # 0 /\ Begins(Plan', Plan))
    BY <1>2, <2>3, <2>5
  <2>8. hook'[p].pc \in {"writing", "done"} /\ hook'[p].call = hook[p].call /\ hook'[p].seen = hook[p].seen
    BY <1>6, <1>8, <1>10
  <2>9. Kept(p)
    BY <1>3, <1>14, <2>6, <2>7, <2>8 DEF Kept
  <2>10. faults' = 0 => faults = 0
    BY <1>2
  <2>11. QED  BY <1>2, <1>3, <1>19, <2>4, <2>9, <2>10, LedgerStays
<1>20. QED  BY <1>17, <1>18, <1>19

LEMMA BeginLedger ==
  ASSUME IInv, NEW p \in Procs, BeginLine(p)
  PROVE  LedgerInv'
<1>1. HooksInv /\ FileInv
  BY DEF IInv
<1>2. /\ HooksInv' /\ FileInv' /\ Alone(p, hook')
      /\ holder = p /\ holder' = p /\ UNCHANGED <<project, exists, holder, key, faults>>
      /\ hook[p].pc = "writing" /\ hook'[p].pc = "writing"
      /\ hook'[p].call = hook[p].call /\ hook'[p].seen = hook[p].seen
      /\ ~Owns /\ Todo # <<>> /\ Todo' = Todo
      /\ \/ /\ Owns'
            /\ \E line \in {Garbled, Head(Todo)} : file' = Append(file, line)
         \/ /\ ~Owns' /\ faults # 0 /\ Len(file) # 0
            /\ file' = [file EXCEPT ![Len(file)] = Garbled]
  BY <1>1, BeginHook
<1>3. edited' = edited /\ faults' = faults
  BY <1>2 DEF project
<1> DEFINE m == Len(file)
<1>4. m \in Nat /\ Pre = m /\ DOMAIN file = 1 .. m /\ IsSeq(file) /\ IsSeq(Todo)
  BY <1>1, <1>2, PlanIs DEF FileInv
<1>5. IsSeq(file')
  BY <1>2 DEF FileInv
<1> HIDE DEF m
<1>6. CASE Owns'
  <2>1. PICK line \in {Garbled, Head(Todo)} : file' = Append(file, line)
    BY <1>2, <1>6
  <2>2. Len(file') = m + 1 /\ file' = [i \in 1 .. m + 1 |-> IF i <= m THEN file[i] ELSE line]
    BY <1>4, <2>1, Appended DEF m
  <2>3. Pre' = m
    <3>1. Pre' = Len(file') - 1
      BY <1>6 DEF Pre
    <3>2. QED  BY <1>4, <2>2, <3>1
  <2>4. \A i \in 1 .. m : file'[i] = file[i]
    BY <1>4, <2>2
  <2>5. PlanOf(file', m, Todo) = PlanOf(file, m, Todo)
    BY <1>4, <2>4, SamePlanOf
  <2>6. Plan' = Plan
    BY <1>2, <1>4, <2>3, <2>5 DEF Plan
  <2>7. m <= m /\ m <= m + 1
    BY <1>4
  <2>8. Broken => Broken' /\ Ledger' = Ledger
    <3>1. SUFFICES ASSUME Broken PROVE Broken' /\ Ledger' = Ledger
      OBVIOUS
    <3>2. Pre' \in Nat /\ Pre <= Pre' /\ Pre' <= Len(file') /\ \A i \in 1 .. Pre : file'[i] = file[i]
      BY <1>4, <2>2, <2>3, <2>4, <2>7
    <3>3. QED  BY <1>1, <1>5, <3>1, <3>2, BrokenStays
  <2>9. ~Broken => ~Broken'
    BY <1>4, <2>3, <2>4 DEF Broken
  <2>10. ~Broken => AnswerFor(p)'
    <3>1. SUFFICES ASSUME ~Broken, hook[p].call.event = "PreToolUse"
                   PROVE  \E i \in DOMAIN Plan : Plan[i].body.call = p
      BY <1>2, <2>6 DEF AnswerFor
    <3>2. AnswerFor(p)
      BY <3>1 DEF IInv, LedgerInv, PlanInv, AnswerInv
    <3>3. QED  BY <1>2, <3>1, <3>2 DEF AnswerFor
  <2>11. ~Broken => Kept(p)
    BY <1>2, <1>4, <2>3, <2>4, <2>6, <2>7, <2>10 DEF Kept
  <2>12. QED  BY <1>2, <1>3, <2>8, <2>9, <2>11, LedgerStays
<1>7. CASE ~Owns'
  <2>1. faults # 0 /\ m # 0 /\ file' = [i \in 1 .. m |-> IF i = m THEN Garbled ELSE file[i]]
    BY <1>2, <1>4, <1>7 DEF m
  <2>2. PICK fs : fs = file'
    OBVIOUS
  <2>3. fs = [i \in 1 .. m |-> fs[i]]
    BY <2>1, <2>2
  <2>4. IsSeq(fs) /\ Len(fs) = m
    BY <1>4, <2>3, IndexedIsSeq
  <2>5. Pre' = m
    BY <1>7, <2>2, <2>4 DEF Pre
  <2>6. \A i \in 1 .. m : file'[i] = file[i] \/ (i = m /\ file'[i] = Garbled)
    BY <2>1
  <2>7. m <= m /\ m \in 1 .. m
    BY <1>4, <2>1
  <2>8. file'[m] = Garbled
    BY <2>1, <2>7
  <2>9. Broken'
    BY <2>5, <2>7, <2>8 DEF Broken
  <2>10. Broken => Ledger' = Ledger
    <3>1. SUFFICES ASSUME Broken PROVE Ledger' = Ledger
      OBVIOUS
    <3>2. Pre' \in Nat /\ Pre <= Pre' /\ Pre' <= Len(file')
      BY <1>4, <2>2, <2>4, <2>5, <2>7
    <3>3. \A i \in 1 .. Pre : file'[i] = file[i] \/ (i = Len(file) /\ file'[i] = Garbled)
      BY <1>4, <2>6 DEF m
    <3>4. QED  BY <1>1, <1>5, <3>1, <3>2, <3>3, BrokenStays
  <2>11. PICK es : es = Ledger'
    OBVIOUS
  <2>12. es = LedgerIn(fs)
    BY <2>2, <2>11 DEF Ledger, LedgerIn
  <2>13. PICK k \in 0 .. m :
           /\ IsSeq(es) /\ Len(es) = k
           /\ \A i \in 1 .. k : es[i] = fs[i] /\ fs[i] # Garbled
    BY <2>4, <2>12, LedgerInIs
  <2>14. k < m
    <3>1. SUFFICES ASSUME ~(k < m) PROVE FALSE
      OBVIOUS
    <3>2. m \in 1 .. k
      BY <1>4, <2>7, <3>1
    <3>3. QED  BY <2>2, <2>8, <2>13, <3>2
  <2>15. \A i \in 1 .. k : es[i] = file[i]
    <3>1. SUFFICES ASSUME NEW i \in 1 .. k PROVE es[i] = file[i]
      OBVIOUS
    <3>2. i \in 1 .. m /\ i # m
      BY <1>4, <2>14
    <3>3. QED  BY <2>1, <2>2, <2>13, <3>2
  <2>16. DOMAIN es = 1 .. k /\ Len(es) <= m
    BY <1>4, <2>13, <2>14, SeqIsIndexed
  <2>17. Begins(es, PlanOf(file, m, Todo))
    BY <1>4, <2>13, <2>15, <2>16, BeginsPlan
  <2>18. Begins(Ledger', Plan) /\ IsSeq(Ledger')
    BY <1>4, <2>11, <2>13, <2>17 DEF Plan
  <2>19. QED  BY <1>2, <1>3, <2>1, <2>9, <2>10, <2>18, LedgerStays
<1>8. QED  BY <1>6, <1>7

(* A line that does not parse is not an entry. *)
GarbledIsNoEntry ==
  \A seq, prev, hash, body : Garbled # [seq |-> seq, prev |-> prev, hash |-> hash, body |-> body]

LEMMA EndLedger ==
  ASSUME GarbledIsNoEntry, IInv, NEW p \in Procs, EndLine(p)
  PROVE  LedgerInv'
<1>1. HooksInv /\ FileInv
  BY DEF IInv
<1>2. /\ HooksInv' /\ FileInv' /\ Alone(p, hook')
      /\ holder = p /\ holder' = p /\ UNCHANGED <<project, exists, holder, key, faults>>
      /\ hook[p].pc = "writing" /\ hook'[p].pc = "writing"
      /\ hook'[p].call = hook[p].call /\ hook'[p].seen = hook[p].seen
      /\ ~Owns' /\ Todo # <<>> /\ Todo' = Tail(Todo)
      /\ \/ Owns /\ file' = [file EXCEPT ![Len(file)] = Head(Todo)]
         \/ ~Owns /\ file' = file /\ Len(file) # 0 /\ file[Len(file)] = Garbled
  BY <1>1, EndHook
<1>3. edited' = edited /\ faults' = faults
  BY <1>2 DEF project
<1> DEFINE m == Len(file)
           n == Pre
<1>4. /\ m \in Nat /\ n \in Nat /\ DOMAIN file = 1 .. m /\ IsSeq(file) /\ IsSeq(Todo)
      /\ (Owns => m = n + 1) /\ (~Owns => m = n) /\ IsPlan(Plan, file, n, Todo)
  BY <1>1, PlanIs DEF FileInv
<1>5. IsSeq(file')
  BY <1>2 DEF FileInv
<1> HIDE DEF m, n
<1>6. CASE ~Owns
  <2>1. file' = file /\ m # 0 /\ file[m] = Garbled /\ m = n
    BY <1>2, <1>4, <1>6 DEF m
  <2>2. m \in 1 .. m
    BY <1>4, <2>1
  <2>3. Broken
    BY <2>1, <2>2 DEF Broken, n
  <2>4. Pre' = m
    BY <1>2, <2>1 DEF Pre, m
  <2>5. Broken' /\ Ledger' = Ledger
    BY <2>1, <2>2, <2>4 DEF Broken, Ledger
  <2>6. QED  BY <1>2, <1>3, <2>3, <2>5, LedgerStays
<1>7. CASE Owns
  <2>1. PICK line : line = Head(Todo)
    OBVIOUS
  <2>2. m = n + 1 /\ file' = [i \in 1 .. m |-> IF i = m THEN line ELSE file[i]]
    BY <1>2, <1>4, <1>7, <2>1 DEF m
  <2>3. PICK fs : fs = file'
    OBVIOUS
  <2>4. fs = [i \in 1 .. m |-> fs[i]]
    BY <2>2, <2>3
  <2>5. Len(fs) = m
    BY <1>4, <2>4, IndexedIsSeq
  <2>6. Pre' = n + 1
    BY <1>2, <2>2, <2>3, <2>5 DEF Pre
  <2>7. \A i \in 1 .. n : file[i] = fs[i]
    BY <1>4, <2>2, <2>3
  <2>8. fs[n + 1] = line
    BY <1>4, <2>2, <2>3
  <2>9. PlanOf(file, n, Todo) = PlanOf(fs, n + 1, Tail(Todo))
    BY <1>2, <1>4, <2>1, <2>7, <2>8, NextPlanOf
  <2>10. Plan' = Plan
    BY <1>2, <2>3, <2>6, <2>9 DEF Plan, n
  <2>11. n <= n + 1 /\ n + 1 \in Nat /\ n + 1 <= n + 1
    BY <1>4
  <2>12. Broken => Broken' /\ Ledger' = Ledger
    <3>1. SUFFICES ASSUME Broken PROVE Broken' /\ Ledger' = Ledger
      OBVIOUS
    <3>2. Pre' \in Nat /\ Pre <= Pre' /\ Pre' <= Len(file') /\ \A i \in 1 .. Pre : file'[i] = file[i]
      BY <2>2, <2>3, <2>5, <2>6, <2>7, <2>11 DEF n
    <3>3. QED  BY <1>1, <1>5, <3>1, <3>2, BrokenStays
  <2>13. ~Broken => line # Garbled
    <3>1. SUFFICES ASSUME ~Broken PROVE line # Garbled
      OBVIOUS
    <3>2. IsLedger(Plan)
      BY <3>1 DEF IInv, LedgerInv, PlanInv, Told
    <3>3. 1 \in DOMAIN Todo /\ Todo[1] = line
      <4>1. Len(Todo) \in Nat /\ Len(Todo) # 0 /\ DOMAIN Todo = 1 .. Len(Todo)
        BY <1>2, <1>4, SeqIsIndexed, EmptySeq DEF IsSeq
      <4>2. 1 \in DOMAIN Todo
        BY <4>1
      <4>3. QED  BY <2>1, <4>2, <1>4
    <3>4. n + 1 \in DOMAIN Plan /\ Plan[n + 1] = line
      BY <1>4, <3>3 DEF IsPlan
    <3>5. IsEntry(line)
      BY <3>2, <3>4 DEF IsLedger
    <3>6. QED  BY <3>5 DEF IsEntry, GarbledIsNoEntry
  <2>14. ~Broken => ~Broken'
    <3>1. SUFFICES ASSUME ~Broken, NEW i \in 1 .. n + 1, fs[i] = Garbled PROVE FALSE
      BY <2>3, <2>6 DEF Broken
    <3>2. i \in 1 .. n \/ i = n + 1
      BY <1>4
    <3>3. QED  BY <2>7, <2>8, <2>13, <3>1, <3>2 DEF Broken, n
  <2>15. ~Broken => AnswerFor(p)'
    <3>1. SUFFICES ASSUME ~Broken, hook[p].call.event = "PreToolUse"
                   PROVE  \E i \in DOMAIN Plan : Plan[i].body.call = p
      BY <1>2, <2>10 DEF AnswerFor
    <3>2. AnswerFor(p)
      BY <3>1 DEF IInv, LedgerInv, PlanInv, AnswerInv
    <3>3. QED  BY <1>2, <3>1, <3>2 DEF AnswerFor
  <2>16. ~Broken => Kept(p)
    <3>1. Pre <= Pre' /\ \A i \in 1 .. Pre : file'[i] = file[i]
      BY <2>3, <2>6, <2>7, <2>11 DEF n
    <3>2. QED  BY <1>2, <2>10, <2>15, <3>1 DEF Kept
  <2>17. QED  BY <1>2, <1>3, <2>12, <2>14, <2>16, LedgerStays
<1>8. QED  BY <1>6, <1>7

-----------------------------------------------------------------------------
(* What a stop read *)

LEMMA ReadStays ==
  ASSUME ReadInv, NEW p \in Procs, Alone(p, hook'), hook'[p].pc \notin {"key", "verify"}, key' = key,
         hook[p].key = p => hook'[p].key = p,
         faults' = 0 => faults = 0, ~edited' => ~edited
  PROVE  ReadInv'
<1>1. SUFFICES ASSUME NEW q \in Procs, hook'[q].pc \in {"key", "verify"}
               PROVE  /\ (faults' = 0 /\ ~edited') =>
                           /\ Told(hook'[q].entries) /\ Gated(hook'[q].entries) /\ OfOne(hook'[q].entries)
                      /\ (hook'[q].pc = "verify" /\ \A r \in Procs \ {q} : hook'[r].key # r) => hook'[q].key = key'
  BY DEF ReadInv
<1>2. q # p /\ hook'[q] = hook[q]
  BY <1>1 DEF Alone
<1>3. (\A r \in Procs \ {q} : hook'[r].key # r) => \A r \in Procs \ {q} : hook[r].key # r
  BY DEF Alone
<1>4. QED  BY <1>1, <1>2, <1>3 DEF ReadInv

(* A file every line of which parses is what was to be written of it. *)
LEMMA FileIsTold ==
  ASSUME IInv, Readable(file)
  PROVE  /\ Ledger = file /\ ~Broken /\ Told(file)
         /\ faults = 0 => Gated(file)
         /\ ~edited => OfOne(file)
<1>1. HooksInv /\ FileInv
  BY DEF IInv
<1>2. /\ IsSeq(file) /\ DOMAIN file = 1 .. Len(file) /\ Pre \in Nat /\ Len(file) \in Nat /\ Pre <= Len(file)
      /\ IsSeq(Plan)
  BY <1>1, PlanIs, PreIs DEF FileInv, IsPlan
<1>3. \A i \in DOMAIN file : file[i] # Garbled
  BY DEF Readable, ToSet
<1>4. Ledger = file
  BY <1>3 DEF Ledger
<1>5. ~Broken
  <2>1. \A i \in 1 .. Pre : i \in DOMAIN file
    BY <1>2
  <2>2. QED  BY <1>3, <2>1 DEF Broken
<1>6. Begins(file, Plan)
  BY <1>1, <1>4, <1>5, LedgerBegins
<1>7. PlanInv
  BY <1>5 DEF IInv, LedgerInv
<1>8. /\ Told(Plan) => Told(file)
      /\ Gated(Plan) => Gated(file)
      /\ OfOne(Plan) => OfOne(file)
  BY <1>2, <1>6, BeginsToo
<1>9. QED  BY <1>4, <1>5, <1>7, <1>8 DEF PlanInv

LEMMA ExportReads ==
  ASSUME IInv, NEW p \in Procs, ExportRead(p) \/ ExportKey(p) \/ ExportVerify(p)
  PROVE  ReadInv'
<1>1. HooksInv /\ FileInv /\ ReadInv /\ HookInv(p) /\ hook = [q \in Procs |-> hook[q]]
  BY DEF IInv, HooksInv
<1>2. Alone(p, hook') /\ UNCHANGED <<project, disk, faults>>
  BY <1>1, ExportHook
<1>3. faults' = faults /\ edited' = edited
  BY <1>2 DEF project
<1>4. PICK h : h = hook[p]
  OBVIOUS
<1>5. IsHook(h)
  BY <1>1, <1>4 DEF HookInv
<1>6. (hook'[p].pc \notin {"key", "verify"} /\ key' = key /\ (h.key = p => hook'[p].key = p)) => ReadInv'
  BY <1>1, <1>2, <1>3, <1>4, ReadStays
<1>7. CASE ExportRead(p) /\ (~(config.export /\ exists) \/ ~Readable(file))
  <2>1. PICK answer : hook' = Done(p, answer)
    BY <1>7 DEF ExportRead
  <2>2. PICK k : k = [h EXCEPT !.pc = "done", !.answer = answer, !.todo = <<>>, !.begun = "no", !.entries = <<>>]
    OBVIOUS
  <2>3. hook'[p] = k
    BY <1>1, <1>4, <2>1, <2>2, DoneIs
  <2>4. k.pc = "done" /\ k.key = h.key
    BY <1>5, <2>2 DEF IsHook
  <2>5. key' = key
    BY <1>7 DEF ExportRead
  <2>6. QED  BY <1>6, <2>3, <2>4, <2>5
<1>8. CASE ExportRead(p) /\ config.export /\ exists /\ Readable(file)
  <2>1. PICK pc : pc = IF key = NoOne THEN "key" ELSE "verify"
    OBVIOUS
  <2>2. PICK k : k = [h EXCEPT !.pc = pc, !.entries = file, !.key = key]
    OBVIOUS
  <2>3. hook'[p] = k /\ key' = key
    BY <1>1, <1>4, <1>8, <2>1, <2>2 DEF ExportRead
  <2>4. k.entries = file /\ k.key = key
    BY <1>5, <2>2 DEF IsHook
  <2>5. h.pc = "export" /\ h.key = NoOne /\ NoOne # p
    BY <1>1, <1>4, <1>8, ProcsAssumption DEF ExportRead, HookInv
  <2>6. /\ Told(file)
        /\ faults = 0 => Gated(file)
        /\ ~edited => OfOne(file)
    BY <1>8, FileIsTold
  <2>7. SUFFICES ASSUME NEW q \in Procs, hook'[q].pc \in {"key", "verify"}
                 PROVE  /\ (faults' = 0 /\ ~edited') =>
                             /\ Told(hook'[q].entries) /\ Gated(hook'[q].entries) /\ OfOne(hook'[q].entries)
                        /\ (hook'[q].pc = "verify" /\ \A r \in Procs \ {q} : hook'[r].key # r) => hook'[q].key = key'
    BY DEF ReadInv
  <2>8. CASE q = p
    BY <1>3, <2>3, <2>4, <2>6, <2>8
  <2>9. CASE q # p
    <3>1. hook'[q] = hook[q]
      BY <1>2, <2>9 DEF Alone
    <3>2. (\A r \in Procs \ {q} : hook'[r].key # r) => \A r \in Procs \ {q} : hook[r].key # r
      BY <1>2, <1>4, <2>5 DEF Alone
    <3>3. QED  BY <1>1, <1>3, <2>3, <2>7, <3>1, <3>2 DEF ReadInv
  <2>10. QED  BY <2>8, <2>9
<1>9. CASE ExportKey(p)
  <2>1. PICK k : k = [h EXCEPT !.pc = "verify", !.key = p]
    OBVIOUS
  <2>2. hook'[p] = k /\ key' = p /\ h.pc = "key"
    BY <1>1, <1>4, <1>9, <2>1 DEF ExportKey
  <2>3. k.entries = h.entries /\ k.key = p
    BY <1>5, <2>1 DEF IsHook
  <2>4. SUFFICES ASSUME NEW q \in Procs, hook'[q].pc \in {"key", "verify"}
                 PROVE  /\ (faults' = 0 /\ ~edited') =>
                             /\ Told(hook'[q].entries) /\ Gated(hook'[q].entries) /\ OfOne(hook'[q].entries)
                        /\ (hook'[q].pc = "verify" /\ \A r \in Procs \ {q} : hook'[r].key # r) => hook'[q].key = key'
    BY DEF ReadInv
  <2>5. CASE q = p
    <3>1. (faults = 0 /\ ~edited) => Told(h.entries) /\ Gated(h.entries) /\ OfOne(h.entries)
      BY <1>1, <1>4, <2>2 DEF ReadInv
    <3>2. QED  BY <1>3, <2>2, <2>3, <2>5, <3>1
  <2>6. CASE q # p
    <3>1. hook'[q] = hook[q] /\ hook'[p].key = p /\ p \in Procs \ {q}
      BY <1>2, <2>2, <2>3, <2>6 DEF Alone
    <3>2. QED  BY <1>1, <1>3, <2>4, <3>1 DEF ReadInv
  <2>7. QED  BY <2>5, <2>6
<1>10. CASE ExportVerify(p)
  <2>1. PICK report : hook' = [Done(p, "pass") EXCEPT ![p].report = report] /\ key' = key
    BY <1>10 DEF ExportVerify
  <2>2. PICK d : d = Done(p, "pass")
    OBVIOUS
  <2>3. PICK k : k = [h EXCEPT !.pc = "done", !.answer = "pass", !.todo = <<>>, !.begun = "no", !.entries = <<>>]
    OBVIOUS
  <2>4. Alone(p, d) /\ d[p] = k
    BY <1>1, <1>4, <2>2, <2>3, DoneIs
  <2>5. IsHook(k) /\ k.pc = "done" /\ k.key = h.key
    BY <1>5, <2>3 DEF IsHook
  <2>6. PICK l : l = [k EXCEPT !.report = report]
    OBVIOUS
  <2>7. l.pc = "done" /\ l.key = h.key
    BY <2>5, <2>6 DEF IsHook
  <2>8. hook'[p] = l
    BY <2>1, <2>2, <2>4, <2>6 DEF Alone
  <2>9. QED  BY <1>6, <2>1, <2>7, <2>8
<1>11. QED  BY <1>7, <1>8, <1>9, <1>10 DEF ExportRead

-----------------------------------------------------------------------------
(* The invariant of the specification *)

LEMMA EditKeeps ==
  ASSUME IInv, EditRoster
  PROVE  IInv'
<1>1. /\ HooksInv /\ FileInv /\ LedgerInv /\ ReadInv
      /\ UNCHANGED <<config, disk, holder, key, hook, faults>> /\ edited' = TRUE /\ roster' \in DOMAIN Declared
  BY DEF IInv, EditRoster
<1>2. file' = file /\ ended' = ended /\ holder' = holder /\ key' = key /\ hook' = hook /\ faults' = faults
      /\ config' = config
  BY <1>1 DEF disk
<1>3. HooksInv'
  <2>1. ASSUME NEW q \in Procs
        PROVE  HookInv(q)'
    <3>1. HookInv(q)
      BY <1>1 DEF HooksInv
    <3>2. QED  BY <1>1, <1>2, <3>1, HookStays
  <2>2. QED  BY <1>1, <1>2, <2>1 DEF HooksInv
<1>4. FileInv'
  BY <1>1, <1>2 DEF FileInv
<1>5. Pre' = Pre /\ Todo' = Todo /\ Ledger' = Ledger
  BY <1>2 DEF Pre, Owns, Todo, Ledger
<1>6. Plan' = Plan /\ (Broken' <=> Broken)
  BY <1>2, <1>5 DEF Plan, Broken
<1>7. PlanInv => PlanInv'
  BY <1>1, <1>2, <1>5, <1>6 DEF PlanInv, CallInv, AnswerInv, AnswerFor
<1>8. LedgerInv'
  BY <1>1, <1>2, <1>5, <1>6, <1>7 DEF LedgerInv
<1>9. ReadInv'
  BY <1>1, <1>2 DEF ReadInv
<1>10. QED  BY <1>3, <1>4, <1>8, <1>9 DEF IInv

(* A step of a process that does not read the ledger for a stop. *)
LEMMA WorkReads ==
  ASSUME IInv, NEW p \in Procs, Alone(p, hook'), hook[p].pc \in {"idle", "ready", "writing"},
         hook'[p].pc \notin {"key", "verify"}, key' = key, faults' = 0 => faults = 0, ~edited' => ~edited
  PROVE  ReadInv'
<1>1. hook[p].key # p
  BY ProcsAssumption DEF IInv, HooksInv, HookInv
<1>2. ReadInv
  BY DEF IInv
<1>3. QED  BY <1>1, <1>2, ReadStays

LEMMA StartKeeps ==
  ASSUME IInv, NEW p \in Procs, NEW call \in Calls, Start(p, call)
  PROVE  IInv'
<1>1. HooksInv /\ FileInv /\ hook[p].pc = "idle"
  BY DEF IInv, Start
<1>2. HooksInv' /\ FileInv' /\ Alone(p, hook')
  BY <1>1, StartHook
<1>3. UNCHANGED <<project, disk>> /\ holder' = holder /\ key' = key /\ faults' = faults /\ edited' = edited
  BY DEF Start, project
<1>4. PICK pc : pc \in {"export", "ready"} /\ hook' = [hook EXCEPT ![p].pc = pc, ![p].call = call, ![p].seen = roster]
  BY DEF Start
<1>5. PICK h : h = hook[p]
  OBVIOUS
<1>6. IsHook(h) /\ hook = [q \in Procs |-> hook[q]]
  BY <1>1, <1>5 DEF HooksInv, HookInv
<1>7. PICK k : k = [h EXCEPT !.pc = pc, !.call = call, !.seen = roster]
  OBVIOUS
<1>8. hook'[p] = k
  BY <1>4, <1>5, <1>6, <1>7
<1>9. k.pc = pc
  BY <1>6, <1>7 DEF IsHook
<1>10. hook'[p].pc \in {"export", "ready"}
  BY <1>4, <1>8, <1>9
<1>11. holder # p
  BY <1>1, WaitingHook
<1>12. LedgerInv'
  BY <1>1, <1>2, <1>3, <1>10, <1>11, StillLedger
<1>13. ReadInv'
  BY <1>1, <1>2, <1>3, <1>10, WorkReads
<1>14. QED  BY <1>2, <1>12, <1>13 DEF IInv

LEMMA RefusedKeeps ==
  ASSUME IInv, NEW p \in Procs, Fails(p) \/ Refuse(p)
  PROVE  IInv'
<1>1. HooksInv /\ FileInv /\ hook[p].pc = "ready" /\ hook' = Done(p, "fail")
  BY DEF IInv, Fails, Refuse
<1>2. HooksInv' /\ FileInv' /\ Alone(p, hook')
  BY <1>1, RefusedHook
<1>3. UNCHANGED <<project, disk>> /\ holder' = holder /\ key' = key /\ edited' = edited
      /\ faults' \in {faults, faults + 1}
  BY DEF Fails, Refuse, Fault, project
<1>4. faults' = 0 => faults = 0
  BY <1>1, <1>3 DEF FileInv
<1>5. PICK h : h = hook[p]
  OBVIOUS
<1>6. PICK k : k = [h EXCEPT !.pc = "done", !.answer = "fail", !.todo = <<>>, !.begun = "no", !.entries = <<>>]
  OBVIOUS
<1>7. hook'[p] = k /\ IsHook(h)
  <2>1. hook'[p] = k
    BY <1>1, <1>5, <1>6, DoneIs
  <2>2. QED  BY <1>1, <1>5, <2>1 DEF HooksInv, HookInv
<1>8. k.pc = "done" /\ k.answer = "fail"
  BY <1>6, <1>7 DEF IsHook
<1>9. holder # p
  BY <1>1, WaitingHook
<1>10. LedgerInv'
  BY <1>1, <1>2, <1>3, <1>4, <1>7, <1>8, <1>9, StillLedger
<1>11. ReadInv'
  BY <1>1, <1>2, <1>3, <1>4, <1>7, <1>8, WorkReads
<1>12. QED  BY <1>2, <1>10, <1>11 DEF IInv

LEMMA LockKeeps ==
  ASSUME IInv, NEW p \in Procs, Lock(p)
  PROVE  IInv'
<1>1. PICK bodies : bodies = NewBodies(hook[p].seen, hook[p].call, p)
  OBVIOUS
<1>2. /\ HooksInv' /\ FileInv' /\ Alone(p, hook') /\ UNCHANGED <<project, file, ended, key, faults>>
      /\ hook[p].pc = "ready" /\ hook'[p].pc = "writing"
  BY <1>1, LockHook
<1>3. LedgerInv'
  BY LockPlan DEF LedgerInv
<1>4. ReadInv'
  BY <1>2, WorkReads DEF project
<1>5. QED  BY <1>2, <1>3, <1>4 DEF IInv

LEMMA LinesKeep ==
  ASSUME GarbledIsNoEntry, IInv, NEW p \in Procs, BeginLine(p) \/ EndLine(p)
  PROVE  IInv'
<1>1. HooksInv /\ FileInv
  BY DEF IInv
<1>2. /\ HooksInv' /\ FileInv' /\ Alone(p, hook') /\ UNCHANGED <<project, exists, holder, key, faults>>
      /\ hook[p].pc = "writing" /\ hook'[p].pc = "writing"
  BY <1>1, BeginHook, EndHook
<1>3. LedgerInv'
  BY BeginLedger, EndLedger
<1>4. ReadInv'
  BY <1>2, WorkReads DEF project
<1>5. QED  BY <1>2, <1>3, <1>4 DEF IInv

LEMMA UnlockedKeeps ==
  ASSUME IInv, NEW p \in Procs, WriteFails(p) \/ Die(p) \/ Answer(p)
  PROVE  IInv'
<1>1. HooksInv /\ FileInv
  BY DEF IInv
<1>2. /\ HooksInv' /\ FileInv' /\ Alone(p, hook') /\ UNCHANGED <<project, disk, key>>
      /\ (Answer(p) /\ faults' = faults) \/ faults' # 0
  BY <1>1, UnlockedHook
<1>3. hook[p].pc = "writing" /\ \E answer : hook' = Done(p, answer)
  BY DEF WriteFails, Die, Answer
<1>4. PICK answer : hook' = Done(p, answer)
  BY <1>3
<1>5. PICK h : h = hook[p]
  OBVIOUS
<1>6. PICK k : k = [h EXCEPT !.pc = "done", !.answer = answer, !.todo = <<>>, !.begun = "no", !.entries = <<>>]
  OBVIOUS
<1>7. hook'[p] = k /\ IsHook(h)
  <2>1. hook'[p] = k
    BY <1>1, <1>4, <1>5, <1>6, DoneIs
  <2>2. QED  BY <1>1, <1>5, <2>1 DEF HooksInv, HookInv
<1>8. k.pc = "done"
  BY <1>6, <1>7 DEF IsHook
<1>9. faults' = 0 => faults = 0
  BY <1>2
<1>10. ReadInv'
  BY <1>2, <1>3, <1>7, <1>8, <1>9, WorkReads DEF project
<1>11. LedgerInv'
  BY UnlockedLedger
<1>12. QED  BY <1>2, <1>10, <1>11 DEF IInv

LEMMA ExportKeeps ==
  ASSUME IInv, NEW p \in Procs, ExportRead(p) \/ ExportKey(p) \/ ExportVerify(p)
  PROVE  IInv'
<1>1. HooksInv /\ FileInv
  BY DEF IInv
<1>2. /\ HooksInv' /\ FileInv' /\ Alone(p, hook') /\ holder' = holder /\ holder # p
      /\ hook[p].call.event = "Stop" /\ hook'[p].call = hook[p].call
      /\ hook'[p].pc \in {"key", "verify", "done"} /\ UNCHANGED <<project, disk, faults>>
  BY <1>1, ExportHook
<1>3. hook[p].pc \in {"export", "key", "verify"}
  BY DEF ExportRead, ExportKey, ExportVerify
<1>4. LedgerInv'
  BY <1>2, <1>3, StillLedger
<1>5. ReadInv'
  BY ExportReads
<1>6. QED  BY <1>2, <1>4, <1>5 DEF IInv

LEMMA InitKeeps ==
  ASSUME Init
  PROVE  IInv
<1>1. PICK idle : idle = Idle
  OBVIOUS
<1>2. /\ idle.pc = "idle" /\ idle.begun = "no" /\ idle.todo = <<>> /\ idle.key = NoOne /\ IsHook(idle)
      /\ idle.answer = "none" /\ idle.report = "none"
  BY <1>1 DEF Idle, IsHook
<1>3. /\ hook = [p \in Procs |-> idle] /\ holder = NoOne /\ file = <<>> /\ ended = TRUE
      /\ roster = Initially /\ faults = 0 /\ edited = FALSE
  BY <1>1 DEF Init
<1>4. IsSeq(file) /\ Len(file) = 0 /\ DOMAIN file = {}
  <2>1. IsSeq(file) /\ Len(file) = 0
    BY <1>3, EmptyIsSeq
  <2>2. DOMAIN file = 1 .. 0
    BY <2>1, SeqIsIndexed
  <2>3. QED  BY <2>1, <2>2
<1>5. HooksInv
  <2>1. ASSUME NEW p \in Procs
        PROVE  HookInv(p)
    <3>1. hook[p] = idle /\ holder # p
      BY <1>3, ProcsAssumption
    <3>2. QED  BY <1>2, <3>1, EmptyIsSeq DEF HookInv
  <2>2. QED  BY <1>3, <2>1 DEF HooksInv
<1>6. FileInv
  BY <1>3, <1>4, DeclaredAssumption DEF FileInv
<1>7. Pre = 0 /\ Todo = <<>>
  BY <1>3, <1>4 DEF Pre, Owns, Todo
<1>8. Plan = file
  BY <1>4, <1>7, WholeFile DEF Plan
<1>9. ~Broken
  BY <1>7 DEF Broken
<1>10. PlanInv
  <2>1. Told(Plan)
    BY <1>4, <1>8 DEF Told, IsLedger, ChainVerifies
  <2>2. CallInv
    BY <1>4, <1>8 DEF CallInv
  <2>3. AnswerInv
    BY <1>2, <1>3 DEF AnswerInv, AnswerFor
  <2>4. Gated(Plan) /\ Complete(Plan) /\ OfOne(Plan)
    BY <1>4, <1>8 DEF Gated, Complete, OfOne
  <2>5. QED  BY <2>1, <2>2, <2>3, <2>4 DEF PlanInv
<1>11. ReadInv
  BY <1>2, <1>3 DEF ReadInv
<1>12. QED  BY <1>5, <1>6, <1>9, <1>10, <1>11 DEF IInv, LedgerInv

LEMMA StutterKeeps ==
  ASSUME IInv, UNCHANGED vars
  PROVE  IInv'
<1>1. /\ file' = file /\ ended' = ended /\ holder' = holder /\ key' = key /\ hook' = hook /\ faults' = faults
      /\ config' = config /\ edited' = edited /\ roster' = roster
  BY DEF vars
<1>2. HooksInv'
  <2>1. ASSUME NEW q \in Procs
        PROVE  HookInv(q)'
    <3>1. HookInv(q)
      BY DEF IInv, HooksInv
    <3>2. QED  BY <1>1, <3>1, HookStays
  <2>2. QED  BY <1>1, <2>1 DEF IInv, HooksInv
<1>3. FileInv'
  BY <1>1 DEF IInv, FileInv
<1>4. Pre' = Pre /\ Todo' = Todo /\ Ledger' = Ledger
  BY <1>1 DEF Pre, Owns, Todo, Ledger
<1>5. Plan' = Plan /\ (Broken' <=> Broken)
  BY <1>1, <1>4 DEF Plan, Broken
<1>6. PlanInv => PlanInv'
  BY <1>1, <1>4, <1>5 DEF PlanInv, CallInv, AnswerInv, AnswerFor
<1>7. LedgerInv'
  BY <1>1, <1>4, <1>5, <1>6 DEF IInv, LedgerInv
<1>8. ReadInv'
  BY <1>1 DEF IInv, ReadInv
<1>9. QED  BY <1>2, <1>3, <1>7, <1>8 DEF IInv

LEMMA NextKeeps ==
  ASSUME GarbledIsNoEntry, IInv, [Next]_vars
  PROVE  IInv'
<1>1. CASE EditRoster
  BY <1>1, EditKeeps
<1>2. ASSUME NEW p \in Procs, NEW call \in Calls, Start(p, call)
      PROVE  IInv'
  BY <1>2, StartKeeps
<1>3. ASSUME NEW p \in Procs, Fails(p) \/ Refuse(p)
      PROVE  IInv'
  BY <1>3, RefusedKeeps
<1>4. ASSUME NEW p \in Procs, Lock(p)
      PROVE  IInv'
  BY <1>4, LockKeeps
<1>5. ASSUME NEW p \in Procs, BeginLine(p) \/ EndLine(p)
      PROVE  IInv'
  BY <1>5, LinesKeep
<1>6. ASSUME NEW p \in Procs, WriteFails(p) \/ Die(p) \/ Answer(p)
      PROVE  IInv'
  BY <1>6, UnlockedKeeps
<1>7. ASSUME NEW p \in Procs, ExportRead(p) \/ ExportKey(p) \/ ExportVerify(p)
      PROVE  IInv'
  BY <1>7, ExportKeeps
<1>8. CASE UNCHANGED vars
  BY <1>8, StutterKeeps
<1>9. QED  BY <1>1, <1>2, <1>3, <1>4, <1>5, <1>6, <1>7, <1>8 DEF Next

(* The lock, the file and what each hook is doing agree: the lines that are *)
(* there and those the holder of the lock will still write are one ledger,  *)
(* unless a line will stay that does not parse.                             *)
THEOREM SessionsKeepInvariant ==
  ASSUME GarbledIsNoEntry
  PROVE  Spec => []IInv
<1>1. Init => IInv
  BY InitKeeps
<1>2. IInv /\ [Next]_vars => IInv'
  BY NextKeeps
<1>3. QED  BY <1>1, <1>2, PTL DEF Spec

-----------------------------------------------------------------------------
(* One ledger *)

LEMMA LedgerIsTold ==
  ASSUME IInv
  PROVE  Told(Ledger) /\ IsSeq(Ledger) /\ (faults = 0 => Gated(Ledger))
<1>1. HooksInv /\ FileInv /\ LedgerInv
  BY DEF IInv
<1>2. CASE Broken
  BY <1>1, <1>2 DEF LedgerInv, Told, IsLedger
<1>3. CASE ~Broken
  <2>1. Begins(Ledger, Plan) /\ IsSeq(Ledger) /\ IsSeq(Plan)
    BY <1>1, <1>3, LedgerBegins, PlanIs DEF IsPlan
  <2>2. (Told(Plan) => Told(Ledger)) /\ (Gated(Plan) => Gated(Ledger))
    BY <2>1, BeginsToo
  <2>3. QED  BY <1>1, <1>3, <2>1, <2>2 DEF LedgerInv, PlanInv
<1>4. QED  BY <1>2, <1>3

SameBodies(es, fs) == Len(es) = Len(fs) /\ \A i \in DOMAIN fs : es[i].body = fs[i].body
OfChain(es, chain) == \A i \in DOMAIN es : es[i].body.chain = chain

(* The entries of one derivation, linked anew, are a ledger as well. *)
LEMMA DerivationIsTold ==
  ASSUME NEW es, Told(es), NEW chain, NEW f, NEW picked, NEW ws,
         NEW keep, keep = {e \in ToSet(es) : e.body.chain = chain}, Picks(f, picked, es, Len(es), keep),
         IsLedger(ws), ChainVerifies(ws), SameBodies(ws, picked)
  PROVE  Told(ws) /\ (Gated(es) => Gated(ws)) /\ OfChain(ws, chain)
<1> DEFINE n == Len(es)
           m == Len(picked)
<1>1. keep = {e \in ToSet(es) : e.body.chain = chain}
  OBVIOUS
<1>2. /\ n \in Nat /\ DOMAIN es = 1 .. n /\ m \in Nat /\ DOMAIN picked = 1 .. m /\ DOMAIN ws = 1 .. m
      /\ \A k \in 1 .. m : f[k] \in 1 .. n /\ picked[k] = es[f[k]] /\ es[f[k]] \in keep
      /\ \A j, k \in 1 .. m : j < k => f[j] < f[k]
      /\ \A i \in 1 .. n : es[i] \in keep => \E k \in 1 .. m : f[k] = i
  BY <1>1, SeqIsIndexed DEF Picks, Told, IsLedger, SameBodies
<1> HIDE DEF n, m
<1>3. \A k \in 1 .. m : f[k] \in DOMAIN es /\ ws[k].body = es[f[k]].body
  BY <1>2 DEF SameBodies
<1>4. \A k \in 1 .. m : es[f[k]].body.chain = chain
  BY <1>1, <1>2
<1>5. \A i \in 1 .. n : es[i].body.chain = chain => \E k \in 1 .. m : f[k] = i
  BY <1>1, <1>2 DEF ToSet
<1>6. \A i, k \in 1 .. m : (f[k] <= f[i] => k <= i) /\ (f[k] < f[i] => k < i) /\ (f[k] = f[i] => k = i)
  <2>1. SUFFICES ASSUME NEW i \in 1 .. m, NEW k \in 1 .. m
                 PROVE  (f[k] <= f[i] => k <= i) /\ (f[k] < f[i] => k < i) /\ (f[k] = f[i] => k = i)
    OBVIOUS
  <2>2. PICK a : a = f[i]
    OBVIOUS
  <2>3. PICK b : b = f[k]
    OBVIOUS
  <2>4. a \in Nat /\ b \in Nat /\ i \in Nat /\ k \in Nat
    BY <1>2, <2>2, <2>3
  <2>5. (i < k => a < b) /\ (k < i => b < a) /\ (i = k => a = b)
    BY <1>2, <2>2, <2>3
  <2>6. (b <= a => k <= i) /\ (b < a => k < i) /\ (b = a => k = i)
    BY <2>4, <2>5
  <2>7. QED  BY <2>2, <2>3, <2>6
<1>7. \A i \in DOMAIN ws : \E r \in DOMAIN Declared : IsBodyOf(ws[i].body, r)
  <2>1. SUFFICES ASSUME NEW i \in 1 .. m PROVE \E r \in DOMAIN Declared : IsBodyOf(ws[i].body, r)
    BY <1>2
  <2>2. PICK b : b = es[f[i]].body
    OBVIOUS
  <2>3. \E r \in DOMAIN Declared : IsBodyOf(b, r)
    BY <1>3, <2>2 DEF Told
  <2>4. QED  BY <1>3, <2>2, <2>3
<1>8. ASSUME NEW i \in DOMAIN ws
      PROVE  \E k \in 1 .. i : ws[k].body.event = "root" /\ SameChain(ws, i, k)
  <2>1. PICK j \in 1 .. f[i] : es[j].body.event = "root" /\ SameChain(es, f[i], j)
    BY <1>2, <1>3 DEF Told
  <2>2. j \in 1 .. n /\ j <= f[i]
    BY <1>2
  <2>3. PICK k \in 1 .. m : f[k] = j
    BY <1>2, <1>4, <1>5, <2>1, <2>2 DEF SameChain
  <2>4. k \in 1 .. i
    BY <1>2, <1>6, <2>2, <2>3
  <2>5. QED  BY <1>2, <1>3, <2>1, <2>3, <2>4 DEF SameChain
<1>9. ASSUME NEW i \in DOMAIN ws, NEW j \in DOMAIN ws, i # j,
             IsDefinition(ws[i].body), IsDefinition(ws[j].body), SameChain(ws, i, j)
      PROVE  ws[i].body.node # ws[j].body.node
  <2>1. f[i] # f[j] /\ f[i] \in DOMAIN es /\ f[j] \in DOMAIN es
        /\ ws[i].body = es[f[i]].body /\ ws[j].body = es[f[j]].body
    BY <1>2, <1>3, <1>6, <1>9
  <2>2. QED  BY <1>9, <2>1 DEF Told, SameChain
<1>10. Told(ws)
  BY <1>7, <1>8, <1>9 DEF Told
<1>11. ASSUME Gated(es)
       PROVE  Gated(ws)
  <2>1. SUFFICES ASSUME NEW i \in DOMAIN ws, ws[i].body.event = "allow"
                 PROVE  \E k \in 1 .. i - 1 : /\ IsDefinition(ws[k].body) /\ SameChain(ws, i, k)
                                              /\ ws[k].body.node = ws[i].body.node
    BY DEF Gated
  <2>2. PICK j \in 1 .. f[i] - 1 : /\ IsDefinition(es[j].body) /\ SameChain(es, f[i], j)
                                   /\ es[j].body.node = es[f[i]].body.node
    BY <1>2, <1>3, <1>11, <2>1 DEF Gated
  <2>3. j \in 1 .. n /\ j < f[i]
    BY <1>2
  <2>4. PICK k \in 1 .. m : f[k] = j
    BY <1>2, <1>4, <1>5, <2>2, <2>3 DEF SameChain
  <2>5. k \in 1 .. i - 1
    BY <1>2, <1>6, <2>3, <2>4
  <2>6. QED  BY <1>2, <1>3, <2>2, <2>4, <2>5 DEF SameChain
<1>12. OfChain(ws, chain)
  BY <1>2, <1>3, <1>4 DEF OfChain
<1>13. QED  BY <1>10, <1>11, <1>12

LEMMA LedgerIsOne ==
  ASSUME IInv
  PROVE  OneLedger
<1>1. PICK es : es = Ledger
  OBVIOUS
<1>2. Told(es) /\ IsSeq(es) /\ (faults = 0 => Gated(es)) /\ DOMAIN es = 1 .. Len(es)
  BY <1>1, LedgerIsTold, SeqIsIndexed
<1>3. ChainVerifies(es)
  BY <1>2 DEF Told
<1>4. ASSUME NEW chain \in {e.body.chain : e \in ToSet(es)}, NEW picked,
             picked = Among(es, {e \in ToSet(es) : e.body.chain = chain}),
             NEW bodies, bodies = [i \in DOMAIN picked |-> picked[i].body]
      PROVE  /\ bodies[1].event = "root"
             /\ \A i, j \in DOMAIN bodies :
                  (i # j /\ bodies[i].event \in {"root", "spawn"}) => bodies[i] # bodies[j]
             /\ faults = 0 => LedgerOk(BundleOf(Chained(bodies), NoAnchor, <<>>))
  <2>1. PICK keep : keep = {e \in ToSet(es) : e.body.chain = chain}
    OBVIOUS
  <2>2. PICK f : Picks(f, picked, es, Len(es), keep)
    BY <1>2, <1>4, <2>1, AmongPicks
  <2>3. PICK m : m = Len(picked)
    OBVIOUS
  <2>4. m \in Nat /\ DOMAIN picked = 1 .. m
    BY <2>2, <2>3, SeqIsIndexed DEF Picks
  <2>5. bodies = [i \in 1 .. m |-> bodies[i]] /\ \A i \in 1 .. m : bodies[i] = picked[i].body
    BY <1>4, <2>4
  <2>6. IsSeq(bodies) /\ Len(bodies) = m /\ DOMAIN bodies = 1 .. m
    BY <2>4, <2>5, IndexedIsSeq
  <2>7. PICK ws : ws = Chained(bodies)
    OBVIOUS
  <2>8. IsLedger(ws) /\ ChainVerifies(ws) /\ Len(ws) = m /\ \A i \in 1 .. m : ws[i].body = bodies[i]
    BY <2>6, <2>7, ChainedVerifies
  <2>9. /\ Told(ws) /\ (Gated(es) => Gated(ws))
        /\ \A i \in DOMAIN ws : ws[i].body.chain = chain
    <3>1. SameBodies(ws, picked)
      BY <2>3, <2>4, <2>5, <2>8 DEF SameBodies
    <3>2. Told(ws) /\ (Gated(es) => Gated(ws)) /\ OfChain(ws, chain)
      BY <1>2, <2>1, <2>2, <2>8, <3>1, DerivationIsTold
    <3>3. QED  BY <3>2 DEF OfChain
  <2>10. DOMAIN ws = 1 .. m
    BY <2>8, SeqIsIndexed DEF IsLedger
  <2>11. m # 0
    <3>1. PICK i \in 1 .. Len(es) : es[i].body.chain = chain
      BY <1>2 DEF ToSet
    <3>2. es[i] \in keep
      BY <1>2, <2>1, <3>1 DEF ToSet
    <3>3. \E k \in 1 .. Len(picked) : f[k] = i
      BY <2>2, <3>2 DEF Picks
    <3>4. QED  BY <2>3, <2>4, <3>3
  <2>12. bodies[1].event = "root"
    <3>1. 1 \in DOMAIN ws
      BY <2>4, <2>10, <2>11
    <3>2. PICK j \in 1 .. 1 : ws[j].body.event = "root"
      BY <2>9, <3>1 DEF Told
    <3>3. j = 1
      OBVIOUS
    <3>4. QED  BY <2>8, <2>10, <3>1, <3>2, <3>3
  <2>13. ASSUME NEW i \in DOMAIN bodies, NEW j \in DOMAIN bodies, i # j, bodies[i].event \in {"root", "spawn"},
                bodies[i] = bodies[j]
         PROVE  FALSE
    <3>1. ws[i].body = bodies[i] /\ ws[j].body = bodies[i] /\ i \in DOMAIN ws /\ j \in DOMAIN ws
      BY <2>6, <2>8, <2>10, <2>13
    <3>2. PICK r \in DOMAIN Declared : IsBodyOf(bodies[i], r)
      BY <2>9, <3>1 DEF Told
    <3>3. IsDefinition(bodies[i])
      BY <2>13, <3>2, BodyIs
    <3>4. SameChain(ws, i, j)
      BY <3>1 DEF SameChain
    <3>5. QED  BY <2>9, <2>13, <3>1, <3>3, <3>4 DEF Told
  <2>14. faults = 0 => LedgerOk(BundleOf(ws, NoAnchor, <<>>))
    <3>1. ws # <<>>
      BY <2>8, <2>11, EmptyIsSeq
    <3>2. QED  BY <1>2, <2>9, <3>1, ChainAccepted
  <2>15. QED  BY <2>7, <2>12, <2>13, <2>14
<1>5. QED  BY <1>1, <1>3, <1>4 DEF OneLedger

(* Of OneLedger: whatever processes interleave, fail or are killed in, the *)
(* lines before any that does not parse are one chain, in which every      *)
(* derivation begins with its root and defines a node once; with no fault  *)
(* a verifier accepts the entries of each.                                 *)
THEOREM SessionsHaveOneLedger ==
  ASSUME GarbledIsNoEntry
  PROVE  Spec => []OneLedger
<1>1. Spec => []IInv
  BY SessionsKeepInvariant
<1>2. IInv => OneLedger
  BY LedgerIsOne
<1>3. QED  BY <1>1, <1>2, PTL

-----------------------------------------------------------------------------
(* The answers *)

(* That the answer of h is as the entry of body b tells. *)
AsTold(b, h) ==
  /\ b.chain = ChainId[h.seen]
  /\ h.answer = "deny" => b.event = "deny"
  /\ (h.answer = "pass" /\ config.enforce /\ h.call.agent # "") =>
       /\ b.event = "allow" /\ h.call.agent \in Agents[h.seen]
       /\ PermitsScope(AgentScopes(Declared[h.seen], h.call.agent), b.act)
       /\ b.act \in Session[h.seen]
Recorded(h, mine) ==
  /\ h.answer = "deny" => config.enforce
  /\ \/ Cardinality(mine) = 1 /\ \A i \in mine : AsTold(Ledger[i].body, h)
     \/ faults > 0 /\ ~Readable(file)

LEMMA AnswerIsRecorded ==
  ASSUME IInv
  PROVE  AnswersAreRecorded
<1>1. HooksInv /\ FileInv /\ LedgerInv
  BY DEF IInv
<1>2. PICK es : es = Ledger
  OBVIOUS
<1>3. ASSUME NEW p \in Procs, NEW h, h = hook[p], h.pc = "done", h.answer \in {"pass", "deny"},
             h.call.event = "PreToolUse", NEW mine, mine = {i \in DOMAIN es : es[i].body.call = p}
      PROVE  Recorded(h, mine)
  <2>1. h.answer = Verdict(h) /\ h.seen \in DOMAIN Declared
    BY <1>1, <1>3 DEF HooksInv, HookInv
  <2>2. /\ h.answer = "deny" => Denied(h.seen, h.call)
        /\ h.answer = "pass" => ~Denied(h.seen, h.call)
    BY <1>3, <2>1 DEF Verdict
  <2>3. h.answer = "deny" => config.enforce /\ ~Allowed(h.seen, h.call)
    BY <2>2 DEF Denied
  <2>4. (h.answer = "pass" /\ config.enforce /\ h.call.agent # "") => Allowed(h.seen, h.call)
    BY <2>2 DEF Denied
  <2>5. CASE Broken
    <3>1. faults \in Nat /\ faults # 0
      BY <1>1, <2>5 DEF LedgerInv, FileInv
    <3>2. PICK i \in 1 .. Pre : file[i] = Garbled
      BY <2>5 DEF Broken
    <3>3. i \in DOMAIN file
      <4>1. PICK n : n = Pre
        OBVIOUS
      <4>2. PICK m : m = Len(file)
        OBVIOUS
      <4>3. n \in Nat /\ m \in Nat /\ n <= m
        BY <1>1, <4>1, <4>2, PreIs
      <4>4. i \in 1 .. m
        BY <3>2, <4>1, <4>3
      <4>5. DOMAIN file = 1 .. m
        BY <1>1, <4>2, PlanIs
      <4>6. QED  BY <4>4, <4>5
    <3>4. ~Readable(file)
      BY <3>2, <3>3 DEF Readable, ToSet
    <3>5. faults > 0
      BY <3>1
    <3>6. QED  BY <2>3, <3>4, <3>5 DEF Recorded
  <2>6. CASE ~Broken
    <3>1. /\ Begins(es, Plan) /\ IsSeq(es) /\ Len(es) \in Nat
          /\ Len(es) >= Pre /\ \A i \in 1 .. Pre : es[i] = file[i]
      BY <1>1, <1>2, <2>6, LedgerBegins
    <3>2. IsSeq(Plan) /\ Pre \in Nat
      BY <1>1, PlanIs DEF IsPlan
    <3>3. /\ DOMAIN es \subseteq DOMAIN Plan /\ DOMAIN es = 1 .. Len(es)
          /\ \A i \in DOMAIN es : es[i] = Plan[i]
      BY <3>1, <3>2, BeginsToo
    <3>4. CallInv /\ AnswerFor(p)
      BY <1>1, <2>6 DEF LedgerInv, PlanInv, AnswerInv
    <3>5. PICK i \in 1 .. Pre : file[i].body.call = p
      BY <1>3, <3>4 DEF AnswerFor
    <3>6. i \in DOMAIN es
      <4>1. PICK n : n = Pre
        OBVIOUS
      <4>2. PICK m : m = Len(es)
        OBVIOUS
      <4>3. n \in Nat /\ m \in Nat /\ m >= n /\ i \in 1 .. n
        BY <3>1, <3>2, <4>1, <4>2
      <4>4. i \in 1 .. m
        BY <4>3
      <4>5. QED  BY <3>3, <4>2, <4>4
    <3>7. es[i].body.call = p
      BY <3>1, <3>5
    <3>8. /\ es[i].body = Decision(h.seen, h.call, p)
          /\ \A j \in DOMAIN Plan : Plan[j].body.call = p => j = i
      BY <1>3, <3>3, <3>4, <3>6, <3>7 DEF CallInv
    <3>9. mine = {i}
      BY <1>3, <3>3, <3>6, <3>7, <3>8
    <3>10. Cardinality(mine) = 1
      BY <3>9, FS_Singleton
    <3>11. PICK b : b = es[i].body
      OBVIOUS
    <3>12. b = Decision(h.seen, h.call, p)
      BY <3>8, <3>11
    <3>13. b.chain = ChainId[h.seen]
      <4>1. Common(b, h.seen)
        BY <3>12, DecisionIs
      <4>2. QED  BY <4>1 DEF Common
    <3>14. Allowed(h.seen, h.call) => b.event = "allow"
      BY <3>12, DecisionIs
    <3>15. ~Allowed(h.seen, h.call) => b.event = "deny"
      BY <3>12, DecisionIs
    <3>16. PICK scope : scope = ScopeForTool(h.call.tool, h.call.target)
      OBVIOUS
    <3>17. b.act = scope
      BY <3>12, <3>16, DecisionActIs
    <3>18. (h.answer = "pass" /\ config.enforce /\ h.call.agent # "") =>
             /\ b.event = "allow" /\ h.call.agent \in Agents[h.seen]
             /\ PermitsScope(AgentScopes(Declared[h.seen], h.call.agent), b.act)
             /\ b.act \in Session[h.seen]
      <4>1. SUFFICES ASSUME h.answer = "pass" /\ config.enforce /\ h.call.agent # ""
                     PROVE  /\ b.event = "allow" /\ h.call.agent \in Agents[h.seen]
                            /\ PermitsScope(AgentScopes(Declared[h.seen], h.call.agent), b.act)
                            /\ b.act \in Session[h.seen]
        OBVIOUS
      <4>2. Allowed(h.seen, h.call)
        BY <2>4, <4>1
      <4>3. h.call.agent \in Agents[h.seen] /\ scope \in Held[h.seen][h.call.agent]
        BY <3>16, <4>1, <4>2 DEF Allowed
      <4>4. scope \in Session[h.seen] /\ PermitsScope(AgentScopes(Declared[h.seen], h.call.agent), scope)
        BY <2>1, <4>3, HeldIsWithin
      <4>5. QED  BY <3>14, <3>17, <4>2, <4>3, <4>4
    <3>19. AsTold(b, h)
      BY <2>3, <3>13, <3>15, <3>18 DEF AsTold
    <3>20. \A j \in mine : AsTold(Ledger[j].body, h)
      BY <1>2, <3>9, <3>11, <3>19
    <3>21. QED  BY <2>3, <3>10, <3>20 DEF Recorded
  <2>7. QED  BY <2>5, <2>6
<1>4. SUFFICES ASSUME NEW p \in Procs, hook[p].pc = "done", hook[p].answer \in {"pass", "deny"},
                      hook[p].call.event = "PreToolUse"
               PROVE  Recorded(hook[p], {i \in DOMAIN Ledger : Ledger[i].body.call = p})
  BY DEF AnswersAreRecorded, Recorded, AsTold
<1>5. QED  BY <1>2, <1>3, <1>4

(* Of AnswersAreRecorded: a call the hook lets through or denies is on the *)
(* ledger once, as it was decided, and a subagent that is let through      *)
(* under enforcement holds the scope; or a line does not parse any more,   *)
(* and every later call is denied.                                         *)
THEOREM SessionsRecordAnswers ==
  ASSUME GarbledIsNoEntry
  PROVE  Spec => []AnswersAreRecorded
<1>1. Spec => []IInv
  BY SessionsKeepInvariant
<1>2. IInv => AnswersAreRecorded
  BY AnswerIsRecorded
<1>3. QED  BY <1>1, <1>2, PTL

-----------------------------------------------------------------------------
(* The bundle of a stop *)

(* A signed anchor is not the absence of one. *)
NoAnchorIsNone ==
  \A body, by, over : NoAnchor # [body |-> body, by |-> by, over |-> over]

(* The bundle of a ledger of one derivation verifies under its key. *)
LEMMA ToldVerifies ==
  ASSUME NoAnchorIsNone, NEW es, Told(es), Gated(es), OfOne(es), es # <<>>
  PROVE  Verifies(es, key)
<1>1. PICK a : a = AnchorFor(es, key)
  OBVIOUS
<1>2. PICK b : b = BundleOf(es, a, <<>>)
  OBVIOUS
<1>3. LedgerOk(b)
  BY <1>1, <1>2, ChainAccepted DEF OfOne
<1>4. PICK body : body = [v |-> VersionOf(es), chain |-> ChainIdOf(es), seq |-> LastSeq(es), head |-> HeadHash(es)]
  OBVIOUS
<1>5. a = [body |-> body, by |-> key, over |-> body]
  BY <1>1, <1>4 DEF AnchorFor
<1>6. a # NoAnchor /\ a.by = key /\ a.over = a.body /\ a.body = body
  BY <1>5 DEF NoAnchorIsNone
<1>7. body.seq = LastSeq(es) /\ body.chain = ChainIdOf(es) /\ body.head = HeadHash(es)
  BY <1>4
<1>8. ChainVerifies(es)
  BY DEF Told
<1>9. AnchorVerifies(es, a, key)
  BY <1>6, <1>7, <1>8 DEF AnchorVerifies
<1>10. b.anchor = a
  BY <1>2 DEF BundleOf
<1>11. QED  BY <1>1, <1>2, <1>3, <1>9, <1>10 DEF Verifies

(* A step of p, which keeps what other stops read, and any report but the  *)
(* one it makes.                                                           *)
Quiet(p) ==
  /\ Alone(p, hook') /\ (hook[p].key = p => hook'[p].key = p)
  /\ hook'[p].report = hook[p].report \/ ExportVerify(p)

LEMMA QuietStart ==
  ASSUME HooksInv, FileInv, NEW p \in Procs, NEW call \in Calls, Start(p, call)
  PROVE  Quiet(p)
<1>1. Alone(p, hook')
  BY StartHook
<1>2. PICK h : h = hook[p]
  OBVIOUS
<1>3. IsHook(h) /\ hook = [q \in Procs |-> hook[q]] /\ h.key # p
  BY <1>2, ProcsAssumption DEF HooksInv, HookInv, Start
<1>4. PICK pc : hook' = [hook EXCEPT ![p].pc = pc, ![p].call = call, ![p].seen = roster]
  BY DEF Start
<1>5. PICK k : k = [h EXCEPT !.pc = pc, !.call = call, !.seen = roster]
  OBVIOUS
<1>6. hook'[p] = k
  BY <1>2, <1>3, <1>4, <1>5
<1>7. k.report = h.report
  BY <1>3, <1>5 DEF IsHook
<1>8. QED  BY <1>1, <1>2, <1>3, <1>6, <1>7 DEF Quiet

LEMMA QuietDone ==
  ASSUME HooksInv, NEW p \in Procs, NEW answer, hook' = Done(p, answer)
  PROVE  Quiet(p)
<1>1. PICK h : h = hook[p]
  OBVIOUS
<1>2. IsHook(h)
  BY <1>1 DEF HooksInv, HookInv
<1>3. PICK k : k = [h EXCEPT !.pc = "done", !.answer = answer, !.todo = <<>>, !.begun = "no", !.entries = <<>>]
  OBVIOUS
<1>4. Alone(p, Done(p, answer)) /\ Done(p, answer)[p] = k
  BY <1>1, <1>3, DoneIs
<1>5. k.report = h.report /\ k.key = h.key
  BY <1>2, <1>3 DEF IsHook
<1>6. Alone(p, hook')
  BY <1>4 DEF Alone
<1>7. QED  BY <1>1, <1>4, <1>5, <1>6 DEF Quiet

LEMMA QuietLock ==
  ASSUME IInv, NEW p \in Procs, Lock(p)
  PROVE  Quiet(p)
<1>1. PICK bodies : bodies = NewBodies(hook[p].seen, hook[p].call, p)
  OBVIOUS
<1>2. PICK todo : todo = After(file, bodies)
  OBVIOUS
<1>3. PICK h : h = hook[p]
  OBVIOUS
<1>4. Alone(p, hook') /\ hook'[p] = [h EXCEPT !.pc = "writing", !.todo = todo]
  BY <1>1, <1>2, <1>3, LockHook
<1>5. IsHook(h) /\ h.key # p
  BY <1>3, ProcsAssumption DEF IInv, HooksInv, HookInv, Lock
<1>6. hook'[p].report = h.report
  BY <1>4, <1>5 DEF IsHook
<1>7. QED  BY <1>3, <1>4, <1>5, <1>6 DEF Quiet

LEMMA QuietLines ==
  ASSUME HooksInv, FileInv, NEW p \in Procs, BeginLine(p) \/ EndLine(p)
  PROVE  Quiet(p)
<1>1. Alone(p, hook')
  BY BeginHook, EndHook
<1>2. PICK h : h = hook[p]
  OBVIOUS
<1>3. IsHook(h) /\ hook = [q \in Procs |-> hook[q]] /\ h.key # p
  BY <1>2, ProcsAssumption DEF HooksInv, HookInv, BeginLine, EndLine
<1>4. CASE BeginLine(p)
  <2>1. PICK begun : hook' = [hook EXCEPT ![p].begun = begun]
    BY <1>4 DEF BeginLine
  <2>2. PICK k : k = [h EXCEPT !.begun = begun]
    OBVIOUS
  <2>3. hook'[p] = k
    BY <1>2, <1>3, <2>1, <2>2
  <2>4. k.report = h.report
    BY <1>3, <2>2 DEF IsHook
  <2>5. QED  BY <1>1, <1>2, <1>3, <2>3, <2>4 DEF Quiet
<1>5. CASE EndLine(p)
  <2>1. PICK k : k = [h EXCEPT !.todo = Tail(h.todo), !.begun = "no"]
    OBVIOUS
  <2>2. hook'[p] = k
    BY <1>2, <1>3, <1>5, <2>1 DEF EndLine
  <2>3. k.report = h.report
    BY <1>3, <2>1 DEF IsHook
  <2>4. QED  BY <1>1, <1>2, <1>3, <2>2, <2>3 DEF Quiet
<1>6. QED  BY <1>4, <1>5

LEMMA QuietExport ==
  ASSUME HooksInv, FileInv, NEW p \in Procs, ExportRead(p) \/ ExportKey(p) \/ ExportVerify(p)
  PROVE  Quiet(p)
<1>1. Alone(p, hook')
  BY ExportHook
<1>2. PICK h : h = hook[p]
  OBVIOUS
<1>3. IsHook(h) /\ hook = [q \in Procs |-> hook[q]]
  BY <1>2 DEF HooksInv, HookInv
<1>4. CASE ExportRead(p) /\ (~(config.export /\ exists) \/ ~Readable(file))
  <2>1. \E answer : hook' = Done(p, answer)
    BY <1>4 DEF ExportRead
  <2>2. QED  BY <2>1, QuietDone
<1>5. CASE ExportRead(p) /\ config.export /\ exists /\ Readable(file)
  <2>1. PICK pc : pc = IF key = NoOne THEN "key" ELSE "verify"
    OBVIOUS
  <2>2. PICK k : k = [h EXCEPT !.pc = pc, !.entries = file, !.key = key]
    OBVIOUS
  <2>3. hook'[p] = k
    BY <1>2, <1>3, <1>5, <2>1, <2>2 DEF ExportRead
  <2>4. k.report = h.report
    BY <1>3, <2>2 DEF IsHook
  <2>5. h.key # p
    BY <1>2, <1>5, ProcsAssumption DEF ExportRead, HooksInv, HookInv
  <2>6. QED  BY <1>1, <1>2, <2>3, <2>4, <2>5 DEF Quiet
<1>6. CASE ExportKey(p)
  <2>1. PICK k : k = [h EXCEPT !.pc = "verify", !.key = p]
    OBVIOUS
  <2>2. hook'[p] = k
    BY <1>2, <1>3, <1>6, <2>1 DEF ExportKey
  <2>3. k.report = h.report /\ k.key = p
    BY <1>3, <2>1 DEF IsHook
  <2>4. QED  BY <1>1, <1>2, <2>2, <2>3 DEF Quiet
<1>7. CASE ExportVerify(p)
  <2>1. PICK report : hook' = [Done(p, "pass") EXCEPT ![p].report = report]
    BY <1>7 DEF ExportVerify
  <2>2. PICK d : d = Done(p, "pass")
    OBVIOUS
  <2>3. PICK k : k = [h EXCEPT !.pc = "done", !.answer = "pass", !.todo = <<>>, !.begun = "no", !.entries = <<>>]
    OBVIOUS
  <2>4. Alone(p, d) /\ d[p] = k
    BY <1>2, <2>2, <2>3, DoneIs
  <2>5. IsHook(k) /\ k.key = h.key
    BY <1>3, <2>3 DEF IsHook
  <2>6. PICK l : l = [k EXCEPT !.report = report]
    OBVIOUS
  <2>7. hook'[p] = l
    BY <2>1, <2>2, <2>4, <2>6 DEF Alone
  <2>8. l.key = h.key
    BY <2>5, <2>6 DEF IsHook
  <2>9. QED  BY <1>1, <1>2, <1>7, <2>7, <2>8 DEF Quiet
<1>8. QED  BY <1>4, <1>5, <1>6, <1>7 DEF ExportRead

LEMMA StepIsQuiet ==
  ASSUME IInv, Next
  PROVE  EditRoster \/ \E p \in Procs : Quiet(p)
<1>1. HooksInv /\ FileInv
  BY DEF IInv
<1>2. ASSUME NEW p \in Procs, Fails(p) \/ Refuse(p) \/ WriteFails(p) \/ Answer(p) \/ Die(p)
      PROVE  Quiet(p)
  <2>1. \E answer : hook' = Done(p, answer)
    BY <1>2 DEF Fails, Refuse, WriteFails, Answer, Die
  <2>2. QED  BY <1>1, <2>1, QuietDone
<1>3. QED  BY <1>1, <1>2, QuietStart, QuietLock, QuietLines, QuietExport DEF Next

(* The verdict of a stop on what it read. *)
LEMMA VerdictIs ==
  ASSUME NoAnchorIsNone, IInv, NEW p \in Procs, ExportVerify(p), ~edited, faults = 0,
         \A q \in Procs \ {p} : hook[q].key # q
  PROVE  hook'[p].report # "fails"
<1>1. HooksInv /\ ReadInv /\ hook[p].pc = "verify"
  BY DEF IInv, ExportVerify
<1>2. PICK es : es = hook[p].entries
  OBVIOUS
<1>3. Told(es) /\ Gated(es) /\ OfOne(es) /\ hook[p].key = key
  BY <1>1, <1>2 DEF ReadInv
<1>4. es # <<>> => Verifies(es, hook[p].key)
  BY <1>3, ToldVerifies
<1>5. PICK report : report = IF es = <<>> THEN "empty" ELSE IF Verifies(es, hook[p].key) THEN "verifies" ELSE "fails"
  OBVIOUS
<1>6. report # "fails"
  BY <1>4, <1>5
<1>7. PICK d : d = Done(p, "pass")
  OBVIOUS
<1>8. PICK h : h = hook[p]
  OBVIOUS
<1>9. PICK k : k = [h EXCEPT !.pc = "done", !.answer = "pass", !.todo = <<>>, !.begun = "no", !.entries = <<>>]
  OBVIOUS
<1>10. Alone(p, d) /\ d[p] = k
  BY <1>1, <1>7, <1>8, <1>9, DoneIs
<1>11. hook' = [d EXCEPT ![p].report = report]
  BY <1>2, <1>5, <1>7 DEF ExportVerify
<1>12. PICK l : l = [k EXCEPT !.report = report]
  OBVIOUS
<1>13. hook'[p] = l
  BY <1>10, <1>11, <1>12 DEF Alone
<1>14. l.report = report
  BY <1>10, <1>12 DEF Alone, IsHook
<1>15. QED  BY <1>6, <1>13, <1>14

LEMMA StopsKeepVerifying ==
  ASSUME NoAnchorIsNone, IInv, StopsVerify, [Next]_vars
  PROVE  StopsVerify'
<1>1. SUFFICES ASSUME NEW p \in Procs, ~edited', faults' = 0, \A q \in Procs \ {p} : hook'[q].key # q
               PROVE  hook'[p].report # "fails"
  BY DEF StopsVerify
<1>2. CASE UNCHANGED vars
  BY <1>1, <1>2 DEF StopsVerify, vars
<1>3. CASE EditRoster
  BY <1>1, <1>3 DEF EditRoster
<1>4. CASE Next /\ ~EditRoster
  <2>1. PICK r \in Procs : Quiet(r)
    BY <1>4, StepIsQuiet
  <2>2. ~edited /\ faults = 0
    <3>1. faults \in Nat
      BY DEF IInv, FileInv
    <3>2. edited' = edited
      BY <1>4 DEF Next, Start, Fails, Lock, Refuse, BeginLine, EndLine, WriteFails, Answer, Die,
                  ExportRead, ExportKey, ExportVerify, project
    <3>3. faults' = faults \/ faults' = faults + 1
      BY <1>4 DEF Next, Start, Fails, Lock, Refuse, BeginLine, EndLine, WriteFails, Answer, Die,
                  ExportRead, ExportKey, ExportVerify, Fault
    <3>4. QED  BY <1>1, <3>1, <3>2, <3>3
  <2>3. \A q \in Procs \ {p} : hook[q].key # q
    <3>1. SUFFICES ASSUME NEW q \in Procs \ {p} PROVE hook[q].key # q
      OBVIOUS
    <3>2. hook'[q].key # q
      BY <1>1
    <3>3. CASE q = r
      BY <2>1, <3>2, <3>3 DEF Quiet
    <3>4. CASE q # r
      BY <2>1, <3>2, <3>4 DEF Quiet, Alone
    <3>5. QED  BY <3>3, <3>4
  <2>4. hook[p].report # "fails"
    BY <2>2, <2>3 DEF StopsVerify
  <2>5. CASE p # r
    BY <2>1, <2>4, <2>5 DEF Quiet, Alone
  <2>6. CASE p = r /\ ~ExportVerify(p)
    BY <2>1, <2>4, <2>6 DEF Quiet
  <2>7. CASE ExportVerify(p)
    BY <2>2, <2>3, <2>7, VerdictIs
  <2>8. QED  BY <2>5, <2>6, <2>7
<1>5. QED  BY <1>2, <1>3, <1>4

(* Of StopsVerify: the bundle of a stop verifies, whatever the hooks of     *)
(* other calls were writing when it read the ledger, if the project was     *)
(* not edited, nothing failed and no other stop made the key.               *)
THEOREM StoppedSessionsVerify ==
  ASSUME GarbledIsNoEntry, NoAnchorIsNone
  PROVE  Spec => []StopsVerify
<1>1. Init => StopsVerify
  <2>1. SUFFICES ASSUME Init, NEW p \in Procs PROVE hook[p].report # "fails"
    BY DEF StopsVerify
  <2>2. PICK idle : idle = Idle
    OBVIOUS
  <2>3. idle.report = "none" /\ hook = [q \in Procs |-> idle]
    BY <2>1, <2>2 DEF Init, Idle
  <2>4. QED  BY <2>3
<1>2. IInv /\ StopsVerify /\ [Next]_vars => StopsVerify'
  BY StopsKeepVerifying
<1>3. Spec => []IInv
  BY SessionsKeepInvariant
<1>4. QED  BY <1>1, <1>2, <1>3, PTL DEF Spec
=============================================================================
