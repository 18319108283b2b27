--------------------------- MODULE EvidenceProofs ---------------------------
(***************************************************************************)
(* The life of an evidence bundle, proved for every history, any number of *)
(* exports, witnesses, edits and trust files.                              *)
(***************************************************************************)
EXTENDS Evidence, SequenceTheorems, FiniteSetTheorems, WellFoundedInduction, TLAPS

IsSeq(s) == s \in Seq(Range(s))
IsEntry(e) == e = [seq |-> e.seq, prev |-> e.prev, hash |-> e.hash, body |-> e.body]
IsLedger(es) == IsSeq(es) /\ \A i \in DOMAIN es : IsEntry(es[i])

Linked(es, i) ==
  /\ es[i].seq = i - 1
  /\ es[i].prev = IF i = 1 THEN Genesis ELSE es[i - 1].hash
  /\ es[i].hash = Hash(es[i].prev, es[i])

(* What the hashes of a chain that verifies are. *)
Formed(es) ==
  \A i \in DOMAIN es :
    es[i].seq = i - 1 /\ es[i].prev = Trail(es, i - 1) /\ es[i].hash = Trail(es, i)

-----------------------------------------------------------------------------
(* Numbers and sequences *)

LEMMA LeastNumber ==
  ASSUME NEW S, S \subseteq Nat, S # {}
  PROVE  \E m \in S : \A n \in S : m <= n
<1> DEFINE R == OpToRel(<, Nat)
<1>1. \A m \in Nat, n \in Nat : <<n, m>> \in R <=> n < m
  BY DEF OpToRel
<1>2. IsWellFoundedOn(R, Nat)
  BY NatLessThanWellFounded
<1> HIDE DEF R
<1>3. PICK m \in S : \A n \in S : ~(<<n, m>> \in R)
  BY <1>2, WFMin
<1>4. \A n \in S : ~(n < m)
  BY <1>1, <1>3, Zenon
<1>5. QED  BY <1>4

LEMMA IndexedIsSeq ==
  ASSUME NEW n \in Nat, NEW s, s = [i \in 1 .. n |-> s[i]]
  PROVE  IsSeq(s) /\ Len(s) = n /\ DOMAIN s = 1 .. n
<1>1. DOMAIN s = 1 .. n
  OBVIOUS
<1>2. \A i \in 1 .. n : s[i] \in Range(s)
  BY <1>1 DEF Range
<1>3. s \in [1 .. n -> Range(s)]
  BY <1>2
<1>4. s \in Seq(Range(s))
  BY <1>3, SeqDef
<1>5. Len(s) = n
  BY <1>3
<1>6. QED  BY <1>1, <1>4, <1>5 DEF IsSeq

LEMMA SeqIsIndexed ==
  ASSUME NEW s, IsSeq(s)
  PROVE  /\ Len(s) \in Nat /\ DOMAIN s = 1 .. Len(s)
         /\ s = [i \in 1 .. Len(s) |-> s[i]]
BY LenProperties DEF IsSeq

LEMMA SameRange ==
  ASSUME NEW m \in Nat, NEW n \in Nat, 1 .. m = 1 .. n
  PROVE  m = n
<1>1. m = 0 \/ m \in 1 .. n
  OBVIOUS
<1>2. n = 0 \/ n \in 1 .. m
  OBVIOUS
<1>3. QED  BY <1>1, <1>2

LEMMA SeqsEqual ==
  ASSUME NEW s, NEW t, IsSeq(s), IsSeq(t), Len(s) = Len(t), \A i \in DOMAIN s : s[i] = t[i]
  PROVE  s = t
BY SeqIsIndexed

(* What appending does, whatever is appended. *)
LEMMA Appended ==
  ASSUME NEW s, NEW e, IsSeq(s)
  PROVE  /\ IsSeq(Append(s, e)) /\ Len(Append(s, e)) = Len(s) + 1
         /\ DOMAIN Append(s, e) = 1 .. Len(s) + 1
         /\ Append(s, e) = [i \in 1 .. Len(s) + 1 |-> IF i <= Len(s) THEN s[i] ELSE e]
<1> DEFINE S == Range(s) \cup {e}
<1>1. s \in Seq(S) /\ e \in S
  BY SeqMonotonic DEF IsSeq
<1>2. Len(s) \in Nat
  BY SeqIsIndexed
<1> HIDE DEF S
<1>3. /\ Append(s, e) \in Seq(S) /\ Len(Append(s, e)) = Len(s) + 1
      /\ \A i \in 1 .. Len(s) : Append(s, e)[i] = s[i]
      /\ Append(s, e)[Len(s) + 1] = e
  BY <1>1, AppendProperties
<1>4. Append(s, e) = [i \in 1 .. Len(s) + 1 |-> Append(s, e)[i]]
  BY <1>3, LenProperties
<1>5. IsSeq(Append(s, e)) /\ DOMAIN Append(s, e) = 1 .. Len(s) + 1
  BY <1>2, <1>4, IndexedIsSeq
<1>6. \A i \in 1 .. Len(s) + 1 : Append(s, e)[i] = IF i <= Len(s) THEN s[i] ELSE e
  BY <1>2, <1>3
<1>7. QED  BY <1>3, <1>4, <1>5, <1>6

-----------------------------------------------------------------------------
(* The hash chain *)

LEMMA TrailIsSeq ==
  ASSUME NEW es, NEW k \in Nat
  PROVE  IsSeq(Trail(es, k)) /\ Len(Trail(es, k)) = k /\ DOMAIN Trail(es, k) = 1 .. k
<1> DEFINE t == Trail(es, k)
<1>1. t = [i \in 1 .. k |-> t[i]]
  BY DEF Trail
<1> HIDE DEF t
<1>2. QED  BY <1>1, IndexedIsSeq DEF t

LEMMA TrailGrows ==
  ASSUME NEW es, NEW k \in Nat \ {0}
  PROVE  Append(Trail(es, k - 1), <<es[k].seq, es[k].body>>) = Trail(es, k)
<1> DEFINE t == Trail(es, k - 1)
           e == <<es[k].seq, es[k].body>>
<1>1. k - 1 \in Nat /\ k - 1 + 1 = k
  OBVIOUS
<1>2. IsSeq(t) /\ Len(t) = k - 1
  BY <1>1, TrailIsSeq
<1>3. \A i \in 1 .. k : i <= k - 1 => t[i] = <<es[i].seq, es[i].body>>
  BY DEF Trail
<1> HIDE DEF t
<1>4. Append(t, e) = [i \in 1 .. k |-> IF i <= k - 1 THEN t[i] ELSE e]
  BY <1>1, <1>2, Appended
<1>5. ASSUME NEW i \in 1 .. k
      PROVE  (IF i <= k - 1 THEN t[i] ELSE e) = <<es[i].seq, es[i].body>>
  <2>1. CASE i <= k - 1
    BY <1>3, <2>1
  <2>2. CASE ~(i <= k - 1)
    <3>1. i = k
      BY <2>2
    <3>2. QED  BY <2>2, <3>1
  <2>3. QED  BY <2>1, <2>2
<1>6. Append(t, e) = [i \in 1 .. k |-> <<es[i].seq, es[i].body>>]
  BY <1>4, <1>5
<1>7. QED  BY <1>6 DEF t, Trail

LEMMA NoTrail ==
  ASSUME NEW es
  PROVE  Trail(es, 0) = <<>>
<1>1. IsSeq(Trail(es, 0)) /\ Len(Trail(es, 0)) = 0
  BY TrailIsSeq
<1>2. QED  BY <1>1, EmptySeq DEF IsSeq

LEMMA FormedVerifies ==
  ASSUME NEW es, IsSeq(es), Formed(es)
  PROVE  ChainVerifies(es)
<1> SUFFICES ASSUME NEW i \in DOMAIN es
             PROVE  /\ es[i].seq = i - 1
                    /\ es[i].prev = IF i = 1 THEN Genesis ELSE es[i - 1].hash
                    /\ es[i].hash = Hash(es[i].prev, es[i])
  BY DEF ChainVerifies
<1>1. i \in 1 .. Len(es) /\ Len(es) \in Nat /\ DOMAIN es = 1 .. Len(es)
  BY SeqIsIndexed
<1>2. i \in Nat \ {0}
  BY <1>1
<1>3. es[i].seq = i - 1 /\ es[i].prev = Trail(es, i - 1) /\ es[i].hash = Trail(es, i)
  BY DEF Formed
<1>4. es[i].hash = Hash(es[i].prev, es[i])
  BY <1>2, <1>3, TrailGrows DEF Hash, Payload
<1>5. CASE i = 1
  BY <1>3, <1>4, <1>5, NoTrail DEF Genesis
<1>6. CASE i # 1
  <2>1. i - 1 \in DOMAIN es
    BY <1>1, <1>6
  <2>2. es[i - 1].hash = Trail(es, i - 1)
    BY <2>1 DEF Formed
  <2>3. QED  BY <1>3, <1>4, <1>6, <2>2
<1>7. QED  BY <1>5, <1>6

LEMMA VerifiesFormed ==
  ASSUME NEW es, IsSeq(es), ChainVerifies(es)
  PROVE  Formed(es)
<1> DEFINE Holds(i) == es[i].seq = i - 1 /\ es[i].prev = Trail(es, i - 1) /\ es[i].hash = Trail(es, i)
           bad == {i \in DOMAIN es : ~Holds(i)}
<1>1. DOMAIN es = 1 .. Len(es) /\ Len(es) \in Nat
  BY SeqIsIndexed
<1>2. \A i \in DOMAIN es : /\ es[i].seq = i - 1
                           /\ es[i].prev = IF i = 1 THEN Genesis ELSE es[i - 1].hash
                           /\ es[i].hash = Hash(es[i].prev, es[i])
  BY DEF ChainVerifies
<1>3. SUFFICES ASSUME bad # {} PROVE FALSE
  BY <1>3 DEF Formed
<1>4. PICK i \in bad : \A j \in bad : i <= j
  <2>1. bad \subseteq Nat
    BY <1>1
  <2> HIDE DEF bad
  <2>2. QED  BY <1>3, <2>1, LeastNumber
<1>5. i \in DOMAIN es /\ i \in Nat \ {0}
  BY <1>1
<1>6. es[i].prev = Trail(es, i - 1)
  <2>1. CASE i = 1
    BY <1>2, <1>5, <2>1, NoTrail DEF Genesis
  <2>2. CASE i # 1
    <3>1. i - 1 \in DOMAIN es /\ ~(i <= i - 1)
      BY <1>1, <1>5, <2>2
    <3>2. Holds(i - 1)
      BY <1>4, <3>1
    <3>3. QED  BY <1>2, <1>5, <2>2, <3>2
  <2>3. QED  BY <2>1, <2>2
<1>7. es[i].hash = Append(es[i].prev, <<es[i].seq, es[i].body>>)
  BY <1>2, <1>5 DEF Hash, Payload
<1>8. es[i].hash = Trail(es, i)
  BY <1>5, <1>6, <1>7, TrailGrows
<1>9. QED  BY <1>2, <1>4, <1>5, <1>6, <1>8

(* The head of a chain that verifies is of that chain and of no other. *)
LEMMA HeadDetermines ==
  ASSUME NEW es, NEW fs, IsLedger(es), IsLedger(fs), ChainVerifies(es), ChainVerifies(fs),
         es # <<>>, fs # <<>>, HeadHash(es) = HeadHash(fs)
  PROVE  es = fs
<1> DEFINE m == Len(es)
           n == Len(fs)
<1>1. IsSeq(es) /\ IsSeq(fs)
  BY DEF IsLedger
<1>2. /\ m \in Nat /\ DOMAIN es = 1 .. m
      /\ n \in Nat /\ DOMAIN fs = 1 .. n
  BY <1>1, SeqIsIndexed
<1>3. m # 0 /\ n # 0
  BY <1>1, EmptySeq DEF IsSeq
<1>4. Formed(es) /\ Formed(fs)
  BY <1>1, VerifiesFormed
<1>5. HeadHash(es) = Trail(es, m) /\ HeadHash(fs) = Trail(fs, n)
  BY <1>2, <1>3, <1>4 DEF HeadHash, Last, Formed
<1>6. Trail(es, m) = Trail(fs, n)
  BY <1>5
<1>7. m = n
  BY <1>2, <1>6, TrailIsSeq
<1>8. ASSUME NEW i \in 1 .. m
      PROVE  <<es[i].seq, es[i].body>> = <<fs[i].seq, fs[i].body>>
  <2>1. /\ Trail(es, m)[i] = <<es[i].seq, es[i].body>>
        /\ Trail(fs, m)[i] = <<fs[i].seq, fs[i].body>>
    BY DEF Trail
  <2>2. QED  BY <1>6, <1>7, <2>1
<1>9. ASSUME NEW k \in 0 .. m
      PROVE  Trail(es, k) = Trail(fs, k)
  <2>1. \A j \in 1 .. k : j \in 1 .. m
    BY <1>2
  <2>2. QED  BY <1>8, <2>1 DEF Trail
<1>10. ASSUME NEW i \in DOMAIN es
       PROVE  es[i] = fs[i]
  <2>1. i \in 1 .. m /\ i - 1 \in 0 .. m /\ i \in 0 .. m /\ i \in DOMAIN fs
    BY <1>2, <1>7
  <2>2. es[i].seq = fs[i].seq /\ es[i].body = fs[i].body
    BY <1>8, <2>1
  <2>3. es[i].prev = fs[i].prev /\ es[i].hash = fs[i].hash
    BY <1>4, <1>9, <2>1 DEF Formed
  <2>4. IsEntry(es[i]) /\ IsEntry(fs[i])
    BY <2>1 DEF IsLedger
  <2>5. QED  BY <2>2, <2>3, <2>4 DEF IsEntry
<1>11. QED  BY <1>1, <1>7, <1>10, SeqsEqual

-----------------------------------------------------------------------------
(* Prefixes of a chain *)

Begins(es, fs) == Len(es) <= Len(fs) /\ \A i \in DOMAIN es : es[i] = fs[i]

LEMMA Prefix ==
  ASSUME NEW es, IsSeq(es), NEW k \in 0 .. Len(es)
  PROVE  /\ IsSeq(SubSeq(es, 1, k)) /\ Len(SubSeq(es, 1, k)) = k
         /\ DOMAIN SubSeq(es, 1, k) = 1 .. k
         /\ SubSeq(es, 1, k) = [i \in 1 .. k |-> es[i]]
<1> DEFINE s == SubSeq(es, 1, k)
<1>1. Len(es) \in Nat /\ DOMAIN es = 1 .. Len(es) /\ k \in Nat
  BY SeqIsIndexed
<1>2. \A i \in 1 .. k : es[i] \in Range(es)
  BY <1>1 DEF Range
<1>3. /\ s \in Seq(Range(es)) /\ Len(s) = IF 1 <= k THEN k - 1 + 1 ELSE 0
      /\ \A i \in 1 .. k - 1 + 1 : s[i] = es[1 + i - 1]
  BY <1>1, <1>2, SubSeqProperties
<1>4. Len(s) = k
  BY <1>1, <1>3
<1>5. \A i \in 1 .. k : s[i] = es[i]
  BY <1>1, <1>3
<1> HIDE DEF s
<1>6. s = [i \in 1 .. k |-> s[i]]
  BY <1>3, <1>4, LenProperties
<1>7. IsSeq(s) /\ DOMAIN s = 1 .. k
  BY <1>1, <1>6, IndexedIsSeq
<1>8. QED  BY <1>4, <1>5, <1>6, <1>7 DEF s

LEMMA WholePrefix ==
  ASSUME NEW es, IsSeq(es)
  PROVE  SubSeq(es, 1, Len(es)) = es
BY SubSeqFull DEF IsSeq

LEMMA BeginsBefore ==
  ASSUME NEW es, NEW fs, NEW gs, IsSeq(es), IsSeq(fs), IsSeq(gs), Begins(es, fs), Begins(fs, gs)
  PROVE  Begins(es, gs)
<1>1. /\ Len(es) \in Nat /\ DOMAIN es = 1 .. Len(es)
      /\ Len(fs) \in Nat /\ DOMAIN fs = 1 .. Len(fs) /\ Len(gs) \in Nat
  BY SeqIsIndexed
<1>2. QED  BY <1>1 DEF Begins

LEMMA LinkedIsLocal ==
  ASSUME NEW es, NEW fs, NEW i \in Nat \ {0},
         es[i] = fs[i], i # 1 => es[i - 1] = fs[i - 1]
  PROVE  Linked(es, i) <=> Linked(fs, i)
BY DEF Linked

LEMMA PrefixLinked ==
  ASSUME NEW es, IsLedger(es), NEW k \in 0 .. Len(es)
  PROVE  /\ IsLedger(SubSeq(es, 1, k))
         /\ ChainVerifies(SubSeq(es, 1, k)) <=> \A i \in 1 .. k : Linked(es, i)
<1> DEFINE s == SubSeq(es, 1, k)
<1>1. IsSeq(es) /\ DOMAIN es = 1 .. Len(es) /\ Len(es) \in Nat /\ k \in Nat
  BY SeqIsIndexed DEF IsLedger
<1>2. IsSeq(s) /\ DOMAIN s = 1 .. k /\ s = [i \in 1 .. k |-> es[i]]
  BY <1>1, Prefix
<1> HIDE DEF s
<1>3. \A i \in 1 .. k : s[i] = es[i] /\ i \in DOMAIN es
  BY <1>1, <1>2
<1>4. IsLedger(s)
  BY <1>2, <1>3 DEF IsLedger
<1>5. ASSUME NEW i \in 1 .. k
      PROVE  Linked(s, i) <=> Linked(es, i)
  <2>1. i \in Nat \ {0} /\ (i # 1 => i - 1 \in 1 .. k)
    BY <1>1
  <2>2. s[i] = es[i] /\ (i # 1 => s[i - 1] = es[i - 1])
    BY <1>3, <2>1
  <2>3. QED  BY <2>1, <2>2, LinkedIsLocal
<1>6. ChainVerifies(s) <=> \A i \in 1 .. k : Linked(s, i)
  BY <1>2 DEF ChainVerifies, Linked
<1>7. QED  BY <1>4, <1>5, <1>6 DEF s

LEMMA VerifiesLinked ==
  ASSUME NEW es, IsSeq(es)
  PROVE  ChainVerifies(es) <=> \A i \in 1 .. Len(es) : Linked(es, i)
BY SeqIsIndexed DEF ChainVerifies, Linked

-----------------------------------------------------------------------------
(* What --entries points at *)

(* From some entry on, es no longer is fs, nor linked. *)
Diverges(es, fs) ==
  \E i \in DOMAIN es :
    /\ \A j \in 1 .. i - 1 : j \in DOMAIN fs /\ es[j] = fs[j]
    /\ ~Linked(es, i)

PointsAt(es, fs, break) ==
  /\ SubSeq(es, 1, break - 1) = SubSeq(fs, 1, break - 1)
  /\ break > Len(fs) \/ es[break] # fs[break]

LEMMA NoBreak ==
  ASSUME NEW es, IsLedger(es), ChainVerifies(es)
  PROVE  IntegrityBreak(es) = 0
BY WholePrefix DEF IntegrityBreak, IsLedger

LEMMA BreakIsTheFirst ==
  ASSUME NEW es, NEW fs, IsLedger(es), IsLedger(fs), ChainVerifies(fs), Diverges(es, fs)
  PROVE  PointsAt(es, fs, IntegrityBreak(es))
<1> DEFINE m == Len(es)
           n == Len(fs)
<1>1. /\ IsSeq(es) /\ IsSeq(fs)
      /\ m \in Nat /\ DOMAIN es = 1 .. m
      /\ n \in Nat /\ DOMAIN fs = 1 .. n
  BY SeqIsIndexed DEF IsLedger
<1>2. PICK i \in DOMAIN es :
        /\ \A j \in 1 .. i - 1 : j \in DOMAIN fs /\ es[j] = fs[j]
        /\ ~Linked(es, i)
  BY DEF Diverges
<1>3. i \in 1 .. m /\ i \in Nat \ {0} /\ i - 1 \in Nat
  BY <1>1
<1>4. \A j \in 1 .. n : Linked(fs, j)
  BY <1>1, VerifiesLinked
<1>5. ASSUME NEW j \in 1 .. i - 1
      PROVE  Linked(es, j)
  <2>1. /\ j \in Nat \ {0} /\ es[j] = fs[j] /\ j \in 1 .. n
        /\ j # 1 => j - 1 \in 1 .. i - 1
    BY <1>1, <1>2, <1>3
  <2>2. j # 1 => es[j - 1] = fs[j - 1]
    BY <1>2, <2>1
  <2>3. QED  BY <1>4, <2>1, <2>2, LinkedIsLocal
<1> DEFINE holds(k) == ChainVerifies(SubSeq(es, 1, k))
           broken == {k \in DOMAIN es : ~holds(k)}
<1>6. ASSUME NEW k \in 0 .. m
      PROVE  holds(k) <=> k < i
  <2>1. holds(k) <=> \A j \in 1 .. k : Linked(es, j)
    BY <1>1, PrefixLinked
  <2>2. CASE k < i
    <3>1. \A j \in 1 .. k : j \in 1 .. i - 1
      BY <1>3, <2>2
    <3>2. QED  BY <1>5, <2>1, <2>2, <3>1
  <2>3. CASE ~(k < i)
    <3>1. i \in 1 .. k
      BY <1>1, <1>3, <2>3
    <3>2. QED  BY <1>2, <2>1, <2>3, <3>1
  <2>4. QED  BY <2>2, <2>3
<1>7. broken = {k \in 1 .. m : ~(k < i)}
  <2>1. \A k \in 1 .. m : k \in 0 .. m
    BY <1>1
  <2> HIDE DEF holds
  <2>2. QED  BY <1>1, <1>6, <2>1
<1>8. Min(broken) = i
  <2>1. i \in broken /\ \A k \in broken : i <= k /\ k \in Nat
    BY <1>1, <1>3, <1>7
  <2> HIDE DEF broken
  <2>2. QED  BY <1>3, <2>1 DEF Min
<1>9. ~holds(m)
  BY <1>1, <1>3, <1>6
<1>10. IntegrityBreak(es) = i
  BY <1>8, <1>9 DEF IntegrityBreak
<1>11. i - 1 \in 0 .. m /\ i - 1 \in 0 .. n
  <2>1. i - 1 = 0 \/ i - 1 \in 1 .. n
    BY <1>1, <1>2, <1>3
  <2>2. QED  BY <1>1, <1>3, <2>1
<1>12. SubSeq(es, 1, i - 1) = SubSeq(fs, 1, i - 1)
  BY <1>1, <1>2, <1>11, Prefix
<1>13. i > n \/ es[i] # fs[i]
  <2>1. SUFFICES ASSUME i <= n, es[i] = fs[i] PROVE FALSE
    BY <1>1, <1>3
  <2>2. i \in 1 .. n
    BY <1>1, <1>3, <2>1
  <2>3. i # 1 => es[i - 1] = fs[i - 1]
    BY <1>2, <1>3
  <2>4. Linked(es, i)
    BY <1>3, <1>4, <2>1, <2>2, <2>3, LinkedIsLocal
  <2>5. QED  BY <1>2, <2>4
<1>14. QED  BY <1>10, <1>12, <1>13 DEF PointsAt

-----------------------------------------------------------------------------
(* Hashing anew *)

LEMMA HashedAnew ==
  ASSUME NEW es, IsLedger(es), \A i \in DOMAIN es : es[i].seq = i - 1
  PROVE  /\ IsLedger(Rehashed(es)) /\ ChainVerifies(Rehashed(es))
         /\ Len(Rehashed(es)) = Len(es)
         /\ \A i \in DOMAIN es :
              Rehashed(es)[i] = [seq |-> i - 1, prev |-> Trail(es, i - 1), hash |-> Trail(es, i),
                                 body |-> es[i].body]
<1> DEFINE m == Len(es)
           fs == [i \in 1 .. m |-> [seq |-> i - 1, prev |-> Trail(es, i - 1),
                                    hash |-> Trail(es, i), body |-> es[i].body]]
<1>1. IsSeq(es) /\ DOMAIN es = 1 .. m /\ m \in Nat
  BY SeqIsIndexed DEF IsLedger
<1>2. ASSUME NEW i \in 1 .. m
      PROVE  [es[i] EXCEPT !.prev = Genesis \o Trail(es, i - 1), !.hash = Genesis \o Trail(es, i)]
               = fs[i]
  <2>1. i \in Nat /\ i - 1 \in Nat
    BY <1>1
  <2>2. Trail(es, i - 1) \in Seq(Range(Trail(es, i - 1))) /\ Trail(es, i) \in Seq(Range(Trail(es, i)))
    BY <2>1, TrailIsSeq DEF IsSeq
  <2>3. Genesis \o Trail(es, i - 1) = Trail(es, i - 1) /\ Genesis \o Trail(es, i) = Trail(es, i)
    BY <2>2, ConcatEmptySeq DEF Genesis
  <2>4. es[i] = [seq |-> i - 1, prev |-> es[i].prev, hash |-> es[i].hash, body |-> es[i].body]
    <3>1. IsEntry(es[i]) /\ es[i].seq = i - 1
      BY <1>1 DEF IsLedger
    <3>2. QED  BY <3>1 DEF IsEntry
  <2> DEFINE prev == Trail(es, i - 1)
             hash == Trail(es, i)
             body == es[i].body
  <2>5. fs[i] = [seq |-> i - 1, prev |-> prev, hash |-> hash, body |-> body]
    OBVIOUS
  <2> HIDE DEF prev, hash, body, fs
  <2>6. [es[i] EXCEPT !.prev = prev, !.hash = hash]
          = [seq |-> i - 1, prev |-> prev, hash |-> hash, body |-> body]
    <3>1. PICK e : e = es[i]
      OBVIOUS
    <3>2. PICK f : f = [e EXCEPT !.prev = prev]
      OBVIOUS
    <3>3. e = [seq |-> i - 1, prev |-> es[i].prev, hash |-> es[i].hash, body |-> body]
      BY <2>4, <3>1 DEF body
    <3>4. f = [seq |-> i - 1, prev |-> prev, hash |-> es[i].hash, body |-> body]
      BY <3>2, <3>3
    <3>5. [f EXCEPT !.hash = hash] = [seq |-> i - 1, prev |-> prev, hash |-> hash, body |-> body]
      BY <3>4
    <3>6. [e EXCEPT !.prev = prev, !.hash = hash] = [f EXCEPT !.hash = hash]
      BY <3>2
    <3>7. QED  BY <3>1, <3>5, <3>6
  <2>7. QED  BY <2>3, <2>5, <2>6 DEF prev, hash
<1>3. Rehashed(es) = fs
  BY <1>1, <1>2 DEF Rehashed, HashedAfter
<1>4. fs = [i \in 1 .. m |-> fs[i]]
  OBVIOUS
<1>5. IsSeq(fs) /\ DOMAIN fs = 1 .. m /\ Len(fs) = m
  <2> HIDE DEF fs
  <2>1. QED  BY <1>1, <1>4, IndexedIsSeq
<1>6. IsLedger(fs)
  <2>1. \A i \in 1 .. m : IsEntry(fs[i])
    BY DEF IsEntry
  <2> HIDE DEF fs
  <2>2. QED  BY <1>5, <2>1 DEF IsLedger
<1>7. ASSUME NEW k \in 0 .. m
      PROVE  Trail(fs, k) = Trail(es, k)
  <2>1. \A j \in 1 .. k : j \in 1 .. m
    BY <1>1
  <2>2. \A j \in 1 .. k : fs[j].seq = es[j].seq /\ fs[j].body = es[j].body
    BY <1>1, <2>1
  <2> HIDE DEF fs
  <2>3. QED  BY <2>2 DEF Trail
<1>8. Formed(fs)
  <2>1. SUFFICES ASSUME NEW i \in 1 .. m
                 PROVE  /\ fs[i].seq = i - 1 /\ fs[i].prev = Trail(fs, i - 1)
                        /\ fs[i].hash = Trail(fs, i)
    <3> HIDE DEF fs
    <3>1. QED  BY <1>5, <2>1 DEF Formed
  <2>2. i \in 0 .. m /\ i - 1 \in 0 .. m
    BY <1>1
  <2>3. Trail(fs, i) = Trail(es, i) /\ Trail(fs, i - 1) = Trail(es, i - 1)
    <3> HIDE DEF fs
    <3>1. QED  BY <1>7, <2>2
  <2>4. /\ fs[i].seq = i - 1 /\ fs[i].prev = Trail(es, i - 1)
        /\ fs[i].hash = Trail(es, i)
    OBVIOUS
  <2> HIDE DEF fs
  <2>5. QED  BY <2>3, <2>4
<1>9. ChainVerifies(fs)
  <2> HIDE DEF fs
  <2>1. QED  BY <1>5, <1>8, FormedVerifies
<1>10. \A i \in DOMAIN es : fs[i] = [seq |-> i - 1, prev |-> Trail(es, i - 1),
                                     hash |-> Trail(es, i), body |-> es[i].body]
  BY <1>1
<1> HIDE DEF fs
<1>11. QED  BY <1>3, <1>5, <1>6, <1>9, <1>10

LEMMA ChainedVerifies ==
  ASSUME NEW bodies, IsSeq(bodies)
  PROVE  /\ IsLedger(Chained(bodies)) /\ ChainVerifies(Chained(bodies))
         /\ Len(Chained(bodies)) = Len(bodies)
         /\ \A i \in DOMAIN bodies : Chained(bodies)[i].body = bodies[i]
<1> DEFINE m == Len(bodies)
           es == [i \in DOMAIN bodies |-> Entry(i - 1, bodies[i])]
<1>1. DOMAIN bodies = 1 .. m /\ m \in Nat
  BY SeqIsIndexed
<1>2. /\ es = [i \in 1 .. m |-> es[i]] /\ DOMAIN es = 1 .. m
      /\ \A i \in 1 .. m : /\ es[i] = [seq |-> i - 1, prev |-> Genesis, hash |-> Genesis, body |-> bodies[i]]
  BY <1>1 DEF Entry
<1>3. Chained(bodies) = Rehashed(es)
  BY DEF Chained
<1> HIDE DEF es
<1>4. IsSeq(es) /\ Len(es) = m
  BY <1>1, <1>2, IndexedIsSeq
<1>5. IsLedger(es) /\ \A i \in DOMAIN es : es[i].seq = i - 1
  BY <1>2, <1>4 DEF IsLedger, IsEntry
<1>6. /\ IsLedger(Rehashed(es)) /\ ChainVerifies(Rehashed(es))
      /\ Len(Rehashed(es)) = Len(es)
      /\ \A i \in DOMAIN es :
           Rehashed(es)[i] = [seq |-> i - 1, prev |-> Trail(es, i - 1), hash |-> Trail(es, i),
                              body |-> es[i].body]
  BY <1>5, HashedAnew
<1>7. \A i \in 1 .. m : Rehashed(es)[i].body = bodies[i]
  <2>1. SUFFICES ASSUME NEW i \in 1 .. m PROVE Rehashed(es)[i].body = bodies[i]
    OBVIOUS
  <2>2. Rehashed(es)[i].body = es[i].body
    <3>1. Rehashed(es)[i] = [seq |-> i - 1, prev |-> Trail(es, i - 1), hash |-> Trail(es, i),
                             body |-> es[i].body]
      BY <1>2, <1>6
    <3>2. QED  BY <3>1
  <2>3. es[i].body = bodies[i]
    BY <1>2
  <2>4. QED  BY <2>2, <2>3
<1>8. QED  BY <1>1, <1>3, <1>4, <1>6, <1>7

(* What appending under the lock of the log does. *)
LEMMA SealedVerifies ==
  ASSUME NEW es, NEW body, IsLedger(es), ChainVerifies(es)
  PROVE  LET fs == Sealed(es, Entry(Len(es), body))
         IN  /\ IsLedger(fs) /\ ChainVerifies(fs) /\ Begins(es, fs) /\ fs # <<>>
             /\ Len(fs) = Len(es) + 1 /\ fs[Len(fs)].body = body
<1> DEFINE m == Len(es)
           h == HeadHash(es)
           e == [seq |-> m, prev |-> h, hash |-> Append(h, <<m, body>>), body |-> body]
           fs == Append(es, e)
<1>1. IsSeq(es) /\ m \in Nat /\ DOMAIN es = 1 .. m
  BY SeqIsIndexed DEF IsLedger
<1>2. Sealed(es, Entry(m, body)) = fs
  <2> DEFINE linked == [Entry(m, body) EXCEPT !.prev = HeadHash(es)]
             g == Append(HeadHash(es), <<m, body>>)
  <2>1. linked = [seq |-> m, prev |-> HeadHash(es), hash |-> Genesis, body |-> body]
    <3>1. PICK f : f = Entry(m, body)
      OBVIOUS
    <3>2. f = [seq |-> m, prev |-> Genesis, hash |-> Genesis, body |-> body]
      BY <3>1 DEF Entry
    <3>3. [f EXCEPT !.prev = HeadHash(es)]
            = [seq |-> m, prev |-> HeadHash(es), hash |-> Genesis, body |-> body]
      BY <3>2
    <3>4. QED  BY <3>1, <3>3
  <2>2. Hash(HeadHash(es), linked) = g
    <3> HIDE DEF linked
    <3>1. QED  BY <2>1 DEF Hash, Payload
  <2>3. Sealed(es, Entry(m, body)) = Append(es, [linked EXCEPT !.hash = g])
    BY <2>2 DEF Sealed
  <2> HIDE DEF linked, g
  <2>4. [linked EXCEPT !.hash = g]
          = [seq |-> m, prev |-> HeadHash(es), hash |-> g, body |-> body]
    BY <2>1
  <2>5. QED  BY <2>3, <2>4 DEF g
<1>3. /\ IsSeq(fs) /\ Len(fs) = m + 1 /\ DOMAIN fs = 1 .. m + 1
      /\ fs = [i \in 1 .. m + 1 |-> IF i <= m THEN es[i] ELSE e]
  <2> HIDE DEF e
  <2>1. QED  BY <1>1, Appended
<1>4. (\A i \in 1 .. m : fs[i] = es[i]) /\ fs[m + 1] = e
  <2> HIDE DEF e
  <2>1. \A i \in 1 .. m : i \in 1 .. m + 1 /\ i <= m
    BY <1>1
  <2>2. m + 1 \in 1 .. m + 1 /\ ~(m + 1 <= m)
    BY <1>1
  <2>3. QED  BY <1>3, <2>1, <2>2
<1> HIDE DEF fs
<1>5. IsEntry(e) /\ e.seq = m /\ e.prev = h /\ e.hash = Hash(e.prev, e) /\ e.body = body
  BY DEF IsEntry, Hash, Payload
<1> HIDE DEF e
<1>6. IsLedger(fs)
  <2>1. ASSUME NEW i \in DOMAIN fs
        PROVE  IsEntry(fs[i])
    <3>1. i \in 1 .. m \/ i = m + 1
      BY <1>1, <1>3
    <3>2. QED  BY <1>1, <1>4, <1>5, <3>1 DEF IsLedger
  <2>2. QED  BY <1>3, <2>1 DEF IsLedger
<1>7. \A i \in 1 .. m : Linked(es, i)
  BY <1>1, VerifiesLinked
<1>8. ASSUME NEW i \in 1 .. m
      PROVE  Linked(fs, i)
  <2>1. i \in Nat \ {0} /\ fs[i] = es[i] /\ (i # 1 => i - 1 \in 1 .. m)
    BY <1>1, <1>4
  <2>2. i # 1 => fs[i - 1] = es[i - 1]
    BY <1>4, <2>1
  <2>3. QED  BY <1>7, <2>1, <2>2, LinkedIsLocal
<1>9. Linked(fs, m + 1)
  <2>1. h = IF m + 1 = 1 THEN Genesis ELSE fs[m + 1 - 1].hash
    <3>1. CASE m = 0
      <4>1. es = <<>>
        BY <1>1, <3>1, EmptySeq DEF IsSeq
      <4>2. QED  BY <3>1, <4>1 DEF HeadHash
    <3>2. CASE m # 0
      <4>1. es # <<>> /\ m \in 1 .. m /\ m + 1 - 1 = m
        BY <1>1, <3>2, EmptySeq
      <4>2. QED  BY <1>1, <1>4, <3>2, <4>1 DEF HeadHash, Last
    <3>3. QED  BY <3>1, <3>2
  <2>2. m + 1 - 1 = m
    BY <1>1
  <2>3. QED  BY <1>4, <1>5, <2>1, <2>2 DEF Linked
<1>10. ChainVerifies(fs)
  <2>1. \A i \in 1 .. m + 1 : i \in 1 .. m \/ i = m + 1
    BY <1>1
  <2>2. \A i \in 1 .. Len(fs) : Linked(fs, i)
    BY <1>3, <1>8, <1>9, <2>1
  <2>3. QED  BY <1>3, <2>2, VerifiesLinked
<1>11. Begins(es, fs) /\ fs # <<>>
  BY <1>1, <1>3, <1>4, EmptySeq DEF Begins
<1>12. QED  BY <1>2, <1>3, <1>4, <1>5, <1>6, <1>10, <1>11

LEMMA RedactedVerifies ==
  ASSUME NEW es, IsLedger(es), ChainVerifies(es)
  PROVE  /\ IsLedger(Redact(es)) /\ ChainVerifies(Redact(es)) /\ Len(Redact(es)) = Len(es)
         /\ \A i \in DOMAIN es : Redact(es)[i].body = [es[i].body EXCEPT !.task = "redacted"]
<1> DEFINE m == Len(es)
           masked == [i \in DOMAIN es |-> [es[i] EXCEPT !.body.task = "redacted"]]
<1>1. IsSeq(es) /\ DOMAIN es = 1 .. m /\ m \in Nat /\ \A i \in DOMAIN es : IsEntry(es[i])
  BY SeqIsIndexed DEF IsLedger
<1>2. /\ masked = [i \in 1 .. m |-> masked[i]] /\ DOMAIN masked = 1 .. m
      /\ \A i \in 1 .. m : masked[i] = [es[i] EXCEPT !.body.task = "redacted"]
  BY <1>1
<1>3. Redact(es) = Rehashed(masked)
  BY DEF Redact
<1> HIDE DEF masked
<1>4. IsSeq(masked) /\ Len(masked) = m
  BY <1>1, <1>2, IndexedIsSeq
<1>5. ASSUME NEW i \in 1 .. m
      PROVE  /\ IsEntry(masked[i]) /\ masked[i].seq = i - 1
             /\ masked[i].body = [es[i].body EXCEPT !.task = "redacted"]
  <2>1. es[i] = [seq |-> es[i].seq, prev |-> es[i].prev, hash |-> es[i].hash, body |-> es[i].body]
    BY <1>1 DEF IsEntry
  <2>2. es[i].seq = i - 1
    BY <1>1 DEF ChainVerifies
  <2>3. masked[i] = [seq |-> es[i].seq, prev |-> es[i].prev, hash |-> es[i].hash,
                     body |-> [es[i].body EXCEPT !.task = "redacted"]]
    BY <1>2, <2>1
  <2>4. QED  BY <2>2, <2>3 DEF IsEntry
<1>6. IsLedger(masked) /\ \A i \in DOMAIN masked : masked[i].seq = i - 1
  BY <1>2, <1>4, <1>5 DEF IsLedger
<1>7. /\ IsLedger(Rehashed(masked)) /\ ChainVerifies(Rehashed(masked))
      /\ Len(Rehashed(masked)) = Len(masked)
      /\ \A i \in DOMAIN masked :
           Rehashed(masked)[i] = [seq |-> i - 1, prev |-> Trail(masked, i - 1),
                                  hash |-> Trail(masked, i), body |-> masked[i].body]
  BY <1>6, HashedAnew
<1>8. \A i \in 1 .. m : Rehashed(masked)[i].body = [es[i].body EXCEPT !.task = "redacted"]
  <2>1. SUFFICES ASSUME NEW i \in 1 .. m
                 PROVE  Rehashed(masked)[i].body = [es[i].body EXCEPT !.task = "redacted"]
    OBVIOUS
  <2>2. Rehashed(masked)[i].body = masked[i].body
    <3>1. Rehashed(masked)[i] = [seq |-> i - 1, prev |-> Trail(masked, i - 1),
                                 hash |-> Trail(masked, i), body |-> masked[i].body]
      BY <1>2, <1>7
    <3>2. QED  BY <3>1
  <2>3. QED  BY <1>5, <2>2
<1>9. QED  BY <1>1, <1>3, <1>4, <1>7, <1>8

(* A chain that verifies is determined by the bodies of its entries. *)
LEMMA BodiesDetermine ==
  ASSUME NEW es, NEW fs, IsLedger(es), IsLedger(fs), ChainVerifies(es), ChainVerifies(fs),
         Len(es) <= Len(fs), \A i \in DOMAIN es : es[i].body = fs[i].body
  PROVE  Begins(es, fs)
<1> DEFINE m == Len(es)
<1>1. /\ IsSeq(es) /\ IsSeq(fs) /\ m \in Nat /\ DOMAIN es = 1 .. m
      /\ Len(fs) \in Nat /\ DOMAIN fs = 1 .. Len(fs)
  BY SeqIsIndexed DEF IsLedger
<1>2. Formed(es) /\ Formed(fs)
  BY <1>1, VerifiesFormed
<1>3. \A i \in 1 .. m : i \in DOMAIN es /\ i \in DOMAIN fs
  BY <1>1
<1>4. ASSUME NEW i \in 1 .. m
      PROVE  es[i].seq = fs[i].seq /\ es[i].body = fs[i].body
  BY <1>2, <1>3 DEF Formed
<1>5. ASSUME NEW k \in 0 .. m
      PROVE  Trail(es, k) = Trail(fs, k)
  <2>1. \A j \in 1 .. k : j \in 1 .. m
    BY <1>1
  <2>2. QED  BY <1>4, <2>1 DEF Trail
<1>6. ASSUME NEW i \in DOMAIN es
      PROVE  es[i] = fs[i]
  <2>1. i \in 1 .. m /\ i \in 0 .. m /\ i - 1 \in 0 .. m
    BY <1>1
  <2>2. es[i].prev = fs[i].prev /\ es[i].hash = fs[i].hash
    BY <1>2, <1>3, <1>5, <2>1 DEF Formed
  <2>3. IsEntry(es[i]) /\ IsEntry(fs[i])
    BY <1>3, <2>1 DEF IsLedger
  <2>4. es[i].seq = fs[i].seq /\ es[i].body = fs[i].body
    BY <1>4, <2>1
  <2>5. QED  BY <2>2, <2>3, <2>4 DEF IsEntry
<1>7. QED  BY <1>6 DEF Begins

LEMMA RedactBegins ==
  ASSUME NEW es, NEW fs, IsLedger(es), IsLedger(fs), ChainVerifies(es), ChainVerifies(fs),
         Begins(es, fs)
  PROVE  Begins(Redact(es), Redact(fs))
<1>1. /\ IsSeq(es) /\ IsSeq(fs) /\ Len(es) \in Nat /\ DOMAIN es = 1 .. Len(es)
      /\ Len(fs) \in Nat /\ DOMAIN fs = 1 .. Len(fs) /\ Len(es) <= Len(fs)
  BY SeqIsIndexed DEF IsLedger, Begins
<1>2. /\ IsLedger(Redact(es)) /\ ChainVerifies(Redact(es)) /\ Len(Redact(es)) = Len(es)
      /\ \A i \in DOMAIN es : Redact(es)[i].body = [es[i].body EXCEPT !.task = "redacted"]
  BY RedactedVerifies
<1>3. /\ IsLedger(Redact(fs)) /\ ChainVerifies(Redact(fs)) /\ Len(Redact(fs)) = Len(fs)
      /\ \A i \in DOMAIN fs : Redact(fs)[i].body = [fs[i].body EXCEPT !.task = "redacted"]
  BY RedactedVerifies
<1>4. DOMAIN Redact(es) = 1 .. Len(es)
  BY <1>2, SeqIsIndexed DEF IsLedger
<1>5. ASSUME NEW i \in DOMAIN Redact(es)
      PROVE  Redact(es)[i].body = Redact(fs)[i].body
  <2>1. i \in DOMAIN es /\ i \in DOMAIN fs /\ es[i] = fs[i]
    BY <1>1, <1>4 DEF Begins
  <2>2. /\ Redact(es)[i].body = [es[i].body EXCEPT !.task = "redacted"]
        /\ Redact(fs)[i].body = [fs[i].body EXCEPT !.task = "redacted"]
    BY <1>2, <1>3, <2>1
  <2>3. QED  BY <2>1, <2>2
<1>6. QED  BY <1>1, <1>2, <1>3, <1>5, BodiesDetermine

-----------------------------------------------------------------------------
(* What an edit does to the entries *)

LEMMA TailCut ==
  ASSUME NEW es, IsLedger(es), es # <<>>
  PROVE  /\ IsLedger(Front(es))
         /\ ChainVerifies(es) => ChainVerifies(Front(es))
<1>1. IsSeq(es) /\ Len(es) \in Nat
  BY SeqIsIndexed DEF IsLedger
<1>2. Len(es) # 0
  BY <1>1, EmptySeq DEF IsSeq
<1>3. Len(es) - 1 \in 0 .. Len(es) /\ \A i \in 1 .. Len(es) - 1 : i \in 1 .. Len(es)
  BY <1>1, <1>2
<1>4. /\ IsLedger(SubSeq(es, 1, Len(es) - 1))
      /\ ChainVerifies(SubSeq(es, 1, Len(es) - 1)) <=> \A i \in 1 .. Len(es) - 1 : Linked(es, i)
  BY <1>3, PrefixLinked
<1>5. ChainVerifies(es) <=> \A i \in 1 .. Len(es) : Linked(es, i)
  BY <1>1, VerifiesLinked
<1>6. QED  BY <1>3, <1>4, <1>5 DEF Front

LEMMA Dropped ==
  ASSUME NEW es, IsLedger(es), NEW i \in DOMAIN es
  PROVE  /\ IsLedger(RemoveAt(es, i))
         /\ ChainVerifies(es) =>
              ChainVerifies(RemoveAt(es, i)) \/ Diverges(RemoveAt(es, i), es)
<1> DEFINE m == Len(es)
           fs == RemoveAt(es, i)
           s == SubSeq(es, 1, i - 1)
           t == SubSeq(es, i + 1, m)
<1>1. /\ IsSeq(es) /\ m \in Nat /\ DOMAIN es = 1 .. m /\ i \in 1 .. m
      /\ i - 1 \in 0 .. m /\ m - i \in Nat
  BY SeqIsIndexed DEF IsLedger
<1>2. \A j \in 1 .. m : es[j] \in Range(es)
  BY <1>1 DEF Range
<1>3. IsSeq(s) /\ Len(s) = i - 1 /\ s = [j \in 1 .. i - 1 |-> es[j]]
  BY <1>1, Prefix
<1>4. s \in Seq(Range(es))
  <2>1. \A j \in 1 .. i - 1 : es[j] \in Range(es)
    BY <1>1, <1>2
  <2>2. QED  BY <1>1, <2>1, SubSeqProperties
<1>5. /\ t \in Seq(Range(es)) /\ Len(t) = m - i
      /\ \A j \in 1 .. m - i : t[j] = es[i + j]
  <2>1. \A j \in i + 1 .. m : es[j] \in Range(es)
    BY <1>1, <1>2
  <2>2. /\ t \in Seq(Range(es)) /\ Len(t) = (IF i + 1 <= m THEN m - (i + 1) + 1 ELSE 0)
        /\ \A j \in 1 .. m - (i + 1) + 1 : t[j] = es[i + 1 + j - 1]
    BY <1>1, <2>1, SubSeqProperties
  <2> HIDE DEF t
  <2>3. m - (i + 1) + 1 = m - i /\ \A j \in 1 .. m - i : i + 1 + j - 1 = i + j
    BY <1>1
  <2>4. QED  BY <1>1, <2>2, <2>3
<1>6. fs = s \o t
  BY DEF RemoveAt
<1> HIDE DEF fs, s, t
<1>7. /\ fs \in Seq(Range(es)) /\ Len(fs) = m - 1
      /\ \A j \in 1 .. m - 1 : fs[j] = IF j <= i - 1 THEN s[j] ELSE t[j - (i - 1)]
  <2>1. /\ s \o t \in Seq(Range(es)) /\ Len(s \o t) = Len(s) + Len(t)
        /\ \A j \in 1 .. Len(s) + Len(t) : (s \o t)[j] = IF j <= Len(s) THEN s[j] ELSE t[j - Len(s)]
    BY <1>4, <1>5, ConcatProperties
  <2>2. Len(s) + Len(t) = m - 1
    BY <1>1, <1>3, <1>5
  <2>3. QED  BY <1>3, <1>6, <2>1, <2>2
<1>8. ASSUME NEW j \in 1 .. m - 1
      PROVE  fs[j] = IF j < i THEN es[j] ELSE es[j + 1]
  <2>1. CASE j < i
    <3>1. j \in 1 .. i - 1 /\ j <= i - 1
      BY <1>1, <2>1
    <3>2. QED  BY <1>3, <1>7, <2>1, <3>1
  <2>2. CASE ~(j < i)
    <3>1. j - (i - 1) \in 1 .. m - i /\ ~(j <= i - 1) /\ i + (j - (i - 1)) = j + 1
      BY <1>1, <2>2
    <3>2. QED  BY <1>5, <1>7, <2>2, <3>1
  <2>3. QED  BY <2>1, <2>2
<1>9. IsSeq(fs) /\ DOMAIN fs = 1 .. m - 1
  <2>1. fs = [j \in 1 .. m - 1 |-> fs[j]] /\ m - 1 \in Nat
    BY <1>1, <1>7, LenProperties
  <2>2. QED  BY <2>1, IndexedIsSeq
<1>10. IsLedger(fs)
  <2>1. ASSUME NEW j \in 1 .. m - 1
        PROVE  IsEntry(fs[j])
    <3>1. j \in DOMAIN es /\ j + 1 \in DOMAIN es
      BY <1>1
    <3>2. QED  BY <1>8, <3>1 DEF IsLedger
  <2>2. QED  BY <1>9, <2>1 DEF IsLedger
<1>11. ASSUME ChainVerifies(es)
       PROVE  ChainVerifies(fs) \/ Diverges(fs, es)
  <2>1. CASE i = m
    <3>1. m - 1 \in 0 .. m /\ \A j \in 1 .. m - 1 : j < i /\ j \in 1 .. m
      BY <1>1, <2>1
    <3>2. /\ IsSeq(SubSeq(es, 1, m - 1)) /\ DOMAIN SubSeq(es, 1, m - 1) = 1 .. m - 1
          /\ SubSeq(es, 1, m - 1) = [j \in 1 .. m - 1 |-> es[j]] /\ Len(SubSeq(es, 1, m - 1)) = m - 1
      BY <1>1, <3>1, Prefix
    <3>3. fs = SubSeq(es, 1, m - 1)
      BY <1>7, <1>8, <1>9, <3>1, <3>2, SeqsEqual
    <3>4. /\ ChainVerifies(SubSeq(es, 1, m - 1)) <=> \A j \in 1 .. m - 1 : Linked(es, j)
      BY <3>1, PrefixLinked
    <3>5. \A j \in 1 .. m : Linked(es, j)
      BY <1>1, <1>11, VerifiesLinked
    <3>6. QED  BY <3>1, <3>3, <3>4, <3>5
  <2>2. CASE i # m
    <3>1. i \in 1 .. m - 1 /\ ~(i < i) /\ i + 1 \in DOMAIN es
      BY <1>1, <2>2
    <3>2. fs[i] = es[i + 1] /\ es[i + 1].seq = i + 1 - 1
      BY <1>8, <1>11, <3>1 DEF ChainVerifies
    <3>3. ~Linked(fs, i)
      BY <1>1, <3>2 DEF Linked
    <3>4. \A j \in 1 .. i - 1 : j \in 1 .. m - 1 /\ j < i /\ j \in DOMAIN es
      BY <1>1
    <3>5. \A j \in 1 .. i - 1 : fs[j] = es[j]
      BY <1>8, <3>4
    <3>6. QED  BY <1>9, <3>1, <3>3, <3>4, <3>5 DEF Diverges
  <2>3. QED  BY <2>1, <2>2
<1>12. QED  BY <1>10, <1>11 DEF fs

LEMMA Swapped ==
  ASSUME NEW es, IsLedger(es), NEW i \in DOMAIN es, i < Len(es)
  PROVE  LET fs == [es EXCEPT ![i] = es[i + 1], ![i + 1] = es[i]]
         IN  /\ IsLedger(fs)
             /\ ChainVerifies(es) => ChainVerifies(fs) \/ Diverges(fs, es)
<1> DEFINE m == Len(es)
           fs == [es EXCEPT ![i] = es[i + 1], ![i + 1] = es[i]]
<1>1. /\ IsSeq(es) /\ m \in Nat /\ DOMAIN es = 1 .. m /\ i \in 1 .. m /\ i \in Nat
      /\ i + 1 \in DOMAIN es /\ i # i + 1
  BY SeqIsIndexed DEF IsLedger
<1>2. fs = [j \in 1 .. m |-> IF j = i + 1 THEN es[i] ELSE IF j = i THEN es[i + 1] ELSE es[j]]
  BY <1>1
<1> HIDE DEF fs
<1>3. IsSeq(fs) /\ DOMAIN fs = 1 .. m
  <2>1. fs = [j \in 1 .. m |-> fs[j]]
    BY <1>2
  <2>2. QED  BY <1>1, <2>1, IndexedIsSeq
<1>4. IsLedger(fs)
  <2>1. ASSUME NEW j \in 1 .. m
        PROVE  IsEntry(fs[j])
    <3>1. fs[j] \in {es[i], es[i + 1], es[j]}
      BY <1>2
    <3>2. j \in DOMAIN es
      BY <1>1
    <3>3. QED  BY <1>1, <3>1, <3>2 DEF IsLedger
  <2>2. QED  BY <1>3, <2>1 DEF IsLedger
<1>5. ASSUME ChainVerifies(es)
      PROVE  Diverges(fs, es)
  <2>1. fs[i] = es[i + 1] /\ es[i + 1].seq = i + 1 - 1
    BY <1>1, <1>2, <1>5 DEF ChainVerifies
  <2>2. ~Linked(fs, i)
    BY <1>1, <2>1 DEF Linked
  <2>3. \A j \in 1 .. i - 1 : j \in 1 .. m /\ j # i /\ j # i + 1
    BY <1>1
  <2>4. \A j \in 1 .. i - 1 : j \in DOMAIN es /\ fs[j] = es[j]
    BY <1>1, <1>2, <2>3
  <2>5. i \in DOMAIN fs
    BY <1>1, <1>3
  <2>6. QED  BY <2>2, <2>4, <2>5 DEF Diverges
<1>6. QED  BY <1>4, <1>5 DEF fs

LEMMA Rewritten ==
  ASSUME NEW es, IsLedger(es), NEW i \in DOMAIN es, NEW body
  PROVE  LET fs == [es EXCEPT ![i].body = body]
         IN  /\ IsLedger(fs)
             /\ ChainVerifies(es) => ChainVerifies(fs) \/ Diverges(fs, es)
<1> DEFINE m == Len(es)
           e == [es[i] EXCEPT !.body = body]
           fs == [es EXCEPT ![i].body = body]
<1>1. /\ IsSeq(es) /\ m \in Nat /\ DOMAIN es = 1 .. m /\ i \in 1 .. m /\ i \in Nat \ {0}
  BY SeqIsIndexed DEF IsLedger
<1>2. fs = [j \in 1 .. m |-> IF j = i THEN e ELSE es[j]]
  BY <1>1
<1> HIDE DEF fs
<1>3. IsSeq(fs) /\ DOMAIN fs = 1 .. m
  <2> HIDE DEF e
  <2>1. fs = [j \in 1 .. m |-> fs[j]]
    BY <1>2
  <2>2. QED  BY <1>1, <2>1, IndexedIsSeq
<1>4. e = [seq |-> es[i].seq, prev |-> es[i].prev, hash |-> es[i].hash, body |-> body]
  <2>1. es[i] = [seq |-> es[i].seq, prev |-> es[i].prev, hash |-> es[i].hash, body |-> es[i].body]
    BY <1>1 DEF IsLedger, IsEntry
  <2>2. QED  BY <2>1
<1> HIDE DEF e
<1>5. IsEntry(e) /\ e.seq = es[i].seq /\ e.prev = es[i].prev /\ e.hash = es[i].hash /\ e.body = body
  BY <1>4 DEF IsEntry
<1>6. fs[i] = e /\ \A j \in 1 .. m : j # i => fs[j] = es[j]
  BY <1>1, <1>2
<1>7. IsLedger(fs)
  <2>1. ASSUME NEW j \in 1 .. m
        PROVE  IsEntry(fs[j])
    BY <1>1, <1>5, <1>6 DEF IsLedger
  <2>2. QED  BY <1>3, <2>1 DEF IsLedger
<1>8. ASSUME ChainVerifies(es)
      PROVE  ChainVerifies(fs) \/ Diverges(fs, es)
  <2>1. CASE body = es[i].body
    <3>1. e = es[i]
      BY <1>1, <1>4, <2>1 DEF IsLedger, IsEntry
    <3>2. \A j \in 1 .. m : fs[j] = es[j]
      BY <1>6, <3>1
    <3>3. Len(fs) = m
      BY <1>1, <1>2, <1>3, IndexedIsSeq
    <3>4. fs = es
      BY <1>1, <1>3, <3>2, <3>3, SeqsEqual
    <3>5. QED  BY <1>8, <3>4
  <2>2. CASE body # es[i].body
    <3>1. Formed(es)
      BY <1>1, <1>8, VerifiesFormed
    <3>2. es[i].seq = i - 1 /\ es[i].prev = Trail(es, i - 1) /\ es[i].hash = Trail(es, i)
      BY <1>1, <3>1 DEF Formed
    <3>3. Hash(e.prev, e) = Append(e.prev, <<e.seq, e.body>>)
      BY DEF Hash, Payload
    <3>4. IsSeq(Trail(es, i - 1)) /\ Len(Trail(es, i - 1)) = i - 1
      BY <1>1, TrailIsSeq
    <3>5. Append(Trail(es, i - 1), <<e.seq, e.body>>)
            = [k \in 1 .. i - 1 + 1 |-> IF k <= i - 1 THEN Trail(es, i - 1)[k] ELSE <<e.seq, e.body>>]
      BY <3>4, Appended
    <3>6. Hash(e.prev, e)[i] = <<e.seq, body>>
      BY <1>1, <1>5, <3>2, <3>3, <3>5
    <3>7. es[i].hash[i] = <<es[i].seq, es[i].body>>
      BY <1>1, <3>2 DEF Trail
    <3>8. <<e.seq, body>> # <<es[i].seq, es[i].body>>
      BY <2>2
    <3>9. ~Linked(fs, i)
      BY <1>5, <1>6, <3>6, <3>7, <3>8 DEF Linked
    <3>10. \A j \in 1 .. i - 1 : j \in 1 .. m /\ j # i
      BY <1>1
    <3>11. \A j \in 1 .. i - 1 : j \in DOMAIN es /\ fs[j] = es[j]
      BY <1>1, <1>6, <3>10
    <3>12. QED  BY <1>1, <1>3, <3>9, <3>11 DEF Diverges
  <2>3. QED  BY <2>1, <2>2
<1>9. QED  BY <1>7, <1>8 DEF fs

-----------------------------------------------------------------------------
(* The hashes a reader computes *)

LEMMA RecomputedUnfolds ==
  ASSUME NEW es, IsSeq(es)
  PROVE  Recomputed(es) = [i \in 0 .. Len(es) |->
           IF i = 0 THEN Genesis ELSE Hash(Recomputed(es)[i - 1], es[i])]
<1> DEFINE Is(h, n) == h = [i \in 0 .. n |-> IF i = 0 THEN Genesis ELSE Hash(h[i - 1], es[i])]
           bad == {n \in Nat : ~\E h : Is(h, n)}
<1>1. bad = {}
  <2>1. SUFFICES ASSUME bad # {} PROVE FALSE
    OBVIOUS
  <2>2. PICK n \in bad : \A k \in bad : n <= k
    <3>1. bad \subseteq Nat
      OBVIOUS
    <3> HIDE DEF bad
    <3>2. QED  BY <2>1, <3>1, LeastNumber
  <2>3. n # 0
    <3>1. PICK h : h = [i \in 0 .. 0 |-> Genesis]
      OBVIOUS
    <3>2. Is(h, 0)
      BY <3>1
    <3>3. QED  BY <2>2, <3>2
  <2>4. n - 1 \in Nat /\ ~(n <= n - 1)
    BY <2>2, <2>3
  <2>5. PICK h : Is(h, n - 1)
    BY <2>2, <2>4
  <2>6. PICK g : g = [i \in 0 .. n |-> IF i = n THEN Hash(h[n - 1], es[n]) ELSE h[i]]
    OBVIOUS
  <2>7. ASSUME NEW i \in 0 .. n
        PROVE  g[i] = IF i = 0 THEN Genesis ELSE Hash(g[i - 1], es[i])
    <3>1. CASE i = n
      <4>1. n - 1 \in 0 .. n /\ n - 1 # n /\ i # 0
        BY <2>3, <2>4, <3>1
      <4>2. g[n - 1] = h[n - 1]
        BY <2>6, <4>1
      <4>3. QED  BY <2>6, <3>1, <4>1, <4>2
    <3>2. CASE i # n
      <4>1. i \in 0 .. n - 1
        BY <2>4, <3>2
      <4>2. h[i] = IF i = 0 THEN Genesis ELSE Hash(h[i - 1], es[i])
        BY <2>5, <4>1
      <4>3. i # 0 => i - 1 \in 0 .. n /\ i - 1 # n
        BY <2>4, <4>1
      <4>4. i # 0 => g[i - 1] = h[i - 1]
        BY <2>6, <4>3
      <4>5. g[i] = h[i]
        BY <2>6, <3>2
      <4>6. QED  BY <4>2, <4>4, <4>5
    <3>3. QED  BY <3>1, <3>2
  <2>8. Is(g, n)
    BY <2>6, <2>7
  <2>9. QED  BY <2>2, <2>8
<1>2. \E h : Is(h, Len(es))
  BY <1>1, SeqIsIndexed
<1>3. Recomputed(es) = CHOOSE h : Is(h, Len(es))
  BY DEF Recomputed
<1> HIDE DEF Is
<1>4. Is(Recomputed(es), Len(es))
  BY <1>2, <1>3
<1>5. QED  BY <1>4 DEF Is

LEMMA RecomputedLength ==
  ASSUME NEW es, IsSeq(es)
  PROVE  \A i \in 0 .. Len(es) : IsSeq(Recomputed(es)[i]) /\ Len(Recomputed(es)[i]) = i
<1> DEFINE m == Len(es)
           Holds(i) == IsSeq(Recomputed(es)[i]) /\ Len(Recomputed(es)[i]) = i
           bad == {i \in 0 .. m : ~Holds(i)}
<1>1. SUFFICES ASSUME bad # {} PROVE FALSE
  OBVIOUS
<1>2. m \in Nat /\ bad \subseteq Nat
  BY SeqIsIndexed
<1>3. PICK i \in bad : \A k \in bad : i <= k
  <2> HIDE DEF bad
  <2>1. QED  BY <1>1, <1>2, LeastNumber
<1>4. Recomputed(es) = [k \in 0 .. m |->
        IF k = 0 THEN Genesis ELSE Hash(Recomputed(es)[k - 1], es[k])]
  BY RecomputedUnfolds
<1>5. i # 0
  <2>1. SUFFICES ASSUME i = 0 PROVE FALSE
    OBVIOUS
  <2>2. Recomputed(es)[0] = <<>>
    BY <1>2, <1>4 DEF Genesis
  <2>3. IsSeq(<<>>) /\ Len(<<>>) = 0
    BY EmptySeq DEF IsSeq
  <2>4. QED  BY <1>3, <2>1, <2>2, <2>3
<1>6. i \in 0 .. m /\ i - 1 \in 0 .. m /\ ~(i <= i - 1)
  BY <1>2, <1>3, <1>5
<1>7. Holds(i - 1)
  BY <1>3, <1>6
<1>8. Recomputed(es)[i] = Append(Recomputed(es)[i - 1], Payload(Recomputed(es)[i - 1], es[i]))
  BY <1>4, <1>5, <1>6 DEF Hash
<1>9. IsSeq(Recomputed(es)[i]) /\ Len(Recomputed(es)[i]) = i - 1 + 1
  BY <1>7, <1>8, Appended
<1>10. QED  BY <1>3, <1>6, <1>9

LEMMA RecomputedIsTrail ==
  ASSUME NEW es, IsSeq(es), ChainVerifies(es)
  PROVE  \A i \in 0 .. Len(es) : Recomputed(es)[i] = Trail(es, i)
<1> DEFINE m == Len(es)
           bad == {i \in 0 .. m : Recomputed(es)[i] # Trail(es, i)}
<1>1. SUFFICES ASSUME bad # {} PROVE FALSE
  OBVIOUS
<1>2. m \in Nat /\ bad \subseteq Nat /\ DOMAIN es = 1 .. m
  BY SeqIsIndexed
<1>3. PICK i \in bad : \A k \in bad : i <= k
  <2> HIDE DEF bad
  <2>1. QED  BY <1>1, <1>2, LeastNumber
<1>4. Recomputed(es) = [k \in 0 .. m |->
        IF k = 0 THEN Genesis ELSE Hash(Recomputed(es)[k - 1], es[k])]
  BY RecomputedUnfolds
<1>5. i # 0
  BY <1>2, <1>3, <1>4, NoTrail DEF Genesis
<1>6. i \in 1 .. m /\ i \in Nat \ {0} /\ i - 1 \in 0 .. m /\ ~(i <= i - 1)
  BY <1>2, <1>3, <1>5
<1>7. Recomputed(es)[i - 1] = Trail(es, i - 1)
  BY <1>3, <1>6
<1>8. es[i].prev = Trail(es, i - 1)
  BY <1>2, <1>6, VerifiesFormed DEF Formed
<1>9. Recomputed(es)[i] = Hash(Trail(es, i - 1), es[i])
  BY <1>4, <1>5, <1>6, <1>7
<1>10. Hash(Trail(es, i - 1), es[i]) = Append(Trail(es, i - 1), <<es[i].seq, es[i].body>>)
  BY <1>8 DEF Hash, Payload
<1>11. Recomputed(es)[i] = Trail(es, i)
  BY <1>6, <1>9, <1>10, TrailGrows
<1>12. QED  BY <1>3, <1>11

(* A subject names one position, in whatever ledger. *)
LEMMA SubjectPlace ==
  ASSUME NEW es, NEW fs, IsSeq(es), IsSeq(fs), NEW i \in DOMAIN es, NEW j \in DOMAIN fs,
         Recomputed(es)[i] = Recomputed(fs)[j]
  PROVE  i = j
<1>1. /\ Len(es) \in Nat /\ DOMAIN es = 1 .. Len(es)
      /\ Len(fs) \in Nat /\ DOMAIN fs = 1 .. Len(fs)
  BY SeqIsIndexed
<1>2. i \in 0 .. Len(es) /\ j \in 0 .. Len(fs)
  BY <1>1
<1>3. Len(Recomputed(es)[i]) = i /\ Len(Recomputed(fs)[j]) = j
  BY <1>2, RecomputedLength
<1>4. QED  BY <1>3

(* A ledger that goes on keeps its subjects. *)
LEMMA SubjectKept ==
  ASSUME NEW es, NEW fs, IsSeq(es), IsSeq(fs), ChainVerifies(es), ChainVerifies(fs),
         Begins(es, fs), NEW i \in DOMAIN es
  PROVE  i \in DOMAIN fs /\ SubjectAt(es, i) = SubjectAt(fs, i)
<1>1. /\ Len(es) \in Nat /\ DOMAIN es = 1 .. Len(es)
      /\ Len(fs) \in Nat /\ DOMAIN fs = 1 .. Len(fs) /\ Len(es) <= Len(fs)
  BY SeqIsIndexed DEF Begins
<1>2. i \in 1 .. Len(es) /\ i \in 0 .. Len(es) /\ i \in 0 .. Len(fs) /\ i \in DOMAIN fs
  BY <1>1
<1>3. Recomputed(es)[i] = Trail(es, i) /\ Recomputed(fs)[i] = Trail(fs, i)
  BY <1>2, RecomputedIsTrail
<1>4. Trail(es, i) = Trail(fs, i)
  <2>1. \A j \in 1 .. i : j \in DOMAIN es
    BY <1>1, <1>2
  <2>2. QED  BY <2>1 DEF Begins, Trail
<1>5. es[i] = fs[i]
  BY DEF Begins
<1>6. QED  BY <1>2, <1>3, <1>4, <1>5 DEF SubjectAt

-----------------------------------------------------------------------------
(* A set as a sequence *)

LEMMA SetAsSeq ==
  ASSUME NEW S, IsFiniteSet(S)
  PROVE  IsSeq(SetToSeq(S)) /\ \A j \in DOMAIN SetToSeq(S) : SetToSeq(S)[j] \in S
<1> DEFINE n == Cardinality(S)
           f == SetToSeq(S)
<1>1. n \in Nat /\ ExistsBijection(1 .. n, S)
  BY FS_CardinalityType
<1>2. \E g \in [1 .. n -> S] : IsInjective(g)
  BY <1>1 DEF ExistsBijection, Bijection, Injection, IsInjective
<1>3. f \in [1 .. n -> S]
  BY <1>2 DEF SetToSeq
<1> HIDE DEF f
<1>4. f = [i \in 1 .. n |-> f[i]]
  BY <1>3
<1>5. IsSeq(f) /\ DOMAIN f = 1 .. n
  BY <1>1, <1>4, IndexedIsSeq
<1>6. QED  BY <1>3, <1>5 DEF f

-----------------------------------------------------------------------------
(* The inductive invariant *)

(* The ledger of the producer is a chain that verifies, and so is what it   *)
(* exported of it, redacted or not; an anchor is of one export only.        *)
Written(es) == Begins(es, log) \/ Begins(es, Redact(log))
IsExport(x) ==
  /\ x = [entries |-> x.entries, anchor |-> AnchorFor(x.entries, Signer)]
  /\ IsLedger(x.entries) /\ ChainVerifies(x.entries) /\ x.entries # <<>>
LedgerInv == IsLedger(log) /\ ChainVerifies(log)
ExportsInv == \A x \in exports : IsExport(x) /\ Written(x.entries)

(* What a witness signed is of an entry the producer wrote. *)
IsStatement(env) ==
  /\ env = [form |-> "v1", subject |-> env.subject, kid |-> env.kid, by |-> env.kid,
            over |-> Content(env)]
  /\ env.kid \in Witnesses
WrittenAt(subject) ==
  \/ \E i \in DOMAIN log : subject = SubjectAt(log, i)
  \/ \E i \in DOMAIN Redact(log) : subject = SubjectAt(Redact(log), i)
SignedInv ==
  IsFiniteSet(signed) /\ \A env \in signed : IsStatement(env) /\ WrittenAt(env.subject)

(* No signature of the producer or of a witness is on a bundle that they    *)
(* did not make, wherever it was moved.                                     *)
IsBundle(b) ==
  /\ b = [v |-> b.v, chain |-> b.chain, entries |-> b.entries, anchor |-> b.anchor,
          envelopes |-> b.envelopes, mistyped |-> b.mistyped]
  /\ IsLedger(b.entries)
Anchored(anchor) ==
  (anchor # NoAnchor /\ anchor.by = Signer) => \E x \in exports : anchor.over = x.anchor.over
Attested(envs) ==
  /\ IsSeq(envs)
  /\ \A j \in DOMAIN envs :
       envs[j].by \in Witnesses => \E s \in signed : envs[j].by = s.by /\ envs[j].over = s.over

(* Edited once, it is the export whose anchor it has up to a first entry    *)
(* that is not linked, if there is one.                                     *)
EditedOnce(b) ==
  /\ edits = 0 => /\ ChainVerifies(b.entries)
                  /\ \A x \in exports : b.anchor = x.anchor => b.entries = x.entries
  /\ edits = 1 => \A x \in exports :
                    b.anchor = x.anchor =>
                      ChainVerifies(b.entries) \/ Diverges(b.entries, x.entries)
BundleInv ==
  bundle # NoBundle =>
    IsBundle(bundle) /\ Anchored(bundle.anchor) /\ Attested(bundle.envelopes) /\ EditedOnce(bundle)

IInv == edits \in Nat /\ LedgerInv /\ ExportsInv /\ SignedInv /\ BundleInv

LEMMA AnchorParts ==
  ASSUME NEW es, NEW key
  PROVE  /\ AnchorFor(es, key).by = key
         /\ AnchorFor(es, key).over = AnchorFor(es, key).body
         /\ AnchorFor(es, key).body.head = HeadHash(es)
         /\ AnchorFor(es, key).body.seq = LastSeq(es)
BY DEF AnchorFor

LEMMA AnchorIsOfOne ==
  ASSUME NEW x, NEW y, IsExport(x), IsExport(y), x.anchor = y.anchor
  PROVE  x.entries = y.entries
<1>1. x.anchor = AnchorFor(x.entries, Signer) /\ y.anchor = AnchorFor(y.entries, Signer)
  BY DEF IsExport
<1>2. /\ AnchorFor(x.entries, Signer).body.head = HeadHash(x.entries)
      /\ AnchorFor(y.entries, Signer).body.head = HeadHash(y.entries)
  BY AnchorParts
<1>3. HeadHash(x.entries) = HeadHash(y.entries)
  BY <1>1, <1>2, Zenon
<1>4. QED  BY <1>3, HeadDetermines DEF IsExport

LEMMA InitInv == Init => IInv
<1> SUFFICES ASSUME Init PROVE IInv
  OBVIOUS
<1>1. IsSeq(<<>>) /\ DOMAIN <<>> = {}
  BY EmptySeq DEF IsSeq
<1>2. LedgerInv
  BY <1>1 DEF Init, LedgerInv, IsLedger, ChainVerifies
<1>3. QED  BY <1>2, FS_EmptySet DEF Init, IInv, ExportsInv, SignedInv, BundleInv

(* A longer ledger keeps what was written. *)
LEMMA WrittenKept ==
  ASSUME IInv, NEW body, log' = Sealed(log, Entry(Len(log), body)), UNCHANGED <<exports, signed>>
  PROVE  LedgerInv' /\ ExportsInv' /\ SignedInv'
<1>1. /\ IsLedger(log) /\ ChainVerifies(log) /\ IsSeq(log)
  BY DEF IInv, LedgerInv, IsLedger
<1>2. IsLedger(log') /\ ChainVerifies(log') /\ Begins(log, log')
  BY <1>1, SealedVerifies
<1>3. IsSeq(log')
  BY <1>2 DEF IsLedger
<1>4. Begins(Redact(log), Redact(log'))
  BY <1>1, <1>2, RedactBegins
<1>5. /\ IsLedger(Redact(log)) /\ ChainVerifies(Redact(log))
      /\ IsLedger(Redact(log')) /\ ChainVerifies(Redact(log'))
  BY <1>1, <1>2, RedactedVerifies
<1>6. IsSeq(Redact(log)) /\ IsSeq(Redact(log'))
  BY <1>5 DEF IsLedger
<1>7. LedgerInv'
  BY <1>2 DEF LedgerInv
<1>8. ASSUME NEW es, IsLedger(es), Written(es)
      PROVE  Written(es)'
  <2>1. IsSeq(es)
    BY <1>8 DEF IsLedger
  <2>2. Begins(es, log) => Begins(es, log')
    BY <1>1, <1>2, <1>3, <2>1, BeginsBefore
  <2>3. Begins(es, Redact(log)) => Begins(es, Redact(log'))
    BY <1>4, <1>6, <2>1, BeginsBefore
  <2>4. QED  BY <1>8, <2>2, <2>3 DEF Written
<1>9. ExportsInv'
  <2>1. SUFFICES ASSUME NEW x \in exports PROVE IsExport(x) /\ Written(x.entries)'
    BY DEF ExportsInv, IsExport
  <2>2. IsExport(x) /\ Written(x.entries) /\ IsLedger(x.entries)
    BY DEF IInv, ExportsInv, IsExport
  <2>3. Written(x.entries)'
    BY <1>8, <2>2
  <2>4. QED  BY <2>2, <2>3
<1>10. SignedInv'
  <2>1. SUFFICES ASSUME NEW env \in signed PROVE WrittenAt(env.subject)'
    BY DEF IInv, SignedInv, IsStatement
  <2>2. WrittenAt(env.subject)
    BY DEF IInv, SignedInv
  <2>3. ASSUME NEW i \in DOMAIN log
        PROVE  i \in DOMAIN log' /\ SubjectAt(log, i) = SubjectAt(log', i)
    BY <1>1, <1>2, <1>3, SubjectKept
  <2>4. ASSUME NEW i \in DOMAIN Redact(log)
        PROVE  i \in DOMAIN Redact(log') /\ SubjectAt(Redact(log), i) = SubjectAt(Redact(log'), i)
    BY <1>4, <1>5, <1>6, SubjectKept
  <2>5. QED  BY <2>2, <2>3, <2>4 DEF WrittenAt
<1>11. QED  BY <1>7, <1>9, <1>10

LEMMA WriteInv == IInv /\ Write => IInv'
<1> SUFFICES ASSUME IInv, Write PROVE IInv'
  OBVIOUS
<1>1. /\ log' = Sealed(log, Entry(Len(log), History[Len(log) + 1]))
      /\ UNCHANGED <<exports, signed, bundle, edits>>
  BY DEF Write
<1>2. LedgerInv' /\ ExportsInv' /\ SignedInv'
  BY <1>1, WrittenKept
<1>3. BundleInv'
  BY <1>1 DEF IInv, BundleInv, Anchored, Attested, EditedOnce
<1>4. QED  BY <1>1, <1>2, <1>3 DEF IInv

LEMMA ExportInv ==
  ASSUME NEW redact \in BOOLEAN, NEW envelopes, IInv, Export(redact, envelopes),
         IsSeq(envelopes), \A j \in DOMAIN envelopes : envelopes[j] \in signed
  PROVE  IInv'
<1> DEFINE es == IF redact THEN Redact(log) ELSE log
           anchor == AnchorFor(es, Signer)
           x == [entries |-> es, anchor |-> anchor]
<1>1. /\ exports' = exports \cup {x} /\ bundle' = BundleOf(es, anchor, envelopes)
      /\ edits' = 0 /\ UNCHANGED <<log, signed>> /\ log # <<>>
  BY DEF Export
<1>2. IsLedger(log) /\ ChainVerifies(log) /\ IsSeq(log) /\ Len(log) \in Nat
  BY SeqIsIndexed DEF IInv, LedgerInv, IsLedger
<1>3. IsLedger(Redact(log)) /\ ChainVerifies(Redact(log)) /\ Len(Redact(log)) = Len(log)
  BY <1>2, RedactedVerifies
<1>4. IsLedger(es) /\ ChainVerifies(es)
  BY <1>2, <1>3
<1>5. es # <<>>
  <2>1. Len(log) # 0
    BY <1>1, <1>2, EmptySeq DEF IsSeq
  <2>2. QED  BY <1>1, <1>3, <2>1, EmptySeq
<1>6. Written(es)
  <2>1. Begins(log, log) /\ Begins(Redact(log), Redact(log))
    BY <1>2, <1>3 DEF Begins
  <2>2. QED  BY <2>1 DEF Written
<1> HIDE DEF es
<1>7. IsExport(x)
  BY <1>4, <1>5 DEF IsExport
<1>8. x.entries = es /\ x.anchor = anchor
  OBVIOUS
<1> HIDE DEF x
<1>9. ExportsInv'
  <2>1. SUFFICES ASSUME NEW y \in exports \cup {x} PROVE IsExport(y) /\ Written(y.entries)'
    BY <1>1 DEF ExportsInv, IsExport
  <2>2. IsExport(y) /\ Written(y.entries)
    BY <1>6, <1>7, <1>8 DEF IInv, ExportsInv
  <2>3. QED  BY <1>1, <2>2 DEF Written
<1>10. LedgerInv' /\ SignedInv'
  BY <1>1 DEF IInv, LedgerInv, SignedInv, IsStatement, Content, WrittenAt
<1>11. /\ bundle'.entries = es /\ bundle'.anchor = anchor /\ bundle'.envelopes = envelopes
       /\ bundle' = [v |-> bundle'.v, chain |-> bundle'.chain, entries |-> bundle'.entries,
                     anchor |-> bundle'.anchor, envelopes |-> bundle'.envelopes,
                     mistyped |-> bundle'.mistyped]
  <2>1. PICK b : b = bundle'
    OBVIOUS
  <2>2. b = [v |-> VersionOf(es), chain |-> ChainIdOf(es), entries |-> es, anchor |-> anchor,
             envelopes |-> envelopes, mistyped |-> {}]
    BY <1>1, <2>1 DEF BundleOf
  <2> HIDE DEF anchor
  <2>3. /\ b.entries = es /\ b.anchor = anchor /\ b.envelopes = envelopes
        /\ b = [v |-> b.v, chain |-> b.chain, entries |-> b.entries, anchor |-> b.anchor,
                envelopes |-> b.envelopes, mistyped |-> b.mistyped]
    BY <2>2
  <2>4. QED  BY <2>1, <2>3
<1>12. IsBundle(bundle)'
  BY <1>4, <1>11 DEF IsBundle
<1>13. Anchored(bundle.anchor)'
  BY <1>1, <1>8, <1>11 DEF Anchored
<1>14. Attested(bundle.envelopes)'
  BY <1>1, <1>11 DEF Attested
<1>15. EditedOnce(bundle)'
  <2>1. ASSUME NEW y \in exports \cup {x}, anchor = y.anchor
        PROVE  es = y.entries
    <3>1. IsExport(y)
      BY <1>7 DEF IInv, ExportsInv
    <3>2. x.anchor = y.anchor
      BY <1>8, <2>1
    <3>3. x.entries = y.entries
      BY <1>7, <3>1, <3>2, AnchorIsOfOne
    <3>4. QED  BY <1>8, <3>3
  <2> HIDE DEF anchor
  <2>2. QED  BY <1>1, <1>4, <1>11, <2>1 DEF EditedOnce
<1>16. BundleInv'
  BY <1>12, <1>13, <1>14, <1>15 DEF BundleInv
<1>17. QED  BY <1>1, <1>9, <1>10, <1>16 DEF IInv

LEMMA SignInv ==
  ASSUME NEW es, NEW i \in DOMAIN es, NEW kid \in Witnesses, IInv, Sign(es, i, kid),
         es = log \/ \E x \in exports : es = x.entries
  PROVE  IInv'
<1> DEFINE env == SignedOver(es, i, kid, kid)
<1>1. signed' = signed \cup {env} /\ UNCHANGED <<log, exports, bundle, edits>>
  BY DEF Sign
<1>2. /\ IsLedger(log) /\ ChainVerifies(log) /\ IsSeq(log)
      /\ IsLedger(Redact(log)) /\ ChainVerifies(Redact(log)) /\ IsSeq(Redact(log))
  BY RedactedVerifies DEF IInv, LedgerInv, IsLedger
<1>3. IsStatement(env) /\ env.subject = SubjectAt(es, i)
  <2>1. PICK e : e = env
    OBVIOUS
  <2> DEFINE subject == SubjectAt(es, i)
             content == [form |-> "v1", subject |-> subject, kid |-> kid]
  <2>2. e = [form |-> "v1", subject |-> subject, kid |-> kid, by |-> kid, over |-> content]
    BY <2>1 DEF SignedOver
  <2> HIDE DEF subject
  <2>3. Content(e) = content
    BY <2>2 DEF Content
  <2> HIDE DEF content
  <2>4. IsStatement(e) /\ e.subject = subject
    BY <2>2, <2>3 DEF IsStatement
  <2>5. QED  BY <2>1, <2>4 DEF subject
<1>4. WrittenAt(SubjectAt(es, i))
  <2>1. CASE es = log
    BY <2>1 DEF WrittenAt
  <2>2. CASE \E x \in exports : es = x.entries
    <3>1. IsSeq(es) /\ ChainVerifies(es) /\ Written(es)
      BY <2>2 DEF IInv, ExportsInv, IsExport, IsLedger
    <3>2. CASE Begins(es, log)
      <4>1. i \in DOMAIN log /\ SubjectAt(es, i) = SubjectAt(log, i)
        BY <1>2, <3>1, <3>2, SubjectKept
      <4>2. QED  BY <4>1 DEF WrittenAt
    <3>3. CASE Begins(es, Redact(log))
      <4>1. i \in DOMAIN Redact(log) /\ SubjectAt(es, i) = SubjectAt(Redact(log), i)
        BY <1>2, <3>1, <3>3, SubjectKept
      <4>2. QED  BY <4>1 DEF WrittenAt
    <3>4. QED  BY <3>1, <3>2, <3>3 DEF Written
  <2>3. QED  BY <2>1, <2>2
<1> HIDE DEF env
<1>5. SignedInv'
  <2>1. IsFiniteSet(signed \cup {env})
    BY FS_AddElement DEF IInv, SignedInv
  <2>2. \A e \in signed \cup {env} : IsStatement(e) /\ WrittenAt(e.subject)
    BY <1>3, <1>4 DEF IInv, SignedInv
  <2>3. QED  BY <1>1, <2>1, <2>2 DEF SignedInv, WrittenAt, IsStatement, Content
<1>6. LedgerInv' /\ ExportsInv'
  BY <1>1 DEF IInv, LedgerInv, ExportsInv, IsExport, Written
<1>7. BundleInv'
  BY <1>1 DEF IInv, BundleInv, IsBundle, Anchored, Attested, EditedOnce
<1>8. QED  BY <1>1, <1>5, <1>6, <1>7 DEF IInv

LEMMA TickInv == IInv /\ Tick => IInv'
BY DEF IInv, Tick, LedgerInv, ExportsInv, IsExport, Written, SignedInv, IsStatement, Content,
       WrittenAt, BundleInv, IsBundle, Anchored, Attested, EditedOnce

(* What every edit leaves alone. *)
LEMMA EditKeeps ==
  ASSUME NEW b, IInv, Edited(b)
  PROVE  /\ edits' = edits + 1 /\ edits' \in Nat /\ bundle' = b /\ UNCHANGED <<log, exports, signed>>
         /\ LedgerInv' /\ ExportsInv' /\ SignedInv'
         /\ bundle # NoBundle /\ Entries = bundle.entries
         /\ IsBundle(bundle) /\ IsLedger(bundle.entries)
         /\ Anchored(bundle.anchor) /\ Attested(bundle.envelopes) /\ EditedOnce(bundle)
<1>1. /\ edits' = edits + 1 /\ bundle' = b /\ UNCHANGED <<log, exports, signed>>
      /\ bundle # NoBundle
  BY DEF Edited
<1>2. LedgerInv' /\ ExportsInv' /\ SignedInv'
  BY <1>1 DEF IInv, LedgerInv, ExportsInv, IsExport, Written, SignedInv, IsStatement, Content, WrittenAt
<1>3. IsBundle(bundle) /\ Anchored(bundle.anchor) /\ Attested(bundle.envelopes) /\ EditedOnce(bundle)
  BY <1>1 DEF IInv, BundleInv
<1>4. QED  BY <1>1, <1>2, <1>3 DEF IInv, IsBundle, Entries

(* An edit of the entries. *)
LEMMA EntriesEdited ==
  ASSUME NEW b, NEW fs, IInv, Edited(b), b = [bundle EXCEPT !.entries = fs], IsLedger(fs),
         ChainVerifies(bundle.entries) => ChainVerifies(fs) \/ Diverges(fs, bundle.entries)
  PROVE  IInv'
<1>1. /\ edits' = edits + 1 /\ edits' \in Nat /\ bundle' = b /\ UNCHANGED <<log, exports, signed>>
      /\ LedgerInv' /\ ExportsInv' /\ SignedInv'
      /\ IsBundle(bundle) /\ IsLedger(bundle.entries)
      /\ Anchored(bundle.anchor) /\ Attested(bundle.envelopes) /\ EditedOnce(bundle)
  BY EditKeeps
<1>2. bundle = [v |-> bundle.v, chain |-> bundle.chain, entries |-> bundle.entries,
                anchor |-> bundle.anchor, envelopes |-> bundle.envelopes,
                mistyped |-> bundle.mistyped]
  BY <1>1 DEF IsBundle
<1>3. b = [v |-> bundle.v, chain |-> bundle.chain, entries |-> fs, anchor |-> bundle.anchor,
           envelopes |-> bundle.envelopes, mistyped |-> bundle.mistyped]
  BY <1>2
<1>4. /\ b.entries = fs /\ b.anchor = bundle.anchor /\ b.envelopes = bundle.envelopes
      /\ b = [v |-> b.v, chain |-> b.chain, entries |-> b.entries, anchor |-> b.anchor,
              envelopes |-> b.envelopes, mistyped |-> b.mistyped]
  BY <1>3
<1>5. IsBundle(bundle)'
  BY <1>1, <1>4 DEF IsBundle
<1>6. Anchored(bundle.anchor)' /\ Attested(bundle.envelopes)'
  BY <1>1, <1>4 DEF Anchored, Attested
<1>7. EditedOnce(bundle)'
  <2>1. edits' # 0 /\ (edits' = 1 => edits = 0)
    BY <1>1 DEF IInv
  <2>2. ASSUME edits = 0, NEW x \in exports, b.anchor = x.anchor
        PROVE  ChainVerifies(b.entries) \/ Diverges(b.entries, x.entries)
    <3>1. ChainVerifies(bundle.entries) /\ bundle.entries = x.entries
      BY <1>1, <1>4, <2>2 DEF EditedOnce
    <3>2. QED  BY <1>4, <3>1
  <2>3. QED  BY <1>1, <2>1, <2>2 DEF EditedOnce
<1>8. BundleInv'
  BY <1>5, <1>6, <1>7 DEF BundleInv
<1>9. QED  BY <1>1, <1>8 DEF IInv

(* An edit of the rest. *)
LEMMA RestEdited ==
  ASSUME NEW b, NEW anchor, NEW envs, NEW mistyped, IInv, Edited(b),
         b = [v |-> bundle.v, chain |-> bundle.chain, entries |-> bundle.entries,
              anchor |-> anchor, envelopes |-> envs, mistyped |-> mistyped],
         Anchored(anchor), Attested(envs)
  PROVE  IInv'
<1>1. /\ edits' = edits + 1 /\ edits' \in Nat /\ bundle' = b /\ UNCHANGED <<log, exports, signed>>
      /\ LedgerInv' /\ ExportsInv' /\ SignedInv'
      /\ IsBundle(bundle) /\ IsLedger(bundle.entries) /\ EditedOnce(bundle)
  BY EditKeeps
<1>2. /\ b.entries = bundle.entries /\ b.anchor = anchor /\ b.envelopes = envs
      /\ b = [v |-> b.v, chain |-> b.chain, entries |-> b.entries, anchor |-> b.anchor,
              envelopes |-> b.envelopes, mistyped |-> b.mistyped]
  OBVIOUS
<1>3. IsBundle(bundle)'
  BY <1>1, <1>2 DEF IsBundle
<1>4. Anchored(bundle.anchor)' /\ Attested(bundle.envelopes)'
  BY <1>1, <1>2 DEF Anchored, Attested
<1>5. EditedOnce(bundle)'
  <2>1. edits' # 0 /\ (edits' = 1 => edits = 0)
    BY <1>1 DEF IInv
  <2>2. edits = 0 => ChainVerifies(b.entries)
    BY <1>1, <1>2 DEF EditedOnce
  <2>3. QED  BY <1>1, <2>1, <2>2 DEF EditedOnce
<1>6. BundleInv'
  BY <1>3, <1>4, <1>5 DEF BundleInv
<1>7. QED  BY <1>1, <1>6 DEF IInv

LEMMA CutTailInv == IInv /\ CutTail => IInv'
<1> SUFFICES ASSUME IInv, CutTail PROVE IInv'
  OBVIOUS
<1> DEFINE fs == Front(bundle.entries)
           b == [bundle EXCEPT !.entries = fs]
<1>1. Edited(b) /\ Entries # <<>>
  BY DEF CutTail
<1>2. IsLedger(bundle.entries) /\ Entries = bundle.entries
  BY <1>1, EditKeeps
<1>3. IsLedger(fs) /\ (ChainVerifies(bundle.entries) => ChainVerifies(fs))
  BY <1>1, <1>2, TailCut
<1> HIDE DEF fs
<1>4. b = [bundle EXCEPT !.entries = fs]
  OBVIOUS
<1> HIDE DEF b
<1>5. QED  BY <1>1, <1>3, <1>4, EntriesEdited

LEMMA DropInv ==
  ASSUME NEW i \in DOMAIN Entries, IInv, Drop(i)
  PROVE  IInv'
<1> DEFINE fs == RemoveAt(bundle.entries, i)
           b == [bundle EXCEPT !.entries = fs]
<1>1. Edited(b)
  BY DEF Drop
<1>2. IsLedger(bundle.entries) /\ Entries = bundle.entries
  BY <1>1, EditKeeps
<1>3. /\ IsLedger(fs)
      /\ ChainVerifies(bundle.entries) => ChainVerifies(fs) \/ Diverges(fs, bundle.entries)
  BY <1>2, Dropped
<1> HIDE DEF fs
<1>4. b = [bundle EXCEPT !.entries = fs]
  OBVIOUS
<1> HIDE DEF b
<1>5. QED  BY <1>1, <1>3, <1>4, EntriesEdited

LEMMA SwapInv ==
  ASSUME NEW i \in DOMAIN Entries, i < Len(Entries), IInv, Swap(i)
  PROVE  IInv'
<1> DEFINE fs == [bundle.entries EXCEPT ![i] = bundle.entries[i + 1], ![i + 1] = bundle.entries[i]]
           b == [bundle EXCEPT !.entries = fs]
           s == [bundle EXCEPT !.entries = [@ EXCEPT ![i] = Entries[i + 1], ![i + 1] = Entries[i]]]
<1>1. Edited(s)
  BY DEF Swap
<1>2. IsLedger(bundle.entries) /\ Entries = bundle.entries
  <2> HIDE DEF s
  <2>1. QED  BY <1>1, EditKeeps
<1>3. Edited(b)
  BY <1>1, <1>2
<1>4. /\ IsLedger(fs)
      /\ ChainVerifies(bundle.entries) => ChainVerifies(fs) \/ Diverges(fs, bundle.entries)
  BY <1>2, Swapped
<1> HIDE DEF fs
<1>5. b = [bundle EXCEPT !.entries = fs]
  OBVIOUS
<1> HIDE DEF b
<1>6. QED  BY <1>3, <1>4, <1>5, EntriesEdited

LEMMA RewriteInv ==
  ASSUME NEW i \in DOMAIN Entries, NEW body, IInv, Rewrite(i, body)
  PROVE  IInv'
<1> DEFINE fs == [bundle.entries EXCEPT ![i].body = body]
           b == [bundle EXCEPT !.entries = fs]
           r == [bundle EXCEPT !.entries[i].body = body]
<1>1. Edited(r)
  BY DEF Rewrite
<1>2. IsBundle(bundle) /\ IsLedger(bundle.entries) /\ Entries = bundle.entries
  <2> HIDE DEF r
  <2>1. QED  BY <1>1, EditKeeps
<1>3. r = b
  OBVIOUS
<1>4. Edited(b)
  BY <1>1, <1>3
<1>5. /\ IsLedger(fs)
      /\ ChainVerifies(bundle.entries) => ChainVerifies(fs) \/ Diverges(fs, bundle.entries)
  BY <1>2, Rewritten
<1> HIDE DEF fs, r
<1>6. b = [bundle EXCEPT !.entries = fs]
  OBVIOUS
<1> HIDE DEF b
<1>7. QED  BY <1>4, <1>5, <1>6, EntriesEdited

LEMMA ResealInv == IInv /\ Reseal => IInv'
<1> SUFFICES ASSUME IInv, Reseal PROVE IInv'
  OBVIOUS
<1> DEFINE bodies == [i \in DOMAIN bundle.entries |-> bundle.entries[i].body]
           fs == Chained(bodies)
           b == [bundle EXCEPT !.entries = fs]
<1>1. Edited(b)
  BY DEF Reseal
<1>2. IsLedger(bundle.entries)
  <2> HIDE DEF b
  <2>1. QED  BY <1>1, EditKeeps
<1>3. IsSeq(bodies)
  <2>1. DOMAIN bundle.entries = 1 .. Len(bundle.entries) /\ Len(bundle.entries) \in Nat
    BY <1>2, SeqIsIndexed DEF IsLedger
  <2>2. bodies = [i \in 1 .. Len(bundle.entries) |-> bodies[i]]
    BY <2>1
  <2> HIDE DEF bodies
  <2>3. QED  BY <2>1, <2>2, IndexedIsSeq
<1>4. IsLedger(fs) /\ ChainVerifies(fs)
  <2> HIDE DEF bodies
  <2>1. QED  BY <1>3, ChainedVerifies
<1> HIDE DEF fs
<1>5. b = [bundle EXCEPT !.entries = fs]
  OBVIOUS
<1> HIDE DEF b
<1>6. QED  BY <1>1, <1>4, <1>5, EntriesEdited

LEMMA ReanchorInv ==
  ASSUME NEW anchor \in Anchors, IInv, Reanchor(anchor)
  PROVE  IInv'
<1> DEFINE b == [bundle EXCEPT !.anchor = anchor]
<1>1. Edited(b)
  BY DEF Reanchor
<1>2. IsBundle(bundle) /\ Attested(bundle.envelopes)
  <2> HIDE DEF b
  <2>1. QED  BY <1>1, EditKeeps
<1>3. b = [v |-> bundle.v, chain |-> bundle.chain, entries |-> bundle.entries, anchor |-> anchor,
           envelopes |-> bundle.envelopes, mistyped |-> bundle.mistyped]
  BY <1>2 DEF IsBundle
<1> HIDE DEF b
<1>4. Anchored(anchor)
  <2>1. CASE \E x \in exports : anchor = x.anchor
    BY <2>1 DEF Anchored
  <2>2. CASE anchor = NoAnchor
    BY <2>2 DEF Anchored
  <2>3. CASE anchor = AnchorFor(Entries, Editor)
    BY <2>3, KeyAssumption, AnchorParts DEF Anchored
  <2>4. CASE \E x \in exports : anchor = [x.anchor EXCEPT !.body = AnchorFor(Entries, Editor).body]
    <3>1. PICK x \in exports : anchor = [x.anchor EXCEPT !.body = AnchorFor(Entries, Editor).body]
      BY <2>4
    <3>2. x.anchor = AnchorFor(x.entries, Signer)
      BY DEF IInv, ExportsInv, IsExport
    <3>3. PICK a : a = x.anchor
      OBVIOUS
    <3>4. DOMAIN a = {"body", "by", "over"}
      BY <3>2, <3>3 DEF AnchorFor
    <3>5. anchor.over = a.over
      BY <3>1, <3>3, <3>4
    <3>6. QED  BY <3>3, <3>5 DEF Anchored
  <2>5. QED  BY <2>1, <2>2, <2>3, <2>4 DEF Anchors
<1>5. QED  BY <1>1, <1>2, <1>3, <1>4, RestEdited

LEMMA MistypeInv ==
  ASSUME NEW part, IInv, Mistype(part)
  PROVE  IInv'
<1> DEFINE mistyped == bundle.mistyped \cup {part}
           b == [bundle EXCEPT !.mistyped = mistyped]
<1>1. Edited(b)
  BY DEF Mistype
<1>2. IsBundle(bundle) /\ Anchored(bundle.anchor) /\ Attested(bundle.envelopes)
  <2> HIDE DEF b
  <2>1. QED  BY <1>1, EditKeeps
<1> HIDE DEF mistyped
<1>3. b = [v |-> bundle.v, chain |-> bundle.chain, entries |-> bundle.entries,
           anchor |-> bundle.anchor, envelopes |-> bundle.envelopes, mistyped |-> mistyped]
  BY <1>2 DEF IsBundle
<1> HIDE DEF b
<1>4. QED  BY <1>1, <1>2, <1>3, RestEdited

(* The signature of a witness is only where that witness put it. *)
LEMMA AttachableAttested ==
  ASSUME NEW env \in Attachable, IInv, env.by \in Witnesses
  PROVE  \E s \in signed : env.by = s.by /\ env.over = s.over
<1>1. \A s \in signed : DOMAIN s = {"form", "subject", "kid", "by", "over"}
  BY DEF IInv, SignedInv, IsStatement
<1>2. CASE env \in signed
  BY <1>2
<1>3. CASE \E s \in signed : \E f \in Forms : env = [s EXCEPT !.form = f]
  <2>1. PICK s \in signed, f \in Forms : env = [s EXCEPT !.form = f]
    BY <1>3
  <2>2. env.by = s.by /\ env.over = s.over
    BY <1>1, <2>1
  <2>3. QED  BY <2>2
<1>4. CASE \E s \in signed : \E i \in DOMAIN Entries : env = [s EXCEPT !.subject = SubjectAt(Entries, i)]
  <2>1. PICK s \in signed, i \in DOMAIN Entries : env = [s EXCEPT !.subject = SubjectAt(Entries, i)]
    BY <1>4
  <2>2. env.by = s.by /\ env.over = s.over
    BY <1>1, <2>1
  <2>3. QED  BY <2>2
<1>5. CASE \E i \in DOMAIN Entries : \E kid \in TrustedKids : env = SignedOver(Entries, i, kid, Editor)
  <2>1. env.by = Editor
    BY <1>5 DEF SignedOver
  <2>2. QED  BY <2>1, KeyAssumption
<1>6. QED  BY <1>2, <1>3, <1>4, <1>5 DEF Attachable

LEMMA AttachInv ==
  ASSUME NEW env \in Attachable, IInv, Attach(env)
  PROVE  IInv'
<1> DEFINE envs == Append(bundle.envelopes, env)
           b == [bundle EXCEPT !.envelopes = envs]
<1>1. Edited(b)
  BY DEF Attach
<1>2. IsBundle(bundle) /\ Anchored(bundle.anchor) /\ Attested(bundle.envelopes)
  <2> HIDE DEF b
  <2>1. QED  BY <1>1, EditKeeps
<1>3. /\ IsSeq(envs) /\ DOMAIN envs = 1 .. Len(bundle.envelopes) + 1
      /\ envs = [j \in 1 .. Len(bundle.envelopes) + 1 |->
                   IF j <= Len(bundle.envelopes) THEN bundle.envelopes[j] ELSE env]
  BY <1>2, Appended DEF Attested
<1> HIDE DEF envs
<1>4. Attested(envs)
  <2>1. /\ Len(bundle.envelopes) \in Nat
        /\ DOMAIN bundle.envelopes = 1 .. Len(bundle.envelopes)
    BY <1>2, SeqIsIndexed DEF Attested
  <2>2. SUFFICES ASSUME NEW j \in DOMAIN envs, envs[j].by \in Witnesses
                 PROVE  \E s \in signed : envs[j].by = s.by /\ envs[j].over = s.over
    BY <1>3 DEF Attested
  <2>3. CASE j <= Len(bundle.envelopes)
    <3>1. j \in DOMAIN bundle.envelopes /\ envs[j] = bundle.envelopes[j]
      BY <1>3, <2>1, <2>3
    <3>2. QED  BY <1>2, <2>2, <3>1 DEF Attested
  <2>4. CASE ~(j <= Len(bundle.envelopes))
    <3>1. envs[j] = env
      BY <1>3, <2>4
    <3>2. QED  BY <2>2, <3>1, AttachableAttested
  <2>5. QED  BY <2>3, <2>4
<1>5. b = [v |-> bundle.v, chain |-> bundle.chain, entries |-> bundle.entries,
           anchor |-> bundle.anchor, envelopes |-> envs, mistyped |-> bundle.mistyped]
  BY <1>2 DEF IsBundle
<1> HIDE DEF b
<1>6. QED  BY <1>1, <1>2, <1>4, <1>5, RestEdited

LEMMA ForgeInv == IInv /\ Forge => IInv'
<1> SUFFICES ASSUME IInv, Forge PROVE IInv'
  OBVIOUS
<1>1. PICK bodies \in Forgeries :
        /\ bundle' = BundleOf(Chained(bodies), AnchorFor(Chained(bodies), Editor), <<>>)
        /\ edits' = MaxEdits /\ UNCHANGED <<log, exports, signed>>
  BY DEF Forge
<1> DEFINE es == Chained(bodies)
           anchor == AnchorFor(es, Editor)
<1>2. IsSeq(bodies)
  <2>1. PICK k \in 0 .. Len(History), more \in SeqOf(Bodies, MaxForged) :
          bodies = SubSeq(History, 1, k) \o more
    BY DEF Forgeries
  <2>2. IsSeq(History)
    BY HistoryAssumption DEF IsSeq
  <2>3. IsSeq(SubSeq(History, 1, k))
    BY <2>2, Prefix
  <2>4. more \in Seq(Bodies)
    <3>1. PICK m \in 0 .. MaxForged : more \in [1 .. m -> Bodies]
      BY DEF SeqOf
    <3>2. m \in Nat
      BY BoundAssumption
    <3>3. QED  BY <3>1, <3>2, SeqDef
  <2> DEFINE S == Range(SubSeq(History, 1, k)) \cup Bodies
  <2>5. SubSeq(History, 1, k) \in Seq(S) /\ more \in Seq(S)
    BY <2>3, <2>4, SeqMonotonic DEF IsSeq
  <2> HIDE DEF S
  <2>6. bodies \in Seq(S)
    BY <2>1, <2>5, ConcatProperties
  <2>7. bodies = [i \in 1 .. Len(bodies) |-> bodies[i]] /\ Len(bodies) \in Nat
    BY <2>6, LenProperties
  <2>8. QED  BY <2>7, IndexedIsSeq
<1>3. IsLedger(es) /\ ChainVerifies(es)
  BY <1>2, ChainedVerifies
<1> HIDE DEF es
<1>4. anchor.by = Editor
  BY AnchorParts
<1> HIDE DEF anchor
<1>5. /\ bundle'.entries = es /\ bundle'.anchor = anchor /\ bundle'.envelopes = <<>>
      /\ bundle' = [v |-> bundle'.v, chain |-> bundle'.chain, entries |-> bundle'.entries,
                     anchor |-> bundle'.anchor, envelopes |-> bundle'.envelopes,
                     mistyped |-> bundle'.mistyped]
  <2>1. PICK b : b = bundle'
    OBVIOUS
  <2>2. b = [v |-> VersionOf(es), chain |-> ChainIdOf(es), entries |-> es, anchor |-> anchor,
             envelopes |-> <<>>, mistyped |-> {}]
    BY <1>1, <2>1 DEF BundleOf, es, anchor
  <2>3. /\ b.entries = es /\ b.anchor = anchor /\ b.envelopes = <<>>
        /\ b = [v |-> b.v, chain |-> b.chain, entries |-> b.entries, anchor |-> b.anchor,
                envelopes |-> b.envelopes, mistyped |-> b.mistyped]
    BY <2>2
  <2>4. QED  BY <2>1, <2>3
<1>6. IsBundle(bundle)'
  BY <1>3, <1>5 DEF IsBundle
<1>7. Anchored(bundle.anchor)'
  BY <1>4, <1>5, KeyAssumption DEF Anchored
<1>8. Attested(bundle.envelopes)'
  <2>1. IsSeq(<<>>) /\ DOMAIN <<>> = {}
    BY EmptySeq DEF IsSeq
  <2>2. QED  BY <1>5, <2>1 DEF Attested
<1>9. EditedOnce(bundle)'
  <2>1. ASSUME NEW x \in exports
        PROVE  x.anchor # anchor
    <3>1. x.anchor = AnchorFor(x.entries, Signer)
      BY DEF IInv, ExportsInv, IsExport
    <3>2. x.anchor.by = Signer
      BY <3>1, AnchorParts
    <3>3. QED  BY <1>4, <3>2, KeyAssumption
  <2>2. QED  BY <1>1, <1>3, <1>5, <2>1 DEF EditedOnce
<1>10. LedgerInv' /\ ExportsInv' /\ SignedInv'
  BY <1>1 DEF IInv, LedgerInv, ExportsInv, IsExport, Written, SignedInv, IsStatement, Content, WrittenAt
<1>11. BundleInv' /\ edits' \in Nat
  BY <1>1, <1>6, <1>7, <1>8, <1>9, BoundAssumption DEF BundleInv
<1>12. QED  BY <1>10, <1>11 DEF IInv

LEMMA NextInv == IInv /\ [Next]_vars => IInv'
<1> SUFFICES ASSUME IInv, [Next]_vars PROVE IInv'
  OBVIOUS
<1>1. CASE Write
  BY <1>1, WriteInv
<1>2. ASSUME NEW redact \in BOOLEAN, Export(redact, <<>>) PROVE IInv'
  <2>1. IsSeq(<<>>) /\ DOMAIN <<>> = {}
    BY EmptySeq DEF IsSeq
  <2>2. QED  BY <1>2, <2>1, ExportInv
<1>3. CASE Export(FALSE, SetToSeq(signed))
  <2>1. IsSeq(SetToSeq(signed)) /\ \A j \in DOMAIN SetToSeq(signed) : SetToSeq(signed)[j] \in signed
    BY SetAsSeq DEF IInv, SignedInv
  <2>2. QED  BY <1>3, <2>1, ExportInv
<1>4. ASSUME NEW kid \in Witnesses, NEW i \in DOMAIN log, Sign(log, i, kid) PROVE IInv'
  BY <1>4, SignInv
<1>5. ASSUME NEW kid \in Witnesses, NEW x \in exports, NEW i \in DOMAIN x.entries,
             Sign(x.entries, i, kid)
      PROVE  IInv'
  BY <1>5, SignInv
<1>6. CASE Tick
  BY <1>6, TickInv
<1>7. CASE CutTail
  BY <1>7, CutTailInv
<1>8. ASSUME NEW i \in DOMAIN Entries, Drop(i) \/ (i < Len(Entries) /\ Swap(i)) PROVE IInv'
  BY <1>8, DropInv, SwapInv
<1>9. ASSUME NEW i \in DOMAIN Entries, NEW body \in Bodies, Rewrite(i, body) PROVE IInv'
  BY <1>9, RewriteInv
<1>10. CASE Reseal
  BY <1>10, ResealInv
<1>11. ASSUME NEW anchor \in Anchors, Reanchor(anchor) PROVE IInv'
  BY <1>11, ReanchorInv
<1>12. ASSUME NEW part \in BundleParts, Mistype(part) PROVE IInv'
  BY <1>12, MistypeInv
<1>13. ASSUME NEW env \in Attachable, Attach(env) PROVE IInv'
  BY <1>13, AttachInv
<1>14. CASE Forge
  BY <1>14, ForgeInv
<1>15. CASE UNCHANGED vars
  BY <1>15 DEF vars, IInv, LedgerInv, ExportsInv, IsExport, Written, SignedInv, IsStatement, Content,
               WrittenAt, BundleInv, IsBundle, Anchored, Attested, EditedOnce
<1>16. QED
  BY <1>1, <1>2, <1>3, <1>4, <1>5, <1>6, <1>7, <1>8, <1>9, <1>10, <1>11, <1>12, <1>13, <1>14, <1>15
     DEF Next

THEOREM Invariance == Spec => []IInv
BY InitInv, NextInv, PTL DEF Spec

-----------------------------------------------------------------------------
(* What a verifier accepts *)

LEMMA LastSeqOf ==
  ASSUME NEW es, IsLedger(es), ChainVerifies(es), es # <<>>
  PROVE  LastSeq(es) = Len(es) - 1 /\ Len(es) \in Nat /\ Len(es) # 0
<1>1. IsSeq(es) /\ Len(es) \in Nat /\ DOMAIN es = 1 .. Len(es)
  BY SeqIsIndexed DEF IsLedger
<1>2. Len(es) # 0
  BY <1>1, EmptySeq DEF IsSeq
<1>3. Len(es) \in DOMAIN es
  BY <1>1, <1>2
<1>4. QED  BY <1>1, <1>2, <1>3 DEF LastSeq, Last, ChainVerifies

LEMMA AcceptedUnderKey ==
  ASSUME IInv, bundle # NoBundle, AnchorVerifies(bundle.entries, bundle.anchor, Signer)
  PROVE  \E x \in exports : x.entries = bundle.entries
<1> DEFINE es == bundle.entries
           a == bundle.anchor
<1>1. /\ a # NoAnchor /\ a.by = Signer /\ a.over = a.body /\ ChainVerifies(es)
      /\ a.body.seq = LastSeq(es) /\ (es # <<>> => a.body.head = HeadHash(es))
  BY DEF AnchorVerifies
<1>2. IsLedger(es) /\ Anchored(a)
  BY DEF IInv, BundleInv, IsBundle
<1>3. PICK x \in exports : a.over = x.anchor.over
  BY <1>1, <1>2 DEF Anchored
<1>4. IsExport(x)
  BY DEF IInv, ExportsInv
<1>5. x.anchor = AnchorFor(x.entries, Signer)
  BY <1>4 DEF IsExport
<1>6. x.anchor.over.head = HeadHash(x.entries) /\ x.anchor.over.seq = LastSeq(x.entries)
  <2>1. /\ AnchorFor(x.entries, Signer).over = AnchorFor(x.entries, Signer).body
        /\ AnchorFor(x.entries, Signer).body.head = HeadHash(x.entries)
        /\ AnchorFor(x.entries, Signer).body.seq = LastSeq(x.entries)
    BY AnchorParts
  <2>2. QED  BY <1>5, <2>1, Zenon
<1>7. LastSeq(es) = LastSeq(x.entries)
  BY <1>1, <1>3, <1>6
<1>8. es # <<>>
  <2>1. LastSeq(x.entries) = Len(x.entries) - 1 /\ Len(x.entries) \in Nat /\ Len(x.entries) # 0
    BY <1>4, LastSeqOf DEF IsExport
  <2>2. LastSeq(<<>>) = -1
    BY DEF LastSeq
  <2>3. QED  BY <1>7, <2>1, <2>2
<1>9. HeadHash(es) = HeadHash(x.entries)
  BY <1>1, <1>3, <1>6, <1>8
<1>10. es = x.entries
  BY <1>1, <1>2, <1>4, <1>8, <1>9, HeadDetermines DEF IsExport
<1>11. QED  BY <1>10

LEMMA AcceptedRetained ==
  ASSUME IInv, bundle # NoBundle, NEW x \in exports, NEW trusted,
         AcceptsRetained(bundle, x.anchor, trusted)
  PROVE  x.entries = bundle.entries
<1> DEFINE es == bundle.entries
<1>1. ChainVerifies(es) /\ x.anchor.body.seq = Len(es) - 1 /\ x.anchor.body.head = HeadHash(es)
  BY DEF AcceptsRetained, Accepts, LedgerOk
<1>2. IsLedger(es) /\ IsSeq(es) /\ Len(es) \in Nat
  BY SeqIsIndexed DEF IInv, BundleInv, IsBundle, IsLedger
<1>3. IsExport(x) /\ x.anchor = AnchorFor(x.entries, Signer)
  BY DEF IInv, ExportsInv, IsExport
<1>4. x.anchor.body.head = HeadHash(x.entries) /\ x.anchor.body.seq = LastSeq(x.entries)
  <2>1. /\ AnchorFor(x.entries, Signer).body.head = HeadHash(x.entries)
        /\ AnchorFor(x.entries, Signer).body.seq = LastSeq(x.entries)
    BY AnchorParts
  <2>2. QED  BY <1>3, <2>1, Zenon
<1>5. es # <<>>
  <2>1. LastSeq(x.entries) = Len(x.entries) - 1 /\ Len(x.entries) \in Nat /\ Len(x.entries) # 0
    BY <1>3, LastSeqOf DEF IsExport
  <2>2. Len(es) # 0
    BY <1>1, <1>2, <1>4, <2>1
  <2>3. QED  BY <2>2, EmptySeq
<1>6. QED  BY <1>1, <1>2, <1>3, <1>4, <1>5, HeadDetermines DEF IsExport

LEMMA BreakOfOneEdit ==
  ASSUME IInv, bundle # NoBundle, NEW x \in exports, edits = 1, bundle.anchor = x.anchor,
         IntegrityBreak(Entries) # 0
  PROVE  PointsAt(Entries, x.entries, IntegrityBreak(Entries))
<1>1. Entries = bundle.entries /\ IsLedger(Entries) /\ EditedOnce(bundle)
  BY DEF IInv, BundleInv, IsBundle, Entries
<1>2. ChainVerifies(Entries) \/ Diverges(Entries, x.entries)
  BY <1>1 DEF EditedOnce
<1>3. ~ChainVerifies(Entries)
  BY <1>1, NoBreak
<1>4. IsLedger(x.entries) /\ ChainVerifies(x.entries)
  BY DEF IInv, ExportsInv, IsExport
<1>5. QED  BY <1>1, <1>2, <1>3, <1>4, BreakIsTheFirst

(* A bundle that verifies under the producer's key, or against the anchor   *)
(* a verifier retained, is what the producer exported, however many edits   *)
(* were made to it; and of one edit --entries finds the place               *)
(* (verify_bundle, verify_anchor and _entry_integrity).                     *)
THEOREM VerifiedAreExported == Spec => []VerifiedIsExported
<1>1. IInv => VerifiedIsExported
  <2> SUFFICES ASSUME IInv, bundle # NoBundle
               PROVE  /\ \A file \in TrustFiles :
                           VerifyStatus(bundle, Signer, file, now) = 0 =>
                             \E x \in exports : x.entries = bundle.entries
                      /\ \A x \in exports, trusted \in TrustSets :
                           AcceptsRetained(bundle, x.anchor, trusted) => x.entries = bundle.entries
                      /\ \A x \in exports :
                           (edits = 1 /\ bundle.anchor = x.anchor /\ IntegrityBreak(Entries) # 0) =>
                             PointsAt(Entries, x.entries, IntegrityBreak(Entries))
    BY DEF VerifiedIsExported, PointsAt
  <2>1. ASSUME NEW file \in TrustFiles, VerifyStatus(bundle, Signer, file, now) = 0
        PROVE  \E x \in exports : x.entries = bundle.entries
    <3>1. Accepts(bundle, Signer, Trusted(TrustOf(file), now))
      BY <2>1 DEF VerifyStatus
    <3>2. AnchorVerifies(bundle.entries, bundle.anchor, Signer)
      BY <3>1, SignerAssumption DEF Accepts
    <3>3. QED  BY <3>2, AcceptedUnderKey
  <2>2. \A x \in exports, trusted \in TrustSets :
          AcceptsRetained(bundle, x.anchor, trusted) => x.entries = bundle.entries
    BY AcceptedRetained
  <2>3. \A x \in exports :
          (edits = 1 /\ bundle.anchor = x.anchor /\ IntegrityBreak(Entries) # 0) =>
            PointsAt(Entries, x.entries, IntegrityBreak(Entries))
    BY BreakOfOneEdit
  <2>4. QED  BY <2>1, <2>2, <2>3
<1>2. QED  BY <1>1, Invariance, PTL

(* The one v1 envelope that names an entry it scores for. *)
LEMMA ScoredIsSigned ==
  ASSUME IInv, NEW env, NEW i, NEW trusted, Scores(bundle, env, i, trusted),
         trusted \subseteq Witnesses,
         env.by \in Witnesses => \E s \in signed : env.by = s.by /\ env.over = s.over
  PROVE  \E s \in signed : /\ s.kid = env.kid /\ s.subject = env.subject /\ env.form = "v1"
                           /\ s.subject.hash = env.subject.hash
<1>1. env.kid \in trusted /\ env.by = env.kid /\ env.over = Content(env)
  BY DEF Scores
<1>2. PICK s \in signed : env.over = s.over
  BY <1>1
<1>3. s.over = [form |-> "v1", subject |-> s.subject, kid |-> s.kid]
  <2>1. IsStatement(s)
    BY DEF IInv, SignedInv
  <2>2. PICK t : t = s
    OBVIOUS
  <2>3. t = [form |-> "v1", subject |-> t.subject, kid |-> t.kid, by |-> t.kid, over |-> Content(t)]
    BY <2>1, <2>2 DEF IsStatement
  <2>4. t.over = Content(t) /\ t.form = "v1"
    BY <2>3
  <2>5. QED  BY <2>2, <2>4 DEF Content
<1>4. [form |-> env.form, subject |-> env.subject, kid |-> env.kid]
        = [form |-> "v1", subject |-> s.subject, kid |-> s.kid]
  BY <1>1, <1>2, <1>3 DEF Content
<1>5. env.form = "v1" /\ env.subject = s.subject /\ env.kid = s.kid
  BY <1>4
<1>6. QED  BY <1>5

LEMMA GreatestOf ==
  ASSUME NEW n \in Nat, NEW S, S \subseteq 1 .. n, S # {}
  PROVE  Max(S) \in S /\ \A k \in S : Max(S) >= k
<1> DEFINE T == {n - k : k \in S}
<1>1. T \subseteq Nat /\ T # {}
  <2>1. \A k \in S : n - k \in Nat
    OBVIOUS
  <2>2. T \subseteq Nat
    BY <2>1
  <2>3. PICK k \in S : TRUE
    OBVIOUS
  <2>4. n - k \in T
    BY <2>3
  <2>5. QED  BY <2>2, <2>4
<1>2. PICK t \in T : \A u \in T : t <= u
  <2> HIDE DEF T
  <2>1. QED  BY <1>1, LeastNumber
<1>3. PICK m \in S : t = n - m
  BY <1>2
<1>4. \A k \in S : m >= k
  <2>1. \A k \in S : n - k \in T /\ k \in 1 .. n
    OBVIOUS
  <2>2. \A k \in S : n - m <= n - k
    BY <1>2, <1>3, <2>1
  <2>3. QED  BY <1>3, <2>1, <2>2
<1>5. QED  BY <1>3, <1>4 DEF Max

(* An envelope that claims an entry names its position. *)
LEMMA ClaimsPlace ==
  ASSUME NEW b, IsSeq(b.entries), NEW i, NEW j \in Claims(b, i)
  PROVE  i \in DOMAIN b.entries /\ b.entries[i].seq = b.envelopes[j].subject.seq
<1> DEFINE named == Positioned(b.entries, b.envelopes[j].subject.seq)
<1>1. named # {} /\ i = Max(named)
  BY DEF Claims
<1>2. Len(b.entries) \in Nat /\ DOMAIN b.entries = 1 .. Len(b.entries)
  BY SeqIsIndexed
<1>3. named \subseteq 1 .. Len(b.entries)
  BY <1>2 DEF Positioned
<1> HIDE DEF named
<1>4. i \in named
  BY <1>1, <1>2, <1>3, GreatestOf
<1>5. QED  BY <1>4 DEF named, Positioned

LEMMA WitnessedEntry ==
  ASSUME IInv, bundle # NoBundle, NEW trusted, trusted \subseteq Witnesses,
         NEW i, Witnessed(bundle, i, trusted)
  PROVE  /\ i \in DOMAIN bundle.entries
         /\ \E s \in signed : s.subject = SubjectAt(bundle.entries, i) /\ s.kid \in trusted
         /\ \E es \in {log, Redact(log)} :
              i <= Len(es) /\ SubjectAt(bundle.entries, i) = SubjectAt(es, i)
         /\ Cardinality({j \in DOMAIN bundle.envelopes :
                           /\ bundle.envelopes[j].form = "v1"
                           /\ bundle.envelopes[j].subject.seq = bundle.entries[i].seq}) = 1
<1> DEFINE fs == bundle.entries
<1>1. IsLedger(fs) /\ IsSeq(fs) /\ Attested(bundle.envelopes)
  BY DEF IInv, BundleInv, IsBundle, IsLedger
<1>2. PICK j \in DOMAIN bundle.envelopes :
        Claims(bundle, i) = {j} /\ Scores(bundle, bundle.envelopes[j], i, trusted)
  BY DEF Witnessed
<1> DEFINE env == bundle.envelopes[j]
<1>3. env.by \in Witnesses => \E s \in signed : env.by = s.by /\ env.over = s.over
  BY <1>1 DEF Attested
<1>4. PICK s \in signed : s.kid = env.kid /\ s.subject = env.subject /\ env.form = "v1"
  <2> HIDE DEF env
  <2>1. Scores(bundle, env, i, trusted)
    BY <1>2 DEF env
  <2>2. QED  BY <1>3, <2>1, ScoredIsSigned
<1>5. i \in DOMAIN fs /\ fs[i].seq = env.subject.seq
  BY <1>1, <1>2, ClaimsPlace
<1>6. env.subject.hash = Recomputed(fs)[i] /\ env.subject.at = Locators(fs[i].body) /\ env.kid \in trusted
  BY <1>2 DEF Scores
<1>20. PICK es \in {log, Redact(log)} : \E k \in DOMAIN es : s.subject = SubjectAt(es, k)
  BY DEF IInv, SignedInv, WrittenAt
<1>7. PICK k \in DOMAIN es : s.subject = SubjectAt(es, k)
  BY <1>20
<1>8. IsSeq(es)
  <2>1. IsLedger(log) /\ ChainVerifies(log)
    BY DEF IInv, LedgerInv
  <2>2. IsLedger(Redact(log))
    BY <2>1, RedactedVerifies
  <2>3. QED  BY <2>1, <2>2 DEF IsLedger
<1> HIDE DEF env
<1>9. s.subject = SubjectAt(fs, i)
  <2> DEFINE t == SubjectAt(es, k)
  <2>1. t = [seq |-> t.seq, hash |-> t.hash, at |-> t.at]
    BY DEF SubjectAt
  <2> HIDE DEF t
  <2>2. t.seq = fs[i].seq /\ t.hash = Recomputed(fs)[i] /\ t.at = Locators(fs[i].body)
    BY <1>4, <1>5, <1>6, <1>7 DEF t
  <2>3. t = SubjectAt(fs, i)
    BY <2>1, <2>2 DEF SubjectAt
  <2>4. QED  BY <1>7, <2>3 DEF t
<1>10. k = i
  <2>1. Recomputed(fs)[i] = Recomputed(es)[k]
    BY <1>7, <1>9 DEF SubjectAt
  <2>2. QED  BY <1>1, <1>5, <1>8, <2>1, SubjectPlace
<1>11. i <= Len(es)
  BY <1>7, <1>8, <1>10, SeqIsIndexed
<1>12. {n \in DOMAIN bundle.envelopes : /\ bundle.envelopes[n].form = "v1"
                                       /\ bundle.envelopes[n].subject.seq = fs[i].seq} = {j}
  <2>1. ASSUME NEW n \in DOMAIN bundle.envelopes, bundle.envelopes[n].form = "v1",
               bundle.envelopes[n].subject.seq = fs[i].seq
        PROVE  n = j
    <3>1. j \in Claims(bundle, i)
      BY <1>2
    <3>2. bundle.envelopes[n].subject.seq = bundle.envelopes[j].subject.seq
      BY <1>5, <2>1 DEF env
    <3>3. n \in Claims(bundle, i)
      BY <2>1, <3>1, <3>2 DEF Claims
    <3>4. QED  BY <1>2, <3>3
  <2>2. bundle.envelopes[j].form = "v1" /\ bundle.envelopes[j].subject.seq = fs[i].seq
    BY <1>4, <1>5 DEF env
  <2>3. QED  BY <2>1, <2>2
<1>13. \E t \in signed : t.subject = SubjectAt(fs, i) /\ t.kid \in trusted
  BY <1>4, <1>6, <1>9
<1>14. \E gs \in {log, Redact(log)} : i <= Len(gs) /\ SubjectAt(fs, i) = SubjectAt(gs, i)
  BY <1>7, <1>9, <1>10, <1>11
<1>15. QED  BY <1>5, <1>12, <1>13, <1>14, FS_Singleton

(* Of a file the verifier reads, the keys it trusts now. *)
LEMMA TrustedNow ==
  ASSUME NEW file \in TrustFiles, ~Refused(file), file.shape # "missing",
         NEW kid \in Trusted(TrustOf(file), now)
  PROVE  /\ kid \in Witnesses /\ Before(now, file.until)
         /\ \E row \in Range(file.rows) : row.kid = kid
         /\ \A row \in Range(file.rows) : row.kid = kid => Before(now, row.until)
<1>1. TrustOf(file).rows = file.rows
      /\ TrustOf(file).until = IF file.shape = "document" THEN file.until ELSE Never
  BY DEF TrustOf
<1>2. PICK row \in Range(file.rows) :
        row.kid = kid /\ Before(now, row.until) /\ Before(now, TrustOf(file).until)
  BY <1>1 DEF Trusted
<1>3. kid \in Witnesses
  BY <1>2, TrustAssumption
<1>4. Before(now, file.until)
  <2>1. CASE file.shape = "document"
    BY <1>1, <1>2, <2>1
  <2>2. CASE file.shape # "document"
    <3>1. file.until = Never
      BY <2>2, FileAssumption DEF Refused
    <3>2. QED  BY <3>1 DEF Before
  <2>3. QED  BY <2>1, <2>2
<1>5. ASSUME NEW other \in Range(file.rows), other.kid = kid
      PROVE  other = row
  <2>1. PICK i \in DOMAIN file.rows, j \in DOMAIN file.rows :
          row = file.rows[i] /\ other = file.rows[j]
    BY DEF Range
  <2>2. i = j
    BY <1>2, <1>5, <2>1 DEF Refused, RowsOk
  <2>3. QED  BY <2>1, <2>2
<1>6. QED  BY <1>2, <1>3, <1>4, <1>5

(* An entry listed as witness-signed is one the producer wrote after that   *)
(* very history, by a witness whose key has not ended, and no other         *)
(* envelope of the bundle names it (_score_envelope, _trusted_witnesses).   *)
THEOREM WitnessedAreSigned == Spec => []WitnessedIsSigned
<1>1. IInv => WitnessedIsSigned
  <2> SUFFICES ASSUME IInv, bundle # NoBundle, NEW file \in TrustFiles,
                      NEW i \in ListedSigned(bundle, file, now)
               PROVE  /\ \E env \in signed :
                           /\ env.subject = SubjectAt(Entries, i)
                           /\ Before(now, file.until)
                           /\ \E row \in Range(file.rows) : row.kid = env.kid
                           /\ \A row \in Range(file.rows) :
                                row.kid = env.kid => Before(now, row.until)
                      /\ \E es \in {log, Redact(log)} :
                           i <= Len(es) /\ SubjectAt(Entries, i) = SubjectAt(es, i)
                      /\ Cardinality({j \in DOMAIN bundle.envelopes :
                                        /\ bundle.envelopes[j].form = "v1"
                                        /\ bundle.envelopes[j].subject.seq = Entries[i].seq}) = 1
    BY DEF WitnessedIsSigned
  <2> DEFINE trusted == Trusted(TrustOf(file), now)
  <2>1. Entries = bundle.entries
    BY DEF Entries
  <2>2. file.shape # "missing" /\ ~Refused(file) /\ Witnessed(bundle, i, trusted)
    BY DEF ListedSigned, WitnessSigned
  <2>3. trusted \subseteq Witnesses
    BY <2>2, TrustedNow
  <2> HIDE DEF trusted
  <2>4. /\ \E s \in signed : s.subject = SubjectAt(bundle.entries, i) /\ s.kid \in trusted
        /\ \E es \in {log, Redact(log)} :
             i <= Len(es) /\ SubjectAt(bundle.entries, i) = SubjectAt(es, i)
        /\ Cardinality({j \in DOMAIN bundle.envelopes :
                          /\ bundle.envelopes[j].form = "v1"
                          /\ bundle.envelopes[j].subject.seq = bundle.entries[i].seq}) = 1
    BY <2>2, <2>3, WitnessedEntry
  <2>5. PICK s \in signed : s.subject = SubjectAt(bundle.entries, i) /\ s.kid \in trusted
    BY <2>4
  <2>6. /\ Before(now, file.until)
        /\ \E row \in Range(file.rows) : row.kid = s.kid
        /\ \A row \in Range(file.rows) : row.kid = s.kid => Before(now, row.until)
    BY <2>2, <2>5, TrustedNow DEF trusted
  <2>7. QED  BY <2>1, <2>4, <2>5, <2>6
<1>2. QED  BY <1>1, Invariance, PTL

-----------------------------------------------------------------------------
(* The tree of a ledger that is accepted *)

(* The entries that define a node, under the one that is the root. *)
Defining(es) == {i \in DOMAIN es : es[i].body.event \in {"root", "spawn"}}
Under(es, d, i) ==
  d < i /\ es[d].body.node = es[i].body.parent /\ es[i].body.auth \subseteq es[d].body.auth
IsTree(es, r) ==
  /\ r \in Defining(es) /\ es[r].body.event = "root"
  /\ \A i \in Defining(es) : i # r => /\ es[i].body.event = "spawn"
                                      /\ \E d \in Defining(es) : Under(es, d, i)
  /\ \A i, j \in Defining(es) : es[i].body.node = es[j].body.node => i = j
  /\ \A i \in DOMAIN es : IsDefinition(es[i].body) <=> i \in Defining(es)
  /\ \A i \in Defining(es) : /\ Definitions(es, es[i].body.node) = {i}
                             /\ AuthorityOf(es, es[i].body.node) = es[i].body.auth

LEMMA SingleMin ==
  ASSUME NEW i \in Int
  PROVE  Min({i}) = i
BY DEF Min

LEMMA AcceptedIsTree ==
  ASSUME NEW es, IsSeq(es), RootOk(es), GraphReadable(es),
         \A i \in DOMAIN es : MonotoneAt(es, i)
  PROVE  \E r : IsTree(es, r)
<1>0. DOMAIN es \subseteq Int /\ IsFiniteSet(DOMAIN es)
  BY SeqIsIndexed, FS_Interval
<1>1. PICK r : {i \in DOMAIN es : es[i].body.event = "root"} = {r}
  <2>1. IsFiniteSet({i \in DOMAIN es : es[i].body.event = "root"})
    BY <1>0, FS_Subset
  <2>2. QED  BY <2>1, FS_Singleton DEF RootOk
<1>2. r \in Defining(es) /\ es[r].body.event = "root"
      /\ \A i \in Defining(es) : i # r => es[i].body.event = "spawn"
  BY <1>1 DEF Defining
<1>3. \A i \in DOMAIN es : IsDefinition(es[i].body) <=> i \in Defining(es)
  BY DEF GraphReadable, IsDefinition, Defining
<1>4. ASSUME NEW i \in Defining(es), NEW j \in Defining(es), es[i].body.node = es[j].body.node
      PROVE  i = j
  <2>1. i \in DOMAIN es /\ j \in DOMAIN es /\ IsDefinition(es[i].body) /\ IsDefinition(es[j].body)
    BY <1>3 DEF Defining
  <2>2. ~(j < i)
    <3>1. ~IsDefined(es, es[i].body.node, i)
      BY <2>1 DEF MonotoneAt
    <3>2. j \in Definitions(es, es[i].body.node)
      BY <1>4, <2>1 DEF Definitions
    <3>3. QED  BY <3>1, <3>2 DEF IsDefined
  <2>3. ~(i < j)
    <3>1. ~IsDefined(es, es[j].body.node, j)
      BY <2>1 DEF MonotoneAt
    <3>2. i \in Definitions(es, es[j].body.node)
      BY <1>4, <2>1 DEF Definitions
    <3>3. QED  BY <3>1, <3>2 DEF IsDefined
  <2>4. QED  BY <1>0, <2>1, <2>2, <2>3
<1>5. ASSUME NEW i \in Defining(es)
      PROVE  /\ Definitions(es, es[i].body.node) = {i}
             /\ AuthorityOf(es, es[i].body.node) = es[i].body.auth
             /\ es[i].body.auth # Unreadable
  <2>1. Definitions(es, es[i].body.node) = {i}
    BY <1>3, <1>4 DEF Definitions, Defining
  <2>2. i \in Int /\ i \in DOMAIN es /\ es[i].body.event \in {"root", "spawn"}
    BY <1>0 DEF Defining
  <2>3. AuthorityOf(es, es[i].body.node) = es[i].body.auth
    BY <2>1, <2>2, SingleMin DEF AuthorityOf
  <2>4. AuthorityOf(es, es[i].body.node) # Unreadable
    BY <2>2 DEF GraphReadable
  <2>5. QED  BY <2>1, <2>3, <2>4
<1>6. ASSUME NEW i \in Defining(es), i # r
      PROVE  \E d \in Defining(es) : Under(es, d, i)
  <2>1. i \in DOMAIN es /\ IsDefinition(es[i].body) /\ es[i].body.event = "spawn"
    BY <1>2, <1>3, <1>6 DEF Defining
  <2>2. PICK p : p = es[i].body.parent
    OBVIOUS
  <2>3. IsDefined(es, p, i)
        /\ NarrowerIfRead(AuthorityOf(es, es[i].body.node), AuthorityOf(es, p))
    BY <2>1, <2>2 DEF MonotoneAt
  <2>4. PICK d \in Definitions(es, p) : d < i
    BY <2>3 DEF IsDefined
  <2>5. d \in Defining(es) /\ es[d].body.node = p
    BY <1>3, <2>4 DEF Definitions
  <2>6. es[i].body.auth \subseteq es[d].body.auth
    BY <1>5, <2>3, <2>5 DEF NarrowerIfRead
  <2>7. QED  BY <2>2, <2>4, <2>5, <2>6 DEF Under
<1>7. QED  BY <1>2, <1>3, <1>4, <1>5, <1>6 DEF IsTree

(* How many nodes and edges *)
LEMMA Injected ==
  ASSUME NEW S, IsFiniteSet(S), NEW f, f = [x \in S |-> f[x]],
         \A x, y \in S : f[x] = f[y] => x = y
  PROVE  /\ IsFiniteSet(Range(f)) /\ Cardinality(Range(f)) = Cardinality(S)
<1>0. f \in [S -> Range(f)] /\ \A y \in Range(f) : \E x \in S : f[x] = y
  BY DEF Range
<1>1. f \in Bijection(S, Range(f))
  BY <1>0 DEF Bijection, Injection, Surjection, IsInjective
<1>2. QED  BY <1>1, FS_Bijection DEF ExistsBijection

LEMMA TreeNodes ==
  ASSUME NEW es, IsSeq(es), NEW r, IsTree(es, r)
  PROVE  /\ IsFiniteSet(Defining(es)) /\ Defining(es) \subseteq 1 .. Len(es)
         /\ GraphNodes(es) = {es[i].body.node : i \in Defining(es)}
         /\ IsFiniteSet(GraphNodes(es))
         /\ Cardinality(GraphNodes(es)) = Cardinality(Defining(es))
<1>1. IsFiniteSet(DOMAIN es) /\ DOMAIN es = 1 .. Len(es)
  <2>1. Len(es) \in Int /\ DOMAIN es = 1 .. Len(es)
    BY SeqIsIndexed
  <2>2. QED  BY <2>1, FS_Interval
<1>2. IsFiniteSet(Defining(es)) /\ Defining(es) \subseteq 1 .. Len(es)
  BY <1>1, FS_Subset DEF Defining
<1>3. GraphNodes(es) = {es[i].body.node : i \in Defining(es)}
  BY DEF IsTree, GraphNodes, Defining
<1>4. PICK f : f = [i \in Defining(es) |-> es[i].body.node]
  OBVIOUS
<1>5. Range(f) = GraphNodes(es)
  BY <1>3, <1>4 DEF Range
<1>6. \A i, j \in Defining(es) : f[i] = f[j] => i = j
  BY <1>4 DEF IsTree
<1>7. IsFiniteSet(Range(f)) /\ Cardinality(Range(f)) = Cardinality(Defining(es))
  BY <1>2, <1>4, <1>6, Injected
<1>8. QED  BY <1>2, <1>3, <1>5, <1>7

LEMMA TreeEdges ==
  ASSUME NEW es, IsSeq(es), NEW r, IsTree(es, r)
  PROVE  /\ GraphEdges(es)
              = {<<es[i].body.parent, es[i].body.node>> : i \in Defining(es) \ {r}}
         /\ Cardinality(GraphEdges(es)) = Cardinality(GraphNodes(es)) - 1
<1>1. IsFiniteSet(Defining(es)) /\ Defining(es) \subseteq 1 .. Len(es)
  BY TreeNodes
<1>2. {k \in DOMAIN es : IsDefinition(es[k].body) /\ es[k].body.event = "spawn"
                          /\ Min(Definitions(es, es[k].body.node)) = k} = Defining(es) \ {r}
  <2>1. ASSUME NEW k \in Defining(es)
        PROVE  Min(Definitions(es, es[k].body.node)) = k
    <3>1. k \in Int /\ Definitions(es, es[k].body.node) = {k}
      BY <1>1 DEF IsTree
    <3>2. QED  BY <3>1, SingleMin
  <2>2. QED  BY <2>1 DEF IsTree, Defining
<1>3. GraphEdges(es) = {<<es[i].body.parent, es[i].body.node>> : i \in Defining(es) \ {r}}
  BY <1>2 DEF GraphEdges
<1>4. PICK f : f = [i \in Defining(es) \ {r} |-> <<es[i].body.parent, es[i].body.node>>]
  OBVIOUS
<1>5. Range(f) = GraphEdges(es)
  BY <1>3, <1>4 DEF Range
<1>6. \A i, j \in Defining(es) \ {r} : f[i] = f[j] => i = j
  BY <1>4 DEF IsTree
<1>7. IsFiniteSet(Defining(es) \ {r})
      /\ Cardinality(Defining(es) \ {r}) = Cardinality(Defining(es)) - 1
  BY <1>1, FS_RemoveElement DEF IsTree
<1>8. Cardinality(Range(f)) = Cardinality(Defining(es) \ {r})
  <2>1. PICK S : S = Defining(es) \ {r}
    OBVIOUS
  <2>2. IsFiniteSet(S) /\ f = [i \in S |-> f[i]] /\ \A i, j \in S : f[i] = f[j] => i = j
    BY <1>4, <1>6, <1>7, <2>1
  <2>3. QED  BY <2>1, <2>2, Injected
<1>9. QED  BY <1>3, <1>5, <1>7, <1>8, TreeNodes

(* All is under the root, and authority only shrinks on the way down. *)
LEMMA RootReaches ==
  ASSUME NEW es, IsSeq(es), NEW r, IsTree(es, r)
  PROVE  Subtree(es, es[r].body.node) = GraphNodes(es)
<1>1. SUFFICES ASSUME NEW S \in SUBSET GraphNodes(es), es[r].body.node \in S,
                      \A edge \in GraphEdges(es) : edge[1] \in S => edge[2] \in S
               PROVE  GraphNodes(es) \subseteq S
  BY DEF Subtree
<1> DEFINE bad == {i \in Defining(es) : es[i].body.node \notin S}
<1>2. Defining(es) \subseteq 1 .. Len(es) /\ GraphNodes(es) = {es[i].body.node : i \in Defining(es)}
  BY TreeNodes
<1>3. SUFFICES ASSUME bad # {} PROVE FALSE
  BY <1>2
<1>4. PICK i \in bad : \A k \in bad : i <= k
  <2>1. bad \subseteq Nat
    BY <1>2
  <2> HIDE DEF bad
  <2>2. QED  BY <1>3, <2>1, LeastNumber
<1>5. i \in Defining(es) /\ i # r /\ es[i].body.node \notin S
  BY <1>1, <1>4
<1>6. PICK d \in Defining(es) : Under(es, d, i)
  BY <1>5 DEF IsTree
<1>7. ~(i <= d)
  BY <1>2, <1>5, <1>6 DEF Under
<1>8. es[d].body.node \in S
  BY <1>4, <1>6, <1>7
<1>9. PICK edge \in GraphEdges(es) : edge = <<es[i].body.parent, es[i].body.node>>
  <2>1. PICK e : e = <<es[i].body.parent, es[i].body.node>>
    OBVIOUS
  <2>2. PICK E : E = GraphEdges(es)
    OBVIOUS
  <2>3. E = {<<es[k].body.parent, es[k].body.node>> : k \in Defining(es) \ {r}}
    BY <2>2, TreeEdges
  <2>4. e \in E
    BY <1>5, <2>1, <2>3
  <2>5. QED  BY <2>1, <2>2, <2>4
<1>10. edge[1] = es[d].body.node /\ edge[2] = es[i].body.node
  BY <1>6, <1>9 DEF Under
<1>11. QED  BY <1>1, <1>5, <1>8, <1>9, <1>10

LEMMA SubtreesNarrow ==
  ASSUME NEW es, IsSeq(es), NEW r, IsTree(es, r),
         NEW n \in GraphNodes(es), NEW m \in Subtree(es, n)
  PROVE  AuthorityOf(es, m) \subseteq AuthorityOf(es, n)
<1> DEFINE S == {x \in GraphNodes(es) : AuthorityOf(es, x) \subseteq AuthorityOf(es, n)}
<1>1. S \in SUBSET GraphNodes(es) /\ n \in S
  OBVIOUS
<1>2. ASSUME NEW edge \in GraphEdges(es), edge[1] \in S
      PROVE  edge[2] \in S
  <2>1. PICK i \in Defining(es) \ {r} : edge = <<es[i].body.parent, es[i].body.node>>
    BY TreeEdges
  <2>2. PICK d \in Defining(es) : Under(es, d, i)
    BY <2>1 DEF IsTree
  <2>3. edge[1] = es[d].body.node /\ edge[2] = es[i].body.node
    BY <2>1, <2>2 DEF Under
  <2>4. AuthorityOf(es, edge[2]) \subseteq AuthorityOf(es, edge[1])
    <3>1. /\ AuthorityOf(es, es[i].body.node) = es[i].body.auth
          /\ AuthorityOf(es, es[d].body.node) = es[d].body.auth
      BY <2>1, <2>2 DEF IsTree
    <3>2. QED  BY <2>2, <2>3, <3>1 DEF Under
  <2>5. edge[2] \in GraphNodes(es)
    BY <2>1, <2>3, TreeNodes
  <2>6. QED  BY <1>2, <2>4, <2>5
<1> HIDE DEF S
<1>3. m \in S
  BY <1>1, <1>2 DEF Subtree
<1>4. QED  BY <1>3 DEF S

-----------------------------------------------------------------------------
(* The drawing of a tree *)
UnderLine(es, line) ==
  {Append(line, i) : i \in {k \in DOMAIN es : /\ es[k].body.event = "spawn"
                                              /\ es[k].body.parent = es[Last(line)].body.node}}
RootLines(es) == {<<i>> : i \in {k \in DOMAIN es : es[k].body.event = "root"}}
Deeper(es, depth, lines) ==
  IF depth = 0 THEN RootLines(es) ELSE UNION {UnderLine(es, line) : line \in lines}

LEMMA DeeperIsLocal ==
  ASSUME NEW es, NEW n, NEW s, NEW t, n # 0 => s = t
  PROVE  Deeper(es, n, s) = Deeper(es, n, t)
BY DEF Deeper

LEMMA DrawnUnfolds ==
  ASSUME NEW es, IsSeq(es)
  PROVE  Drawn(es) = [d \in 0 .. Len(es) |-> Deeper(es, d, Drawn(es)[d - 1])]
<1> DEFINE Is(h, n) == h = [i \in 0 .. n |-> Deeper(es, i, h[i - 1])]
           bad == {n \in Nat : ~\E h : Is(h, n)}
<1>1. bad = {}
  <2>1. SUFFICES ASSUME bad # {} PROVE FALSE
    OBVIOUS
  <2>2. PICK n \in bad : \A k \in bad : n <= k
    <3>1. bad \subseteq Nat
      OBVIOUS
    <3> HIDE DEF bad
    <3>2. QED  BY <2>1, <3>1, LeastNumber
  <2>3. n \in Nat /\ ~\E h : Is(h, n)
    BY <2>2
  <2>4. n # 0
    <3>1. PICK h : h = [i \in 0 .. 0 |-> Deeper(es, 0, {})]
      OBVIOUS
    <3>2. Deeper(es, 0, {}) = Deeper(es, 0, h[0 - 1])
      BY DeeperIsLocal
    <3>3. \A i \in 0 .. 0 : i = 0
      OBVIOUS
    <3>4. h = [i \in 0 .. 0 |-> Deeper(es, i, h[i - 1])]
      BY <3>1, <3>2, <3>3
    <3>5. QED  BY <2>3, <3>4
  <2>5. n - 1 \in Nat /\ ~(n <= n - 1)
    BY <2>3, <2>4
  <2>6. PICK h : Is(h, n - 1)
    BY <2>2, <2>5
  <2>7. PICK g : g = [i \in 0 .. n |-> IF i = n THEN Deeper(es, n, h[n - 1]) ELSE h[i]]
    OBVIOUS
  <2>8. ASSUME NEW i \in 0 .. n
        PROVE  g[i] = Deeper(es, i, g[i - 1])
    <3>1. i # 0 => i - 1 \in 0 .. n /\ i - 1 # n
      BY <2>3
    <3>2. i # 0 => g[i - 1] = h[i - 1]
      BY <2>7, <3>1
    <3>3. Deeper(es, i, g[i - 1]) = Deeper(es, i, h[i - 1])
      BY <3>2, DeeperIsLocal
    <3>4. CASE i = n
      BY <2>7, <3>3, <3>4
    <3>5. CASE i # n
      <4>1. i \in 0 .. n - 1
        BY <2>3, <3>5
      <4>2. g[i] = h[i] /\ h[i] = Deeper(es, i, h[i - 1])
        BY <2>6, <2>7, <3>5, <4>1
      <4>3. QED  BY <3>3, <4>2
    <3>6. QED  BY <3>4, <3>5
  <2>9. Is(g, n)
    BY <2>7, <2>8
  <2>10. QED  BY <2>3, <2>9
<1>2. \E h : Is(h, Len(es))
  BY <1>1, SeqIsIndexed
<1>3. Drawn(es) = CHOOSE h : Is(h, Len(es))
  BY DEF Drawn, Deeper, RootLines, UnderLine
<1> HIDE DEF Is
<1>4. Is(Drawn(es), Len(es))
  BY <1>2, <1>3
<1>5. QED  BY <1>4 DEF Is

LEMMA LastAppended ==
  ASSUME NEW s, IsSeq(s), NEW e
  PROVE  IsSeq(Append(s, e)) /\ Append(s, e) # <<>> /\ Last(Append(s, e)) = e
<1>1. PICK t : t = Append(s, e)
  OBVIOUS
<1>2. /\ IsSeq(t) /\ Len(t) = Len(s) + 1 /\ Len(s) \in Nat
      /\ t = [i \in 1 .. Len(s) + 1 |-> IF i <= Len(s) THEN s[i] ELSE e]
  BY <1>1, Appended, SeqIsIndexed
<1>3. t[Len(t)] = e /\ Len(t) # 0
  BY <1>2
<1>4. QED  BY <1>1, <1>2, <1>3 DEF Last

LEMMA LastOfOne ==
  ASSUME NEW e
  PROVE  IsSeq(<<e>>) /\ <<e>> # <<>> /\ Last(<<e>>) = e
<1>1. PICK s : s = <<e>>
  OBVIOUS
<1>2. s = [i \in 1 .. 1 |-> s[i]] /\ s[1] = e /\ Len(s) = 1 /\ s # <<>>
  BY <1>1
<1>3. QED  BY <1>1, <1>2, IndexedIsSeq DEF Last

(* The only line at the top is that of the root. *)
LEMMA TopLine ==
  ASSUME NEW es, IsSeq(es), NEW r, IsTree(es, r)
  PROVE  Drawn(es)[0] = {<<r>>}
<1>1. 0 \in 0 .. Len(es)
  BY SeqIsIndexed
<1>2. PICK top : top = Drawn(es)[0]
  OBVIOUS
<1>3. top = Deeper(es, 0, Drawn(es)[0 - 1])
  BY <1>1, <1>2, DrawnUnfolds
<1>4. top = {<<i>> : i \in {k \in DOMAIN es : es[k].body.event = "root"}}
  BY <1>3 DEF Deeper, RootLines
<1>5. {k \in DOMAIN es : es[k].body.event = "root"} = {r}
  BY DEF IsTree, Defining
<1>6. QED  BY <1>2, <1>4, <1>5

(* Any other is that of a spawn entry, under a line of its parent. *)
Continues(es, r, up, line) ==
  \E k \in Defining(es) \ {r} :
    line = Append(up, k) /\ es[k].body.parent = es[Last(up)].body.node

LEMMA UnderLineIs ==
  ASSUME NEW es, NEW r, IsTree(es, r), NEW up, NEW line
  PROVE  line \in UnderLine(es, up) <=> Continues(es, r, up, line)
<1>1. {k \in DOMAIN es : es[k].body.event = "spawn"} = Defining(es) \ {r}
  BY DEF IsTree, Defining
<1>2. QED  BY <1>1 DEF UnderLine, Continues

LEMMA LineUnder ==
  ASSUME NEW es, IsSeq(es), NEW r, IsTree(es, r), NEW d \in 1 .. Len(es), NEW line
  PROVE  line \in Drawn(es)[d] <=> \E up \in Drawn(es)[d - 1] : Continues(es, r, up, line)
<1>1. d \in 0 .. Len(es) /\ d # 0
  BY SeqIsIndexed
<1>2. PICK here : here = Drawn(es)[d]
  OBVIOUS
<1>3. PICK above : above = Drawn(es)[d - 1]
  OBVIOUS
<1>4. here = Deeper(es, d, above)
  BY <1>1, <1>2, <1>3, DrawnUnfolds
<1>5. here = UNION {UnderLine(es, up) : up \in above}
  BY <1>1, <1>4 DEF Deeper
<1>6. line \in here <=> \E up \in above : line \in UnderLine(es, up)
  BY <1>5
<1>7. QED  BY <1>2, <1>3, <1>6, UnderLineIs

(* A line ends at an entry no earlier than it is deep. *)
EndsAt(es, d, line) ==
  /\ IsSeq(line) /\ line # <<>>
  /\ Last(line) \in Defining(es) /\ d < Last(line)

LEMMA ParentIsEarlier ==
  ASSUME NEW es, NEW r, IsTree(es, r), NEW d \in Defining(es), NEW k \in Defining(es) \ {r},
         es[k].body.parent = es[d].body.node
  PROVE  d < k
<1>1. PICK c \in Defining(es) : Under(es, c, k)
  BY DEF IsTree
<1>2. c = d
  BY <1>1 DEF IsTree, Under
<1>3. QED  BY <1>1, <1>2 DEF Under

LEMMA LinesEnd ==
  ASSUME NEW es, IsSeq(es), NEW r, IsTree(es, r)
  PROVE  \A d \in 0 .. Len(es) : \A line \in Drawn(es)[d] : EndsAt(es, d, line)
<1> DEFINE bad == {d \in 0 .. Len(es) : ~\A line \in Drawn(es)[d] : EndsAt(es, d, line)}
<1>1. SUFFICES ASSUME bad # {} PROVE FALSE
  OBVIOUS
<1>0. Len(es) \in Nat /\ Defining(es) \subseteq 1 .. Len(es)
  BY SeqIsIndexed, TreeNodes
<1>2. PICK d \in bad : \A k \in bad : d <= k
  <2>1. bad \subseteq Nat
    BY <1>0
  <2> HIDE DEF bad
  <2>2. QED  BY <1>1, <2>1, LeastNumber
<1>3. d \in 0 .. Len(es) /\ ~\A line \in Drawn(es)[d] : EndsAt(es, d, line)
  BY <1>2
<1>4. PICK line \in Drawn(es)[d] : ~EndsAt(es, d, line)
  BY <1>3
<1>5. d # 0
  <2>1. SUFFICES ASSUME d = 0 PROVE FALSE
    OBVIOUS
  <2>2. line = <<r>>
    BY <1>4, <2>1, TopLine
  <2>3. r \in Defining(es) /\ 0 < r
    BY <1>0 DEF IsTree
  <2>4. QED  BY <1>4, <2>1, <2>2, <2>3, LastOfOne DEF EndsAt
<1>6. d \in 1 .. Len(es) /\ d - 1 \in 0 .. Len(es) /\ ~(d <= d - 1)
  BY <1>0, <1>3, <1>5
<1>7. PICK up \in Drawn(es)[d - 1] : Continues(es, r, up, line)
  BY <1>4, <1>6, LineUnder
<1>8. PICK k \in Defining(es) \ {r} :
        line = Append(up, k) /\ es[k].body.parent = es[Last(up)].body.node
  BY <1>7 DEF Continues
<1>9. EndsAt(es, d - 1, up)
  BY <1>2, <1>6
<1>10. IsSeq(up) /\ Last(up) \in Defining(es) /\ d - 1 < Last(up)
  BY <1>9 DEF EndsAt
<1>11. Last(up) < k
  BY <1>8, <1>10, ParentIsEarlier
<1>12. d < k
  BY <1>0, <1>6, <1>8, <1>10, <1>11
<1>13. QED  BY <1>4, <1>8, <1>10, <1>12, LastAppended DEF EndsAt

LEMMA TreeDrawingEnds ==
  ASSUME NEW es, IsSeq(es), NEW r, IsTree(es, r)
  PROVE  DrawingEnds(es)
<1>1. Len(es) \in 0 .. Len(es) /\ Len(es) \in Nat /\ Defining(es) \subseteq 1 .. Len(es)
  BY SeqIsIndexed, TreeNodes
<1>2. ASSUME NEW line \in Drawn(es)[Len(es)]
      PROVE  FALSE
  <2>1. Last(line) \in Defining(es) /\ Len(es) < Last(line)
    BY <1>1, <1>2, LinesEnd DEF EndsAt
  <2>2. QED  BY <1>1, <2>1
<1>3. QED  BY <1>2 DEF DrawingEnds

LEMMA LinesAre ==
  ASSUME NEW es, IsSeq(es), NEW r, IsTree(es, r), NEW line
  PROVE  line \in Lines(es) <=> \E d \in 0 .. Len(es) : line \in Drawn(es)[d]
<1>1. DOMAIN Drawn(es) = 0 .. Len(es)
  BY DrawnUnfolds
<1>2. Range(Drawn(es)) = {Drawn(es)[d] : d \in 0 .. Len(es)}
  BY <1>1 DEF Range
<1>3. QED  BY <1>2 DEF Lines

(* A line is the top one, or goes on from another; and each is drawn. *)
LEMMA LineOf ==
  ASSUME NEW es, IsSeq(es), NEW r, IsTree(es, r), NEW line \in Lines(es)
  PROVE  /\ Last(line) \in Defining(es)
         /\ \/ line = <<r>> /\ Last(line) = r
            \/ /\ Last(line) # r
               /\ \E up \in Lines(es) :
                    /\ line = Append(up, Last(line))
                    /\ Last(up) \in Defining(es)
                    /\ es[Last(line)].body.parent = es[Last(up)].body.node
<1>0. Len(es) \in Nat
  BY SeqIsIndexed
<1>1. PICK d \in 0 .. Len(es) : line \in Drawn(es)[d]
  BY LinesAre
<1>2. Last(line) \in Defining(es)
  BY <1>1, LinesEnd DEF EndsAt
<1>3. CASE d = 0
  <2>1. line = <<r>>
    BY <1>1, <1>3, TopLine
  <2>2. QED  BY <1>2, <2>1, LastOfOne
<1>4. CASE d # 0
  <2>1. d \in 1 .. Len(es) /\ d - 1 \in 0 .. Len(es)
    BY <1>0, <1>4
  <2>2. PICK up \in Drawn(es)[d - 1] : Continues(es, r, up, line)
    BY <1>1, <2>1, LineUnder
  <2>3. PICK k \in Defining(es) \ {r} :
          line = Append(up, k) /\ es[k].body.parent = es[Last(up)].body.node
    BY <2>2 DEF Continues
  <2>4. EndsAt(es, d - 1, up) /\ up \in Lines(es)
    BY <2>1, <2>2, LinesEnd, LinesAre
  <2>5. Last(line) = k
    BY <2>3, <2>4, LastAppended DEF EndsAt
  <2>6. QED  BY <1>2, <2>3, <2>4, <2>5 DEF EndsAt
<1>5. QED  BY <1>3, <1>4

LEMMA OneLineEach ==
  ASSUME NEW es, IsSeq(es), NEW r, IsTree(es, r),
         NEW x \in Lines(es), NEW y \in Lines(es), Last(x) = Last(y)
  PROVE  x = y
<1>0. Defining(es) \subseteq 1 .. Len(es) /\ Len(es) \in Nat
  BY SeqIsIndexed, TreeNodes
<1> DEFINE bad == {i \in Defining(es) : \E s, t \in Lines(es) : Last(s) = i /\ Last(t) = i /\ s # t}
<1>1. SUFFICES ASSUME bad # {} PROVE FALSE
  <2>1. Last(x) \in Defining(es)
    BY LineOf
  <2>2. QED  BY <2>1
<1>2. PICK i \in bad : \A k \in bad : i <= k
  <2>1. bad \subseteq Nat
    BY <1>0
  <2> HIDE DEF bad
  <2>2. QED  BY <1>1, <2>1, LeastNumber
<1>3. i \in Defining(es) /\ \E s, t \in Lines(es) : Last(s) = i /\ Last(t) = i /\ s # t
  BY <1>2
<1>4. PICK s \in Lines(es), t \in Lines(es) : Last(s) = i /\ Last(t) = i /\ s # t
  BY <1>3
<1>5. i # r
  <2>1. i = r => s = <<r>> /\ t = <<r>>
    BY <1>4, LineOf
  <2>2. QED  BY <1>4, <2>1
<1>6. PICK u \in Lines(es) : s = Append(u, i) /\ Last(u) \in Defining(es)
                             /\ es[i].body.parent = es[Last(u)].body.node
  <2>1. Last(s) # r
    BY <1>4, <1>5
  <2>2. PICK w \in Lines(es) : s = Append(w, Last(s)) /\ Last(w) \in Defining(es)
                               /\ es[Last(s)].body.parent = es[Last(w)].body.node
    BY <2>1, LineOf
  <2>3. QED  BY <1>4, <2>2
<1>7. PICK v \in Lines(es) : t = Append(v, i) /\ Last(v) \in Defining(es)
                             /\ es[i].body.parent = es[Last(v)].body.node
  <2>1. Last(t) # r
    BY <1>4, <1>5
  <2>2. PICK w \in Lines(es) : t = Append(w, Last(t)) /\ Last(w) \in Defining(es)
                               /\ es[Last(t)].body.parent = es[Last(w)].body.node
    BY <2>1, LineOf
  <2>3. QED  BY <1>4, <2>2
<1>8. Last(u) = Last(v)
  BY <1>6, <1>7 DEF IsTree
<1>9. Last(u) < i
  BY <1>3, <1>5, <1>6, ParentIsEarlier
<1>10. ~(i <= Last(u))
  BY <1>0, <1>3, <1>6, <1>9
<1>11. Last(u) \notin bad
  BY <1>2, <1>10
<1>12. u = v
  BY <1>6, <1>8, <1>11
<1>13. QED  BY <1>4, <1>6, <1>7, <1>12

LEMMA ALineEach ==
  ASSUME NEW es, IsSeq(es), NEW r, IsTree(es, r), NEW n \in Defining(es)
  PROVE  \E line \in Lines(es) : Last(line) = n
<1>0. Defining(es) \subseteq 1 .. Len(es) /\ Len(es) \in Nat
  BY SeqIsIndexed, TreeNodes
<1> DEFINE bad == {i \in Defining(es) : ~\E line \in Lines(es) : Last(line) = i}
<1>1. SUFFICES ASSUME bad # {} PROVE FALSE
  OBVIOUS
<1>2. PICK i \in bad : \A k \in bad : i <= k
  <2>1. bad \subseteq Nat
    BY <1>0
  <2> HIDE DEF bad
  <2>2. QED  BY <1>1, <2>1, LeastNumber
<1>3. i \in Defining(es) /\ ~\E line \in Lines(es) : Last(line) = i
  BY <1>2
<1>4. i # r
  <2>1. <<r>> \in Drawn(es)[0] /\ 0 \in 0 .. Len(es)
    BY <1>0, TopLine
  <2>2. <<r>> \in Lines(es)
    BY <2>1, LinesAre
  <2>3. QED  BY <1>3, <2>2, LastOfOne
<1>5. PICK d \in Defining(es) : Under(es, d, i)
  BY <1>3, <1>4 DEF IsTree
<1>6. d \notin bad
  <2>1. ~(i <= d)
    BY <1>0, <1>3, <1>5 DEF Under
  <2>2. QED  BY <1>2, <2>1
<1>7. PICK up \in Lines(es) : Last(up) = d
  BY <1>5, <1>6
<1> HIDE DEF bad
<1>8. PICK e \in 0 .. Len(es) : up \in Drawn(es)[e]
  BY <1>7, LinesAre
<1>9. EndsAt(es, e, up)
  BY <1>8, LinesEnd
<1>10. IsSeq(up) /\ e < d
  BY <1>7, <1>9 DEF EndsAt
<1>11. e + 1 \in 1 .. Len(es) /\ e + 1 \in 0 .. Len(es)
  <2>1. e < d /\ d < i /\ i <= Len(es) /\ e \in Nat /\ d \in Nat /\ i \in Nat
    BY <1>0, <1>3, <1>5, <1>8, <1>10 DEF Under
  <2>2. QED  BY <1>0, <2>1
<1>12. PICK line : line = Append(up, i)
  OBVIOUS
<1>13. Continues(es, r, up, line)
  BY <1>3, <1>4, <1>5, <1>7, <1>12 DEF Continues, Under
<1>14. line \in Drawn(es)[e + 1]
  <2>1. PICK k \in 1 .. Len(es) : k = e + 1 /\ k - 1 = e
    BY <1>8, <1>11
  <2>2. line \in Drawn(es)[k]
    BY <1>8, <1>13, <2>1, LineUnder
  <2>3. QED  BY <2>1, <2>2
<1>15. line \in Lines(es)
  BY <1>11, <1>14, LinesAre
<1>16. Last(line) = i
  BY <1>10, <1>12, LastAppended
<1>17. QED  BY <1>3, <1>15, <1>16

(* The drawing has as many lines as the tree has nodes. *)
LEMMA EachNodeOnce ==
  ASSUME NEW es, IsSeq(es), NEW r, IsTree(es, r)
  PROVE  Cardinality(Lines(es)) = Cardinality(GraphNodes(es))
<1>1. PICK f : f = [i \in Defining(es) |-> CHOOSE line \in Lines(es) : Last(line) = i]
  OBVIOUS
<1>2. \A i \in Defining(es) : f[i] \in Lines(es) /\ Last(f[i]) = i
  BY <1>1, ALineEach
<1>3. \A i, j \in Defining(es) : f[i] = f[j] => i = j
  BY <1>2
<1>4. Range(f) = Lines(es)
  <2>1. Range(f) = {f[i] : i \in Defining(es)}
    BY <1>1 DEF Range
  <2>2. ASSUME NEW line \in Lines(es)
        PROVE  line \in Range(f)
    <3>1. Last(line) \in Defining(es)
      BY LineOf
    <3>2. f[Last(line)] \in Lines(es) /\ Last(f[Last(line)]) = Last(line)
      BY <1>2, <3>1
    <3>3. f[Last(line)] = line
      BY <3>2, OneLineEach
    <3>4. QED  BY <2>1, <3>1, <3>3
  <2>3. QED  BY <1>2, <2>1, <2>2
<1>5. PICK S : S = Defining(es)
  OBVIOUS
<1>6. IsFiniteSet(S) /\ f = [i \in S |-> f[i]] /\ \A i, j \in S : f[i] = f[j] => i = j
  BY <1>1, <1>3, <1>5, TreeNodes
<1>7. Cardinality(Range(f)) = Cardinality(S)
  BY <1>6, Injected
<1>8. QED  BY <1>4, <1>5, <1>7, TreeNodes

-----------------------------------------------------------------------------
(* The calls of a ledger that is accepted *)

LEMMA AllowsContained ==
  ASSUME NEW es, IsSeq(es), NEW r, IsTree(es, r), NEW i \in DOMAIN es, ContainedAt(es, i),
         es[i].body.event = "allow", ~IsUngated(es[i].body),
         NEW n \in GraphNodes(es), es[i].body.node \in Subtree(es, n)
  PROVE  es[i].body.act \in AuthorityOf(es, n)
<1>1. es[i].body.act \in AuthorityOf(es, es[i].body.node)
  BY DEF ContainedAt
<1>2. PICK m \in Subtree(es, n) : m = es[i].body.node
  OBVIOUS
<1>3. AuthorityOf(es, m) \subseteq AuthorityOf(es, n)
  BY SubtreesNarrow
<1>4. QED  BY <1>1, <1>2, <1>3

LEMMA BoundIsEarlier ==
  ASSUME NEW es, IsSeq(es), ChainVerifies(es), NEW i \in DOMAIN es, NEW j \in DOMAIN es,
         BoundTo(es[i], es[j])
  PROVE  j \in 1 .. i - 1
<1>1. Len(es) \in Nat /\ i \in 1 .. Len(es) /\ j \in 1 .. Len(es)
  BY SeqIsIndexed
<1>2. es[i].seq = i - 1 /\ es[j].seq = j - 1
  BY DEF ChainVerifies
<1>3. es[j].seq < es[i].seq
  BY DEF BoundTo
<1>4. QED  BY <1>1, <1>2, <1>3

(* The calls a coverage is counted of, and those of them it covers. *)
Counted(es) == {i \in DOMAIN es : es[i].body.event = "allow" /\ ValidAllow(es[i].body)}
InvokedBy(es, o, call) ==
  /\ es[o].body.event = "outcome" /\ ValidOutcome(es[o].body)
  /\ es[o].body.call = call /\ "invoked_params_hash" \in es[o].body.members
Covered(es, i) ==
  /\ "authorized_params_hash" \in es[i].body.members
  /\ \E o \in DOMAIN es : InvokedBy(es, o, es[i].body.call)

LEMMA CompleteCovers ==
  ASSUME NEW es, ParamsCoverage(es) = "complete", NEW i \in Counted(es)
  PROVE  Covered(es, i)
<1> DEFINE both == {k \in Counted(es) : Covered(es, k)}
<1>1. ParamsCoverage(es)
        = IF both = {} THEN "none" ELSE IF both = Counted(es) THEN "complete" ELSE "partial"
  BY DEF ParamsCoverage, Counted, Covered, InvokedBy
<1> HIDE DEF both
<1>2. both = Counted(es)
  BY <1>1
<1>3. QED  BY <1>2 DEF both

LEMMA CoveredCallRan ==
  ASSUME NEW b, IsSeq(b.entries), ChainVerifies(b.entries), b.v = 2, BindingOk(b),
         ParamsCoverage(b.entries) = "complete",
         NEW i \in DOMAIN b.entries, b.entries[i].body.event = "allow"
  PROVE  \E j \in i + 1 .. Len(b.entries) :
           LET es == b.entries
           IN  /\ es[j].body.event = "outcome" /\ es[j].body.node = es[i].body.node
               /\ es[j].body.call = es[i].body.call /\ es[j].body.params = es[i].body.params
<1>1. PICK es : es = b.entries
  OBVIOUS
<1>2. /\ \A k \in DOMAIN es : Valid(es[k].body)
      /\ \A k, l \in DOMAIN es : k # l => ~SameCall(es[k].body, es[l].body)
      /\ \A k \in DOMAIN es : es[k].body.event = "outcome" => \E l \in DOMAIN es : BoundTo(es[k], es[l])
  BY <1>1 DEF BindingOk
<1>3. \A k \in DOMAIN es : es[k].body.event = "allow" => ValidAllow(es[k].body)
  BY <1>2 DEF Valid
<1>4. Covered(es, i)
  BY <1>1, <1>3, CompleteCovers DEF Counted
<1>5. PICK o \in DOMAIN es : InvokedBy(es, o, es[i].body.call)
  BY <1>4 DEF Covered
<1>6. PICK a \in DOMAIN es : BoundTo(es[o], es[a])
  BY <1>2, <1>5 DEF InvokedBy
<1>7. a = i
  <2>1. ValidAllow(es[a].body) /\ ValidAllow(es[i].body)
    BY <1>1, <1>3, <1>6 DEF BoundTo
  <2>2. "call_id" \in es[a].body.members \cap es[i].body.members
    BY <2>1 DEF ValidAllow, Good
  <2>3. SameCall(es[a].body, es[i].body)
    BY <1>1, <1>5, <1>6, <2>2 DEF BoundTo, InvokedBy, SameCall
  <2>4. QED  BY <1>1, <1>2, <2>3
<1>8. es[i].body.params = es[o].body.params
  BY <1>4, <1>5, <1>6, <1>7 DEF BoundTo, ParamsAgree, Covered, InvokedBy
<1>9. o \in i + 1 .. Len(es)
  <2>1. i \in 1 .. o - 1
    BY <1>1, <1>6, <1>7, BoundIsEarlier
  <2>2. Len(es) \in Nat /\ o \in 1 .. Len(es) /\ i \in 1 .. Len(es)
    BY <1>1, SeqIsIndexed
  <2>3. QED  BY <2>1, <2>2
<1>10. QED  BY <1>1, <1>5, <1>6, <1>7, <1>8, <1>9 DEF BoundTo, InvokedBy

-----------------------------------------------------------------------------
LEMMA AcceptedNarrows ==
  ASSUME bundle # NoBundle, IsLedger(bundle.entries), LedgerOk(bundle)
  PROVE  AcceptedIsNarrowing
<1>1. PICK es : es = bundle.entries
  OBVIOUS
<1>2. Entries = es /\ IsSeq(es)
  BY <1>1 DEF Entries, IsLedger
<1>3. /\ RootOk(es) /\ GraphReadable(es) /\ ChainVerifies(es) /\ BindingOk(bundle)
      /\ \A i \in DOMAIN es : MonotoneAt(es, i) /\ ContainedAt(es, i)
  BY <1>1 DEF LedgerOk
<1>4. PICK r : IsTree(es, r)
  BY <1>2, <1>3, AcceptedIsTree
<1> DEFINE roots == {es[i].body.node : i \in {k \in DOMAIN es : es[k].body.event = "root"}}
<1>5. roots = {es[r].body.node}
  <2>1. {k \in DOMAIN es : es[k].body.event = "root"} = {r}
    BY <1>4 DEF IsTree, Defining
  <2>2. QED  BY <2>1
<1> HIDE DEF roots
<1>6. Cardinality(roots) = 1 /\ Cardinality(GraphEdges(es)) = Cardinality(GraphNodes(es)) - 1
  BY <1>2, <1>4, <1>5, FS_Singleton, TreeEdges
<1>7. \A q \in roots : Subtree(es, q) = GraphNodes(es)
  BY <1>2, <1>4, <1>5, RootReaches
<1>8. \A i \in DOMAIN es :
        (es[i].body.event = "allow" /\ ~IsUngated(es[i].body)) =>
           \A n \in GraphNodes(es) :
             es[i].body.node \in Subtree(es, n) => es[i].body.act \in AuthorityOf(es, n)
  BY <1>2, <1>3, <1>4, AllowsContained
<1>9. DrawingEnds(es) /\ Cardinality(Lines(es)) = Cardinality(GraphNodes(es))
  BY <1>2, <1>4, TreeDrawingEnds, EachNodeOnce
<1>10. bundle.v = 2 => \A i \in DOMAIN es : es[i].body.event = "outcome" =>
         \E j \in 1 .. i - 1 : es[j].body.event = "allow" /\ es[j].body.call = es[i].body.call
  <2>1. SUFFICES ASSUME bundle.v = 2, NEW i \in DOMAIN es, es[i].body.event = "outcome"
                 PROVE  \E j \in 1 .. i - 1 : es[j].body.event = "allow"
                                              /\ es[j].body.call = es[i].body.call
    OBVIOUS
  <2>2. PICK j \in DOMAIN es : BoundTo(es[i], es[j])
    BY <1>1, <1>3, <2>1 DEF BindingOk
  <2>3. j \in 1 .. i - 1
    BY <1>2, <1>3, <2>2, BoundIsEarlier
  <2>4. QED  BY <2>2, <2>3 DEF BoundTo
<1>11. (bundle.v = 2 /\ ParamsCoverage(es) = "complete") =>
         \A i \in DOMAIN es : es[i].body.event = "allow" =>
           \E j \in i + 1 .. Len(es) :
             /\ es[j].body.event = "outcome" /\ es[j].body.node = es[i].body.node
             /\ es[j].body.call = es[i].body.call /\ es[j].body.params = es[i].body.params
  <2>1. SUFFICES ASSUME bundle.v = 2, ParamsCoverage(es) = "complete",
                        NEW i \in DOMAIN es, es[i].body.event = "allow"
                 PROVE  \E j \in i + 1 .. Len(es) :
                          /\ es[j].body.event = "outcome" /\ es[j].body.node = es[i].body.node
                          /\ es[j].body.call = es[i].body.call
                          /\ es[j].body.params = es[i].body.params
    OBVIOUS
  <2>2. QED  BY <1>1, <1>2, <1>3, <2>1, CoveredCallRan
<1>12. QED
  BY <1>2, <1>6, <1>7, <1>8, <1>9, <1>10, <1>11 DEF AcceptedIsNarrowing, roots

(* Any ledger the verifier accepts, forged or not, is a tree under its root *)
(* in which every gated allow is within the authority of all above it,      *)
(* every outcome has its allow and, with complete coverage, every allow an  *)
(* outcome with the parameters authorized; the view of it ends, and draws   *)
(* each node once.                                                          *)
THEOREM AcceptedAreNarrowing == Spec => []AcceptedIsNarrowing
<1>1. IInv => AcceptedIsNarrowing
  <2>1. SUFFICES ASSUME IInv, bundle # NoBundle, LedgerOk(bundle)
                 PROVE  AcceptedIsNarrowing
    BY DEF AcceptedIsNarrowing
  <2>2. IsLedger(bundle.entries)
    BY <2>1 DEF IInv, BundleInv, IsBundle
  <2>3. QED  BY <2>1, <2>2, AcceptedNarrows
<1>2. QED  BY <1>1, Invariance, PTL

-----------------------------------------------------------------------------
(* A part of a ledger that is accepted, with its tasks masked or not *)

Alike(x, y) ==
  /\ x.v = y.v /\ x.chain = y.chain /\ x.event = y.event /\ x.node = y.node
  /\ x.parent = y.parent /\ x.auth = y.auth /\ x.act = y.act /\ x.call = y.call
  /\ x.revoked = y.revoked /\ x.state = y.state /\ x.params = y.params
  /\ x.members = y.members /\ x.malformed = y.malformed

(* fs says what the first entries of es say, but for the tasks. *)
Says(fs, es) ==
  /\ IsSeq(fs) /\ IsSeq(es) /\ Len(fs) <= Len(es)
  /\ \A i \in DOMAIN fs : Alike(fs[i].body, es[i].body)

LEMMA SaysWithin ==
  ASSUME NEW fs, NEW es, Says(fs, es)
  PROVE  /\ Len(fs) \in Nat /\ DOMAIN fs = 1 .. Len(fs)
         /\ Len(es) \in Nat /\ DOMAIN es = 1 .. Len(es)
         /\ \A i \in DOMAIN fs : i \in DOMAIN es /\ Alike(fs[i].body, es[i].body)
         /\ \A i \in DOMAIN fs : \A j \in DOMAIN es : j < i => j \in DOMAIN fs
BY SeqIsIndexed DEF Says

LEMMA AlikeForms ==
  ASSUME NEW x, NEW y, Alike(x, y)
  PROVE  /\ IsDefinition(x) <=> IsDefinition(y)
         /\ IsUngated(x) <=> IsUngated(y)
         /\ Valid(x) <=> Valid(y)
BY DEF Alike, IsDefinition, IsUngated, Valid, ValidAllow, ValidDeny, ValidOutcome, Good, NotBoth

LEMMA SaysDefined ==
  ASSUME NEW fs, NEW es, Says(fs, es), NEW n, NEW i \in DOMAIN fs
  PROVE  /\ IsDefined(fs, n, i) <=> IsDefined(es, n, i)
         /\ IsRevoked(fs, n, i) <=> IsRevoked(es, n, i)
<1>0. /\ Len(fs) \in Nat /\ DOMAIN fs = 1 .. Len(fs)
      /\ Len(es) \in Nat /\ DOMAIN es = 1 .. Len(es)
      /\ \A k \in DOMAIN fs : k \in DOMAIN es /\ Alike(fs[k].body, es[k].body)
      /\ \A j \in DOMAIN es : j < i => j \in DOMAIN fs
  BY SaysWithin
<1>1. \A k \in DOMAIN fs :
        (IsDefinition(fs[k].body) <=> IsDefinition(es[k].body)) /\ fs[k].body.node = es[k].body.node
  BY <1>0, AlikeForms DEF Alike
<1>2. IsDefined(fs, n, i) <=> IsDefined(es, n, i)
  BY <1>0, <1>1 DEF IsDefined, Definitions
<1>3. \A k \in 1 .. i - 1 : k \in DOMAIN fs
  BY <1>0
<1>4. \A k \in 1 .. i - 1 : fs[k].body.event = es[k].body.event /\ fs[k].body.revoked = es[k].body.revoked
  BY <1>0, <1>3 DEF Alike
<1>5. IsRevoked(fs, n, i) <=> IsRevoked(es, n, i)
  BY <1>4 DEF IsRevoked
<1>6. QED  BY <1>2, <1>5

LEMMA SaysAuthority ==
  ASSUME NEW fs, NEW es, Says(fs, es), NEW r, IsTree(es, r),
         NEW i \in DOMAIN fs, IsDefinition(fs[i].body)
  PROVE  AuthorityOf(fs, fs[i].body.node) = AuthorityOf(es, fs[i].body.node)
<1>0. /\ DOMAIN fs = 1 .. Len(fs) /\ Len(fs) \in Nat
      /\ \A k \in DOMAIN fs : k \in DOMAIN es /\ Alike(fs[k].body, es[k].body)
  BY SaysWithin
<1>1. \A k \in DOMAIN fs :
        (IsDefinition(fs[k].body) <=> IsDefinition(es[k].body)) /\ fs[k].body.node = es[k].body.node
  BY <1>0, AlikeForms DEF Alike
<1>2. i \in Defining(es)
  BY <1>0, <1>1 DEF IsTree
<1>3. Definitions(es, es[i].body.node) = {i} /\ AuthorityOf(es, es[i].body.node) = es[i].body.auth
  BY <1>2 DEF IsTree
<1>4. Definitions(fs, fs[i].body.node) = {i}
  BY <1>0, <1>1, <1>3 DEF Definitions
<1>5. i \in Int /\ fs[i].body.auth = es[i].body.auth
  BY <1>0 DEF Alike
<1>6. QED  BY <1>1, <1>3, <1>4, <1>5, SingleMin DEF AuthorityOf

LEMMA SaysRoot ==
  ASSUME NEW fs, NEW es, Says(fs, es), fs # <<>>, NEW r, IsTree(es, r),
         es[1].body.event = "root"
  PROVE  {i \in DOMAIN fs : fs[i].body.event = "root"} = {1} /\ r = 1
<1>0. /\ DOMAIN fs = 1 .. Len(fs) /\ Len(fs) \in Nat
      /\ \A k \in DOMAIN fs : k \in DOMAIN es /\ Alike(fs[k].body, es[k].body)
  BY SaysWithin
<1>1. Len(fs) # 0
  BY EmptySeq DEF Says, IsSeq
<1>2. 1 \in DOMAIN fs /\ 1 \in DOMAIN es
  BY <1>0, <1>1
<1>3. {i \in DOMAIN es : es[i].body.event = "root"} = {r}
  BY DEF IsTree, Defining
<1>4. r = 1
  BY <1>2, <1>3
<1>5. \A k \in DOMAIN fs : fs[k].body.event = es[k].body.event
  BY <1>0 DEF Alike
<1>6. PICK roots : roots = {i \in DOMAIN fs : fs[i].body.event = "root"}
  OBVIOUS
<1>7. 1 \in roots
  BY <1>2, <1>5, <1>6
<1>8. ASSUME NEW k \in roots
      PROVE  k = 1
  <2>1. k \in DOMAIN fs /\ k \in DOMAIN es /\ es[k].body.event = "root"
    BY <1>0, <1>5, <1>6, <1>8
  <2>2. k \in {i \in DOMAIN es : es[i].body.event = "root"}
    BY <2>1
  <2>3. QED  BY <1>3, <1>4, <2>2
<1>9. roots = {1}
  BY <1>7, <1>8
<1>10. QED  BY <1>4, <1>6, <1>9

LEMMA SaysGraph ==
  ASSUME NEW fs, NEW es, Says(fs, es), fs # <<>>, NEW r, IsTree(es, r),
         es[1].body.event = "root", GraphReadable(es),
         \A i \in DOMAIN es : MonotoneAt(es, i) /\ ContainedAt(es, i)
  PROVE  /\ RootOk(fs) /\ GraphReadable(fs)
         /\ \A i \in DOMAIN fs : MonotoneAt(fs, i) /\ ContainedAt(fs, i)
<1>0. /\ DOMAIN fs = 1 .. Len(fs) /\ Len(fs) \in Nat
      /\ \A k \in DOMAIN fs : k \in DOMAIN es /\ Alike(fs[k].body, es[k].body)
      /\ \A i \in DOMAIN fs : \A j \in DOMAIN es : j < i => j \in DOMAIN fs
  BY SaysWithin
<1>1. RootOk(fs)
  <2>1. {i \in DOMAIN fs : fs[i].body.event = "root"} = {1}
    BY SaysRoot
  <2>2. Cardinality({1}) = 1
    BY FS_Singleton
  <2>3. QED  BY <2>1, <2>2 DEF RootOk
<1>2. ASSUME NEW i \in DOMAIN fs
      PROVE  IsDefinition(fs[i].body) <=> IsDefinition(es[i].body)
  BY <1>0, AlikeForms
<1>3. GraphReadable(fs)
  <2>1. SUFFICES ASSUME NEW i \in DOMAIN fs, fs[i].body.event \in {"root", "spawn"}
                 PROVE  /\ "node" \notin fs[i].body.malformed
                        /\ AuthorityOf(fs, fs[i].body.node) # Unreadable
    BY DEF GraphReadable
  <2>2. /\ fs[i].body.event = es[i].body.event /\ fs[i].body.node = es[i].body.node
        /\ fs[i].body.malformed = es[i].body.malformed /\ i \in DOMAIN es
    BY <1>0 DEF Alike
  <2>3. /\ "node" \notin es[i].body.malformed
        /\ AuthorityOf(es, es[i].body.node) # Unreadable
    BY <2>1, <2>2 DEF GraphReadable
  <2>4. IsDefinition(fs[i].body)
    BY <2>1, <2>2, <2>3 DEF IsDefinition
  <2>5. QED  BY <2>2, <2>3, <2>4, SaysAuthority
<1>4. ASSUME NEW i \in DOMAIN fs, NEW n, IsDefined(fs, n, i)
      PROVE  AuthorityOf(fs, n) = AuthorityOf(es, n)
  <2>1. PICK d \in DOMAIN fs : IsDefinition(fs[d].body) /\ fs[d].body.node = n
    BY <1>4 DEF IsDefined, Definitions
  <2>2. QED  BY <2>1, SaysAuthority
<1>5. ASSUME NEW i \in DOMAIN fs
      PROVE  MonotoneAt(fs, i)
  <2>1. SUFFICES ASSUME IsDefinition(fs[i].body)
                 PROVE  /\ ~IsDefined(fs, fs[i].body.node, i)
                        /\ fs[i].body.event = "spawn" =>
                             /\ IsDefined(fs, fs[i].body.parent, i)
                             /\ ~IsRevoked(fs, fs[i].body.parent, i)
                             /\ NarrowerIfRead(AuthorityOf(fs, fs[i].body.node),
                                               AuthorityOf(fs, fs[i].body.parent))
    BY DEF MonotoneAt
  <2>2. /\ fs[i].body.event = es[i].body.event /\ fs[i].body.node = es[i].body.node
        /\ fs[i].body.parent = es[i].body.parent /\ i \in DOMAIN es
    BY <1>0 DEF Alike
  <2>3. /\ ~IsDefined(es, es[i].body.node, i)
        /\ es[i].body.event = "spawn" =>
             /\ IsDefined(es, es[i].body.parent, i)
             /\ ~IsRevoked(es, es[i].body.parent, i)
             /\ NarrowerIfRead(AuthorityOf(es, es[i].body.node), AuthorityOf(es, es[i].body.parent))
    BY <1>2, <2>1, <2>2 DEF MonotoneAt
  <2>4. ~IsDefined(fs, fs[i].body.node, i)
    BY <2>2, <2>3, SaysDefined
  <2>5. ASSUME fs[i].body.event = "spawn"
        PROVE  /\ IsDefined(fs, fs[i].body.parent, i)
               /\ ~IsRevoked(fs, fs[i].body.parent, i)
               /\ NarrowerIfRead(AuthorityOf(fs, fs[i].body.node),
                                 AuthorityOf(fs, fs[i].body.parent))
    <3>1. IsDefined(fs, fs[i].body.parent, i) /\ ~IsRevoked(fs, fs[i].body.parent, i)
      BY <2>2, <2>3, <2>5, SaysDefined
    <3>2. AuthorityOf(fs, fs[i].body.parent) = AuthorityOf(es, fs[i].body.parent)
      BY <1>4, <3>1
    <3>3. AuthorityOf(fs, fs[i].body.node) = AuthorityOf(es, fs[i].body.node)
      BY <2>1, SaysAuthority
    <3>4. NarrowerIfRead(AuthorityOf(es, fs[i].body.node), AuthorityOf(es, fs[i].body.parent))
      BY <2>2, <2>3, <2>5
    <3>5. QED  BY <3>1, <3>2, <3>3, <3>4
  <2>6. QED  BY <2>4, <2>5
<1>6. ASSUME NEW i \in DOMAIN fs
      PROVE  ContainedAt(fs, i)
  <2>1. /\ fs[i].body.event = es[i].body.event /\ fs[i].body.node = es[i].body.node
        /\ fs[i].body.act = es[i].body.act /\ fs[i].body.malformed = es[i].body.malformed
        /\ (IsUngated(fs[i].body) <=> IsUngated(es[i].body)) /\ i \in DOMAIN es
    BY <1>0, AlikeForms DEF Alike
  <2>2. SUFFICES ASSUME fs[i].body.event = "allow", ~IsUngated(fs[i].body)
                 PROVE  /\ "node" \notin fs[i].body.malformed
                        /\ IsDefined(fs, fs[i].body.node, i)
                        /\ ~IsRevoked(fs, fs[i].body.node, i)
                        /\ AuthorityOf(fs, fs[i].body.node) # Unreadable
                        /\ fs[i].body.act \in AuthorityOf(fs, fs[i].body.node)
    BY DEF ContainedAt
  <2>3. /\ "node" \notin es[i].body.malformed
        /\ IsDefined(es, es[i].body.node, i)
        /\ ~IsRevoked(es, es[i].body.node, i)
        /\ AuthorityOf(es, es[i].body.node) # Unreadable
        /\ es[i].body.act \in AuthorityOf(es, es[i].body.node)
    BY <2>1, <2>2 DEF ContainedAt
  <2>4. IsDefined(fs, fs[i].body.node, i) /\ ~IsRevoked(fs, fs[i].body.node, i)
    BY <2>1, <2>3, SaysDefined
  <2>5. AuthorityOf(fs, fs[i].body.node) = AuthorityOf(es, fs[i].body.node)
    BY <1>4, <2>4
  <2>6. QED  BY <2>1, <2>3, <2>4, <2>5
<1>7. QED  BY <1>1, <1>3, <1>5, <1>6

(* The seqs of a chain that verifies are its positions. *)
LEMMA SeqsAre ==
  ASSUME NEW es, IsSeq(es), ChainVerifies(es)
  PROVE  \A i \in DOMAIN es : i \in Nat /\ es[i].seq = i - 1
BY SeqIsIndexed DEF ChainVerifies

LEMMA SaysBinding ==
  ASSUME NEW b, NEW c, Says(c.entries, b.entries), c.v = b.v, BindingOk(b),
         ChainVerifies(c.entries), ChainVerifies(b.entries)
  PROVE  BindingOk(c)
<1>1. PICK es : es = b.entries
  OBVIOUS
<1>2. PICK fs : fs = c.entries
  OBVIOUS
<1>0. /\ Says(fs, es) /\ IsSeq(fs) /\ IsSeq(es) /\ ChainVerifies(fs) /\ ChainVerifies(es)
      /\ \A k \in DOMAIN fs : k \in DOMAIN es /\ Alike(fs[k].body, es[k].body)
      /\ \A i \in DOMAIN fs : \A j \in DOMAIN es : j < i => j \in DOMAIN fs
  BY <1>1, <1>2, SaysWithin DEF Says
<1>3. CASE b.v = 1
  <2>1. NoV2Field(es)
    BY <1>1, <1>3 DEF BindingOk
  <2>2. NoV2Field(fs)
    BY <1>0, <2>1 DEF NoV2Field, Alike
  <2>3. QED  BY <1>2, <1>3, <2>2 DEF BindingOk
<1>4. CASE b.v # 1
  <2>1. /\ \A i \in DOMAIN es : Valid(es[i].body)
        /\ \A i, j \in DOMAIN es : i # j => ~SameCall(es[i].body, es[j].body)
        /\ \A i \in DOMAIN es :
             es[i].body.event = "outcome" => \E j \in DOMAIN es : BoundTo(es[i], es[j])
    BY <1>1, <1>4 DEF BindingOk
  <2>2. \A i \in DOMAIN fs : Valid(fs[i].body)
    BY <1>0, <2>1, AlikeForms
  <2>3. ASSUME NEW i \in DOMAIN fs, NEW j \in DOMAIN fs, i # j
        PROVE  ~SameCall(fs[i].body, fs[j].body)
    <3>1. ~SameCall(es[i].body, es[j].body)
      BY <1>0, <2>1, <2>3
    <3>2. Alike(fs[i].body, es[i].body) /\ Alike(fs[j].body, es[j].body)
      BY <1>0
    <3>3. QED  BY <3>1, <3>2 DEF SameCall, Alike
  <2>4. ASSUME NEW i \in DOMAIN fs, fs[i].body.event = "outcome"
        PROVE  \E j \in DOMAIN fs : BoundTo(fs[i], fs[j])
    <3>1. i \in DOMAIN es /\ Alike(fs[i].body, es[i].body)
      BY <1>0
    <3>2. PICK j \in DOMAIN es : BoundTo(es[i], es[j])
      BY <2>1, <2>4, <3>1 DEF Alike
    <3>3. es[j].seq < es[i].seq
      BY <3>2 DEF BoundTo
    <3>4. j < i
      BY <1>0, <3>1, <3>3, SeqsAre
    <3>5. j \in DOMAIN fs /\ Alike(fs[j].body, es[j].body)
      BY <1>0, <3>4
    <3>6. fs[j].seq < fs[i].seq
      BY <1>0, <3>4, <3>5, SeqsAre
    <3>7. QED  BY <3>1, <3>2, <3>5, <3>6 DEF BoundTo, ParamsAgree, Alike
  <2>5. QED  BY <1>2, <1>4, <2>2, <2>3, <2>4 DEF BindingOk
<1>5. QED  BY <1>3, <1>4

(* An accepted ledger that begins with its root is accepted as far as it    *)
(* was written at any point, and with its tasks masked.                     *)
LEMMA AcceptedPart ==
  ASSUME NEW b, NEW c, Says(c.entries, b.entries), c.entries # <<>>,
         b.entries[1].body.event = "root",
         LedgerOk(b), ChainVerifies(c.entries), c.v = b.v, c.chain = b.chain,
         AnchorAgrees(c, "v", c.v), AnchorAgrees(c, "chain", c.chain)
  PROVE  LedgerOk(c)
<1>1. PICK es : es = b.entries
  OBVIOUS
<1>2. PICK fs : fs = c.entries
  OBVIOUS
<1>3. /\ Says(fs, es) /\ IsSeq(es)
      /\ \A k \in DOMAIN fs : k \in DOMAIN es /\ Alike(fs[k].body, es[k].body)
  BY <1>1, <1>2, SaysWithin DEF Says
<1>4. /\ VersionOk(b) /\ RootOk(es) /\ FieldsOk(b) /\ NodesOk(es) /\ ChainIdOk(b)
      /\ ChainVerifies(es) /\ GraphReadable(es) /\ BindingOk(b) /\ PolicyOk(es)
      /\ \A i \in DOMAIN es : MonotoneAt(es, i) /\ ContainedAt(es, i)
  BY <1>1 DEF LedgerOk
<1>5. PICK r : IsTree(es, r)
  BY <1>3, <1>4, AcceptedIsTree
<1>6. /\ RootOk(fs) /\ GraphReadable(fs)
      /\ \A i \in DOMAIN fs : MonotoneAt(fs, i) /\ ContainedAt(fs, i)
  BY <1>1, <1>2, <1>3, <1>4, <1>5, SaysGraph
<1>7. BindingOk(c)
  BY <1>1, <1>2, <1>3, <1>4, SaysBinding
<1>8. VersionOk(c)
  BY <1>1, <1>2, <1>3, <1>4 DEF VersionOk, Alike
<1>9. FieldsOk(c) /\ NodesOk(fs) /\ PolicyOk(fs)
  <2>1. FieldsOk(c)
    BY <1>1, <1>2, <1>3, <1>4 DEF FieldsOk, Alike
  <2>2. NodesOk(fs) /\ PolicyOk(fs)
    BY <1>3, <1>4 DEF NodesOk, PolicyOk, Alike
  <2>3. QED  BY <2>1, <2>2
<1>10. ChainIdOk(c)
  BY <1>1, <1>2, <1>3, <1>4 DEF ChainIdOk, Alike
<1>11. QED  BY <1>2, <1>6, <1>7, <1>8, <1>9, <1>10 DEF LedgerOk

-----------------------------------------------------------------------------
(* Where a ledger and a bundle come from *)

(* The log is the history as far as it was written, and a bundle that is    *)
(* not a forged one names the version and the chain of that history.        *)
LogInv ==
  Len(log) <= Len(History) /\ \A i \in DOMAIN log : log[i].body = History[i]
IsForged == edits = MaxEdits /\ bundle.anchor.by = Editor
OriginInv ==
  bundle # NoBundle => IsForged \/ (bundle.v = History[1].v /\ bundle.chain = History[1].chain)
OInv == IInv /\ LogInv /\ OriginInv

LEMMA MaskedAlike ==
  ASSUME NEW b \in Range(History)
  PROVE  Alike([b EXCEPT !.task = "redacted"], b)
<1>1. PICK c : c = b
  OBVIOUS
<1>2. c = [v |-> c.v, chain |-> c.chain, event |-> c.event, node |-> c.node, parent |-> c.parent,
           auth |-> c.auth, act |-> c.act, call |-> c.call, revoked |-> c.revoked,
           state |-> c.state, params |-> c.params, task |-> c.task, members |-> c.members,
           malformed |-> c.malformed]
  BY <1>1, BodyAssumption
<1>3. PICK m : m = [c EXCEPT !.task = "redacted"]
  OBVIOUS
<1>4. m = [v |-> c.v, chain |-> c.chain, event |-> c.event, node |-> c.node, parent |-> c.parent,
           auth |-> c.auth, act |-> c.act, call |-> c.call, revoked |-> c.revoked,
           state |-> c.state, params |-> c.params, task |-> "redacted", members |-> c.members,
           malformed |-> c.malformed]
  BY <1>2, <1>3
<1>5. Alike(m, c)
  BY <1>4 DEF Alike
<1>6. QED  BY <1>1, <1>3, <1>5

LEMMA WholeHistory ==
  /\ IsSeq(History) /\ Len(History) \in Nat /\ DOMAIN History = 1 .. Len(History)
  /\ IsSeq(Chained(History)) /\ ChainVerifies(Chained(History))
  /\ Len(Chained(History)) = Len(History) /\ DOMAIN Chained(History) = 1 .. Len(History)
  /\ \A i \in DOMAIN History : /\ Chained(History)[i].body = History[i]
                               /\ History[i] \in Range(History)
<1>1. IsSeq(History)
  BY HistoryAssumption DEF IsSeq
<1>2. /\ IsLedger(Chained(History)) /\ ChainVerifies(Chained(History))
      /\ Len(Chained(History)) = Len(History)
      /\ \A i \in DOMAIN History : Chained(History)[i].body = History[i]
  BY <1>1, ChainedVerifies
<1>3. IsSeq(Chained(History)) /\ DOMAIN Chained(History) = 1 .. Len(Chained(History))
  BY <1>2, SeqIsIndexed DEF IsLedger
<1>4. QED  BY <1>1, <1>2, <1>3, SeqIsIndexed DEF Range

(* What the producer wrote, masked or not, is a part of its history. *)
LEMMA WrittenSays ==
  ASSUME OInv, NEW es, IsLedger(es), Written(es)
  PROVE  /\ Says(es, Chained(History)) /\ Len(es) \in Nat /\ Len(es) <= Len(History)
         /\ \/ \A i \in DOMAIN es : es[i].body = History[i]
            \/ \A i \in DOMAIN es : es[i].body = [History[i] EXCEPT !.task = "redacted"]
<1>1. /\ IsSeq(log) /\ IsLedger(log) /\ ChainVerifies(log) /\ Len(log) \in Nat
      /\ DOMAIN log = 1 .. Len(log) /\ Len(log) <= Len(History)
      /\ \A i \in DOMAIN log : log[i].body = History[i]
  BY SeqIsIndexed DEF OInv, IInv, LedgerInv, LogInv, IsLedger
<1>2. /\ Len(Redact(log)) = Len(log)
      /\ \A i \in DOMAIN log : Redact(log)[i].body = [log[i].body EXCEPT !.task = "redacted"]
  BY <1>1, RedactedVerifies
<1>3. IsSeq(es) /\ Len(es) \in Nat /\ DOMAIN es = 1 .. Len(es)
  BY SeqIsIndexed DEF IsLedger
<1>4. Len(es) <= Len(log) /\ \A i \in DOMAIN es : i \in DOMAIN log /\ i \in DOMAIN History
  BY <1>1, <1>2, <1>3, WholeHistory DEF Written, Begins
<1>5. CASE Begins(es, log)
  <2>1. \A i \in DOMAIN es : es[i].body = History[i]
    BY <1>1, <1>4, <1>5 DEF Begins
  <2>2. \A i \in DOMAIN es : Alike(es[i].body, Chained(History)[i].body)
    BY <1>4, <2>1, WholeHistory DEF Alike
  <2>3. QED  BY <1>1, <1>3, <1>4, <2>1, <2>2, WholeHistory DEF Says
<1>6. CASE Begins(es, Redact(log))
  <2>1. \A i \in DOMAIN es : es[i].body = [History[i] EXCEPT !.task = "redacted"]
    BY <1>1, <1>2, <1>4, <1>6 DEF Begins
  <2>2. ASSUME NEW i \in DOMAIN es
        PROVE  Alike(es[i].body, Chained(History)[i].body)
    <3>1. History[i] \in Range(History) /\ Chained(History)[i].body = History[i]
      BY <1>4, WholeHistory
    <3>2. Alike([History[i] EXCEPT !.task = "redacted"], History[i])
      BY <3>1, MaskedAlike
    <3>3. QED  BY <2>1, <3>1, <3>2
  <2>3. QED  BY <1>1, <1>3, <1>4, <2>1, <2>2, WholeHistory DEF Says
<1>7. QED  BY <1>5, <1>6 DEF Written

(* The producer's whole history, as a bundle of it. *)
WholeBundle == BundleOf(Chained(History), NoAnchor, <<>>)

LEMMA WholeAccepted ==
  ASSUME History # <<>>
  PROVE  /\ LedgerOk(WholeBundle) /\ WholeBundle.entries = Chained(History)
         /\ 1 \in DOMAIN History /\ Chained(History)[1].body.event = "root"
         /\ \E r : IsTree(Chained(History), r)
<1>1. LedgerOk(WholeBundle)
  BY HonestAssumption DEF WholeBundle
<1>2. WholeBundle.entries = Chained(History)
  BY DEF WholeBundle, BundleOf
<1>3. Len(History) # 0
  BY WholeHistory, EmptySeq DEF IsSeq
<1>4. 1 \in DOMAIN History
  BY <1>3, WholeHistory
<1>5. Head(History) = History[1]
  BY <1>3, WholeHistory, HeadTailProperties DEF IsSeq
<1>6. Chained(History)[1].body.event = "root"
  BY <1>4, <1>5, WholeHistory, HonestAssumption
<1>7. \E r : IsTree(Chained(History), r)
  BY <1>1, <1>2, WholeHistory, AcceptedIsTree DEF LedgerOk
<1>8. QED  BY <1>1, <1>2, <1>4, <1>6, <1>7

LEMMA NamedByItsRoot ==
  ASSUME NEW es, Says(es, Chained(History)), es # <<>>
  PROVE  VersionOf(es) = History[1].v /\ ChainIdOf(es) = History[1].chain /\ History # <<>>
<1>0. /\ Len(es) \in Nat /\ DOMAIN es = 1 .. Len(es)
      /\ \A i \in DOMAIN es : Alike(es[i].body, Chained(History)[i].body)
      /\ Len(es) <= Len(History) /\ IsSeq(es)
  BY SaysWithin, WholeHistory DEF Says
<1>1. Len(es) # 0
  BY <1>0, EmptySeq DEF IsSeq
<1>2. History # <<>>
  BY <1>0, <1>1, WholeHistory, EmptySeq DEF IsSeq
<1>3. /\ 1 \in DOMAIN History /\ 1 \in DOMAIN es /\ Chained(History)[1].body.event = "root"
      /\ Chained(History)[1].body = History[1]
  BY <1>0, <1>1, <1>2, WholeAccepted, WholeHistory
<1>4. PICK r : IsTree(Chained(History), r)
  BY <1>2, WholeAccepted
<1>5. {i \in DOMAIN es : es[i].body.event = "root"} = {1}
  BY <1>3, <1>4, SaysRoot
<1>6. es[1].body.v = History[1].v /\ es[1].body.chain = History[1].chain
  BY <1>0, <1>3 DEF Alike
<1>7. VersionOf(es) = es[1].body.v
  <2>1. VersionOf(es) = es[Min({1})].body.v
    BY <1>5 DEF VersionOf
  <2>2. QED  BY <2>1, SingleMin
<1>8. ChainIdOf(es) = es[1].body.chain
  <2>1. Head(es) = es[1]
    BY <1>0, <1>1, HeadTailProperties DEF IsSeq
  <2>2. QED  BY <2>1 DEF ChainIdOf
<1>9. QED  BY <1>2, <1>6, <1>7, <1>8

LEMMA WriteOrigin == OInv /\ Write => LogInv' /\ OriginInv'
<1> SUFFICES ASSUME OInv, Write PROVE LogInv' /\ OriginInv'
  OBVIOUS
<1>1. PICK entry : entry = Entry(Len(log), History[Len(log) + 1])
  OBVIOUS
<1>2. log' = Sealed(log, Entry(Len(log), History[Len(log) + 1]))
      /\ Len(log) < Len(History) /\ UNCHANGED <<bundle, edits>>
  BY DEF Write
<1>3. IsLedger(log) /\ ChainVerifies(log) /\ IsSeq(log) /\ Len(log) \in Nat
      /\ DOMAIN log = 1 .. Len(log) /\ \A i \in DOMAIN log : log[i].body = History[i]
  BY SeqIsIndexed DEF OInv, IInv, LedgerInv, LogInv, IsLedger
<1>4. PICK fs : fs = log'
  OBVIOUS
<1>5. /\ IsLedger(fs) /\ Begins(log, fs)
      /\ Len(fs) = Len(log) + 1 /\ fs[Len(fs)].body = History[Len(log) + 1]
  BY <1>2, <1>3, <1>4, SealedVerifies
<1>6. DOMAIN fs = 1 .. Len(log) + 1
  BY <1>5, SeqIsIndexed DEF IsLedger
<1>7. ASSUME NEW i \in DOMAIN fs
      PROVE  fs[i].body = History[i]
  <2>1. CASE i \in DOMAIN log
    BY <1>3, <1>5, <2>1 DEF Begins
  <2>2. CASE i \notin DOMAIN log
    <3>1. i = Len(log) + 1
      BY <1>3, <1>6, <2>2
    <3>2. QED  BY <1>5, <3>1
  <2>3. QED  BY <2>1, <2>2
<1>8. LogInv'
  BY <1>2, <1>3, <1>4, <1>5, <1>7, WholeHistory DEF LogInv
<1>9. OriginInv'
  BY <1>2 DEF OInv, OriginInv, IsForged
<1>10. QED  BY <1>8, <1>9

LEMMA ExportOrigin ==
  ASSUME NEW redact \in BOOLEAN, NEW envelopes, OInv, Export(redact, envelopes)
  PROVE  LogInv' /\ OriginInv'
<1>1. PICK es : es = IF redact THEN Redact(log) ELSE log
  OBVIOUS
<1>2. bundle' = BundleOf(es, AnchorFor(es, Signer), envelopes) /\ UNCHANGED log /\ log # <<>>
  BY <1>1 DEF Export
<1>3. IsLedger(log) /\ ChainVerifies(log) /\ IsSeq(log) /\ Len(log) \in Nat
  BY SeqIsIndexed DEF OInv, IInv, LedgerInv, IsLedger
<1>4. IsLedger(Redact(log)) /\ ChainVerifies(Redact(log)) /\ Len(Redact(log)) = Len(log)
  BY <1>3, RedactedVerifies
<1>5. IsLedger(es) /\ Len(es) = Len(log)
  BY <1>1, <1>3, <1>4
<1>6. Written(es)
  BY <1>1, <1>3, <1>4 DEF Written, Begins
<1>7. es # <<>>
  <2>1. Len(log) # 0
    BY <1>2, <1>3, EmptySeq DEF IsSeq
  <2>2. QED  BY <1>5, <2>1, EmptySeq
<1>8. VersionOf(es) = History[1].v /\ ChainIdOf(es) = History[1].chain
  BY <1>5, <1>6, <1>7, WrittenSays, NamedByItsRoot
<1>9. bundle'.v = VersionOf(es) /\ bundle'.chain = ChainIdOf(es)
  BY <1>2 DEF BundleOf
<1>10. OriginInv'
  BY <1>8, <1>9 DEF OriginInv
<1>11. LogInv'
  BY <1>2 DEF OInv, LogInv
<1>12. QED  BY <1>10, <1>11

LEMMA EditOrigin ==
  ASSUME NEW b, OInv, Edited(b), b.v = bundle.v, b.chain = bundle.chain
  PROVE  LogInv' /\ OriginInv'
<1>1. edits < MaxEdits /\ bundle' = b /\ UNCHANGED log /\ bundle # NoBundle
  BY DEF Edited
<1>2. edits # MaxEdits
  BY <1>1, BoundAssumption DEF OInv, IInv
<1>3. bundle.v = History[1].v /\ bundle.chain = History[1].chain
  BY <1>1, <1>2 DEF OInv, OriginInv, IsForged
<1>4. QED  BY <1>1, <1>3 DEF OInv, LogInv, OriginInv

(* An edit changes neither the version nor the chain the bundle names. *)
LEMMA EditNames ==
  ASSUME OInv, bundle # NoBundle, NEW x, NEW i
  PROVE  /\ [bundle EXCEPT !.entries = x].v = bundle.v
         /\ [bundle EXCEPT !.entries = x].chain = bundle.chain
         /\ [bundle EXCEPT !.entries[i].body = x].v = bundle.v
         /\ [bundle EXCEPT !.entries[i].body = x].chain = bundle.chain
         /\ [bundle EXCEPT !.anchor = x].v = bundle.v
         /\ [bundle EXCEPT !.anchor = x].chain = bundle.chain
         /\ [bundle EXCEPT !.mistyped = x].v = bundle.v
         /\ [bundle EXCEPT !.mistyped = x].chain = bundle.chain
         /\ [bundle EXCEPT !.envelopes = x].v = bundle.v
         /\ [bundle EXCEPT !.envelopes = x].chain = bundle.chain
<1>1. PICK b : b = bundle
  OBVIOUS
<1>2. b = [v |-> b.v, chain |-> b.chain, entries |-> b.entries, anchor |-> b.anchor,
           envelopes |-> b.envelopes, mistyped |-> b.mistyped]
  BY <1>1 DEF OInv, IInv, BundleInv, IsBundle
<1>3. [b EXCEPT !.entries = x].v = b.v /\ [b EXCEPT !.entries = x].chain = b.chain
  BY <1>2
<1>4. [b EXCEPT !.entries[i].body = x].v = b.v /\ [b EXCEPT !.entries[i].body = x].chain = b.chain
  BY <1>2
<1>5. [b EXCEPT !.anchor = x].v = b.v /\ [b EXCEPT !.anchor = x].chain = b.chain
  BY <1>2
<1>6. [b EXCEPT !.mistyped = x].v = b.v /\ [b EXCEPT !.mistyped = x].chain = b.chain
  BY <1>2
<1>7. [b EXCEPT !.envelopes = x].v = b.v /\ [b EXCEPT !.envelopes = x].chain = b.chain
  BY <1>2
<1>8. QED  BY <1>1, <1>3, <1>4, <1>5, <1>6, <1>7

LEMMA EditedHas ==
  ASSUME NEW b, Edited(b)
  PROVE  bundle # NoBundle
BY DEF Edited

LEMMA EditsOrigin ==
  ASSUME OInv,
         \/ CutTail \/ Reseal
         \/ \E i \in DOMAIN Entries : Drop(i) \/ (i < Len(Entries) /\ Swap(i))
         \/ \E i \in DOMAIN Entries, body \in Bodies : Rewrite(i, body)
         \/ \E anchor \in Anchors : Reanchor(anchor)
         \/ \E part \in BundleParts : Mistype(part)
         \/ \E env \in Attachable : Attach(env)
  PROVE  LogInv' /\ OriginInv'
<1>1. CASE CutTail
  <2>1. PICK x : Edited([bundle EXCEPT !.entries = x])
    BY <1>1 DEF CutTail
  <2>2. QED  BY <2>1, EditedHas, EditNames, EditOrigin
<1>2. CASE Reseal
  <2>1. PICK x : Edited([bundle EXCEPT !.entries = x])
    BY <1>2 DEF Reseal
  <2>2. QED  BY <2>1, EditedHas, EditNames, EditOrigin
<1>3. ASSUME NEW i \in DOMAIN Entries, Drop(i) \/ (i < Len(Entries) /\ Swap(i))
      PROVE  LogInv' /\ OriginInv'
  <2>1. PICK x : Edited([bundle EXCEPT !.entries = x])
    BY <1>3 DEF Drop, Swap
  <2>2. QED  BY <2>1, EditedHas, EditNames, EditOrigin
<1>4. ASSUME NEW i \in DOMAIN Entries, NEW body \in Bodies, Rewrite(i, body)
      PROVE  LogInv' /\ OriginInv'
  <2>1. Edited([bundle EXCEPT !.entries[i].body = body])
    BY <1>4 DEF Rewrite
  <2>2. QED  BY <2>1, EditedHas, EditNames, EditOrigin
<1>5. ASSUME NEW anchor \in Anchors, Reanchor(anchor)
      PROVE  LogInv' /\ OriginInv'
  <2>1. Edited([bundle EXCEPT !.anchor = anchor])
    BY <1>5 DEF Reanchor
  <2>2. QED  BY <2>1, EditedHas, EditNames, EditOrigin
<1>6. ASSUME NEW part \in BundleParts, Mistype(part)
      PROVE  LogInv' /\ OriginInv'
  <2>1. PICK x : Edited([bundle EXCEPT !.mistyped = x])
    BY <1>6 DEF Mistype
  <2>2. QED  BY <2>1, EditedHas, EditNames, EditOrigin
<1>7. ASSUME NEW env \in Attachable, Attach(env)
      PROVE  LogInv' /\ OriginInv'
  <2>1. PICK x : Edited([bundle EXCEPT !.envelopes = x])
    BY <1>7 DEF Attach
  <2>2. QED  BY <2>1, EditedHas, EditNames, EditOrigin
<1>8. QED  BY <1>1, <1>2, <1>3, <1>4, <1>5, <1>6, <1>7

LEMMA ForgeOrigin == OInv /\ Forge => LogInv' /\ OriginInv'
<1> SUFFICES ASSUME OInv, Forge PROVE LogInv' /\ OriginInv'
  OBVIOUS
<1>1. PICK bodies \in Forgeries :
        /\ bundle' = BundleOf(Chained(bodies), AnchorFor(Chained(bodies), Editor), <<>>)
        /\ edits' = MaxEdits /\ UNCHANGED log
  BY DEF Forge
<1>2. bundle'.anchor = AnchorFor(Chained(bodies), Editor)
  BY <1>1 DEF BundleOf
<1>3. bundle'.anchor.by = Editor
  BY <1>2, AnchorParts
<1>4. QED  BY <1>1, <1>3 DEF OInv, LogInv, OriginInv, IsForged

LEMMA OriginStep == OInv /\ [Next]_vars => OInv'
<1> SUFFICES ASSUME OInv, [Next]_vars PROVE LogInv' /\ OriginInv'
  BY NextInv DEF OInv
<1>1. CASE Write
  BY <1>1, WriteOrigin
<1>2. ASSUME NEW redact \in BOOLEAN, NEW envelopes, Export(redact, envelopes)
      PROVE  LogInv' /\ OriginInv'
  BY <1>2, ExportOrigin
<1>3. ASSUME NEW es, NEW i, NEW kid, Sign(es, i, kid) PROVE LogInv' /\ OriginInv'
  BY <1>3 DEF Sign, OInv, LogInv, OriginInv, IsForged
<1>4. CASE Tick
  BY <1>4 DEF Tick, OInv, LogInv, OriginInv, IsForged
<1>5. CASE Forge
  BY <1>5, ForgeOrigin
<1>6. CASE UNCHANGED vars
  BY <1>6 DEF vars, OInv, LogInv, OriginInv, IsForged
<1>7. CASE \/ CutTail \/ Reseal
           \/ \E i \in DOMAIN Entries : Drop(i) \/ (i < Len(Entries) /\ Swap(i))
           \/ \E i \in DOMAIN Entries, body \in Bodies : Rewrite(i, body)
           \/ \E anchor \in Anchors : Reanchor(anchor)
           \/ \E part \in BundleParts : Mistype(part)
           \/ \E env \in Attachable : Attach(env)
  BY <1>7, EditsOrigin
<1>8. QED  BY <1>1, <1>2, <1>3, <1>4, <1>5, <1>6, <1>7 DEF Next

LEMMA InitOrigin == Init => OInv
<1> SUFFICES ASSUME Init PROVE OInv
  OBVIOUS
<1>1. LogInv
  BY WholeHistory, EmptySeq DEF Init, LogInv
<1>2. QED  BY <1>1, InitInv DEF Init, OInv, OriginInv

LEMMA Origins == Spec => []OInv
BY InitOrigin, OriginStep, PTL DEF Spec

-----------------------------------------------------------------------------
(* What an export is accepted with *)

LEMMA AnchoredLedger ==
  ASSUME OInv, NEW x \in exports
  PROVE  /\ IsExport(x) /\ Written(x.entries) /\ IsSeq(x.entries)
         /\ x.anchor = AnchorFor(x.entries, Signer) /\ x.anchor # NoAnchor
<1>1. IsExport(x) /\ Written(x.entries)
  BY DEF OInv, IInv, ExportsInv
<1>2. PICK es : es = x.entries
  OBVIOUS
<1>3. IsLedger(es) /\ ChainVerifies(es) /\ es # <<>> /\ Written(es) /\ IsSeq(es)
  BY <1>1, <1>2 DEF IsExport, IsLedger
<1>4. x.anchor = AnchorFor(es, Signer)
  BY <1>1, <1>2 DEF IsExport
<1>5. PICK k \in 1 .. Len(History) : k = Len(es)
  <2>1. Len(es) # 0
    BY <1>3, EmptySeq DEF IsSeq
  <2>2. QED  BY <1>3, <2>1, WrittenSays, WholeHistory
<1>6. PICK fs : fs = Chained(SubSeq(History, 1, k))
  OBVIOUS
<1>7. /\ IsLedger(fs) /\ ChainVerifies(fs) /\ IsSeq(fs) /\ Len(fs) = k /\ DOMAIN fs = 1 .. k
      /\ \A i \in 1 .. k : fs[i].body = History[i]
  <2>1. PICK bodies : bodies = SubSeq(History, 1, k)
    OBVIOUS
  <2>2. k \in 0 .. Len(History)
    BY WholeHistory
  <2>3. /\ IsSeq(bodies) /\ Len(bodies) = k /\ DOMAIN bodies = 1 .. k
        /\ bodies = [i \in 1 .. k |-> History[i]]
    BY <2>1, <2>2, WholeHistory, Prefix
  <2>4. /\ IsLedger(fs) /\ ChainVerifies(fs) /\ Len(fs) = k
        /\ \A i \in 1 .. k : fs[i].body = bodies[i]
    BY <1>6, <2>1, <2>3, ChainedVerifies
  <2>5. \A i \in 1 .. k : bodies[i] = History[i]
    BY <2>3
  <2>6. QED  BY <2>4, <2>5, SeqIsIndexed DEF IsLedger
<1>8. /\ IsLedger(Redact(fs)) /\ ChainVerifies(Redact(fs)) /\ Len(Redact(fs)) = k
      /\ \A i \in 1 .. k : Redact(fs)[i].body = [History[i] EXCEPT !.task = "redacted"]
  <2>1. /\ IsLedger(Redact(fs)) /\ ChainVerifies(Redact(fs)) /\ Len(Redact(fs)) = k
        /\ \A i \in 1 .. k : Redact(fs)[i].body = [fs[i].body EXCEPT !.task = "redacted"]
    BY <1>7, RedactedVerifies
  <2>2. QED  BY <1>7, <2>1
<1>9. DOMAIN es = 1 .. k /\ k \in Nat
  BY <1>3, <1>5, SeqIsIndexed, WholeHistory
<1>10. es = fs \/ es = Redact(fs)
  <2>1. CASE \A i \in DOMAIN es : es[i].body = History[i]
    <3>1. Begins(es, fs)
      BY <1>3, <1>5, <1>7, <1>9, <2>1, BodiesDetermine
    <3>2. QED  BY <1>3, <1>5, <1>7, <3>1, SeqsEqual DEF Begins
  <2>2. CASE \A i \in DOMAIN es : es[i].body = [History[i] EXCEPT !.task = "redacted"]
    <3>1. PICK gs : gs = Redact(fs)
      OBVIOUS
    <3>2. Begins(es, gs)
      <4>1. \A i \in DOMAIN es : es[i].body = gs[i].body
        BY <1>8, <1>9, <2>2, <3>1
      <4>2. /\ IsLedger(gs) /\ ChainVerifies(gs) /\ Len(es) <= Len(gs)
        BY <1>5, <1>8, <1>9, <3>1
      <4>3. QED  BY <1>3, <4>1, <4>2, BodiesDetermine
    <3>3. IsSeq(gs) /\ Len(gs) = k
      BY <1>8, <3>1 DEF IsLedger
    <3>4. QED  BY <1>3, <1>5, <3>1, <3>2, <3>3, SeqsEqual DEF Begins
  <2>3. QED  BY <1>3, <2>1, <2>2, WrittenSays
<1>11. NoAnchor # AnchorFor(es, Signer)
  BY <1>6, <1>10, NoAnchorAssumption
<1>12. QED  BY <1>1, <1>2, <1>3, <1>4, <1>11

(* An envelope a witness signed over an entry claims that entry alone. *)
LEMMA NamedIsPlace ==
  ASSUME NEW es, IsSeq(es), ChainVerifies(es), NEW i \in DOMAIN es
  PROVE  Positioned(es, es[i].seq) = {i} /\ Max(Positioned(es, es[i].seq)) = i
<1>1. i \in Nat /\ \A j \in DOMAIN es : j \in Nat /\ es[j].seq = j - 1
  BY SeqsAre
<1>2. \A j \in DOMAIN es : es[j].seq = es[i].seq => j = i
  <2>1. ASSUME NEW j \in DOMAIN es, es[j].seq = es[i].seq
        PROVE  j = i
    <3>1. j - 1 = i - 1 /\ j \in Nat
      BY <1>1, <2>1
    <3>2. QED  BY <1>1, <3>1
  <2>2. QED  BY <2>1
<1>3. Positioned(es, es[i].seq) = {i}
  BY <1>2 DEF Positioned
<1>4. Max({i}) = i
  BY <1>1 DEF Max
<1>5. QED  BY <1>3, <1>4

LEMMA SubjectNames ==
  ASSUME NEW es, NEW i, NEW subject, subject = SubjectAt(es, i)
  PROVE  /\ subject.seq = es[i].seq /\ subject.hash = Recomputed(es)[i]
         /\ subject.at = Locators(es[i].body)
BY DEF SubjectAt

LEMMA HonestAccepted ==
  ASSUME OInv, bundle # NoBundle, NEW trusted, ChainVerifies(bundle.entries),
         HonestEnvelopes(bundle, trusted)
  PROVE  EnvelopesOk(bundle, trusted)
<1>1. PICK es : es = bundle.entries
  OBVIOUS
<1>2. PICK envs : envs = bundle.envelopes
  OBVIOUS
<1>3. IsSeq(es) /\ ChainVerifies(es)
  BY <1>1 DEF OInv, IInv, BundleInv, IsBundle, IsLedger
<1>4. \A j \in DOMAIN envs :
        /\ envs[j] \in signed /\ envs[j].kid \in trusted
        /\ \E i \in DOMAIN es : envs[j].subject = SubjectAt(es, i)
        /\ \A k \in DOMAIN envs : envs[k].subject = envs[j].subject => k = j
  BY <1>1, <1>2 DEF HonestEnvelopes
<1>5. ASSUME NEW j \in DOMAIN envs, NEW i \in DOMAIN es, envs[j].subject = SubjectAt(es, i)
      PROVE  /\ envs[j].form = "v1" /\ Claims(bundle, i) = {j} /\ Scores(bundle, envs[j], i, trusted)
  <2>1. ASSUME NEW k \in DOMAIN envs
        PROVE  /\ envs[k].form = "v1" /\ envs[k].by = envs[k].kid /\ envs[k].over = Content(envs[k])
    <3>1. PICK e : e = envs[k]
      OBVIOUS
    <3>2. IsStatement(e)
      <4>1. e \in signed
        BY <1>4, <3>1
      <4>2. SignedInv
        BY DEF OInv, IInv
      <4>3. QED  BY <4>1, <4>2 DEF SignedInv
    <3>3. e = [form |-> "v1", subject |-> e.subject, kid |-> e.kid, by |-> e.kid, over |-> Content(e)]
      BY <3>2 DEF IsStatement
    <3> HIDE DEF Content
    <3>4. e.form = "v1" /\ e.by = e.kid /\ e.over = Content(e)
      BY <3>3
    <3>5. QED  BY <3>1, <3>4
  <2>2. ASSUME NEW k \in DOMAIN envs
        PROVE  /\ Positioned(es, envs[k].subject.seq) # {}
               /\ (i = Max(Positioned(es, envs[k].subject.seq)) <=> k = j)
    <3>1. PICK l \in DOMAIN es : envs[k].subject = SubjectAt(es, l)
      BY <1>4
    <3>2. envs[k].subject.seq = es[l].seq
      BY <3>1, SubjectNames
    <3>3. Positioned(es, envs[k].subject.seq) = {l} /\ Max(Positioned(es, envs[k].subject.seq)) = l
      BY <1>3, <3>2, NamedIsPlace
    <3>4. i = l => envs[k].subject = envs[j].subject
      BY <1>5, <3>1
    <3>5. i = l => k = j
      BY <1>4, <3>4
    <3>6. k = j => i = l
      <4>1. ASSUME k = j PROVE i = l
        <5>1. envs[k].subject.seq = es[i].seq
          BY <1>5, <4>1, SubjectNames
        <5>2. Positioned(es, envs[k].subject.seq) = {i}
          BY <1>3, <5>1, NamedIsPlace
        <5>3. QED  BY <3>3, <5>2
      <4>2. QED  BY <4>1
    <3>7. QED  BY <3>3, <3>5, <3>6
  <2>3. Claims(bundle, i) = {j}
    <3>1. Claims(bundle, i)
            = {k \in DOMAIN envs :
                 /\ envs[k].form \notin {"version", "members", "event"}
                 /\ Positioned(es, envs[k].subject.seq) # {}
                 /\ i = Max(Positioned(es, envs[k].subject.seq))}
      BY <1>1, <1>2 DEF Claims
    <3>2. QED  BY <2>1, <2>2, <3>1
  <2>4. Scores(bundle, envs[j], i, trusted)
    <3>1. envs[j].subject.hash = Recomputed(es)[i] /\ envs[j].subject.at = Locators(es[i].body)
      BY <1>5, SubjectNames
    <3>2. QED  BY <1>1, <1>4, <2>1, <3>1 DEF Scores
  <2>5. QED  BY <2>1, <2>3, <2>4
<1>6. QED
  <2>1. SUFFICES ASSUME NEW j \in DOMAIN envs
                 PROVE  \E i \in DOMAIN es : Claims(bundle, i) = {j} /\ Witnessed(bundle, i, trusted)
    BY <1>1, <1>2 DEF EnvelopesOk
  <2>2. PICK i \in DOMAIN es : envs[j].subject = SubjectAt(es, i)
    BY <1>4
  <2>3. Claims(bundle, i) = {j} /\ Scores(bundle, envs[j], i, trusted)
    BY <1>5, <2>2
  <2>4. QED  BY <1>2, <2>2, <2>3 DEF Witnessed

LEMMA ExportAccepted ==
  ASSUME OInv, bundle # NoBundle, NEW x \in exports, NEW trusted,
         bundle.entries = x.entries, bundle.anchor = x.anchor, bundle.mistyped = {},
         HonestEnvelopes(bundle, trusted)
  PROVE  /\ Accepts(bundle, Signer, trusted)
         /\ AcceptsRetained(bundle, x.anchor, trusted)
         /\ LedgerStatus(x.entries) = 0
<1>1. PICK es : es = x.entries
  OBVIOUS
<1>2. /\ IsLedger(es) /\ ChainVerifies(es) /\ es # <<>> /\ Written(es) /\ IsSeq(es)
      /\ x.anchor = AnchorFor(es, Signer) /\ x.anchor # NoAnchor
  BY <1>1, AnchoredLedger DEF IsExport
<1>3. /\ x.anchor.by = Signer /\ x.anchor.over = x.anchor.body
      /\ x.anchor.body.v = VersionOf(es) /\ x.anchor.body.chain = ChainIdOf(es)
      /\ x.anchor.body.seq = LastSeq(es) /\ x.anchor.body.head = HeadHash(es)
  <2>1. PICK a : a = x.anchor
    OBVIOUS
  <2>2. PICK body : body = [v |-> VersionOf(es), chain |-> ChainIdOf(es), seq |-> LastSeq(es),
                            head |-> HeadHash(es)]
    OBVIOUS
  <2>3. a = [body |-> body, by |-> Signer, over |-> body]
    BY <1>2, <2>1, <2>2 DEF AnchorFor
  <2>4. /\ body.v = VersionOf(es) /\ body.chain = ChainIdOf(es)
        /\ body.seq = LastSeq(es) /\ body.head = HeadHash(es)
    BY <2>2
  <2>5. a.body = body /\ a.by = Signer /\ a.over = body
    BY <2>3
  <2>6. QED  BY <2>1, <2>4, <2>5
<1>4. Says(es, Chained(History))
  BY <1>2, WrittenSays
<1>5. VersionOf(es) = History[1].v /\ ChainIdOf(es) = History[1].chain /\ History # <<>>
  BY <1>2, <1>4, NamedByItsRoot
<1>6. bundle.v = VersionOf(es) /\ bundle.chain = ChainIdOf(es)
  <2>1. bundle.anchor.by # Editor
    BY <1>3, KeyAssumption
  <2>2. QED  BY <1>5, <2>1 DEF OInv, OriginInv, IsForged
<1>7. LedgerOk(bundle)
  <2>1. /\ LedgerOk(WholeBundle) /\ WholeBundle.entries = Chained(History)
        /\ 1 \in DOMAIN History /\ Chained(History)[1].body.event = "root"
    BY <1>5, WholeAccepted
  <2>2. WholeBundle.v = bundle.v /\ WholeBundle.chain = bundle.chain
    <3>1. WholeBundle.v = VersionOf(Chained(History)) /\ WholeBundle.chain = ChainIdOf(Chained(History))
      BY DEF WholeBundle, BundleOf
    <3>2. Says(Chained(History), Chained(History)) /\ Chained(History) # <<>>
      <4>1. \A i \in DOMAIN Chained(History) : Alike(Chained(History)[i].body, Chained(History)[i].body)
        BY DEF Alike
      <4>2. Chained(History) # <<>>
        BY <2>1, WholeHistory, EmptySeq
      <4>3. QED  BY <4>1, <4>2, WholeHistory DEF Says
    <3>3. QED  BY <1>5, <1>6, <3>1, <3>2, NamedByItsRoot
  <2>3. AnchorAgrees(bundle, "v", bundle.v) /\ AnchorAgrees(bundle, "chain", bundle.chain)
    BY <1>3, <1>6 DEF AnchorAgrees
  <2>4. QED  BY <1>1, <1>2, <1>4, <2>1, <2>2, <2>3, AcceptedPart
<1>8. EnvelopesOk(bundle, trusted)
  BY <1>1, <1>2, HonestAccepted
<1>9. AnchorVerifies(bundle.entries, bundle.anchor, Signer)
  BY <1>1, <1>2, <1>3 DEF AnchorVerifies
<1>10. Accepts(bundle, Signer, trusted) /\ Accepts(bundle, NoKey, trusted)
  BY <1>7, <1>8, <1>9 DEF Accepts
<1>11. LastSeq(es) = Len(es) - 1
  BY <1>2, LastSeqOf
<1>12. AcceptsRetained(bundle, x.anchor, trusted)
  BY <1>1, <1>3, <1>6, <1>10, <1>11 DEF AcceptsRetained
<1>13. LedgerStatus(x.entries) = 0
  BY <1>1, <1>2 DEF LedgerStatus
<1>14. QED  BY <1>10, <1>12, <1>13

(* What the producer exports verifies under its key and against its anchor, *)
(* redacted or not, at any point of any history the verifier accepts as a   *)
(* whole, with the envelopes trusted witnesses signed over it, and after    *)
(* whatever edits that left its entries and its anchor what they were.      *)
THEOREM ExportsDoVerify == Spec => []ExportsVerify
<1>1. OInv => ExportsVerify
  <2>1. SUFFICES ASSUME OInv, NEW x \in exports, NEW file \in Usable,
                        bundle # NoBundle, bundle.entries = x.entries, bundle.anchor = x.anchor,
                        bundle.mistyped = {}, HonestEnvelopes(bundle, Trusted(TrustOf(file), now))
                 PROVE  /\ VerifyStatus(bundle, Signer, file, now) = 0
                        /\ AcceptsRetained(bundle, x.anchor, Trusted(TrustOf(file), now))
                        /\ LedgerStatus(x.entries) = 0
    BY DEF ExportsVerify
  <2>2. /\ Accepts(bundle, Signer, Trusted(TrustOf(file), now))
        /\ AcceptsRetained(bundle, x.anchor, Trusted(TrustOf(file), now))
        /\ LedgerStatus(x.entries) = 0
    BY <2>1, ExportAccepted
  <2>3. file.shape # "missing" /\ ~Refused(file)
    BY <2>1 DEF Usable
  <2>4. QED  BY <2>2, <2>3 DEF VerifyStatus
<1>2. QED  BY <1>1, Origins, PTL
=============================================================================
