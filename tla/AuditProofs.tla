---------------------------- MODULE AuditProofs ----------------------------
(***************************************************************************)
(* What a ledger file is worth, for every number of processes and entries: *)
(* if it verifies, it is the beginning of one process's log, and processes *)
(* that do not overlap keep the restart rule and load what they wrote.     *)
(***************************************************************************)
EXTENDS Streaming, SequenceTheorems, FiniteSetTheorems, WellFoundedInduction, TLAPS

-----------------------------------------------------------------------------
(* Numbers and sequences *)

LEMMA Least ==
  ASSUME NEW T, T \subseteq Nat, T # {}
  PROVE  \E x \in T : \A y \in T : x <= y
<1>1. PICK x \in T : \A y \in T : ~ (<<y, x>> \in OpToRel(<, Nat))
  BY NatLessThanWellFounded, WFMin
<1>2. \A y \in T : ~(y < x)
  BY <1>1 DEF OpToRel
<1> QED BY <1>2

(* Two functions that agree at N, and at i - 1 wherever they agree at i. *)
LEMMA Backward ==
  ASSUME NEW N \in Nat, NEW f, NEW g, f[N] = g[N],
         \A i \in 2 .. N : f[i] = g[i] => f[i - 1] = g[i - 1]
  PROVE  \A i \in 1 .. N : f[i] = g[i]
<1> DEFINE Off == {k \in 0 .. N - 1 : f[N - k] # g[N - k]}
<1>1. SUFFICES ASSUME Off # {} PROVE FALSE
  <2>1. Off = {}
    BY <1>1
  <2> SUFFICES ASSUME NEW i \in 1 .. N PROVE f[i] = g[i]
    OBVIOUS
  <2>2. N - i \in 0 .. N - 1 /\ N - (N - i) = i
    OBVIOUS
  <2>3. f[N - (N - i)] = g[N - (N - i)]
    BY <2>1, <2>2
  <2> QED BY <2>2, <2>3
<1>2. PICK k \in Off : \A j \in Off : k <= j
  <2>1. Off \subseteq Nat
    OBVIOUS
  <2> QED BY <1>1, <2>1, Least
<1>3. k \in 1 .. N - 1
  <2>1. N - 0 = N
    OBVIOUS
  <2>2. k # 0
    BY <1>2, <2>1
  <2> QED BY <1>2, <2>2
<1>4. k - 1 \in 0 .. N - 1 /\ ~(k <= k - 1)
  BY <1>3
<1>5. f[N - (k - 1)] = g[N - (k - 1)]
  BY <1>2, <1>4
<1>6. N - (k - 1) \in 2 .. N /\ (N - (k - 1)) - 1 = N - k
  BY <1>3
<1>7. f[N - k] = g[N - k]
  BY <1>5, <1>6
<1> QED BY <1>2, <1>7

LEMMA InitialPart ==
  ASSUME NEW S, NEW s, NEW n \in Nat, \A i \in 1 .. n : s[i] \in S
  PROVE  /\ SubSeq(s, 1, n) \in Seq(S)
         /\ Len(SubSeq(s, 1, n)) = n
         /\ \A i \in 1 .. n : SubSeq(s, 1, n)[i] = s[i]
<1>1. /\ SubSeq(s, 1, n) \in Seq(S)
      /\ Len(SubSeq(s, 1, n)) = IF 1 <= n THEN n - 1 + 1 ELSE 0
      /\ \A i \in 1 .. n - 1 + 1 : SubSeq(s, 1, n)[i] = s[1 + i - 1]
  BY SubSeqProperties
<1>2. n - 1 + 1 = n /\ (IF 1 <= n THEN n - 1 + 1 ELSE 0) = n
  OBVIOUS
<1>3. \A i \in 1 .. n : 1 + i - 1 = i
  OBVIOUS
<1> QED BY <1>1, <1>2, <1>3

LEMMA FrontFacts ==
  ASSUME NEW S, NEW s \in Seq(S), s # <<>>
  PROVE  /\ Front(s) \in Seq(S)
         /\ Len(Front(s)) = Len(s) - 1
         /\ \A i \in 1 .. Len(s) - 1 : Front(s)[i] = s[i]
         /\ Len(s) \in Nat \ {0} /\ Last(s) = s[Len(s)] /\ Last(s) \in S
<1>1. Len(s) - 1 \in Nat /\ s[Len(s)] \in S
  OBVIOUS
<1>2. \A i \in 1 .. Len(s) - 1 : s[i] \in S
  OBVIOUS
<1>3. Front(s) = SubSeq(s, 1, Len(s) - 1) /\ Last(s) = s[Len(s)]
  BY DEF Front, Last
<1>4. Len(s) \in Nat \ {0}
  BY <1>1
<1>5. /\ SubSeq(s, 1, Len(s) - 1) \in Seq(S)
      /\ Len(SubSeq(s, 1, Len(s) - 1)) = Len(s) - 1
      /\ \A i \in 1 .. Len(s) - 1 : SubSeq(s, 1, Len(s) - 1)[i] = s[i]
  <2> DEFINE n == Len(s) - 1
  <2>1. n \in Nat /\ \A i \in 1 .. n : s[i] \in S
    BY <1>1, <1>2
  <2> HIDE DEF n
  <2>2. /\ SubSeq(s, 1, n) \in Seq(S)
        /\ Len(SubSeq(s, 1, n)) = n
        /\ \A i \in 1 .. n : SubSeq(s, 1, n)[i] = s[i]
    BY <2>1, InitialPart
  <2> QED BY <2>2 DEF n
<1> QED BY <1>1, <1>3, <1>4, <1>5

LEMMA FrontTyped ==
  ASSUME NEW S, NEW s \in Seq(S)
  PROVE  /\ Front(s) \in Seq(S)
         /\ \A i \in DOMAIN Front(s) : i \in DOMAIN s /\ Front(s)[i] = s[i]
<1>1. CASE s = <<>>
  BY <1>1 DEF Front
<1>2. CASE s # <<>>
  <2>1. /\ Front(s) \in Seq(S) /\ Len(Front(s)) = Len(s) - 1
        /\ \A i \in 1 .. Len(s) - 1 : Front(s)[i] = s[i]
    BY <1>2, FrontFacts
  <2>2. DOMAIN Front(s) = 1 .. Len(s) - 1 /\ DOMAIN s = 1 .. Len(s) /\ Len(s) \in Nat
    BY <2>1
  <2> QED BY <2>1, <2>2
<1> QED BY <1>1, <1>2

LEMMA AppendFacts ==
  ASSUME NEW S, NEW s \in Seq(S), NEW e \in S
  PROVE  /\ Append(s, e) \in Seq(S) /\ Append(s, e) # <<>>
         /\ Len(Append(s, e)) = Len(s) + 1
         /\ \A i \in 1 .. Len(s) : Append(s, e)[i] = s[i]
         /\ Append(s, e)[Len(s) + 1] = e
         /\ Front(Append(s, e)) = s
         /\ Last(Append(s, e)) = e
<1>1. /\ Append(s, e) \in Seq(S) /\ Append(s, e) # <<>>
      /\ Len(Append(s, e)) = Len(s) + 1
      /\ \A i \in 1 .. Len(s) : Append(s, e)[i] = s[i]
      /\ Append(s, e)[Len(s) + 1] = e
  OBVIOUS
<1>2. Front(Append(s, e)) = s
  BY <1>1 DEF Front
<1> QED BY <1>1, <1>2 DEF Last

LEMMA FrontAndLast ==
  ASSUME NEW S, NEW s \in Seq(S), s # <<>>
  PROVE  Append(Front(s), Last(s)) = s
<1> DEFINE f == Front(s)
           x == Last(s)
<1>1. /\ f \in Seq(S) /\ Len(f) = Len(s) - 1 /\ x \in S
      /\ \A i \in 1 .. Len(s) - 1 : f[i] = s[i]
      /\ Len(s) \in Nat /\ x = s[Len(s)]
  BY FrontFacts
<1> HIDE DEF f, x
<1>2. /\ Append(f, x) \in Seq(S) /\ Len(Append(f, x)) = Len(f) + 1
      /\ \A i \in 1 .. Len(f) : Append(f, x)[i] = f[i]
      /\ Append(f, x)[Len(f) + 1] = x
  <2> f \in Seq(S) /\ x \in S
    BY <1>1
  <2> QED OBVIOUS
<1>3. Len(Append(f, x)) = Len(s) /\ \A i \in 1 .. Len(s) : Append(f, x)[i] = s[i]
  BY <1>1, <1>2
<1>4. Append(f, x) = s
  BY <1>2, <1>3, SeqEqual
<1> QED BY <1>4 DEF f, x

LEMMA PrefixFacts ==
  ASSUME NEW S, NEW s \in Seq(S), NEW t \in Seq(S), Len(s) <= Len(t),
         \A i \in 1 .. Len(s) : s[i] = t[i]
  PROVE  /\ IsPrefix(s, t)
         /\ s = SubSeq(t, 1, Len(s))
<1>1. \A i \in 1 .. Len(s) : s[i] \in S /\ t[i] \in S
  OBVIOUS
<1>2. s = SubSeq(t, 1, Len(s))
  BY <1>1, InitialPart, SeqEqual
<1>3. SubSeq(s, 1, Len(s)) = s
  BY <1>1, InitialPart, SeqEqual
<1> QED BY <1>2, <1>3 DEF IsPrefix

-----------------------------------------------------------------------------
(* The logs and the file *)

LogTypeOK ==
  /\ pc \in [Proc -> {"new", "opening", "open", "writing", "handing", "refused", "dead"}]
  /\ log \in [Proc -> Seq(Seq(Event))]
  /\ raised \subseteq Proc
  /\ file \in Seq(Seq(Event))
  /\ ended \in BOOLEAN
  /\ \A p \in Proc : pc[p] \in {"writing", "handing"} => log[p] # <<>>

(* A log verifies, and a line of the file is an entry of some log. *)
LogsVerify == \A p \in Proc : Verifies(log[p])
FromLogs ==
  \A i \in DOMAIN file : file[i] # Garbled =>
    \E p \in Proc : \E n \in DOMAIN log[p] : file[i] = log[p][n]

LogInv == LogTypeOK /\ LogsVerify /\ FromLogs

(* The whole of a verified file is told by its last entry: each entry holds *)
(* the ones before it.                                                      *)
LEMMA LastTellsAll ==
  ASSUME LogTypeOK, Verified(file), file # <<>>,
         NEW p \in Proc, Verifies(log[p]),
         NEW n \in DOMAIN log[p], Last(file) = log[p][n]
  PROVE  n = Len(file) /\ IsPrefix(file, log[p]) /\ file = SubSeq(log[p], 1, n)
<1> DEFINE N == Len(file)
           l == log[p]
<1>1. /\ file \in Seq(Seq(Event)) /\ l \in Seq(Seq(Event))
      /\ N \in Nat \ {0} /\ Last(file) = file[N]
      /\ DOMAIN file = 1 .. N /\ DOMAIN l = 1 .. Len(l) /\ Len(l) \in Nat
  BY FrontFacts DEF LogTypeOK
<1>2. n = N
  <2>1. Len(file[N]) = N
    <3>1. N \in DOMAIN file
      BY <1>1
    <3> QED BY <3>1 DEF Verified, Verifies
  <2>2. Len(l[n]) = n
    BY DEF Verifies
  <2> QED BY <1>1, <2>1, <2>2
<1>3. N <= Len(l)
  BY <1>1, <1>2
<1>4. \A i \in 2 .. N : Front(file[i]) = file[i - 1] /\ Front(l[i]) = l[i - 1]
  <2>1. \A i \in 2 .. N : i \in DOMAIN file /\ i \in DOMAIN l /\ i # 1
    BY <1>1, <1>3
  <2> QED BY <2>1 DEF Verified, Verifies
<1>5. \A i \in 1 .. N : file[i] = l[i]
  <2>1. file[N] = l[N]
    BY <1>1, <1>2
  <2>2. \A i \in 2 .. N : file[i] = l[i] => file[i - 1] = l[i - 1]
    BY <1>4
  <2>3. N \in Nat
    BY <1>1
  <2> HIDE DEF N, l
  <2> QED BY <2>1, <2>2, <2>3, Backward
<1> QED BY <1>1, <1>2, <1>3, <1>5, PrefixFacts

LEMMA LogInvSays == LogInv => VerifiedIsOneLog
<1> SUFFICES ASSUME LogInv, Verified(file)
             PROVE  /\ \E p \in Proc : IsPrefix(file, log[p])
                    /\ \A p \in Proc : \A n \in DOMAIN log[p] :
                         VerifiesAnchor(file, log[p][n]) => file = SubSeq(log[p], 1, n)
  BY DEF VerifiedIsOneLog
<1>1. \E p \in Proc : IsPrefix(file, log[p])
  <2>a. CASE file = <<>>
    <3>1. PICK p \in Proc : TRUE
      BY ProcAssumption
    <3>2. log[p] \in Seq(Seq(Event)) /\ file \in Seq(Seq(Event)) /\ Len(file) = 0
      BY <2>a DEF LogInv, LogTypeOK
    <3>3. Len(file) <= Len(log[p]) /\ \A i \in 1 .. Len(file) : file[i] = log[p][i]
      BY <3>2
    <3> QED BY <3>2, <3>3, PrefixFacts
  <2>b. SUFFICES ASSUME file # <<>> PROVE \E p \in Proc : IsPrefix(file, log[p])
    BY <2>a
  <2>1. Len(file) \in DOMAIN file /\ Last(file) = file[Len(file)]
    <3>1. file \in Seq(Seq(Event))
      BY DEF LogInv, LogTypeOK
    <3>2. Len(file) \in Nat \ {0} /\ Last(file) = file[Len(file)]
      BY <2>b, <3>1, FrontFacts
    <3> QED BY <3>1, <3>2
  <2>2. file[Len(file)] # Garbled
    BY <2>1 DEF Verified, Loads
  <2>3. PICK p \in Proc : \E n \in DOMAIN log[p] : Last(file) = log[p][n]
    BY <2>1, <2>2 DEF LogInv, FromLogs
  <2> QED BY <2>b, <2>3, LastTellsAll DEF LogInv, LogsVerify
<1>2. \A p \in Proc : \A n \in DOMAIN log[p] :
        VerifiesAnchor(file, log[p][n]) => file = SubSeq(log[p], 1, n)
  <2> SUFFICES ASSUME NEW p \in Proc, NEW n \in DOMAIN log[p], VerifiesAnchor(file, log[p][n])
               PROVE  file = SubSeq(log[p], 1, n)
    OBVIOUS
  <2>1. Verifies(log[p])
    BY DEF LogInv, LogsVerify
  <2>2. CASE file # <<>>
    <3>1. Last(file) = log[p][n]
      BY <2>2 DEF VerifiesAnchor
    <3> QED BY <2>1, <2>2, <3>1, LastTellsAll DEF LogInv
  <2>3. CASE file = <<>>
    <3>1. log[p][n] = <<>>
      BY <2>3 DEF VerifiesAnchor
    <3>2. Len(log[p][n]) = n /\ n # 0
      BY <2>1 DEF Verifies, LogInv, LogTypeOK
    <3> QED BY <3>1, <3>2
  <2> QED BY <2>2, <2>3
<1> QED BY <1>1, <1>2

-----------------------------------------------------------------------------
(* The invariant *)

(* One step of a process on its log, whatever its sinks do. *)
LogNext ==
  \E p \in Proc :
    \/ Find(p) \/ Refuse(p) \/ Truncate(p) \/ Commit(p)
    \/ WriteFile(p) \/ WriteFails(p) \/ Hand(p) \/ HandFails(p) \/ Die(p)

LEMMA StepsAreLogSteps == [Next]_vars => [LogNext]_logVars
BY DEF Next, vars, logVars, Start, LogStep, SpoolEntry, SpoolFails, FlushSpool, Crash,
   UploadStep, LogNext

LEMMA ExtendedTyped ==
  ASSUME NEW S, NEW lines \in Seq(Seq(S)), NEW text \in Seq(S)
  PROVE  /\ Extended(lines, text) \in Seq(Seq(S))
         /\ \A i \in DOMAIN Extended(lines, text) :
              \/ Extended(lines, text)[i] \in {text, Garbled}
              \/ i \in DOMAIN lines /\ Extended(lines, text)[i] = lines[i]
<1>1. CASE ended
  <2>1. Extended(lines, text) = Append(lines, text)
    BY <1>1 DEF Extended
  <2> QED BY <2>1
<1>2. CASE ~ended
  <2>1. Extended(lines, text) = Append(Front(lines), Garbled)
    BY <1>2 DEF Extended
  <2>2. /\ Front(lines) \in Seq(Seq(S))
        /\ \A i \in DOMAIN Front(lines) : i \in DOMAIN lines /\ Front(lines)[i] = lines[i]
    BY FrontTyped
  <2>3. Garbled \in Seq(S)
    BY DEF Garbled
  <2> QED BY <2>1, <2>2, <2>3
<1> QED BY <1>1, <1>2

(* The next entry, on top of the last one, keeps a log one that verifies. *)
LEMMA NextEntry ==
  ASSUME NEW l \in Seq(Seq(Event)), Verifies(l), NEW e \in Event,
         NEW prev, prev = IF l = <<>> THEN <<>> ELSE Last(l)
  PROVE  /\ Append(prev, e) \in Seq(Event)
         /\ Verifies(Append(l, Append(prev, e)))
<1> DEFINE n == Len(l)
           m == Append(l, Append(prev, e))
<1>1. prev \in Seq(Event) /\ Len(prev) = n
  <2>1. CASE l = <<>>
    BY <2>1
  <2>2. CASE l # <<>>
    <3>1. Last(l) = l[Len(l)] /\ Last(l) \in Seq(Event) /\ Len(l) \in DOMAIN l
      BY <2>2, FrontFacts
    <3> QED BY <2>2, <3>1 DEF Verifies
  <2> QED BY <2>1, <2>2
<1>2. /\ Append(prev, e) \in Seq(Event) /\ Len(Append(prev, e)) = n + 1
      /\ Front(Append(prev, e)) = prev
  <2>1. ASSUME NEW s \in Seq(Event) PROVE Front(Append(s, e)) = s
    BY AppendFacts
  <2>2. Front(Append(prev, e)) = prev
    BY <1>1, <2>1
  <2> QED BY <1>1, <2>2
<1>3. /\ n \in Nat /\ DOMAIN l = 1 .. n /\ DOMAIN m = 1 .. n + 1
      /\ m[n + 1] = Append(prev, e)
      /\ \A i \in 1 .. n : m[i] = l[i]
  BY <1>2
<1>4. Len(m[n + 1]) = n + 1
  BY <1>2, <1>3
<1>5. Front(m[n + 1]) = IF n + 1 = 1 THEN <<>> ELSE m[(n + 1) - 1]
  <2>1. CASE n = 0
    <3>1. l = <<>>
      BY <2>1
    <3> QED BY <1>2, <1>3, <2>1, <3>1
  <2>2. CASE n # 0
    <3>1. l # <<>> /\ n \in 1 .. n /\ (n + 1) - 1 = n /\ n + 1 # 1
      BY <1>3, <2>2
    <3>2. m[n] = l[n]
      BY <1>3, <3>1
    <3> QED BY <1>2, <1>3, <3>1, <3>2 DEF Last
  <2> QED BY <2>1, <2>2
<1>6. ASSUME NEW i \in 1 .. n
      PROVE  Len(m[i]) = i /\ Front(m[i]) = IF i = 1 THEN <<>> ELSE m[i - 1]
  <2>1. Len(l[i]) = i /\ Front(l[i]) = IF i = 1 THEN <<>> ELSE l[i - 1]
    BY <1>3 DEF Verifies
  <2>2. i # 1 => m[i - 1] = l[i - 1]
    BY <1>3
  <2> QED BY <1>3, <2>1, <2>2
<1>7. \A i \in DOMAIN m : i \in 1 .. n \/ i = n + 1
  BY <1>3
<1>8. Verifies(m)
  <2> HIDE DEF m, n
  <2> QED BY <1>4, <1>5, <1>6, <1>7 DEF Verifies
<1> QED BY <1>2, <1>8

LEMMA LogInvInit == Init => LogInv
<1> SUFFICES ASSUME Init PROVE LogInv
  OBVIOUS
<1>1. LogTypeOK
  BY DEF Init, LogInit, LogTypeOK
<1>2. LogsVerify
  BY DEF Init, LogInit, LogsVerify, Verifies
<1>3. FromLogs
  BY DEF Init, LogInit, FromLogs
<1> QED BY <1>1, <1>2, <1>3 DEF LogInv

(* What a line written by p adds to the file is its last entry or no entry. *)
LEMMA WrittenLines ==
  ASSUME LogInv, NEW p \in Proc, log[p] # <<>>, UNCHANGED log,
         NEW text \in {Garbled, Last(log[p])}, file' = Extended(file, text)
  PROVE  file' \in Seq(Seq(Event)) /\ FromLogs'
<1>1. /\ log[p] \in Seq(Seq(Event)) /\ file \in Seq(Seq(Event))
      /\ Len(log[p]) \in DOMAIN log[p] /\ Last(log[p]) = log[p][Len(log[p])]
      /\ Last(log[p]) \in Seq(Event)
  <2>1. log[p] \in Seq(Seq(Event)) /\ file \in Seq(Seq(Event))
    BY DEF LogInv, LogTypeOK
  <2>2. Len(log[p]) \in Nat \ {0} /\ Last(log[p]) = log[p][Len(log[p])]
        /\ Last(log[p]) \in Seq(Event)
    BY <2>1, FrontFacts
  <2> QED BY <2>1, <2>2
<1>2. text \in Seq(Event)
  <2>1. <<>> \in Seq(Event)
    OBVIOUS
  <2> QED BY <1>1, <2>1, Zenon DEF Garbled
<1>3. /\ file' \in Seq(Seq(Event))
      /\ \A i \in DOMAIN file' :
           file'[i] \in {text, Garbled} \/ (i \in DOMAIN file /\ file'[i] = file[i])
  BY <1>1, <1>2, ExtendedTyped
<1>4. ASSUME NEW i \in DOMAIN file', file'[i] # Garbled
      PROVE  \E q \in Proc : \E n \in DOMAIN log[q] : file'[i] = log[q][n]
  <2>1. CASE file'[i] \in {text, Garbled}
    BY <1>1, <1>4, <2>1
  <2>2. CASE i \in DOMAIN file /\ file'[i] = file[i]
    BY <1>4, <2>2 DEF LogInv, FromLogs
  <2> QED BY <1>3, <2>1, <2>2
<1> QED BY <1>3, <1>4 DEF FromLogs

LEMMA LogInvStep == LogInv /\ [LogNext]_logVars => LogInv'
<1> SUFFICES ASSUME LogInv, [LogNext]_logVars PROVE LogInv'
  OBVIOUS
<1> USE DEF LogInv
<1>1. CASE UNCHANGED logVars
  BY <1>1 DEF logVars, LogTypeOK, LogsVerify, FromLogs, Verifies
<1>2. ASSUME NEW p \in Proc, UNCHANGED <<log, file, ended>>, raised' \subseteq Proc,
             NEW s \in {"opening", "open", "refused", "dead"}, Goto(p, s)
      PROVE  LogInv'
  BY <1>2 DEF LogTypeOK, LogsVerify, FromLogs, Verifies, Goto
<1>3. ASSUME NEW p \in Proc, Find(p) \/ Refuse(p) \/ Hand(p) \/ HandFails(p) \/ Die(p)
      PROVE  LogInv'
  <2>1. UNCHANGED <<log, file, ended>> /\ raised' \subseteq Proc
    BY <1>3 DEF Find, Refuse, Hand, HandFails, Die, LogTypeOK
  <2>2. \E s \in {"opening", "open", "refused", "dead"} : Goto(p, s)
    BY <1>3 DEF Find, Refuse, Hand, HandFails, Die
  <2> QED BY <1>2, <2>1, <2>2
<1>4. ASSUME NEW p \in Proc, Truncate(p)
      PROVE  LogInv'
  BY <1>4 DEF Truncate, Goto, LogTypeOK, LogsVerify, FromLogs, Verifies
<1>5. ASSUME NEW p \in Proc, Commit(p)
      PROVE  LogInv'
  <2> DEFINE l == log[p]
             prev == IF l = <<>> THEN <<>> ELSE Last(l)
  <2>1. PICK e \in Event : log' = [log EXCEPT ![p] = Append(l, Append(prev, e))]
    BY <1>5 DEF Commit
  <2> DEFINE new == Append(l, Append(prev, e))
  <2>2. l \in Seq(Seq(Event)) /\ Verifies(l)
    BY DEF LogTypeOK, LogsVerify
  <2>3. Append(prev, e) \in Seq(Event) /\ Verifies(new)
    BY <2>2, NextEntry
  <2> HIDE DEF prev, l
  <2>4. new \in Seq(Seq(Event)) /\ new # <<>>
        /\ \A n \in DOMAIN l : n \in DOMAIN new /\ new[n] = l[n]
    <3> DEFINE entry == Append(prev, e)
    <3>1. entry \in Seq(Event)
      BY <2>3
    <3> HIDE DEF entry
    <3>2. /\ Append(l, entry) \in Seq(Seq(Event)) /\ Append(l, entry) # <<>>
          /\ Len(Append(l, entry)) = Len(l) + 1
          /\ \A n \in 1 .. Len(l) : Append(l, entry)[n] = l[n]
      BY <2>2, <3>1, AppendFacts, ZenonT(60)
    <3>3. \A n \in DOMAIN l : n \in DOMAIN Append(l, entry) /\ Append(l, entry)[n] = l[n]
      BY <2>2, <3>2
    <3> QED BY <3>2, <3>3 DEF entry
  <2> HIDE DEF new
  <2>5. /\ log'[p] = new /\ log' \in [Proc -> Seq(Seq(Event))]
        /\ \A q \in Proc : q # p => log'[q] = log[q]
    BY <2>1, <2>4 DEF LogTypeOK, new, l
  <2>6. LogTypeOK'
    BY <1>5, <2>4, <2>5 DEF Commit, Goto, LogTypeOK
  <2>7. LogsVerify'
    <3>1. ASSUME NEW q \in Proc PROVE Verifies(log'[q])
      <4>1. CASE q = p
        BY <2>3, <2>5, <4>1
      <4>2. CASE q # p
        BY <2>5, <4>2 DEF LogsVerify
      <4> QED BY <4>1, <4>2
    <3> QED BY <3>1 DEF LogsVerify, Verifies
  <2>8. \A q \in Proc : \A n \in DOMAIN log[q] : n \in DOMAIN log'[q] /\ log'[q][n] = log[q][n]
    BY <2>4, <2>5 DEF l
  <2>9. FromLogs'
    <3>1. file' = file
      BY <1>5 DEF Commit
    <3> QED BY <2>8, <3>1 DEF FromLogs
  <2> QED BY <2>6, <2>7, <2>9
<1>6. ASSUME NEW p \in Proc, WriteFile(p) \/ WriteFails(p)
      PROVE  LogInv'
  <2>1. log[p] # <<>> /\ UNCHANGED log
    BY <1>6 DEF WriteFile, WriteFails, LogTypeOK
  <2>2. file' \in Seq(Seq(Event)) /\ FromLogs'
    <3>1. CASE UNCHANGED file
      BY <2>1, <3>1 DEF LogTypeOK, FromLogs
    <3>2. CASE \E text \in {Garbled, Last(log[p])} : file' = Extended(file, text)
      BY <2>1, <3>2, WrittenLines
    <3> QED BY <1>6, <3>1, <3>2 DEF WriteFile, WriteFails
  <2>3. LogTypeOK'
    BY <1>6, <2>1, <2>2 DEF WriteFile, WriteFails, Goto, LogTypeOK
  <2>4. LogsVerify'
    BY <2>1 DEF LogsVerify, Verifies
  <2> QED BY <2>2, <2>3, <2>4
<1> QED BY <1>1, <1>3, <1>4, <1>5, <1>6 DEF LogNext

(* A ledger file that verifies is the beginning of one process's log, and   *)
(* an anchor it passes is over its last entry; whatever failed or died, and *)
(* whether or not processes shared the path (append, load and verify).      *)
THEOREM VerifiedFilesAreOneLog == Spec => []VerifiedIsOneLog
<1>1. Spec => []LogInv
  <2>1. LogInv /\ [Next]_vars => LogInv'
    BY LogInvStep, StepsAreLogSteps
  <2> QED BY LogInvInit, <2>1, PTL DEF Spec
<1> QED BY <1>1, LogInvSays, PTL

-----------------------------------------------------------------------------
(* Processes that do not overlap *)

(* One process runs at a time, and one that will not overwrite found no     *)
(* ledger.                                                                  *)
Alone ==
  /\ \A p, q \in Proc : Running(p) /\ Running(q) => p = q
  /\ \A p \in Proc : pc[p] = "opening" /\ p \notin Overwriters => file = <<>>

(* Until its caller has seen a failure, what a process has written is its   *)
(* log, but for the entry it is writing.                                    *)
FileFollows ==
  \A p \in Proc :
    /\ pc[p] \in {"new", "opening"} => log[p] = <<>>
    /\ pc[p] \in {"open", "handing"} /\ p \notin raised => ended /\ file = log[p]
    /\ pc[p] = "writing" /\ p \notin raised => ended /\ file = Front(log[p])

LEMMA EmptyFront == Front(<<>>) = <<>>
BY DEF Front

LEMMA OnlyItRuns ==
  ASSUME NEW p \in Proc, NEW s, LogTypeOK, Goto(p, s), \A q \in Proc : Running(q) => q = p
  PROVE  \A q, r \in Proc : Running(q)' /\ Running(r)' => q = r
BY DEF Running, Goto, LogTypeOK

(* The process that takes a step is then the only one running. *)
LEMMA StepIsOfTheRunning ==
  ASSUME ~Overlap, LogTypeOK, Alone, NEW p \in Proc,
         \/ Find(p) \/ Truncate(p) \/ Commit(p) \/ WriteFile(p)
         \/ WriteFails(p) \/ Hand(p) \/ HandFails(p) \/ Die(p)
  PROVE  \A q \in Proc : Running(q) => q = p
<1>1. CASE Find(p)
  BY <1>1 DEF Find
<1>2. CASE ~Find(p)
  <2>1. Running(p)
    BY <1>2 DEF Running, Truncate, Commit, WriteFile, WriteFails, Hand, HandFails, Die
  <2> QED BY <2>1 DEF Alone
<1> QED BY <1>1, <1>2

LEMMA AloneStep ==
  ASSUME ~Overlap, LogTypeOK, Alone, [LogNext]_logVars
  PROVE  Alone'
<1>1. CASE UNCHANGED logVars
  BY <1>1 DEF Alone, Running, logVars
<1>2. ASSUME NEW p \in Proc, Refuse(p)
      PROVE  Alone'
  BY <1>2 DEF Refuse, Goto, Alone, Running, LogTypeOK
<1>3. ASSUME NEW p \in Proc,
             \/ Find(p) \/ Truncate(p) \/ Commit(p) \/ WriteFile(p)
             \/ WriteFails(p) \/ Hand(p) \/ HandFails(p) \/ Die(p)
      PROVE  Alone'
  <2>1. \A q \in Proc : Running(q) => q = p
    BY <1>3, StepIsOfTheRunning
  <2>2. PICK s \in {"opening", "open", "writing", "handing", "dead"} : Goto(p, s)
    BY <1>3 DEF Find, Truncate, Commit, WriteFile, WriteFails, Hand, HandFails, Die
  <2>3. \A q, r \in Proc : Running(q)' /\ Running(r)' => q = r
    BY <2>1, <2>2, OnlyItRuns
  <2>4. ASSUME NEW q \in Proc, pc'[q] = "opening", q \notin Overwriters
        PROVE  file' = <<>>
    <3>1. q = p
      BY <2>1, <2>2, <2>4 DEF Running, Goto, LogTypeOK
    <3>2. Find(p)
      BY <1>3, <2>4, <3>1 DEF Truncate, Commit, WriteFile, WriteFails, Hand, HandFails,
         Die, Goto, LogTypeOK
    <3> QED BY <2>4, <3>1, <3>2 DEF Find
  <2> QED BY <2>3, <2>4 DEF Alone
<1> QED BY <1>1, <1>2, <1>3 DEF LogNext

-----------------------------------------------------------------------------
(* The restart rule *)

LEMMA ExtendedKeeps ==
  ASSUME NEW S, NEW lines \in Seq(S), Garbled \in S, NEW text \in S
  PROVE  IsPrefix(IF ended THEN lines ELSE Front(lines), Extended(lines, text))
<1> DEFINE kept == IF ended THEN lines ELSE Front(lines)
           added == IF ended THEN text ELSE Garbled
<1>1. kept \in Seq(S) /\ added \in S
  BY FrontTyped
<1>2. Extended(lines, text) = Append(kept, added)
  BY DEF Extended
<1> HIDE DEF kept, added
<1>3. /\ Append(kept, added) \in Seq(S) /\ Len(Append(kept, added)) = Len(kept) + 1
      /\ \A i \in 1 .. Len(kept) : Append(kept, added)[i] = kept[i]
  BY <1>1, AppendFacts, ZenonT(60)
<1>4. Len(kept) <= Len(Append(kept, added)) /\ \A i \in 1 .. Len(kept) : kept[i] = Append(kept, added)[i]
  BY <1>1, <1>3
<1>5. IsPrefix(kept, Append(kept, added))
  BY <1>1, <1>3, <1>4, PrefixFacts
<1> QED BY <1>2, <1>5 DEF kept

LEMMA StepKeeps ==
  ASSUME LogInv, Alone, [LogNext]_logVars
  PROVE  \/ UNCHANGED file
         \/ IsPrefix(IF ended THEN file ELSE Front(file), file')
         \/ \E p \in Overwriters : pc[p] = "opening"
<1>1. CASE UNCHANGED logVars
  BY <1>1 DEF logVars
<1>2. ASSUME NEW p \in Proc,
             Find(p) \/ Refuse(p) \/ Commit(p) \/ Hand(p) \/ HandFails(p) \/ Die(p)
      PROVE  UNCHANGED file
  BY <1>2 DEF Find, Refuse, Commit, Hand, HandFails, Die
<1>3. ASSUME NEW p \in Proc, Truncate(p)
      PROVE  UNCHANGED file \/ \E q \in Overwriters : pc[q] = "opening"
  BY <1>3 DEF Truncate, Alone
<1>4. ASSUME NEW p \in Proc, WriteFile(p) \/ WriteFails(p)
      PROVE  UNCHANGED file \/ IsPrefix(IF ended THEN file ELSE Front(file), file')
  <2>1. log[p] # <<>> /\ log[p] \in Seq(Seq(Event)) /\ file \in Seq(Seq(Event))
    BY <1>4 DEF WriteFile, WriteFails, LogInv, LogTypeOK
  <2>2. Last(log[p]) \in Seq(Event)
    BY <2>1, FrontFacts
  <2>3. Garbled \in Seq(Event)
    BY DEF Garbled
  <2>4. UNCHANGED file \/ \E text \in Seq(Event) : file' = Extended(file, text)
    BY <1>4, <2>2, <2>3 DEF WriteFile, WriteFails
  <2> QED BY <2>1, <2>3, <2>4, ExtendedKeeps
<1> QED BY <1>1, <1>2, <1>3, <1>4 DEF LogNext

(* The restart rule (AuditLog.__init__): while processes use the path one   *)
(* at a time, no complete line of a ledger is changed or erased unless by   *)
(* one that asked to overwrite.                                             *)
THEOREM LedgersKept == ASSUME ~Overlap PROVE Spec => LedgersAreKept
<1> DEFINE Inv == LogInv /\ Alone
           Keeps == \/ IsPrefix(IF ended THEN file ELSE Front(file), file')
                    \/ \E p \in Overwriters : pc[p] = "opening"
<1>1. Init => Inv
  <2>1. Init => Alone
    BY DEF Init, LogInit, Alone, Running
  <2> QED BY <2>1, LogInvInit
<1>2. Inv /\ [Next]_vars => Inv'
  BY LogInvStep, StepsAreLogSteps, AloneStep DEF LogInv
<1>3. Inv /\ [Next]_vars => [Keeps]_file
  BY StepsAreLogSteps, StepKeeps
<1> QED BY <1>1, <1>2, <1>3, PTL DEF Spec, LedgersAreKept

-----------------------------------------------------------------------------
(* What was written loads *)

LEMMA FollowsStep ==
  ASSUME ~Overlap, LogInv, Alone, FileFollows, [LogNext]_logVars
  PROVE  FileFollows'
<1> USE DEF LogInv
<1>1. CASE UNCHANGED logVars
  BY <1>1 DEF FileFollows, logVars
<1>2. ASSUME NEW p \in Proc, Refuse(p)
      PROVE  FileFollows'
  BY <1>2 DEF Refuse, Goto, FileFollows, LogTypeOK
<1>3. ASSUME NEW p \in Proc,
             \/ Find(p) \/ Truncate(p) \/ Commit(p) \/ WriteFile(p)
             \/ WriteFails(p) \/ Hand(p) \/ HandFails(p) \/ Die(p)
      PROVE  FileFollows'
  <2>1. \A q \in Proc : Running(q) => q = p
    BY <1>3, StepIsOfTheRunning
  <2>2. /\ \A q \in Proc : q # p => pc'[q] = pc[q] /\ log'[q] = log[q]
        /\ \A q \in Proc : q # p => pc[q] \notin {"opening", "open", "writing", "handing"}
    BY <1>3, <2>1 DEF Find, Truncate, Commit, WriteFile, WriteFails, Hand, HandFails, Die,
       Goto, LogTypeOK, Running
  <2>3. ASSUME NEW q \in Proc, q # p
        PROVE  /\ pc'[q] \in {"new", "opening"} => log'[q] = <<>>
               /\ pc'[q] \notin {"open", "handing", "writing"}
    BY <2>2, <2>3 DEF FileFollows
  <2>4. /\ pc'[p] \in {"new", "opening"} => log'[p] = <<>>
        /\ pc'[p] \in {"open", "handing"} /\ p \notin raised' => ended' /\ file' = log'[p]
        /\ pc'[p] = "writing" /\ p \notin raised' => ended' /\ file' = Front(log'[p])
    <3>1. CASE Find(p) \/ Hand(p) \/ HandFails(p) \/ Die(p)
      BY <3>1 DEF Find, Hand, HandFails, Die, Goto, LogTypeOK, FileFollows
    <3>2. CASE Truncate(p)
      BY <3>2 DEF Truncate, Goto, LogTypeOK, FileFollows
    <3>3. CASE Commit(p)
      <4> DEFINE prev == IF log[p] = <<>> THEN <<>> ELSE Last(log[p])
      <4>1. PICK e \in Event : log' = [log EXCEPT ![p] = Append(log[p], Append(prev, e))]
        BY <3>3 DEF Commit
      <4>2. /\ pc[p] = "open" /\ pc'[p] = "writing" /\ UNCHANGED <<raised, file, ended>>
            /\ log[p] \in Seq(Seq(Event)) /\ Verifies(log[p])
        BY <3>3 DEF Commit, Goto, LogTypeOK, LogsVerify
      <4>3. Append(prev, e) \in Seq(Event)
        BY <4>2, NextEntry
      <4> HIDE DEF prev
      <4>4. log'[p] = Append(log[p], Append(prev, e))
        BY <4>1 DEF LogTypeOK
      <4>5. ASSUME NEW s \in Seq(Seq(Event)), NEW x \in Seq(Event)
            PROVE  Front(Append(s, x)) = s
        BY AppendFacts
      <4>6. Front(log'[p]) = log[p]
        BY <4>2, <4>3, <4>4, <4>5
      <4> QED BY <4>2, <4>6 DEF FileFollows
    <3>4. CASE WriteFile(p)
      <4>1. /\ pc[p] = "writing" /\ pc'[p] = "handing" /\ ended' /\ UNCHANGED <<log, raised>>
            /\ file' = Extended(file, Last(log[p]))
            /\ log[p] \in Seq(Seq(Event)) /\ log[p] # <<>>
        BY <3>4 DEF WriteFile, Goto, LogTypeOK
      <4>2. ASSUME p \notin raised
            PROVE  file' = log[p]
        <5>1. file' = Append(Front(log[p]), Last(log[p]))
          BY <4>1, <4>2 DEF FileFollows, Extended
        <5>2. Append(Front(log[p]), Last(log[p])) = log[p]
          BY <4>1, FrontAndLast
        <5> QED BY <5>1, <5>2
      <4> QED BY <4>1, <4>2
    <3>5. CASE WriteFails(p)
      BY <3>5 DEF WriteFails, Goto, LogTypeOK
    <3> QED BY <1>3, <3>1, <3>2, <3>3, <3>4, <3>5
  <2> QED BY <2>3, <2>4 DEF FileFollows
<1> QED BY <1>1, <1>2, <1>3 DEF LogNext

LEMMA VerifiedLoads ==
  ASSUME Separated = {}, NEW s \in Seq(Seq(Event)), Verifies(s)
  PROVE  Loads(s)
<1> SUFFICES ASSUME NEW i \in DOMAIN s PROVE s[i] # Garbled
  BY DEF Loads
<1>1. Len(s[i]) = i /\ i # 0
  BY DEF Verifies
<1> QED BY <1>1 DEF Garbled

(* What load() returns after appends that did not raise is the log, when    *)
(* processes use the path one at a time and no text holds a separator.      *)
THEOREM WrittenFilesLoad ==
  ASSUME ~Overlap, Separated = {}
  PROVE  Spec => []FilesLoadBack
<1> DEFINE Inv == LogInv /\ Alone /\ FileFollows
<1>1. Init => Inv
  BY LogInvInit DEF Init, LogInit, Alone, Running, FileFollows
<1>2. Inv /\ [Next]_vars => Inv'
  BY LogInvStep, StepsAreLogSteps, AloneStep, FollowsStep DEF LogInv
<1>3. Inv => FilesLoadBack
  BY VerifiedLoads DEF LogInv, LogTypeOK, LogsVerify, FileFollows, FilesLoadBack
<1> QED BY <1>1, <1>2, <1>3, PTL DEF Spec

-----------------------------------------------------------------------------
(* The spool *)

SpoolTypeOK ==
  /\ spool \in Seq(Proc \X Seq(Event))
  /\ overflowed \subseteq Proc
  /\ buffer \in [Proc -> Seq(Proc \X Seq(Event))]
  /\ \A p \in Proc : \A i \in DOMAIN buffer[p] : buffer[p][i][1] = p

(* The entries a sink has been offered: all but the one being appended. *)
Offered(p) == Len(log[p]) - (IF pc[p] \in {"writing", "handing"} THEN 1 ELSE 0)

(* The n-th line of a process in the spool is the n-th entry of its log. *)
Numbered(p) ==
  \A i \in LinesOf(p) : /\ Cardinality(UpTo(p, i)) \in 1 .. Len(log[p])
                        /\ spool[i][2] = log[p][Cardinality(UpTo(p, i))]

(* Until its caller has seen a failure, a process's sink holds nothing back, *)
(* and the spool has each entry it was offered up to its overflow.           *)
SpoolFollows ==
  \A p \in Proc \ raised :
    /\ buffer[p] = <<>>
    /\ Numbered(p)
    /\ Cardinality(LinesOf(p)) <= Offered(p)
    /\ pc[p] # "dead" /\ p \notin overflowed => Cardinality(LinesOf(p)) = Offered(p)

SpoolInv == SpoolTypeOK /\ SpoolFollows

LEMMA SpoolCounts ==
  ASSUME SpoolTypeOK, NEW p
  PROVE  /\ IsFiniteSet(LinesOf(p)) /\ Cardinality(LinesOf(p)) \in Nat
         /\ DOMAIN spool = 1 .. Len(spool) /\ Len(spool) \in Nat
<1>1. DOMAIN spool = 1 .. Len(spool) /\ Len(spool) \in Nat
  BY DEF SpoolTypeOK
<1>2. IsFiniteSet(1 .. Len(spool)) /\ LinesOf(p) \subseteq 1 .. Len(spool)
  BY <1>1, FS_Interval DEF LinesOf
<1> QED BY <1>1, <1>2, FS_Subset, FS_CardinalityType

(* Lines of another process do not disturb the ones of p. *)
LEMMA LinesOfOthers ==
  ASSUME SpoolTypeOK, NEW p, NEW q, p # q,
         NEW lines \in Seq(Proc \X Seq(Event)), \A i \in DOMAIN lines : lines[i][1] = q,
         spool' = spool \o lines
  PROVE  /\ LinesOf(p)' = LinesOf(p)
         /\ \A i \in LinesOf(p) : spool'[i] = spool[i] /\ UpTo(p, i)' = UpTo(p, i)
<1>1. /\ DOMAIN spool = 1 .. Len(spool) /\ Len(spool) \in Nat
      /\ DOMAIN lines = 1 .. Len(lines) /\ Len(lines) \in Nat
      /\ DOMAIN spool' = 1 .. Len(spool) + Len(lines)
  BY DEF SpoolTypeOK
<1>2. \A i \in 1 .. Len(spool) : spool'[i] = spool[i]
  BY DEF SpoolTypeOK
<1>3. ASSUME NEW i \in DOMAIN spool', i \notin 1 .. Len(spool)
      PROVE  spool'[i][1] = q
  <2>1. i - Len(spool) \in DOMAIN lines
    BY <1>1, <1>3
  <2>2. spool'[i] = lines[i - Len(spool)]
    BY <1>1, <1>3 DEF SpoolTypeOK
  <2> QED BY <2>1, <2>2
<1>4. \A i : i \in LinesOf(p)' <=> i \in LinesOf(p)
  <2>1. 1 .. Len(spool) \subseteq DOMAIN spool'
    BY <1>1
  <2> QED BY <1>1, <1>2, <1>3, <2>1 DEF LinesOf
<1>5. LinesOf(p)' = LinesOf(p)
  BY <1>4
<1>6. ASSUME NEW i PROVE UpTo(p, i)' = UpTo(p, i)
  BY <1>5 DEF UpTo
<1>7. LinesOf(p) \subseteq 1 .. Len(spool)
  BY <1>1 DEF LinesOf
<1> QED BY <1>2, <1>5, <1>6, <1>7

(* A line of p gets the next number. *)
GainsLine(p, e, k) ==
  /\ LinesOf(p)' = LinesOf(p) \cup {k}
  /\ spool'[k] = <<p, e>>
  /\ UpTo(p, k)' = LinesOf(p)'
  /\ \A i \in LinesOf(p) : spool'[i] = spool[i] /\ UpTo(p, i)' = UpTo(p, i)
  /\ Cardinality(LinesOf(p))' = Cardinality(LinesOf(p)) + 1

LEMMA OneMoreLine ==
  ASSUME SpoolTypeOK, NEW p \in Proc, NEW e \in Seq(Event), spool' = Append(spool, <<p, e>>),
         NEW k, k = Len(spool) + 1
  PROVE  GainsLine(p, e, k)
<1>1. /\ DOMAIN spool = 1 .. k - 1 /\ k \in Nat \ {0} /\ IsFiniteSet(LinesOf(p))
      /\ DOMAIN spool' = 1 .. k
      /\ \A i \in 1 .. k - 1 : spool'[i] = spool[i]
      /\ spool'[k] = <<p, e>>
  BY SpoolCounts DEF SpoolTypeOK
<1>2. LinesOf(p) \subseteq 1 .. k - 1
  BY <1>1 DEF LinesOf
<1>3. LinesOf(p)' = LinesOf(p) \cup {k}
  <2>1. \A i : i \in 1 .. k <=> i \in 1 .. k - 1 \/ i = k
    BY <1>1
  <2>2. \A i : i \in LinesOf(p)' <=> i \in LinesOf(p) \/ i = k
    BY <1>1, <2>1 DEF LinesOf
  <2> QED BY <2>2
<1>4. k \notin LinesOf(p)
  BY <1>1, <1>2
<1>5. UpTo(p, k)' = LinesOf(p)'
  <2>1. \A j \in LinesOf(p) \cup {k} : j <= k
    BY <1>1, <1>2
  <2> QED BY <1>3, <2>1 DEF UpTo
<1>6. ASSUME NEW i \in LinesOf(p)
      PROVE  spool'[i] = spool[i] /\ UpTo(p, i)' = UpTo(p, i)
  <2>1. i \in 1 .. k - 1 /\ ~(k <= i)
    BY <1>1, <1>2
  <2> QED BY <1>1, <1>3, <2>1 DEF UpTo
<1>7. Cardinality(LinesOf(p))' = Cardinality(LinesOf(p)) + 1
  BY <1>1, <1>3, <1>4, FS_AddElement
<1> QED BY <1>1, <1>3, <1>5, <1>6, <1>7 DEF GainsLine

-----------------------------------------------------------------------------
(* What a step of p may do to the spool: append lines of p. *)
Appends(p) ==
  \E lines \in Seq(Proc \X Seq(Event)) :
    /\ \A i \in DOMAIN lines : lines[i][1] = p
    /\ spool' = spool \o lines

(* ... and to the others: nothing. *)
LeavesOthers(p) ==
  \A q \in Proc \ {p} :
    /\ pc'[q] = pc[q] /\ log'[q] = log[q] /\ buffer'[q] = buffer[q]
    /\ q \in raised' <=> q \in raised
    /\ q \in overflowed' <=> q \in overflowed

StepOf(p) ==
  \/ Start(p) \/ LogStep(p) \/ SpoolEntry(p) \/ SpoolFails(p)
  \/ FlushSpool(p) \/ Crash(p)

LEMMA NothingAppended ==
  ASSUME SpoolTypeOK, NEW p, UNCHANGED spool
  PROVE  Appends(p)
<1>1. spool \o <<>> = spool /\ <<>> \in Seq(Proc \X Seq(Event)) /\ DOMAIN <<>> = {}
  BY DEF SpoolTypeOK
<1>2. \A i \in DOMAIN <<>> : <<>>[i][1] = p
  BY <1>1
<1> QED BY <1>1, <1>2 DEF Appends

LEMMA AppendedTyped ==
  ASSUME SpoolTypeOK, NEW p, Appends(p)
  PROVE  spool' \in Seq(Proc \X Seq(Event))
BY DEF Appends, SpoolTypeOK

(* The line of the entry being appended. *)
LEMMA LineTyped ==
  ASSUME LogTypeOK, NEW p \in Proc, pc[p] = "handing"
  PROVE  /\ Line(p) \in Proc \X Seq(Event) /\ Line(p)[1] = p
         /\ Line(p) = <<p, log[p][Len(log[p])]>> /\ log[p][Len(log[p])] \in Seq(Event)
         /\ Len(log[p]) \in Nat \ {0}
<1>1. log[p] \in Seq(Seq(Event)) /\ log[p] # <<>>
  BY DEF LogTypeOK
<1>2. Len(log[p]) \in Nat \ {0} /\ Last(log[p]) = log[p][Len(log[p])] /\ Last(log[p]) \in Seq(Event)
  BY <1>1, FrontFacts
<1> QED BY <1>2 DEF Line

LEMMA StepAppends ==
  ASSUME LogTypeOK, SpoolTypeOK, NEW p \in Proc, StepOf(p)
  PROVE  Appends(p) /\ LeavesOthers(p) /\ SpoolTypeOK'
<1>1. CASE Start(p) \/ LogStep(p)
  <2>2. UNCHANGED <<spool, overflowed, buffer>>
    BY <1>1 DEF Start, OpenSink, LogStep, spoolVars, sinkVars
  <2>3. LeavesOthers(p)
    BY <1>1, <2>2 DEF LeavesOthers, Start, Find, Refuse, LogStep, Truncate, Commit, WriteFile,
       WriteFails, Goto, LogTypeOK
  <2> QED BY <2>2, <2>3, NothingAppended DEF SpoolTypeOK
<1>2. CASE SpoolEntry(p) \/ SpoolFails(p)
  <2>1. pc[p] = "handing" /\ (Hand(p) \/ HandFails(p))
    BY <1>2 DEF SpoolEntry, SpoolFails, Hand, HandFails
  <2>2. /\ \A q \in Proc \ {p} : pc'[q] = pc[q] /\ log'[q] = log[q]
        /\ \A q \in Proc \ {p} : q \in raised' <=> q \in raised
    BY <2>1 DEF Hand, HandFails, Goto, LogTypeOK
  <2>3. Line(p) \in Proc \X Seq(Event) /\ Line(p)[1] = p
    BY <2>1, LineTyped
  <2> DEFINE held == Append(buffer[p], Line(p))
  <2>4. held \in Seq(Proc \X Seq(Event)) /\ \A i \in DOMAIN held : held[i][1] = p
    <3> DEFINE b == buffer[p]
               l == Line(p)
    <3>1. /\ b \in Seq(Proc \X Seq(Event)) /\ l \in Proc \X Seq(Event) /\ l[1] = p
          /\ \A i \in DOMAIN b : b[i][1] = p
      BY <2>3 DEF SpoolTypeOK
    <3> HIDE DEF b, l
    <3>2. Append(b, l) \in Seq(Proc \X Seq(Event)) /\ \A i \in DOMAIN Append(b, l) : Append(b, l)[i][1] = p
      BY <3>1
    <3> QED BY <3>2 DEF b, l
  <2> HIDE DEF held
  <2>5. CASE UNCHANGED sinkVars
    BY <2>2, <2>5, NothingAppended DEF sinkVars, LeavesOthers, SpoolTypeOK
  <2>6. CASE WriteDropped(p, Line(p))
    BY <2>2, <2>6, NothingAppended DEF WriteDropped, LeavesOthers, SpoolTypeOK
  <2>7. CASE WriteHeld(p, Line(p))
    <3>1. buffer' = [buffer EXCEPT ![p] = held] /\ UNCHANGED <<spool, overflowed>>
      BY <2>7 DEF WriteHeld, held
    <3>2. LeavesOthers(p)
      BY <2>2, <3>1 DEF LeavesOthers, SpoolTypeOK
    <3>3. SpoolTypeOK'
      BY <2>4, <3>1 DEF SpoolTypeOK
    <3> QED BY <3>1, <3>2, <3>3, NothingAppended
  <2>8. CASE WriteLine(p, Line(p))
    <3>1. /\ buffer' = [buffer EXCEPT ![p] = <<>>] /\ UNCHANGED overflowed
          /\ spool' = spool \o held
      BY <2>8 DEF WriteLine, held
    <3>2. Appends(p)
      BY <2>4, <3>1 DEF Appends
    <3>3. LeavesOthers(p)
      BY <2>2, <3>1 DEF LeavesOthers, SpoolTypeOK
    <3>4. SpoolTypeOK'
      BY <3>1, <3>2, AppendedTyped DEF SpoolTypeOK
    <3> QED BY <3>2, <3>3, <3>4
  <2> QED BY <1>2, <2>5, <2>6, <2>7, <2>8 DEF SpoolEntry, SpoolFails
<1>3. CASE FlushSpool(p)
  <2>1. /\ buffer' = [buffer EXCEPT ![p] = <<>>] /\ UNCHANGED overflowed
        /\ spool' = spool \o buffer[p] /\ UNCHANGED <<pc, log, raised>>
    BY <1>3 DEF FlushSpool, Flush, logVars
  <2>2. Appends(p)
    BY <2>1 DEF Appends, SpoolTypeOK
  <2>3. LeavesOthers(p)
    BY <2>1 DEF LeavesOthers, SpoolTypeOK
  <2>4. SpoolTypeOK'
    BY <2>1, <2>2, AppendedTyped DEF SpoolTypeOK
  <2> QED BY <2>2, <2>3, <2>4
<1>4. CASE Crash(p)
  BY <1>4, NothingAppended DEF Crash, Die, LoseBuffer, Goto, LeavesOthers, SpoolTypeOK, LogTypeOK
<1> QED BY <1>1, <1>2, <1>3, <1>4 DEF StepOf

(* The entry a process commits is above those it has offered. *)
LEMMA NumbersStay ==
  ASSUME SpoolTypeOK, LogTypeOK, LogTypeOK', NEW p \in Proc, Numbered(p),
         LinesOf(p)' = LinesOf(p),
         \A i \in LinesOf(p) : spool'[i] = spool[i] /\ UpTo(p, i)' = UpTo(p, i),
         Len(log[p]) <= Len(log'[p]), \A n \in 1 .. Len(log[p]) : log'[p][n] = log[p][n]
  PROVE  Numbered(p)'
<1>1. Len(log[p]) \in Nat /\ Len(log'[p]) \in Nat
  BY DEF LogTypeOK
<1>2. ASSUME NEW i \in LinesOf(p)
      PROVE  /\ Cardinality(UpTo(p, i)') \in 1 .. Len(log'[p])
             /\ spool'[i][2] = log'[p][Cardinality(UpTo(p, i)')]
  <2>1. /\ Cardinality(UpTo(p, i)) \in 1 .. Len(log[p])
        /\ spool[i][2] = log[p][Cardinality(UpTo(p, i))]
    BY DEF Numbered
  <2> QED BY <1>1, <2>1
<1> QED BY <1>2 DEF Numbered

LEMMA OthersFollow ==
  ASSUME LogTypeOK, LogTypeOK', SpoolTypeOK, SpoolFollows,
         NEW p \in Proc, Appends(p), LeavesOthers(p), NEW q \in Proc \ raised', q # p
  PROVE  /\ buffer'[q] = <<>> /\ Numbered(q)'
         /\ Cardinality(LinesOf(q))' <= Offered(q)'
         /\ pc'[q] # "dead" /\ q \notin overflowed' => Cardinality(LinesOf(q))' = Offered(q)'
<1>1. q \notin raised /\ UNCHANGED <<pc[q], log[q], buffer[q]>> /\ (q \in overflowed' <=> q \in overflowed)
  BY DEF LeavesOthers
<1>2. /\ LinesOf(q)' = LinesOf(q)
      /\ \A i \in LinesOf(q) : spool'[i] = spool[i] /\ UpTo(q, i)' = UpTo(q, i)
  BY LinesOfOthers DEF Appends
<1>3. Numbered(q)'
  <2>1. Len(log[q]) <= Len(log[q])
    BY DEF LogTypeOK
  <2> QED BY <1>1, <1>2, <2>1, NumbersStay DEF SpoolFollows
<1> QED BY <1>1, <1>2, <1>3 DEF SpoolFollows, Offered

LEMMA OwnFollows ==
  ASSUME LogTypeOK, LogTypeOK', SpoolTypeOK, SpoolFollows,
         NEW p \in Proc, StepOf(p), p \notin raised'
  PROVE  /\ buffer'[p] = <<>> /\ Numbered(p)'
         /\ Cardinality(LinesOf(p))' <= Offered(p)'
         /\ pc'[p] # "dead" /\ p \notin overflowed' => Cardinality(LinesOf(p))' = Offered(p)'
<1>1. p \notin raised
  BY DEF StepOf, Start, Find, Refuse, LogStep, Truncate, Commit, WriteFile, WriteFails,
     SpoolEntry, Hand, SpoolFails, HandFails, FlushSpool, logVars, Crash, Die
<1>2. /\ buffer[p] = <<>> /\ Numbered(p) /\ Cardinality(LinesOf(p)) \in Nat
      /\ Cardinality(LinesOf(p)) <= Offered(p)
      /\ pc[p] # "dead" /\ p \notin overflowed => Cardinality(LinesOf(p)) = Offered(p)
      /\ Len(log[p]) \in Nat
  BY <1>1, SpoolCounts DEF SpoolFollows, LogTypeOK
<1>3. ASSUME UNCHANGED <<spool, buffer, overflowed>>, UNCHANGED log,
             \/ pc[p] = "new" /\ pc'[p] \in {"opening", "refused"}
             \/ pc[p] = "opening" /\ pc'[p] = "open"
             \/ pc[p] = "writing" /\ pc'[p] = "handing"
      PROVE  /\ buffer'[p] = <<>> /\ Numbered(p)'
             /\ Cardinality(LinesOf(p))' <= Offered(p)'
             /\ pc'[p] # "dead" /\ p \notin overflowed' => Cardinality(LinesOf(p))' = Offered(p)'
  <2>1. Offered(p)' = Offered(p) /\ LinesOf(p)' = LinesOf(p)
    BY <1>3 DEF Offered, LinesOf
  <2>2. Numbered(p)'
    BY <1>2, <1>3, <2>1 DEF Numbered, UpTo
  <2> QED BY <1>2, <1>3, <2>1, <2>2
<1>4. CASE Start(p) \/ (LogStep(p) /\ (Truncate(p) \/ WriteFile(p)))
  <2>1. UNCHANGED <<spool, buffer, overflowed, log>>
    BY <1>4 DEF Start, Find, Refuse, OpenSink, LogStep, Truncate, WriteFile, spoolVars, sinkVars
  <2>2. \/ pc[p] = "new" /\ pc'[p] \in {"opening", "refused"}
        \/ pc[p] = "opening" /\ pc'[p] = "open"
        \/ pc[p] = "writing" /\ pc'[p] = "handing"
    BY <1>4 DEF Start, Find, Refuse, LogStep, Truncate, WriteFile, Goto, LogTypeOK
  <2> QED BY <1>3, <2>1, <2>2
<1>5. CASE LogStep(p) /\ Commit(p)
  <2>1. /\ UNCHANGED <<spool, buffer, overflowed>>
        /\ pc[p] = "open" /\ pc'[p] = "writing"
        /\ \E x : log' = [log EXCEPT ![p] = Append(log[p], x)]
    BY <1>5 DEF LogStep, Commit, Goto, LogTypeOK, spoolVars, sinkVars
  <2>2. PICK x : log'[p] = Append(log[p], x)
    BY <2>1 DEF LogTypeOK
  <2>3. /\ Len(log'[p]) = Len(log[p]) + 1
        /\ \A n \in 1 .. Len(log[p]) : log'[p][n] = log[p][n]
    BY <2>2 DEF LogTypeOK
  <2>4. Offered(p)' = Offered(p) /\ LinesOf(p)' = LinesOf(p) /\ Len(log[p]) <= Len(log'[p])
    BY <1>2, <2>1, <2>3 DEF Offered, LinesOf
  <2>5. \A i \in LinesOf(p) : spool'[i] = spool[i] /\ UpTo(p, i)' = UpTo(p, i)
    BY <2>1, <2>4 DEF UpTo
  <2>6. Numbered(p)'
    BY <1>2, <2>3, <2>4, <2>5, NumbersStay
  <2> QED BY <1>2, <2>1, <2>4, <2>6
<1>6. CASE SpoolEntry(p)
  <2>1. pc[p] = "handing" /\ pc'[p] = "open" /\ UNCHANGED log
    BY <1>6 DEF SpoolEntry, Hand, Goto, LogTypeOK
  <2>2. Offered(p)' = Len(log[p]) /\ Offered(p) = Len(log[p]) - 1 /\ Len(log[p]) \in Nat \ {0}
    BY <2>1, LineTyped DEF Offered
  <2>3. CASE WriteDropped(p, Line(p))
    <3>1. UNCHANGED <<spool, buffer>> /\ p \in overflowed'
      BY <2>3 DEF WriteDropped
    <3>2. LinesOf(p)' = LinesOf(p) /\ Numbered(p)'
      BY <1>2, <2>1, <3>1 DEF LinesOf, Numbered, UpTo
    <3> QED BY <1>2, <2>2, <3>1, <3>2
  <2>4. CASE WriteLine(p, Line(p))
    <3> DEFINE n == Len(log[p])
    <3>1. /\ spool' = spool \o Append(<<>>, Line(p)) /\ buffer' = [buffer EXCEPT ![p] = <<>>]
          /\ p \notin overflowed
      BY <1>2, <2>4 DEF WriteLine, Drops
    <3>2. /\ Line(p) \in Proc \X Seq(Event)
          /\ Line(p) = <<p, log[p][n]>> /\ log[p][n] \in Seq(Event)
      BY <2>1, LineTyped
    <3>3. spool' = Append(spool, <<p, log[p][n]>>)
      <4>1. ASSUME NEW S, NEW s \in Seq(S), NEW x \in S PROVE s \o Append(<<>>, x) = Append(s, x)
        OBVIOUS
      <4>2. spool \o Append(<<>>, Line(p)) = Append(spool, Line(p))
        BY <3>2, <4>1 DEF SpoolTypeOK
      <4> QED BY <3>1, <3>2, <4>2
    <3>4. PICK k \in Nat, e \in Seq(Event) : k = Len(spool) + 1 /\ e = log[p][n]
      <4>1. Len(spool) + 1 \in Nat
        BY SpoolCounts
      <4> QED BY <3>2, <4>1
    <3> HIDE DEF n
    <3>5a. spool' = Append(spool, <<p, e>>)
      BY <3>3, <3>4
    <3>5b. GainsLine(p, e, k)
      BY <3>4, <3>5a, OneMoreLine, Zenon
    <3>5. /\ LinesOf(p)' = LinesOf(p) \cup {k}
          /\ spool'[k] = <<p, log[p][n]>>
          /\ UpTo(p, k)' = LinesOf(p)'
          /\ \A i \in LinesOf(p) : spool'[i] = spool[i] /\ UpTo(p, i)' = UpTo(p, i)
          /\ Cardinality(LinesOf(p))' = Cardinality(LinesOf(p)) + 1
      BY <3>4, <3>5b DEF GainsLine
    <3>6. Cardinality(LinesOf(p))' = n /\ n \in Nat \ {0} /\ n = Len(log[p])
      BY <1>2, <2>1, <2>2, <3>1, <3>5 DEF n
    <3>7. ASSUME NEW i \in LinesOf(p)'
          PROVE  /\ Cardinality(UpTo(p, i)') \in 1 .. Len(log'[p])
                 /\ spool'[i][2] = log'[p][Cardinality(UpTo(p, i)')]
      <4>1. CASE i = k
        <5>1. UpTo(p, i)' = LinesOf(p)'
          BY <3>5, <4>1
        <5>2. Cardinality(UpTo(p, i)') = n
          BY <3>6, <5>1
        <5> QED BY <2>1, <3>5, <3>6, <4>1, <5>2
      <4>2. CASE i \in LinesOf(p)
        <5>1. UpTo(p, i)' = UpTo(p, i) /\ spool'[i] = spool[i]
          BY <3>5, <4>2
        <5> QED BY <1>2, <2>1, <4>2, <5>1 DEF Numbered
      <4> QED BY <3>5, <3>7, <4>1, <4>2
    <3>8. Numbered(p)'
      BY <3>7 DEF Numbered
    <3>9. buffer'[p] = <<>>
      BY <3>1 DEF SpoolTypeOK
    <3> QED BY <2>2, <3>6, <3>8, <3>9
  <2> QED BY <1>6, <2>3, <2>4 DEF SpoolEntry
<1>7. CASE Crash(p)
  <2>1. UNCHANGED <<spool, log>> /\ pc'[p] = "dead" /\ buffer' = [buffer EXCEPT ![p] = <<>>]
    BY <1>7 DEF Crash, Die, LoseBuffer, Goto, LogTypeOK
  <2>2. LinesOf(p)' = LinesOf(p) /\ Numbered(p)'
    BY <1>2, <2>1 DEF LinesOf, Numbered, UpTo
  <2>3. Offered(p) <= Offered(p)' /\ Offered(p) \in Int /\ Offered(p)' \in Int
    BY <1>2, <2>1 DEF Offered
  <2> QED BY <1>2, <2>1, <2>2, <2>3 DEF SpoolTypeOK
<1>8. ~FlushSpool(p) /\ ~SpoolFails(p) /\ ~WriteFails(p)
  BY <1>2 DEF FlushSpool, Flush, SpoolFails, HandFails, WriteFails
<1> QED BY <1>4, <1>5, <1>6, <1>7, <1>8 DEF StepOf, LogStep

(* A sink keeps the lines of its process in order and, once it has dropped  *)
(* one, keeps no later one (SpoolSink.write): while no append has raised,   *)
(* the spool holds the beginning of the log, whoever else writes to it.     *)
THEOREM SpoolsKeepPrefixes == Spec => []SpoolIsAPrefix
<1> DEFINE Inv == LogInv /\ SpoolInv
<1>1. Init => Inv
  <2> SUFFICES ASSUME Init PROVE SpoolInv
    BY LogInvInit
  <2>1. SpoolTypeOK
    BY BootAssumption DEF Init, SpoolInit, SpoolTypeOK
  <2>2. \A p \in Proc : LinesOf(p) = {}
    BY DEF Init, SpoolInit, LinesOf
  <2>3. \A p \in Proc : Offered(p) = 0
    BY DEF Init, LogInit, Offered
  <2>4. Cardinality({}) = 0
    BY FS_EmptySet
  <2>5. SpoolFollows
    <3> SUFFICES ASSUME NEW p \in Proc
                 PROVE  /\ buffer[p] = <<>> /\ Numbered(p)
                        /\ Cardinality(LinesOf(p)) = Offered(p) /\ Offered(p) <= Offered(p)
      BY <2>2, <2>3, <2>4 DEF SpoolFollows
    <3>1. buffer[p] = <<>>
      BY BootAssumption DEF Init, SpoolInit
    <3>2. Numbered(p)
      BY <2>2 DEF Numbered
    <3>3. Cardinality(LinesOf(p)) = 0
      BY <2>2, <2>4
    <3>4. Offered(p) = 0
      BY <2>3
    <3> QED BY <3>1, <3>2, <3>3, <3>4
  <2> QED BY <2>1, <2>5 DEF SpoolInv
<1>2. Inv /\ [Next]_vars => Inv'
  <2> SUFFICES ASSUME LogInv, SpoolInv, [Next]_vars, LogInv' PROVE SpoolInv'
    BY LogInvStep, StepsAreLogSteps
  <2> USE DEF SpoolInv, LogInv
  <2>1. CASE UNCHANGED vars \/ UploadStep
    <3>1. UNCHANGED <<spool, buffer, overflowed, pc, log, raised>>
      BY <2>1 DEF vars, UploadStep, logVars, spoolVars, sinkVars
    <3>2. \A p : LinesOf(p)' = LinesOf(p) /\ Offered(p)' = Offered(p)
      BY <3>1 DEF LinesOf, Offered
    <3>3. \A p, i : UpTo(p, i)' = UpTo(p, i)
      BY <3>2 DEF UpTo
    <3>4. \A p : Numbered(p)' <=> Numbered(p)
      BY <3>1, <3>2, <3>3 DEF Numbered
    <3> QED BY <3>1, <3>2, <3>4 DEF SpoolTypeOK, SpoolFollows
  <2>2. ASSUME NEW p \in Proc, StepOf(p)
        PROVE  SpoolInv'
    <3>1. Appends(p) /\ LeavesOthers(p) /\ SpoolTypeOK'
      BY <2>2, StepAppends
    <3>2. SpoolFollows'
      BY <2>2, <3>1, OwnFollows, OthersFollow DEF SpoolFollows
    <3> QED BY <3>1, <3>2
  <2> QED BY <2>1, <2>2 DEF Next, StepOf
<1>3. Inv => SpoolIsAPrefix
  <2> SUFFICES ASSUME LogInv, SpoolInv, NEW p \in Proc \ raised
               PROVE  /\ \A i \in LinesOf(p) :
                            /\ Cardinality(UpTo(p, i)) <= Len(log[p])
                            /\ spool[i][2] = log[p][Cardinality(UpTo(p, i))]
                      /\ pc[p] = "open" /\ p \notin overflowed
                            => Cardinality(LinesOf(p)) = Len(log[p])
    BY DEF SpoolIsAPrefix
  <2>1. Len(log[p]) \in Nat
    BY DEF LogInv, LogTypeOK
  <2>2. /\ Numbered(p)
        /\ pc[p] # "dead" /\ p \notin overflowed => Cardinality(LinesOf(p)) = Offered(p)
    BY DEF SpoolInv, SpoolFollows
  <2>3. pc[p] = "open" => Offered(p) = Len(log[p])
    BY <2>1 DEF Offered
  <2>4. ASSUME NEW i \in LinesOf(p)
        PROVE  /\ Cardinality(UpTo(p, i)) <= Len(log[p])
               /\ spool[i][2] = log[p][Cardinality(UpTo(p, i))]
    BY <2>1, <2>2 DEF Numbered
  <2>5. pc[p] = "open" /\ p \notin overflowed => Cardinality(LinesOf(p)) = Len(log[p])
    BY <2>2, <2>3
  <2> QED BY <2>4, <2>5
<1> QED BY <1>1, <1>2, <1>3, PTL DEF Spec
=============================================================================
