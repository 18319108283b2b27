----------------------------- MODULE GuardProofs -----------------------------
(***************************************************************************)
(* What holds of a chain for every number of threads, agents, nodes and    *)
(* calls, both schema versions, every strike policy and every fault: types *)
(* and the revocation invariants, and then what the ledger and the chain   *)
(* owe one another.  The containment check of verify_bundle passes on      *)
(* every ledger the Guards write, every authority is within its            *)
(* ancestors', the kill entries tell the revocations, and the nodes the    *)
(* ledger does not define are those a delegate() has not logged yet.       *)
(*                                                                         *)
(* Then execution binding: the calls of a ledger are numbered as the chain *)
(* drew them, each outcome follows the call it is of, what is pending is   *)
(* what the ledger leaves open, and a finalized node leaves nothing open.  *)
(* The call limits are counted on the same entries.  And with these, that  *)
(* Guard implements AbstractGuard.                                         *)
(***************************************************************************)
EXTENDS GuardRefinement, FiniteSetTheorems, TLAPS

-----------------------------------------------------------------------------
(* Types *)

LEMMA RootIsNode == 0 \in NodeId
BY BoundAssumption DEF NodeId

LEMMA CreatedAreNodes ==
  ASSUME next \in 1 .. MaxNodes
  PROVE  Created \subseteq NodeId
BY BoundAssumption DEF Created, NodeId

LEMMA OneNodeMore ==
  ASSUME next \in 1 .. MaxNodes, next < MaxNodes, next' = next + 1
  PROVE  /\ Created' = Created \cup {next} /\ next \notin Created
         /\ Created \subseteq NodeId /\ next \in NodeId /\ next' \in 1 .. MaxNodes
BY BoundAssumption DEF Created, NodeId

LEMMA EntriesTyped ==
  /\ Blank \in Entry
  /\ \A p, c \in NodeId : SpawnEntry(p, c) \in Entry
  /\ \A p \in NodeId : SpawnDeniedEntry(p) \in Entry /\ DoneEntry(p) \in Entry
  /\ \A n \in NodeId, x \in Act, k \in Nat \cup {NoCall}, t \in BOOLEAN :
       AllowEntry(n, x, k, t) \in Entry
  /\ \A n \in NodeId, k \in Nat \cup {NoCall} :
       PassthroughEntry(n, k) \in Entry /\ DenyEntry(n, k) \in Entry
       /\ OutcomeEntry(n, k) \in Entry
  /\ \A ns \in SUBSET NodeId, ks \in SUBSET Nat : KillEntry(ns, ks) \in Entry
<1> USE RootIsNode
<1>1. Blank \in Entry
  BY DEF Blank, Entry
<1>2. \A p, c \in NodeId : SpawnEntry(p, c) \in Entry
  BY DEF SpawnEntry, Blank, Entry
<1>3. \A p \in NodeId : SpawnDeniedEntry(p) \in Entry /\ DoneEntry(p) \in Entry
  BY DEF SpawnDeniedEntry, DoneEntry, Blank, Entry
<1>4. \A n \in NodeId, x \in Act, k \in Nat \cup {NoCall}, t \in BOOLEAN :
        AllowEntry(n, x, k, t) \in Entry
  BY DEF AllowEntry, Blank, Entry
<1>5. \A n \in NodeId, k \in Nat \cup {NoCall} :
        PassthroughEntry(n, k) \in Entry /\ DenyEntry(n, k) \in Entry
        /\ OutcomeEntry(n, k) \in Entry
  BY DEF PassthroughEntry, DenyEntry, OutcomeEntry, Blank, Entry
<1>6. \A ns \in SUBSET NodeId, ks \in SUBSET Nat : KillEntry(ns, ks) \in Entry
  BY DEF KillEntry, Blank, Entry
<1>7. QED  BY <1>1, <1>2, <1>3, <1>4, <1>5, <1>6

LEMMA InitTyped == Init => TypeOK
<1> SUFFICES ASSUME Init
             PROVE  TypeOK
  OBVIOUS
<1>1. ledger \in Seq(Entry)
  BY EntriesTyped DEF Init
<1>2. TreeTypeOK
  BY RootIsNode, RootAssumption, BoundAssumption DEF Init, ChainInit, TreeTypeOK
<1>3. ChainTypeOK
  BY <1>2 DEF Init, ChainInit, ChainTypeOK
<1>4. QED  BY <1>1, <1>3, RootIsNode DEF Init, TypeOK

LEMMA CallIdTyped ==
  ASSUME nextCall \in Nat
  PROVE  CallId \in Nat \cup {NoCall} /\ (DrawCallId => nextCall' \in Nat)
BY DEF CallId, DrawCallId

LEMMA GotoTyped ==
  ASSUME TypeOK, NEW t \in Thread, NEW n \in NodeId,
         NEW where \in {"idle", "spawned", "refused", "sweeping", "unlogged"},
         Goto(t, where, n)
  PROVE  /\ pc' \in [Thread -> {"idle", "spawned", "refused", "sweeping", "unlogged"}]
         /\ subject' \in [Thread -> NodeId]
BY DEF TypeOK, Goto

LEMMA LogTyped ==
  ASSUME TypeOK, NEW e \in Entry, Log(e)
  PROVE  ledger' \in Seq(Entry)
BY DEF TypeOK, Log

LEMMA CallsTyped ==
  ASSUME TypeOK, NEW t \in Thread, NEW n \in NodeId
  PROVE  /\ \A x \in Act, terminal \in BOOLEAN : CheckAllow(t, n, x, terminal) => TypeOK'
         /\ \A x \in Act, raises \in BOOLEAN : CheckDeny(t, n, x, raises) => TypeOK'
         /\ RecordDenial(t, n) => TypeOK'
         /\ RecordPassthrough(t, n) => TypeOK'
         /\ \A k \in Nat : RecordOutcome(t, n, k) => TypeOK'
         /\ Complete(t, n) => TypeOK'
<1> USE DEF TypeOK, ChainTypeOK, TreeTypeOK, treeVars, bindVars, lockVars, chainVars
<1>1. ASSUME NEW x \in Act, NEW terminal \in BOOLEAN, CheckAllow(t, n, x, terminal)
      PROVE  TypeOK'
  <2>1. CallId \in Nat \cup {NoCall} /\ nextCall' \in Nat
    BY <1>1, CallIdTyped DEF CheckAllow
  <2>2. ledger' \in Seq(Entry)
    BY <1>1, <2>1, EntriesTyped, LogTyped DEF CheckAllow
  <2>3. terminal => CallId \in Nat
    BY <1>1 DEF CheckAllow, CallId
  <2>4. pending' \in [NodeId -> SUBSET Nat]
    <3>1. CASE terminal
      <4>1. CallId \in Nat /\ RegisterPending(n, CallId)
        BY <1>1, <2>3, <3>1 DEF CheckAllow
      <4>2. QED  BY <4>1 DEF RegisterPending
    <3>2. CASE ~terminal
      BY <1>1, <3>2 DEF CheckAllow
    <3>3. QED  BY <3>1, <3>2
  <2>5. calls' \in [NodeId -> Nat]
    BY <1>1 DEF CheckAllow, CountCall
  <2>6. QED  BY <1>1, <2>1, <2>2, <2>4, <2>5 DEF CheckAllow
<1>2. ASSUME NEW x \in Act, NEW raises \in BOOLEAN, CheckDeny(t, n, x, raises)
      PROVE  TypeOK'
  <2>1. CallId \in Nat \cup {NoCall} /\ nextCall' \in Nat
    BY <1>2, CallIdTyped DEF CheckDeny
  <2>2. ledger' \in Seq(Entry)
    BY <1>2, <2>1, EntriesTyped, LogTyped DEF CheckDeny
  <2>3. /\ strikes' \in [NodeId \X (Act \cup {"*"}) -> Nat]
        /\ lock' \in Thread \cup {Free} /\ work' \subseteq NodeId /\ swept' \subseteq NodeId
        /\ pc' \in [Thread -> {"idle", "spawned", "refused", "sweeping", "unlogged"}]
        /\ subject' \in [Thread -> NodeId]
    <3>1. \/ UNCHANGED <<strikes, lock, work, swept, pc, subject>>
          \/ /\ RecordStrike(n, x)
             /\ \/ StartSweep(t, {n}) /\ Goto(t, "sweeping", n)
                \/ UNCHANGED <<lock, work, swept, pc, subject>>
      BY <1>2 DEF CheckDeny, Strike
    <3>2. <<n, StrikeSlot(x)>> \in NodeId \X (Act \cup {"*"})
      BY DEF StrikeSlot
    <3>3. RecordStrike(n, x) => strikes' \in [NodeId \X (Act \cup {"*"}) -> Nat]
      BY <3>2 DEF RecordStrike
    <3>4. QED  BY <3>1, <3>3 DEF StartSweep, Goto
  <2>4. QED  BY <1>2, <2>1, <2>2, <2>3 DEF CheckDeny
<1>3. ASSUME RecordDenial(t, n)
      PROVE  TypeOK'
  <2>1. CallId \in Nat \cup {NoCall} /\ nextCall' \in Nat
    BY <1>3, CallIdTyped DEF RecordDenial
  <2>2. ledger' \in Seq(Entry)
    BY <1>3, <2>1, EntriesTyped, LogTyped DEF RecordDenial
  <2>3. QED  BY <1>3, <2>1, <2>2 DEF RecordDenial
<1>4. ASSUME RecordPassthrough(t, n)
      PROVE  TypeOK'
  <2>1. CallId \in Nat \cup {NoCall} /\ nextCall' \in Nat
    BY <1>4, CallIdTyped DEF RecordPassthrough
  <2>2. ledger' \in Seq(Entry)
    BY <1>4, <2>1, EntriesTyped, LogTyped DEF RecordPassthrough
  <2>3. QED  BY <1>4, <2>1, <2>2 DEF RecordPassthrough
<1>5. ASSUME NEW k \in Nat, RecordOutcome(t, n, k)
      PROVE  TypeOK'
  <2>1. ledger' \in Seq(Entry)
    BY <1>5, EntriesTyped, LogTyped DEF RecordOutcome
  <2>2. QED  BY <1>5, <2>1 DEF RecordOutcome, ResolvePending
<1>6. ASSUME Complete(t, n)
      PROVE  TypeOK'
  <2>1. ledger' \in Seq(Entry)
    BY <1>6, EntriesTyped, LogTyped DEF Complete
  <2>2. QED  BY <1>6, <2>1 DEF Complete
<1>7. QED  BY <1>1, <1>2, <1>3, <1>4, <1>5, <1>6

LEMMA DelegationsTyped ==
  ASSUME TypeOK, NEW t \in Thread
  PROVE  /\ \A p \in NodeId, a \in Agent, r \in Request :
              (DelegateAdd(t, p, a, r) => TypeOK') /\ (DelegateRefused(t, p, a, r) => TypeOK')
         /\ LogSpawn(t) => TypeOK'
         /\ \A fault : SpawnFault(t, fault) => TypeOK'
         /\ LogSpawnDenied(t) => TypeOK'
<1> USE DEF TypeOK, ChainTypeOK, TreeTypeOK, treeVars, bindVars, lockVars, chainVars
<1>1. ASSUME NEW p \in NodeId, NEW a \in Agent, NEW r \in Request, DelegateAdd(t, p, a, r)
      PROVE  TypeOK'
  <2>1. next \in NodeId /\ next' = next + 1 /\ next' \in 1 .. MaxNodes
    <3>1. next \in 1 .. MaxNodes /\ next < MaxNodes /\ next' = next + 1
      BY <1>1 DEF DelegateAdd, AddChild
    <3>2. QED  BY <3>1, OneNodeMore
  <2>2. Attenuate(auth[p], r) \in Auth
    BY <1>1, MeetLaw DEF DelegateAdd, AddChild
  <2>3. TreeTypeOK'
    BY <1>1, <2>1, <2>2, SMTT(30) DEF DelegateAdd, AddChild
  <2>4. /\ pc' \in [Thread -> {"idle", "spawned", "refused", "sweeping", "unlogged"}]
        /\ subject' \in [Thread -> NodeId]
    BY <1>1, <2>1, GotoTyped DEF DelegateAdd
  <2>5. QED  BY <1>1, <2>3, <2>4 DEF DelegateAdd
<1>2. ASSUME NEW p \in NodeId, NEW a \in Agent, NEW r \in Request, DelegateRefused(t, p, a, r)
      PROVE  TypeOK'
  BY <1>2 DEF DelegateRefused, Goto
<1>3. ASSUME LogSpawn(t)
      PROVE  TypeOK'
  <2>1. ledger' \in Seq(Entry)
    BY <1>3, EntriesTyped, LogTyped DEF LogSpawn
  <2>2. QED  BY <1>3, <2>1, RootIsNode DEF LogSpawn, Goto
<1>4. ASSUME NEW fault, SpawnFault(t, fault)
      PROVE  TypeOK'
  <2>1. ledger' \in Seq(Entry)
    BY <1>4, EntriesTyped, LogTyped DEF SpawnFault
  <2>2. QED  BY <1>4, <2>1, RootIsNode DEF SpawnFault, Goto
<1>5. ASSUME LogSpawnDenied(t)
      PROVE  TypeOK'
  <2>1. ledger' \in Seq(Entry)
    BY <1>5, EntriesTyped, LogTyped DEF LogSpawnDenied
  <2>2. QED  BY <1>5, <2>1, RootIsNode DEF LogSpawnDenied, Goto
<1>6. QED  BY <1>1, <1>2, <1>3, <1>4, <1>5

LEMMA KillsTyped ==
  ASSUME TypeOK, NEW t \in Thread
  PROVE  /\ \A n \in NodeId : Revoke(t, n) => TypeOK'
         /\ \A a \in Agent : RevokeAgent(t, a) => TypeOK'
         /\ \A n \in NodeId : Sweep(t, n) => TypeOK'
         /\ \A n \in NodeId : SweepKeyError(t, n) => TypeOK'
         /\ LogKill(t) => TypeOK'
         /\ KillUnlogged(t) => TypeOK'
<1> USE DEF TypeOK, ChainTypeOK, TreeTypeOK, treeVars, bindVars, lockVars, chainVars, guardVars
<1>0. Created \subseteq NodeId
  BY CreatedAreNodes
<1>1. ASSUME NEW n \in NodeId, Revoke(t, n)
      PROVE  TypeOK'
  BY <1>1 DEF Revoke, StartSweep, Goto
<1>2. ASSUME NEW a \in Agent, RevokeAgent(t, a)
      PROVE  TypeOK'
  <2>1. lock' = t /\ work' \subseteq NodeId /\ swept' = {} /\ banned' \subseteq Agent
    BY <1>0, <1>2 DEF RevokeAgent, StartSweep
  <2>2. QED  BY <1>2, <2>1, RootIsNode DEF RevokeAgent, Goto
<1>3. ASSUME NEW n \in NodeId, Sweep(t, n)
      PROVE  TypeOK'
  <2>1. Children(n) \subseteq NodeId
    BY <1>0 DEF Children
  <2>2. /\ work' \subseteq NodeId /\ revoked' \subseteq NodeId /\ marked' \subseteq NodeId
        /\ swept' \subseteq NodeId /\ lock' = lock
    BY <1>3, <2>1 DEF Sweep, SweepNode
  <2>3. QED  BY <1>3, <2>2 DEF Sweep
<1>4. ASSUME NEW n \in NodeId, SweepKeyError(t, n)
      PROVE  TypeOK'
  BY <1>4, RootIsNode DEF SweepKeyError, SweepUnknown, Goto
<1>5. ASSUME LogKill(t)
      PROVE  TypeOK'
  <2>1. UNION {pending[n] : n \in swept} \subseteq Nat
    OBVIOUS
  <2>2. ledger' \in Seq(Entry)
    BY <1>5, <2>1, EntriesTyped, LogTyped DEF LogKill
  <2>3. QED  BY <1>5, <2>2, RootIsNode DEF LogKill, EndSweep, Goto
<1>6. ASSUME KillUnlogged(t)
      PROVE  TypeOK'
  BY <1>6, RootIsNode DEF KillUnlogged, EndSweep, Goto
<1>7. QED  BY <1>1, <1>2, <1>3, <1>4, <1>5, <1>6

THEOREM Typed == Spec => []TypeOK
<1>1. TypeOK /\ [Next]_vars => TypeOK'
  <2> SUFFICES ASSUME TypeOK, [Next]_vars
               PROVE  TypeOK'
    OBVIOUS
  <2>1. CASE PassTime
    BY <2>1 DEF PassTime, Tick, TypeOK, ChainTypeOK, TreeTypeOK, treeVars, bindVars,
                lockVars, guardVars
  <2>2. ASSUME NEW t \in Thread, Call(t)
        PROVE  TypeOK'
    <3>1. \A k \in 0 .. MaxCalls : k \in Nat
      OBVIOUS
    <3>2. ASSUME NEW n \in NodeId, NEW x \in Act,
                 \/ \E terminal \in BOOLEAN : CheckAllow(t, n, x, terminal)
                 \/ \E raises \in BOOLEAN : CheckDeny(t, n, x, raises)
          PROVE  TypeOK'
      BY <3>2, CallsTyped
    <3>3. ASSUME NEW n \in NodeId, RecordDenial(t, n) \/ RecordPassthrough(t, n)
                 \/ (\E k \in 0 .. MaxCalls : RecordOutcome(t, n, k)) \/ Complete(t, n)
          PROVE  TypeOK'
      BY <3>1, <3>3, CallsTyped
    <3>4. ASSUME NEW n \in NodeId,
                 \/ Revoke(t, n)
                 \/ \E a \in Agent, r \in Request :
                      DelegateAdd(t, n, a, r) \/ DelegateRefused(t, n, a, r)
          PROVE  TypeOK'
      BY <3>4, DelegationsTyped, KillsTyped
    <3>5. QED  BY <2>2, <3>2, <3>3, <3>4, KillsTyped, Zenon DEF Call
  <2>3. ASSUME NEW t \in Thread, Continue(t)
        PROVE  TypeOK'
    BY <2>3, DelegationsTyped, KillsTyped DEF Continue
  <2>4. CASE UNCHANGED vars
    BY <2>4 DEF vars, chainVars, TypeOK, ChainTypeOK, TreeTypeOK, treeVars, bindVars,
                lockVars, guardVars
  <2>5. QED  BY <2>1, <2>2, <2>3, <2>4 DEF Next
<1>2. QED  BY <1>1, InitTyped, PTL DEF Spec

-----------------------------------------------------------------------------
(* Revocation                                                              *)
(*                                                                         *)
(* CascadeClosed and BannedHoldNothing are not inductive: between two      *)
(* iterations of a cascade neither holds.  What every step keeps is their  *)
(* relaxation by the nodes still on the stack, with the facts that make    *)
(* the stack empty whenever the lock is free, and a stack that holds an id *)
(* no node has hold nothing else (revoke() was called with it), so that    *)
(* dropping the stack on the KeyError loses no node.                       *)

WellParented ==
  /\ \A c \in Created : parent[c] \in Created
  /\ guards \subseteq Created
  /\ \A t \in Thread : pc[t] = "spawned" => subject[t] \in Created

BannedCovered == \A n \in Created : agent[n] \in banned => n \in revoked \cup work

StackSound ==
  /\ lock = Free => work = {}
  /\ \A n \in work : n \notin Created => work = {n}

RevocationInv ==
  /\ TypeOK
  /\ WellParented
  /\ CascadeCovered
  /\ BannedCovered
  /\ StackSound

LEMMA InitRevocation == Init => RevocationInv
<1> SUFFICES ASSUME Init
             PROVE  RevocationInv
  OBVIOUS
<1>1. Created = {0}
  BY DEF Init, ChainInit, Created
<1>2. WellParented /\ CascadeCovered /\ BannedCovered /\ StackSound
  BY <1>1, RootIsNode DEF Init, ChainInit, WellParented, CascadeCovered, BannedCovered, StackSound
<1>3. QED  BY <1>2, InitTyped DEF RevocationInv

(* A step that touches neither the tree nor the revocations. *)
LEMMA QuietRevocation ==
  ASSUME RevocationInv, TypeOK',
         UNCHANGED <<next, parent, agent, revoked, banned, guards, lock, work>>,
         \A t \in Thread : pc'[t] = "spawned" => pc[t] = "spawned" /\ subject'[t] = subject[t]
  PROVE  RevocationInv'
BY DEF RevocationInv, WellParented, CascadeCovered, BannedCovered, StackSound, Created

LEMMA DelegationRevocation ==
  ASSUME RevocationInv, TypeOK', NEW t \in Thread, NEW p \in NodeId, NEW a \in Agent,
         NEW r \in Request, DelegateAdd(t, p, a, r)
  PROVE  RevocationInv'
<1>0. next \in 1 .. MaxNodes /\ next < MaxNodes /\ next' = next + 1
  BY DEF RevocationInv, TypeOK, ChainTypeOK, TreeTypeOK, DelegateAdd, AddChild
<1>1. /\ Created' = Created \cup {next} /\ next \notin Created
      /\ Created \subseteq NodeId /\ next \in NodeId
  BY <1>0, OneNodeMore
<1>2. /\ lock = Free /\ work = {} /\ p \in Created
      /\ p \notin revoked /\ a \notin banned
      /\ UNCHANGED <<revoked, banned, guards, lock, work>>
  BY DEF RevocationInv, WellParented, StackSound, DelegateAdd, Enter, AddChild, Delegable, lockVars
<1>3. /\ parent'[next] = p /\ agent'[next] = a
      /\ \A c \in Created : parent'[c] = parent[c] /\ agent'[c] = agent[c]
  <2>1. /\ parent \in [NodeId -> NodeId] /\ parent' = [parent EXCEPT ![next] = p]
        /\ agent \in [NodeId -> Agent] /\ agent' = [agent EXCEPT ![next] = a]
    BY DEF RevocationInv, TypeOK, ChainTypeOK, TreeTypeOK, DelegateAdd, AddChild
  <2>2. QED  BY <1>1, <2>1
<1>4. \A u \in Thread : pc'[u] = "spawned" =>
        subject'[u] = next \/ (pc[u] = "spawned" /\ subject'[u] = subject[u])
  BY DEF RevocationInv, TypeOK, DelegateAdd, Goto
<1>5. WellParented'
  BY <1>1, <1>2, <1>3, <1>4 DEF RevocationInv, WellParented
<1>6. CascadeCovered'
  BY <1>1, <1>2, <1>3 DEF RevocationInv, CascadeCovered
<1>7. BannedCovered'
  BY <1>1, <1>2, <1>3 DEF RevocationInv, BannedCovered
<1>8. StackSound'
  BY <1>2 DEF StackSound
<1>9. QED  BY <1>5, <1>6, <1>7, <1>8 DEF RevocationInv

(* revoke, revoke_agent and the strike policy take the lock and stack what   *)
(* they are to revoke.                                                      *)
LEMMA StartRevocation ==
  ASSUME RevocationInv, TypeOK', NEW t \in Thread, NEW targets, lock = Free,
         StartSweep(t, targets),
         UNCHANGED <<next, parent, agent, revoked, guards>>,
         \A u \in Thread : pc'[u] = "spawned" => pc[u] = "spawned" /\ subject'[u] = subject[u],
         \A n \in targets : n \notin Created => targets = {n},
         \A n \in Created : agent[n] \in banned' => agent[n] \in banned \/ n \in revoked \cup targets
  PROVE  RevocationInv'
<1>1. work = {} /\ work' = targets /\ lock' = t /\ t # Free /\ Created' = Created
  BY ThreadAssumption DEF RevocationInv, StackSound, StartSweep, Created
<1>2. WellParented'
  BY <1>1 DEF RevocationInv, WellParented
<1>3. CascadeCovered'
  BY <1>1 DEF RevocationInv, CascadeCovered
<1>4. BannedCovered'
  BY <1>1 DEF RevocationInv, BannedCovered
<1>5. StackSound'
  BY <1>1 DEF StackSound
<1>6. QED  BY <1>2, <1>3, <1>4, <1>5 DEF RevocationInv

LEMMA SweepRevocation ==
  ASSUME RevocationInv, TypeOK', NEW t \in Thread, NEW n \in NodeId, Sweep(t, n)
  PROVE  RevocationInv'
<1>1. /\ lock' = lock /\ lock # Free /\ n \in work /\ Created' = Created
      /\ UNCHANGED <<next, parent, agent, banned, guards, pc, subject>>
      /\ n \in Created \cup revoked
  BY ThreadAssumption DEF Sweep, SweepNode, treeVars, guardVars, Created
<1>2. WellParented'
  BY <1>1 DEF RevocationInv, WellParented
<1>3. CASE n \in revoked
  <2>1. revoked' = revoked /\ work' = work \ {n}
    BY <1>3 DEF Sweep, SweepNode
  <2>2. QED  BY <1>1, <1>2, <1>3, <2>1
             DEF RevocationInv, CascadeCovered, BannedCovered, StackSound
<1>4. CASE n \notin revoked
  <2>1. /\ revoked' = revoked \cup {n} /\ work' = (work \ {n}) \cup Children(n)
        /\ n \in Created /\ Children(n) \subseteq Created
    BY <1>1, <1>4 DEF Sweep, SweepNode, Children
  <2>2. CascadeCovered'
    BY <1>1, <2>1 DEF RevocationInv, CascadeCovered, Children
  <2>3. BannedCovered'
    BY <1>1, <2>1 DEF RevocationInv, BannedCovered
  <2>4. StackSound'
    BY <1>1, <2>1 DEF RevocationInv, StackSound
  <2>5. QED  BY <1>2, <2>2, <2>3, <2>4 DEF RevocationInv
<1>5. QED  BY <1>3, <1>4

LEMMA KeyErrorRevocation ==
  ASSUME RevocationInv, TypeOK', NEW t \in Thread, NEW n \in NodeId, SweepKeyError(t, n)
  PROVE  RevocationInv'
<1>1. /\ work = {n} /\ n \notin Created /\ work' = {} /\ revoked' = revoked \cup {n}
      /\ Created' = Created /\ UNCHANGED <<next, parent, agent, banned, guards>>
  BY DEF RevocationInv, StackSound, SweepKeyError, SweepUnknown, treeVars, Created
<1>2. \A u \in Thread : pc'[u] = "spawned" => pc[u] = "spawned" /\ subject'[u] = subject[u]
  BY DEF RevocationInv, TypeOK, SweepKeyError, Goto
<1>3. WellParented'
  BY <1>1, <1>2 DEF RevocationInv, WellParented
<1>4. CascadeCovered'
  BY <1>1 DEF RevocationInv, CascadeCovered, WellParented
<1>5. BannedCovered' /\ StackSound'
  BY <1>1 DEF RevocationInv, BannedCovered, StackSound
<1>6. QED  BY <1>3, <1>4, <1>5 DEF RevocationInv

(* The end of a cascade: the stack is empty. *)
LEMMA EndRevocation ==
  ASSUME RevocationInv, TypeOK', work = {}, EndSweep,
         UNCHANGED <<next, parent, agent, revoked, banned, guards>>,
         \A u \in Thread : pc'[u] = "spawned" => pc[u] = "spawned" /\ subject'[u] = subject[u]
  PROVE  RevocationInv'
BY DEF RevocationInv, WellParented, CascadeCovered, BannedCovered, StackSound, Created, EndSweep

LEMMA CallRevocation ==
  ASSUME RevocationInv, TypeOK', NEW t \in Thread, Call(t)
  PROVE  RevocationInv'
<1> DEFINE Quiet ==
      /\ UNCHANGED <<next, parent, agent, revoked, banned, guards, lock, work>>
      /\ \A u \in Thread : pc'[u] = "spawned" => pc[u] = "spawned" /\ subject'[u] = subject[u]
<1>0. Quiet => RevocationInv'
  BY QuietRevocation
<1>1. ASSUME NEW n \in NodeId, NEW x \in Act, NEW terminal \in BOOLEAN,
             CheckAllow(t, n, x, terminal)
      PROVE  RevocationInv'
  BY <1>0, <1>1 DEF CheckAllow, treeVars, lockVars
<1>2. ASSUME NEW n \in NodeId, NEW x \in Act, NEW raises \in BOOLEAN,
             CheckDeny(t, n, x, raises)
      PROVE  RevocationInv'
  <2>1. /\ lock = Free /\ n \in Created
        /\ UNCHANGED <<next, parent, agent, revoked, banned, guards>>
    BY <1>2 DEF CheckDeny, Enter, RevocationInv, WellParented, treeVars
  <2>2. CASE UNCHANGED <<lock, work, swept, pc, subject>>
    BY <1>0, <2>1, <2>2
  <2>3. CASE StartSweep(t, {n}) /\ Goto(t, "sweeping", n)
    <3>1. \A u \in Thread : pc'[u] = "spawned" => pc[u] = "spawned" /\ subject'[u] = subject[u]
      BY <2>3 DEF Goto, RevocationInv, TypeOK
    <3>2. \A m \in Created : agent[m] \in banned' => agent[m] \in banned
      BY <2>1
    <3>3. QED  BY <2>1, <2>3, <3>1, <3>2, StartRevocation
  <2>4. QED  BY <1>2, <2>2, <2>3 DEF CheckDeny, Strike, lockVars
<1>3. ASSUME NEW n \in NodeId, RecordDenial(t, n) \/ RecordPassthrough(t, n)
      PROVE  RevocationInv'
  BY <1>0, <1>3 DEF RecordDenial, RecordPassthrough, chainVars, treeVars, lockVars
<1>4. ASSUME NEW n \in NodeId, Complete(t, n) \/ \E k \in 0 .. MaxCalls : RecordOutcome(t, n, k)
      PROVE  RevocationInv'
  BY <1>0, <1>4 DEF Complete, RecordOutcome, treeVars, lockVars
<1>5. ASSUME NEW n \in NodeId, NEW a \in Agent, NEW r \in Request, DelegateRefused(t, n, a, r)
      PROVE  RevocationInv'
  <2>1. UNCHANGED chainVars /\ UNCHANGED guards /\ Goto(t, "refused", n)
    BY <1>5 DEF DelegateRefused
  <2>2. QED  BY <1>0, <2>1 DEF chainVars, treeVars, lockVars, Goto, RevocationInv, TypeOK
<1>6. ASSUME NEW n \in NodeId, Revoke(t, n)
      PROVE  RevocationInv'
  <2>1. /\ lock = Free /\ StartSweep(t, {n})
        /\ UNCHANGED <<next, parent, agent, revoked, banned, guards>>
    BY <1>6 DEF Revoke, Enter, treeVars
  <2>2. \A u \in Thread : pc'[u] = "spawned" => pc[u] = "spawned" /\ subject'[u] = subject[u]
    BY <1>6 DEF Revoke, Goto, RevocationInv, TypeOK
  <2>3. \A m \in Created : agent[m] \in banned' => agent[m] \in banned
    BY <2>1
  <2>4. QED  BY <2>1, <2>2, <2>3, StartRevocation
<1>7. ASSUME NEW a \in Agent, RevokeAgent(t, a)
      PROVE  RevocationInv'
  <2> DEFINE targets == {n \in Created : agent[n] = a} \ revoked
  <2>1. /\ lock = Free /\ StartSweep(t, targets) /\ banned' = banned \cup {a}
        /\ UNCHANGED <<next, parent, agent, revoked, guards>>
    BY <1>7 DEF RevokeAgent, Enter, treeVars
  <2>2. \A u \in Thread : pc'[u] = "spawned" => pc[u] = "spawned" /\ subject'[u] = subject[u]
    BY <1>7 DEF RevokeAgent, Goto, RevocationInv, TypeOK
  <2>3. \A m \in Created : agent[m] \in banned' => agent[m] \in banned \/ m \in revoked \cup targets
    BY <2>1
  <2>4. \A m \in targets : m \notin Created => targets = {m}
    OBVIOUS
  <2> HIDE DEF targets
  <2>5. QED  BY <2>1, <2>2, <2>3, <2>4, StartRevocation
<1>8. QED  BY <1>1, <1>2, <1>3, <1>4, <1>5, <1>6, <1>7, DelegationRevocation, Zenon DEF Call

LEMMA ContinueRevocation ==
  ASSUME RevocationInv, TypeOK', NEW t \in Thread, Continue(t)
  PROVE  RevocationInv'
<1>1. CASE LogSpawn(t)
  <2>1. /\ subject[t] \in Created /\ guards' = guards \cup {subject[t]}
        /\ UNCHANGED chainVars
    BY <1>1 DEF LogSpawn, RevocationInv, WellParented
  <2>2. \A u \in Thread : pc'[u] = "spawned" => pc[u] = "spawned" /\ subject'[u] = subject[u]
    BY <1>1 DEF LogSpawn, Goto, RevocationInv, TypeOK
  <2>3. Created' = Created /\ UNCHANGED <<next, parent, agent, revoked, banned, lock, work>>
    BY <2>1 DEF chainVars, treeVars, lockVars, Created
  <2>4. WellParented'
    BY <2>1, <2>2, <2>3 DEF RevocationInv, WellParented
  <2>5. QED  BY <2>3, <2>4 DEF RevocationInv, CascadeCovered, BannedCovered, StackSound
<1>2. ASSUME NEW fault, SpawnFault(t, fault)
      PROVE  RevocationInv'
  <2>1. UNCHANGED chainVars /\ UNCHANGED guards /\ Goto(t, "idle", 0)
    BY <1>2 DEF SpawnFault
  <2>2. QED  BY <2>1, QuietRevocation DEF chainVars, treeVars, lockVars, Goto, RevocationInv, TypeOK
<1>3. CASE LogSpawnDenied(t)
  <2>1. UNCHANGED chainVars /\ UNCHANGED guards /\ Goto(t, "idle", 0)
    BY <1>3 DEF LogSpawnDenied
  <2>2. QED  BY <2>1, QuietRevocation DEF chainVars, treeVars, lockVars, Goto, RevocationInv, TypeOK
<1>4. CASE LogKill(t) \/ KillUnlogged(t)
  <2>1. /\ work = {} /\ EndSweep /\ Goto(t, "idle", 0)
        /\ UNCHANGED <<next, parent, agent, revoked, banned, guards>>
    BY <1>4 DEF LogKill, KillUnlogged, treeVars
  <2>2. \A u \in Thread : pc'[u] = "spawned" => pc[u] = "spawned" /\ subject'[u] = subject[u]
    BY <2>1 DEF Goto, RevocationInv, TypeOK
  <2>3. QED  BY <2>1, <2>2, EndRevocation
<1>5. QED  BY <1>1, <1>2, <1>3, <1>4, SweepRevocation, KeyErrorRevocation, Zenon DEF Continue

THEOREM RevocationInvariant == Spec => []RevocationInv
<1>1. RevocationInv /\ TypeOK' /\ [Next]_vars => RevocationInv'
  <2> SUFFICES ASSUME RevocationInv, TypeOK', [Next]_vars
               PROVE  RevocationInv'
    OBVIOUS
  <2>1. CASE PassTime \/ UNCHANGED vars
    BY <2>1, QuietRevocation DEF PassTime, Tick, vars, chainVars, treeVars, lockVars, guardVars
  <2>2. QED  BY <2>1, CallRevocation, ContinueRevocation DEF Next
<1>2. QED  BY <1>1, InitRevocation, Typed, PTL DEF Spec

(* Whatever the threads interleave, and even if callers revoke ids that     *)
(* name no node or an append raises: once a cascade is over, no live node   *)
(* hangs under a revoked one (Chain.revoke, Chain.add_child).               *)
THEOREM CascadesClose == Spec => []CascadeClosed
<1>1. RevocationInv => CascadeClosed
  BY DEF RevocationInv, CascadeCovered, StackSound, CascadeClosed
<1>2. QED  BY <1>1, RevocationInvariant, PTL

(* During one, what is not yet revoked is on the stack. *)
THEOREM CascadesCover == Spec => []CascadeCovered
<1>1. RevocationInv => CascadeCovered
  BY DEF RevocationInv
<1>2. QED  BY <1>1, RevocationInvariant, PTL

(* A banned agent holds no live node once the ban is over, a delegation in  *)
(* flight when it started notwithstanding (Chain.revoke_agent,              *)
(* Chain.delegation_error).                                                 *)
THEOREM BansHold == Spec => []BannedHoldNothing
<1>1. RevocationInv => BannedHoldNothing
  BY DEF RevocationInv, BannedCovered, StackSound, BannedHoldNothing
<1>2. QED  BY <1>1, RevocationInvariant, PTL
-----------------------------------------------------------------------------
(* The strike policy                                                       *)
(*                                                                         *)
(* StrikesRevoke is not inductive: the strike that reaches the limit       *)
(* stacks the node, and its revocation is a later step.                    *)

StrikeInv ==
  StrikeMode # "off" =>
    \A n \in NodeId, s \in Act \cup {"*"} :
      /\ strikes[<<n, s>>] <= StrikeLimit
      /\ strikes[<<n, s>>] = StrikeLimit => n \in revoked \cup work

LEMMA InitStrikes == Init => StrikeInv
BY BoundAssumption DEF Init, ChainInit, StrikeInv

(* A step that records no strike loses none of the nodes to revoke. *)
LEMMA QuietStrikes ==
  ASSUME StrikeInv, UNCHANGED strikes, revoked \cup work \subseteq revoked' \cup work'
  PROVE  StrikeInv'
BY DEF StrikeInv

(* The strike is of a node that is not revoked, so below its limit. *)
LEMMA RecordedStrike ==
  ASSUME StrikeInv, RevocationInv, NEW t \in Thread, NEW n \in NodeId, NEW x \in Act,
         NEW raises \in BOOLEAN, CheckDeny(t, n, x, raises)
  PROVE  StrikeInv'
<1>1. lock = Free /\ work = {} /\ UNCHANGED revoked
  BY DEF CheckDeny, Enter, RevocationInv, StackSound
<1>2. CASE UNCHANGED strikes
  BY <1>1, <1>2, QuietStrikes
<1>3. CASE Strike(t, n, x) /\ StrikeMode # "off" /\ n \notin revoked
  <2> DEFINE slot == <<n, StrikeSlot(x)>>
  <2>1. slot \in NodeId \X (Act \cup {"*"})
    BY DEF StrikeSlot
  <2>2. /\ strikes \in [NodeId \X (Act \cup {"*"}) -> Nat] /\ StrikeLimit \in Nat \ {0}
        /\ strikes' = [strikes EXCEPT ![slot] = @ + 1]
    BY <1>3, BoundAssumption DEF Strike, RecordStrike, RevocationInv, TypeOK, ChainTypeOK
  <2>3. \A m \in NodeId, s \in Act \cup {"*"} :
          strikes'[<<m, s>>] = IF <<m, s>> = slot THEN strikes[slot] + 1 ELSE strikes[<<m, s>>]
    BY <2>1, <2>2
  <2>4. strikes[slot] < StrikeLimit
    <3>1. strikes[slot] <= StrikeLimit /\ strikes[slot] # StrikeLimit
      BY <1>1, <1>3 DEF StrikeInv, StrikeSlot
    <3>2. QED  BY <2>1, <2>2, <3>1
  <2>5. strikes[slot] + 1 = StrikeLimit => work' = {n}
    BY <1>3, <2>2 DEF Strike, StartSweep
  <2>6. ASSUME NEW m \in NodeId, NEW s \in Act \cup {"*"}
        PROVE  /\ strikes'[<<m, s>>] <= StrikeLimit
               /\ strikes'[<<m, s>>] = StrikeLimit => m \in revoked' \cup work'
    <3>1. CASE <<m, s>> = slot
      BY <2>1, <2>2, <2>3, <2>4, <2>5, <3>1
    <3>2. CASE <<m, s>> # slot
      BY <1>1, <1>3, <2>3, <3>2 DEF StrikeInv
    <3>3. QED  BY <3>1, <3>2
  <2>7. QED  BY <2>6 DEF StrikeInv
<1>4. QED  BY <1>2, <1>3 DEF CheckDeny, Strike

LEMMA CallStrikes ==
  ASSUME StrikeInv, RevocationInv, NEW t \in Thread, Call(t)
  PROVE  StrikeInv'
<1>1. ASSUME lock = Free, UNCHANGED <<strikes, revoked>>
      PROVE  StrikeInv'
  BY <1>1, QuietStrikes DEF RevocationInv, StackSound
<1>2. ASSUME NEW n \in NodeId, NEW x \in Act, NEW terminal \in BOOLEAN,
             CheckAllow(t, n, x, terminal)
      PROVE  StrikeInv'
  BY <1>1, <1>2 DEF CheckAllow, Enter
<1>3. ASSUME NEW n \in NodeId,
             \/ RecordDenial(t, n) \/ RecordPassthrough(t, n) \/ Complete(t, n) \/ Revoke(t, n)
             \/ \E k \in 0 .. MaxCalls : RecordOutcome(t, n, k)
             \/ \E a \in Agent, r \in Request : DelegateAdd(t, n, a, r) \/ DelegateRefused(t, n, a, r)
      PROVE  StrikeInv'
  BY <1>1, <1>3 DEF RecordDenial, RecordPassthrough, Complete, Revoke, RecordOutcome,
                    DelegateAdd, DelegateRefused, Enter, chainVars
<1>4. ASSUME NEW a \in Agent, RevokeAgent(t, a)
      PROVE  StrikeInv'
  BY <1>1, <1>4 DEF RevokeAgent, Enter
<1>5. QED  BY <1>2, <1>3, <1>4, RecordedStrike, Zenon DEF Call

LEMMA ContinueStrikes ==
  ASSUME StrikeInv, RevocationInv, NEW t \in Thread, Continue(t)
  PROVE  StrikeInv'
<1>1. ASSUME LogSpawn(t) \/ LogSpawnDenied(t) \/ \E fault : SpawnFault(t, fault)
      PROVE  StrikeInv'
  BY <1>1, QuietStrikes DEF LogSpawn, LogSpawnDenied, SpawnFault, chainVars, lockVars
<1>2. CASE LogKill(t) \/ KillUnlogged(t)
  BY <1>2, QuietStrikes DEF LogKill, KillUnlogged
<1>3. ASSUME NEW n \in NodeId, Sweep(t, n)
      PROVE  StrikeInv'
  BY <1>3, QuietStrikes DEF Sweep, SweepNode
<1>4. ASSUME NEW n \in NodeId, SweepKeyError(t, n)
      PROVE  StrikeInv'
  <2>1. work = {n} /\ revoked' = revoked \cup {n} /\ UNCHANGED strikes
    BY <1>4 DEF SweepKeyError, SweepUnknown, RevocationInv, StackSound
  <2>2. QED  BY <2>1, QuietStrikes
<1>5. QED  BY <1>1, <1>2, <1>3, <1>4, Zenon DEF Continue

(* A node's strikes never pass the limit, and once the cascade the limit    *)
(* starts is over the node is revoked, whatever else runs meanwhile         *)
(* (guard.py, check and its strike policy; chain.py, record_strike).        *)
THEOREM StrikesEndInRevocation == Spec => []StrikesRevoke
<1>1. StrikeInv /\ RevocationInv /\ [Next]_vars => StrikeInv'
  <2> SUFFICES ASSUME StrikeInv, RevocationInv, [Next]_vars
               PROVE  StrikeInv'
    OBVIOUS
  <2>1. CASE PassTime \/ UNCHANGED vars
    BY <2>1, QuietStrikes DEF PassTime, Tick, vars, chainVars, lockVars
  <2>2. QED  BY <2>1, CallStrikes, ContinueStrikes DEF Next
<1>2. StrikeInv /\ RevocationInv => StrikesRevoke
  BY DEF StrikeInv, RevocationInv, StackSound, StrikesRevoke
<1>3. QED  BY <1>1, <1>2, InitStrikes, RevocationInvariant, PTL DEF Spec

-----------------------------------------------------------------------------
(* Reading a ledger that grows *)

LEMMA PositionsTyped ==
  ASSUME TypeOK
  PROVE  /\ Len(ledger) \in Nat /\ Positions = 1 .. Len(ledger)
         /\ \A i \in Positions : ledger[i] \in Entry
BY DEF TypeOK, Positions

LEMMA Appended ==
  ASSUME TypeOK, NEW e \in Entry, Log(e)
  PROVE  /\ Positions' = Positions \cup {Len(ledger) + 1}
         /\ Len(ledger') = Len(ledger) + 1
         /\ Len(ledger) + 1 \notin Positions
         /\ \A i \in Positions : ledger'[i] = ledger[i]
         /\ ledger'[Len(ledger) + 1] = e
BY PositionsTyped DEF TypeOK, Log, Positions

(* What the reader has seen before an old position, and in all. *)
LEMMA ReadBefore ==
  ASSUME TypeOK, NEW e \in Entry, Log(e)
  PROVE  /\ \A i \in Positions' : DefinedBefore(i)' = DefinedBefore(i)
         /\ \A i \in Positions' : RevokedBefore(i)' = RevokedBefore(i)
         /\ Logged' = Logged \cup IF e.event \in {"root", "spawn"} THEN {e.node} ELSE {}
         /\ LoggedRevoked' = LoggedRevoked \cup IF e.event = "kill" THEN e.revoked ELSE {}
<1> DEFINE n == Len(ledger)
<1>1. /\ n \in Nat /\ Positions = 1 .. n /\ Positions' = 1 .. n + 1
      /\ Len(ledger') = n + 1
      /\ \A i \in 1 .. n : ledger'[i] = ledger[i]
      /\ ledger'[n + 1] = e
  <2>1. n \in Nat /\ Positions = 1 .. n
    BY PositionsTyped
  <2>2. /\ Positions' = Positions \cup {n + 1} /\ Len(ledger') = n + 1
        /\ \A i \in Positions : ledger'[i] = ledger[i]
        /\ ledger'[n + 1] = e
    BY Appended
  <2> HIDE DEF n
  <2>3. (1 .. n) \cup {n + 1} = 1 .. n + 1
    BY <2>1
  <2>4. QED  BY <2>1, <2>2, <2>3
<1> HIDE DEF n
<1>2. \A i \in Positions' : \A j \in Before(i) : j \in 1 .. n /\ ledger'[j] = ledger[j]
  BY <1>1 DEF Before
<1>3. \A i \in Positions' : DefinedBefore(i)' = DefinedBefore(i)
  BY <1>2 DEF DefinedBefore, Before, IsEvent
<1>4. \A i \in Positions' : RevokedBefore(i)' = RevokedBefore(i)
  BY <1>2 DEF RevokedBefore, Before, IsEvent
<1>5. Logged' = Logged \cup IF e.event \in {"root", "spawn"} THEN {e.node} ELSE {}
  <2>1. Logged = {ledger[j].node : j \in {k \in 1 .. n : ledger[k].event \in {"root", "spawn"}}}
    BY <1>1 DEF Logged, DefinedBefore, Before, IsEvent, n
  <2>2. Logged' = {ledger'[j].node : j \in {k \in 1 .. n + 1 : ledger'[k].event \in {"root", "spawn"}}}
    BY <1>1 DEF Logged, DefinedBefore, Before, IsEvent, n
  <2>3. 1 .. n + 1 = (1 .. n) \cup {n + 1}
    BY <1>1
  <2>4. QED  BY <1>1, <2>1, <2>2, <2>3
<1>6. LoggedRevoked' = LoggedRevoked \cup IF e.event = "kill" THEN e.revoked ELSE {}
  <2>1. LoggedRevoked = UNION {ledger[j].revoked : j \in {k \in 1 .. n : ledger[k].event = "kill"}}
    BY <1>1 DEF LoggedRevoked, RevokedBefore, Before, IsEvent, n
  <2>2. LoggedRevoked' = UNION {ledger'[j].revoked : j \in {k \in 1 .. n + 1 : ledger'[k].event = "kill"}}
    BY <1>1 DEF LoggedRevoked, RevokedBefore, Before, IsEvent, n
  <2>3. 1 .. n + 1 = (1 .. n) \cup {n + 1}
    BY <1>1
  <2>4. QED  BY <1>1, <2>1, <2>2, <2>3
<1>7. QED  BY <1>3, <1>4, <1>5, <1>6

-----------------------------------------------------------------------------
(* Containment                                                             *)
(*                                                                         *)
(* A Guard is handed out after its node's spawn is on the ledger; a kill   *)
(* is on the ledger after its nodes are revoked.  So an allow, which needs *)
(* a Guard of a node not revoked, falls between the two.                   *)

ActsAreActs ==
  \A i \in Positions : IsEvent(i, "allow") /\ ledger[i].gated => ledger[i].act \in Act

LedgerInv ==
  /\ ActsAreActs
  /\ guards \subseteq Logged
  /\ Logged \subseteq Created
  /\ LoggedRevoked \subseteq revoked
  /\ swept \subseteq revoked
  /\ LedgerContained

LEMMA InitLedger == Init => LedgerInv
<1> SUFFICES ASSUME Init
             PROVE  LedgerInv
  OBVIOUS
<1>1. /\ Len(ledger) = 1 /\ Positions = {1} /\ ledger[1] = Blank /\ Blank.event = "root"
      /\ Blank.node = 0
  BY DEF Init, Positions, Blank
<1>2. Logged = {0} /\ LoggedRevoked = {}
  <2>1. Before(Len(ledger) + 1) = {1}
    BY <1>1 DEF Before
  <2>2. QED  BY <1>1, <2>1 DEF Logged, LoggedRevoked, DefinedBefore, RevokedBefore, IsEvent
<1>3. Created = {0}
  BY DEF Init, ChainInit, Created
<1>4. LedgerContained /\ ActsAreActs
  BY <1>1 DEF LedgerContained, ContainedAt, ActsAreActs, IsEvent
<1>5. QED  BY <1>2, <1>3, <1>4 DEF Init, ChainInit, LedgerInv

(* A step that writes nothing. *)
LEMMA SilentLedger ==
  ASSUME LedgerInv, TypeOK, UNCHANGED <<ledger, guards>>,
         \A c \in Created : c \in Created' /\ auth'[c] = auth[c],
         revoked \subseteq revoked', swept' \subseteq revoked'
  PROVE  LedgerInv'
<1>1. /\ Positions' = Positions /\ Logged' = Logged /\ LoggedRevoked' = LoggedRevoked
      /\ \A i \in Positions : ContainedAt(i) => ContainedAt(i)'
  <2>1. /\ Positions' = Positions /\ Logged' = Logged /\ LoggedRevoked' = LoggedRevoked
        /\ \A i : DefinedBefore(i)' = DefinedBefore(i) /\ RevokedBefore(i)' = RevokedBefore(i)
    BY DEF Positions, Logged, LoggedRevoked, DefinedBefore, RevokedBefore, Before, IsEvent
  <2>2. \A i \in Positions : DefinedBefore(i) \subseteq Logged
    BY PositionsTyped DEF Logged, DefinedBefore, Before, IsEvent
  <2>3. \A i \in Positions : ContainedAt(i) => ContainedAt(i)'
    BY <2>1, <2>2 DEF ContainedAt, IsEvent, LedgerInv
  <2>4. QED  BY <2>1, <2>3
<1>2. ActsAreActs'
  BY <1>1 DEF LedgerInv, ActsAreActs, IsEvent
<1>3. QED  BY <1>1, <1>2 DEF LedgerInv, LedgerContained

(* A step that writes entry e. *)
Fits(e) ==
  /\ e.event \in {"root", "spawn"} => e.node \in Created
  /\ e.event = "kill" => e.revoked \subseteq revoked
  /\ e.event = "allow" /\ e.gated =>
       /\ e.node \in guards /\ e.node \notin revoked
       /\ e.act \in Act /\ PermitsAct(auth[e.node], e.act)

LEMMA WritingLedger ==
  ASSUME LedgerInv, TypeOK, NEW e \in Entry, Log(e), Fits(e),
         UNCHANGED <<next, auth, revoked>>, swept' \subseteq revoked,
         \/ UNCHANGED guards
         \/ e.event = "spawn" /\ guards' = guards \cup {e.node}
  PROVE  LedgerInv'
<1>1. Created' = Created
  BY DEF Created
<1>2. /\ \A i \in Positions' : DefinedBefore(i)' = DefinedBefore(i)
      /\ \A i \in Positions' : RevokedBefore(i)' = RevokedBefore(i)
      /\ Logged' = Logged \cup IF e.event \in {"root", "spawn"} THEN {e.node} ELSE {}
      /\ LoggedRevoked' = LoggedRevoked \cup IF e.event = "kill" THEN e.revoked ELSE {}
  BY ReadBefore
<1>3. guards' \subseteq Logged' /\ Logged' \subseteq Created' /\ LoggedRevoked' \subseteq revoked'
  BY <1>1, <1>2 DEF LedgerInv, Fits
<1>4. ASSUME NEW i \in Positions'
      PROVE  ContainedAt(i)'
  <2>1. /\ Positions' = Positions \cup {Len(ledger) + 1}
        /\ \A j \in Positions : ledger'[j] = ledger[j]
        /\ ledger'[Len(ledger) + 1] = e
    BY Appended
  <2>2. CASE i \in Positions
    BY <1>2, <2>1, <2>2 DEF LedgerInv, LedgerContained, ContainedAt, IsEvent
  <2>3. CASE i = Len(ledger) + 1
    <3>1. DefinedBefore(i)' = Logged /\ RevokedBefore(i)' = LoggedRevoked
      BY <1>2, <2>3 DEF Logged, LoggedRevoked
    <3>2. QED  BY <2>1, <2>3, <3>1 DEF Fits, LedgerInv, ContainedAt, IsEvent
  <2>4. QED  BY <2>1, <2>2, <2>3
<1>5. LedgerContained'
  BY <1>4 DEF LedgerContained
<1>6. ActsAreActs'
  <2>1. /\ Positions' = Positions \cup {Len(ledger) + 1}
        /\ \A j \in Positions : ledger'[j] = ledger[j]
        /\ ledger'[Len(ledger) + 1] = e
    BY Appended
  <2>2. QED  BY <2>1 DEF LedgerInv, ActsAreActs, IsEvent, Fits
<1>7. QED  BY <1>3, <1>5, <1>6 DEF LedgerInv

(* The entries that prove nothing about their node fit any state. *)
LEMMA PlainEntriesFit ==
  ASSUME NEW n, NEW k
  PROVE  Fits(DenyEntry(n, k)) /\ Fits(PassthroughEntry(n, k)) /\ Fits(OutcomeEntry(n, k))
         /\ Fits(DoneEntry(n)) /\ Fits(SpawnDeniedEntry(n))
BY DEF Fits, DenyEntry, PassthroughEntry, OutcomeEntry, DoneEntry, SpawnDeniedEntry, Blank

LEMMA CallLedger ==
  ASSUME LedgerInv, TypeOK, RevocationInv, NEW t \in Thread, Call(t)
  PROVE  LedgerInv'
<1>1. ASSUME NEW n \in NodeId, NEW x \in Act, NEW terminal \in BOOLEAN,
             CheckAllow(t, n, x, terminal)
      PROVE  LedgerInv'
  <2> DEFINE e == AllowEntry(n, x, CallId, terminal)
  <2>1. e \in Entry /\ Log(e)
    BY <1>1, CallIdTyped, EntriesTyped DEF CheckAllow, TypeOK
  <2>2. Fits(e)
    BY <1>1 DEF CheckAllow, Refused, Fits, AllowEntry, Blank
  <2>3. UNCHANGED <<next, auth, revoked, guards>> /\ swept' \subseteq revoked
    BY <1>1 DEF CheckAllow, treeVars, lockVars, LedgerInv
  <2> HIDE DEF e
  <2>4. QED  BY <2>1, <2>2, <2>3, WritingLedger
<1>2. ASSUME NEW n \in NodeId, NEW x \in Act, NEW raises \in BOOLEAN,
             CheckDeny(t, n, x, raises)
      PROVE  LedgerInv'
  <2> DEFINE e == DenyEntry(n, CallId)
  <2>1. e \in Entry /\ Log(e) /\ Fits(e)
    BY <1>2, CallIdTyped, EntriesTyped, PlainEntriesFit DEF CheckDeny, TypeOK
  <2>2. UNCHANGED <<next, auth, revoked, guards>> /\ swept' \subseteq revoked
    BY <1>2 DEF CheckDeny, Strike, StartSweep, treeVars, lockVars, LedgerInv
  <2> HIDE DEF e
  <2>3. QED  BY <2>1, <2>2, WritingLedger
<1>3. ASSUME NEW n \in NodeId, RecordDenial(t, n)
      PROVE  LedgerInv'
  <2> DEFINE e == DenyEntry(n, CallId)
  <2>1. e \in Entry /\ Log(e) /\ Fits(e)
    BY <1>3, CallIdTyped, EntriesTyped, PlainEntriesFit DEF RecordDenial, TypeOK
  <2>2. UNCHANGED <<next, auth, revoked, guards>> /\ swept' \subseteq revoked
    BY <1>3 DEF RecordDenial, chainVars, treeVars, lockVars, LedgerInv
  <2> HIDE DEF e
  <2>3. QED  BY <2>1, <2>2, WritingLedger
<1>4. ASSUME NEW n \in NodeId, RecordPassthrough(t, n)
      PROVE  LedgerInv'
  <2> DEFINE e == PassthroughEntry(n, CallId)
  <2>1. e \in Entry /\ Log(e) /\ Fits(e)
    BY <1>4, CallIdTyped, EntriesTyped, PlainEntriesFit DEF RecordPassthrough, TypeOK
  <2>2. UNCHANGED <<next, auth, revoked, guards>> /\ swept' \subseteq revoked
    BY <1>4 DEF RecordPassthrough, chainVars, treeVars, lockVars, LedgerInv
  <2> HIDE DEF e
  <2>3. QED  BY <2>1, <2>2, WritingLedger
<1>5. ASSUME NEW n \in NodeId, NEW k \in Nat, RecordOutcome(t, n, k)
      PROVE  LedgerInv'
  <2>1. OutcomeEntry(n, k) \in Entry /\ Log(OutcomeEntry(n, k)) /\ Fits(OutcomeEntry(n, k))
    BY <1>5, EntriesTyped, PlainEntriesFit DEF RecordOutcome
  <2>2. UNCHANGED <<next, auth, revoked, guards>> /\ swept' \subseteq revoked
    BY <1>5 DEF RecordOutcome, treeVars, lockVars, LedgerInv
  <2>3. QED  BY <2>1, <2>2, WritingLedger
<1>6. ASSUME NEW n \in NodeId, Complete(t, n)
      PROVE  LedgerInv'
  <2>1. DoneEntry(n) \in Entry /\ Log(DoneEntry(n)) /\ Fits(DoneEntry(n))
    BY <1>6, EntriesTyped, PlainEntriesFit DEF Complete
  <2>2. UNCHANGED <<next, auth, revoked, guards>> /\ swept' \subseteq revoked
    BY <1>6 DEF Complete, treeVars, lockVars, LedgerInv
  <2>3. QED  BY <2>1, <2>2, WritingLedger
<1>7. ASSUME NEW p \in NodeId, NEW a \in Agent, NEW r \in Request,
             DelegateAdd(t, p, a, r) \/ DelegateRefused(t, p, a, r)
      PROVE  LedgerInv'
  <2>1. CASE DelegateRefused(t, p, a, r)
    BY <2>1, SilentLedger DEF DelegateRefused, chainVars, treeVars, lockVars, Created, LedgerInv
  <2>2. CASE DelegateAdd(t, p, a, r)
    <3>1. next \in 1 .. MaxNodes /\ next < MaxNodes /\ next' = next + 1
          /\ auth \in [NodeId -> Auth] /\ auth' = [auth EXCEPT ![next] = Attenuate(auth[p], r)]
      BY <2>2 DEF DelegateAdd, AddChild, TypeOK, ChainTypeOK, TreeTypeOK
    <3>2. \A c \in Created : c \in Created' /\ auth'[c] = auth[c]
      BY <3>1, OneNodeMore
    <3>3. UNCHANGED <<ledger, guards, revoked, swept>>
      BY <2>2 DEF DelegateAdd, lockVars
    <3>4. QED  BY <3>2, <3>3, SilentLedger DEF LedgerInv
  <2>3. QED  BY <1>7, <2>1, <2>2
<1>8. ASSUME \/ \E n \in NodeId : Revoke(t, n)
             \/ \E a \in Agent : RevokeAgent(t, a)
      PROVE  LedgerInv'
  <2>1. UNCHANGED <<ledger, guards, next, auth, revoked>> /\ swept' = {}
    BY <1>8 DEF Revoke, RevokeAgent, StartSweep, treeVars
  <2>2. QED  BY <2>1, SilentLedger DEF Created
<1>9. \A k \in 0 .. MaxCalls : k \in Nat
  OBVIOUS
<1>10. QED  BY <1>1, <1>2, <1>3, <1>4, <1>5, <1>6, <1>7, <1>8, <1>9, Zenon DEF Call

LEMMA ContinueLedger ==
  ASSUME LedgerInv, TypeOK, RevocationInv, NEW t \in Thread, Continue(t)
  PROVE  LedgerInv'
<1> DEFINE spawn == SpawnEntry(parent[subject[t]], subject[t])
<1>1. /\ spawn \in Entry /\ spawn.event = "spawn" /\ spawn.node = subject[t]
      /\ pc[t] = "spawned" => Fits(spawn)
  <2>1. spawn \in Entry
    BY EntriesTyped DEF TypeOK, ChainTypeOK, TreeTypeOK
  <2>2. spawn.event = "spawn" /\ spawn.node = subject[t]
    BY DEF SpawnEntry, Blank
  <2>3. pc[t] = "spawned" => Fits(spawn)
    BY <2>2 DEF Fits, RevocationInv, WellParented
  <2>4. QED  BY <2>1, <2>2, <2>3
<1>2. CASE LogSpawn(t)
  <2>1. Log(spawn) /\ guards' = guards \cup {spawn.node} /\ pc[t] = "spawned"
    BY <1>1, <1>2 DEF LogSpawn
  <2>2. UNCHANGED <<next, auth, revoked>> /\ swept' \subseteq revoked
    BY <1>2 DEF LogSpawn, chainVars, treeVars, lockVars, LedgerInv
  <2> HIDE DEF spawn
  <2>3. QED  BY <1>1, <2>1, <2>2, WritingLedger
<1>3. ASSUME NEW fault, SpawnFault(t, fault)
      PROVE  LedgerInv'
  <2>1. /\ pc[t] = "spawned"
        /\ Log(spawn) \/ UNCHANGED ledger
        /\ UNCHANGED <<next, auth, revoked, guards, swept>>
    BY <1>3 DEF SpawnFault, chainVars, treeVars, lockVars
  <2>2. swept' \subseteq revoked
    BY <2>1 DEF LedgerInv
  <2> HIDE DEF spawn
  <2>3. CASE Log(spawn)
    BY <1>1, <2>1, <2>2, <2>3, WritingLedger
  <2>4. CASE UNCHANGED ledger
    BY <2>1, <2>2, <2>4, SilentLedger DEF Created
  <2>5. QED  BY <2>1, <2>3, <2>4
<1>4. CASE LogSpawnDenied(t)
  <2> DEFINE e == SpawnDeniedEntry(subject[t])
  <2>1. e \in Entry /\ Fits(e)
    BY EntriesTyped, PlainEntriesFit DEF TypeOK
  <2>2. /\ Log(e) \/ UNCHANGED ledger
        /\ UNCHANGED <<next, auth, revoked, guards, swept>>
    BY <1>4 DEF LogSpawnDenied, chainVars, treeVars, lockVars
  <2>3. swept' \subseteq revoked
    BY <2>2 DEF LedgerInv
  <2> HIDE DEF e
  <2>4. CASE Log(e)
    BY <2>1, <2>2, <2>3, <2>4, WritingLedger
  <2>5. CASE UNCHANGED ledger
    BY <2>2, <2>3, <2>5, SilentLedger DEF Created
  <2>6. QED  BY <2>2, <2>4, <2>5
<1>5. ASSUME NEW n \in NodeId, Sweep(t, n)
      PROVE  LedgerInv'
  <2>1. UNCHANGED <<ledger, guards, next, auth>>
    BY <1>5 DEF Sweep, treeVars, guardVars
  <2>2. revoked \subseteq revoked' /\ swept' \subseteq revoked'
    BY <1>5 DEF Sweep, SweepNode, LedgerInv
  <2>3. QED  BY <2>1, <2>2, SilentLedger DEF Created
<1>6. ASSUME NEW n \in NodeId, SweepKeyError(t, n)
      PROVE  LedgerInv'
  <2>1. UNCHANGED <<ledger, guards, next, auth>>
    BY <1>6 DEF SweepKeyError, treeVars
  <2>2. revoked \subseteq revoked' /\ swept' \subseteq revoked'
    BY <1>6 DEF SweepKeyError, SweepUnknown
  <2>3. QED  BY <2>1, <2>2, SilentLedger DEF Created
<1>7. CASE LogKill(t)
  <2> DEFINE calls_ == UNION {pending[n] : n \in swept}
             e == KillEntry(swept, calls_)
  <2>1. swept \subseteq NodeId /\ calls_ \subseteq Nat
    BY DEF TypeOK, ChainTypeOK
  <2>2. e \in Entry /\ Log(e)
    BY <1>7, <2>1, EntriesTyped DEF LogKill
  <2>3. Fits(e)
    BY DEF Fits, KillEntry, Blank, LedgerInv
  <2>4. UNCHANGED <<next, auth, revoked, guards>> /\ swept' = {}
    BY <1>7 DEF LogKill, EndSweep, treeVars
  <2> HIDE DEF e
  <2>5. QED  BY <2>2, <2>3, <2>4, WritingLedger
<1>8. CASE KillUnlogged(t)
  <2>1. UNCHANGED <<ledger, guards, next, auth, revoked>> /\ swept' = {}
    BY <1>8 DEF KillUnlogged, EndSweep, treeVars
  <2>2. QED  BY <2>1, SilentLedger DEF Created
<1>9. QED  BY <1>2, <1>3, <1>4, <1>5, <1>6, <1>7, <1>8, Zenon DEF Continue

THEOREM LedgerInvariant == Spec => []LedgerInv
<1>1. LedgerInv /\ RevocationInv /\ [Next]_vars => LedgerInv'
  <2> SUFFICES ASSUME LedgerInv, RevocationInv, [Next]_vars
               PROVE  LedgerInv'
    OBVIOUS
  <2>1. TypeOK
    BY DEF RevocationInv
  <2>2. CASE PassTime \/ UNCHANGED vars
    <3>1. UNCHANGED <<ledger, guards, next, auth, revoked, swept>>
      BY <2>2 DEF PassTime, Tick, vars, chainVars, treeVars, lockVars, guardVars
    <3>2. QED  BY <2>1, <3>1, SilentLedger DEF Created, LedgerInv
  <2>3. QED  BY <2>1, <2>2, CallLedger, ContinueLedger DEF Next
<1>2. QED  BY <1>1, InitLedger, RevocationInvariant, PTL DEF Spec

(* The containment check of verify_bundle passes on every ledger the Guards *)
(* of a chain write, whatever its threads interleave: no gated allow is     *)
(* before its node's spawn, or after a kill of its node, or beyond its      *)
(* node's authority.                                                        *)
THEOREM LedgersAreContained == Spec => []LedgerContained
<1>1. LedgerInv => LedgerContained
  BY DEF LedgerInv
<1>2. QED  BY <1>1, LedgerInvariant, PTL

-----------------------------------------------------------------------------
(* Authority                                                               *)
(*                                                                         *)
(* The laws of the lattice that Chain assumes turn "each node within its   *)
(* parent" into "each node within every ancestor".                         *)

AuthorityInv ==
  \A c \in Created : parent[c] \in Created /\ Narrower(auth[c], auth[parent[c]])

LEMMA InitAuthority == Init => AuthorityInv
<1> SUFFICES ASSUME Init
             PROVE  AuthorityInv
  OBVIOUS
<1>1. Created = {0} /\ parent[0] = 0 /\ auth[0] = RootAuth
  BY RootIsNode DEF Init, ChainInit, Created
<1>2. Narrower(RootAuth, RootAuth)
  BY RootAssumption, NarrowerLaw
<1>3. QED  BY <1>1, <1>2 DEF AuthorityInv

LEMMA GrowingAuthority ==
  ASSUME AuthorityInv, RevocationInv, NEW t \in Thread, NEW p \in NodeId, NEW a \in Agent,
         NEW r \in Request, DelegateAdd(t, p, a, r)
  PROVE  AuthorityInv'
<1>1. /\ next \in 1 .. MaxNodes /\ next < MaxNodes /\ next' = next + 1
      /\ auth \in [NodeId -> Auth] /\ parent \in [NodeId -> NodeId]
  BY DEF RevocationInv, TypeOK, ChainTypeOK, TreeTypeOK, DelegateAdd, AddChild
<1>2. /\ auth' = [auth EXCEPT ![next] = Attenuate(auth[p], r)]
      /\ parent' = [parent EXCEPT ![next] = p]
      /\ CanAttenuate(auth[p], r) /\ p \in Created
  BY DEF DelegateAdd, AddChild, RevocationInv, WellParented
<1>3. /\ Created' = Created \cup {next} /\ Created \subseteq NodeId
      /\ next \in NodeId /\ next \notin Created
  BY <1>1, OneNodeMore
<1>4. /\ auth'[next] = Attenuate(auth[p], r) /\ parent'[next] = p
      /\ \A c \in Created : auth'[c] = auth[c] /\ parent'[c] = parent[c]
  BY <1>1, <1>2, <1>3
<1>5. Narrower(Attenuate(auth[p], r), auth[p])
  BY <1>1, <1>2, MeetLaw
<1>6. ASSUME NEW c \in Created'
      PROVE  parent'[c] \in Created' /\ Narrower(auth'[c], auth'[parent'[c]])
  <2>1. CASE c = next
    BY <1>2, <1>3, <1>4, <1>5, <2>1
  <2>2. CASE c \in Created
    BY <1>3, <1>4, <2>2 DEF AuthorityInv
  <2>3. QED  BY <1>3, <2>1, <2>2
<1>7. QED  BY <1>6 DEF AuthorityInv

(* Only add_child writes the tree. *)
LEMMA TreeFrame ==
  ASSUME [Next]_vars
  PROVE  \/ UNCHANGED treeVars
         \/ \E t \in Thread, p \in NodeId, a \in Agent, r \in Request : DelegateAdd(t, p, a, r)
<1>1. CASE PassTime \/ UNCHANGED vars
  BY <1>1 DEF PassTime, Tick, vars, chainVars
<1>2. ASSUME NEW t \in Thread, Call(t)
      PROVE  \/ UNCHANGED treeVars
             \/ \E p \in NodeId, a \in Agent, r \in Request : DelegateAdd(t, p, a, r)
  <2>1. ASSUME NEW n \in NodeId, NEW x \in Act,
               \/ \E terminal \in BOOLEAN : CheckAllow(t, n, x, terminal)
               \/ \E raises \in BOOLEAN : CheckDeny(t, n, x, raises)
        PROVE  UNCHANGED treeVars
    BY <2>1 DEF CheckAllow, CheckDeny
  <2>2. ASSUME NEW n \in NodeId,
               \/ RecordDenial(t, n) \/ RecordPassthrough(t, n) \/ Complete(t, n) \/ Revoke(t, n)
               \/ \E k \in 0 .. MaxCalls : RecordOutcome(t, n, k)
               \/ \E a \in Agent, r \in Request : DelegateRefused(t, n, a, r)
        PROVE  UNCHANGED treeVars
    BY <2>2 DEF RecordDenial, RecordPassthrough, Complete, Revoke, RecordOutcome,
                DelegateRefused, chainVars
  <2>3. ASSUME NEW a \in Agent, RevokeAgent(t, a)
        PROVE  UNCHANGED treeVars
    BY <2>3 DEF RevokeAgent
  <2>4. QED  BY <1>2, <2>1, <2>2, <2>3, Zenon DEF Call
<1>3. ASSUME NEW t \in Thread, Continue(t)
      PROVE  UNCHANGED treeVars
  BY <1>3 DEF Continue, LogSpawn, SpawnFault, LogSpawnDenied, Sweep, SweepKeyError, LogKill,
              KillUnlogged, chainVars
<1>4. QED  BY <1>1, <1>2, <1>3, Zenon DEF Next

THEOREM AuthorityInvariant == Spec => []AuthorityInv
<1>1. AuthorityInv /\ RevocationInv /\ [Next]_vars => AuthorityInv'
  <2> SUFFICES ASSUME AuthorityInv, RevocationInv, [Next]_vars
               PROVE  AuthorityInv'
    OBVIOUS
  <2>1. CASE UNCHANGED treeVars
    BY <2>1 DEF treeVars, AuthorityInv, Created
  <2>2. QED  BY <2>1, GrowingAuthority, TreeFrame
<1>2. QED  BY <1>1, InitAuthority, RevocationInvariant, PTL DEF Spec

(* The nodes a node's authority is within are closed under `parent`. *)
LEMMA AncestorsWider ==
  ASSUME AuthorityInv, TypeOK, NEW c \in Created, NEW p \in Ancestors(c)
  PROVE  p \in Created /\ Narrower(auth[c], auth[p])
<1> DEFINE wider == {m \in Created : Narrower(auth[c], auth[m])}
<1>1. Created \subseteq NodeId /\ \A m \in Created : auth[m] \in Auth
  BY CreatedAreNodes DEF TypeOK, ChainTypeOK, TreeTypeOK
<1>2. c \in wider
  BY <1>1, NarrowerLaw
<1>3. ASSUME NEW m \in wider
      PROVE  parent[m] \in wider
  <2>1. parent[m] \in Created /\ Narrower(auth[m], auth[parent[m]])
    BY DEF AuthorityInv
  <2>2. Narrower(auth[c], auth[parent[m]])
    BY <1>1, <2>1, NarrowerLaw
  <2>3. QED  BY <2>1, <2>2
<1>4. wider \in SUBSET NodeId
  BY <1>1
<1>5. ParentClosed(wider)
  BY <1>3 DEF ParentClosed
<1> HIDE DEF wider
<1>6. p \in wider
  BY <1>2, <1>4, <1>5 DEF Ancestors
<1>7. QED  BY <1>6 DEF wider

(* Every delegated authority is within the authority of every ancestor,     *)
(* for every lattice that obeys the laws (chain.py, add_child).             *)
THEOREM DelegationAttenuates == Spec => []Attenuated
<1>1. AuthorityInv /\ TypeOK => Attenuated
  BY AncestorsWider DEF Attenuated
<1>2. QED  BY <1>1, AuthorityInvariant, Typed, PTL

(* No ledger holds a gated allow that the authority of some ancestor of its *)
(* node, up to the root the user granted, does not permit (guard.py, check; *)
(* chain.py, add_child).                                                    *)
THEOREM AllowsAreWithinAncestors == Spec => []AllowsWithinAncestors
<1>1. AuthorityInv /\ LedgerInv /\ TypeOK => AllowsWithinAncestors
  <2> SUFFICES ASSUME AuthorityInv, LedgerInv, TypeOK,
                      NEW i \in Positions, IsEvent(i, "allow"), ledger[i].gated,
                      NEW p \in Ancestors(ledger[i].node)
               PROVE  PermitsAct(auth[p], ledger[i].act)
    BY DEF AllowsWithinAncestors
  <2> DEFINE n == ledger[i].node
  <2>1. n \in DefinedBefore(i) /\ PermitsAct(auth[n], ledger[i].act)
    BY DEF LedgerInv, LedgerContained, ContainedAt
  <2>2. DefinedBefore(i) \subseteq Logged
    BY PositionsTyped DEF Logged, DefinedBefore, Before
  <2>3. n \in Created
    BY <2>1, <2>2 DEF LedgerInv
  <2>4. p \in Created /\ Narrower(auth[n], auth[p])
    BY <2>3, AncestorsWider
  <2>5. \A m \in Created : auth[m] \in Auth
    BY CreatedAreNodes DEF TypeOK, ChainTypeOK, TreeTypeOK
  <2>6. ledger[i].act \in Act
    BY DEF LedgerInv, ActsAreActs
  <2>7. QED  BY <2>1, <2>3, <2>4, <2>5, <2>6, PermitsLaw
<1>2. QED  BY <1>1, AuthorityInvariant, LedgerInvariant, Typed, PTL

-----------------------------------------------------------------------------
(* The kill entries                                                        *)
(*                                                                         *)
(* What is revoked is on a kill entry already, or is in the set the next   *)
(* kill entry will hold; no node is in two of these.                       *)

Told ==
  /\ revoked = LoggedRevoked \cup swept
  /\ LoggedRevoked \cap swept = {}
  /\ \A i \in Positions : ledger[i].revoked \subseteq LoggedRevoked
  /\ \A i, j \in Positions : i # j => ledger[i].revoked \cap ledger[j].revoked = {}

Holders == \A t \in Thread : lock = t => pc[t] \in {"sweeping", "unlogged"}

KillInv ==
  /\ lock = Free => swept = {}
  /\ Holders
  /\ ~AnyIdRevoked /\ Unwritable = {} =>
       /\ Told
       /\ work \subseteq Created
       /\ \A t \in Thread : pc[t] # "unlogged"

LEMMA InitKill == Init => KillInv
<1> SUFFICES ASSUME Init
             PROVE  KillInv
  OBVIOUS
<1>1. Len(ledger) = 1 /\ Positions = {1} /\ ledger[1] = Blank
  BY DEF Init, Positions
<1>2. Blank.event = "root" /\ Blank.revoked = {}
  BY DEF Blank
<1>3. LoggedRevoked = {}
  <2>1. Before(Len(ledger) + 1) = {1}
    BY <1>1 DEF Before
  <2>2. QED  BY <1>1, <1>2, <2>1 DEF LoggedRevoked, RevokedBefore, IsEvent
<1>4. Told
  BY <1>1, <1>2, <1>3 DEF Init, ChainInit, Told
<1>5. QED  BY <1>4, ThreadAssumption DEF Init, ChainInit, KillInv, Holders

(* A step that writes nothing, or an entry that is no kill. *)
Plain(e) == e \in Entry /\ e.event # "kill" /\ e.revoked = {} /\ Log(e)

LEMMA PlainTold ==
  ASSUME TypeOK, Told, UNCHANGED <<revoked, swept>>,
         UNCHANGED ledger \/ \E e : Plain(e)
  PROVE  Told'
<1>1. CASE UNCHANGED ledger
  BY <1>1 DEF Told, LoggedRevoked, RevokedBefore, Positions, Before, IsEvent
<1>2. ASSUME NEW e, Plain(e)
      PROVE  Told'
  <2>1. e \in Entry /\ Log(e) /\ e.event # "kill" /\ e.revoked = {}
    BY <1>2 DEF Plain
  <2>2. LoggedRevoked' = LoggedRevoked
    BY <2>1, ReadBefore
  <2>3. /\ Positions' = Positions \cup {Len(ledger) + 1}
        /\ \A i \in Positions : ledger'[i] = ledger[i]
        /\ ledger'[Len(ledger) + 1] = e
    BY <2>1, Appended
  <2>4. QED  BY <2>1, <2>2, <2>3 DEF Told
<1>3. QED  BY <1>1, <1>2

(* A thread that is in no cascade makes a step that is no kill. *)
LEMMA QuietKill ==
  ASSUME TypeOK, KillInv, UNCHANGED <<revoked, lock, work, swept>>,
         UNCHANGED ledger \/ \E e : Plain(e),
         \A c \in Created : c \in Created',
         \A t \in Thread : pc'[t] = pc[t] \/ (lock # t /\ pc'[t] # "unlogged")
  PROVE  KillInv'
<1>1. Holders'
  BY DEF KillInv, Holders
<1>2. ASSUME ~AnyIdRevoked, Unwritable = {}
      PROVE  Told' /\ work' \subseteq Created' /\ \A t \in Thread : pc'[t] # "unlogged"
  BY <1>2, PlainTold DEF KillInv
<1>3. QED  BY <1>1, <1>2 DEF KillInv

(* A thread takes the lock for a cascade. *)
LEMMA StartKill ==
  ASSUME TypeOK, KillInv, UNCHANGED <<revoked, next>>, lock = Free,
         UNCHANGED ledger \/ \E e : Plain(e),
         NEW t \in Thread, NEW targets, StartSweep(t, targets),
         NEW where \in {"sweeping", "unlogged"}, NEW n \in NodeId, Goto(t, where, n),
         AnyIdRevoked \/ targets \subseteq Created,
         Unwritable = {} => where = "sweeping"
  PROVE  KillInv'
<1>1. /\ swept = {} /\ swept' = {} /\ work' = targets /\ lock' = t /\ lock' # Free
      /\ Created' = Created
  BY ThreadAssumption DEF KillInv, StartSweep, Created
<1>2. pc'[t] = where /\ \A u \in Thread : u # t => pc'[u] = pc[u]
  BY DEF Goto, TypeOK
<1>3. Holders'
  BY <1>1, <1>2 DEF Holders
<1>4. ASSUME ~AnyIdRevoked, Unwritable = {}
      PROVE  Told' /\ work' \subseteq Created' /\ \A u \in Thread : pc'[u] # "unlogged"
  <2>1. Told'
    BY <1>1, <1>4, PlainTold DEF KillInv
  <2>2. QED  BY <1>1, <1>2, <1>4, <2>1 DEF KillInv
<1>5. QED  BY <1>1, <1>3, <1>4 DEF KillInv

LEMMA SweepKill ==
  ASSUME TypeOK, KillInv, NEW t \in Thread, NEW n \in NodeId, Sweep(t, n)
  PROVE  KillInv'
<1>1. /\ lock' = lock /\ lock # Free /\ UNCHANGED <<next, ledger, pc>> /\ Created' = Created
      /\ n \in work
  BY ThreadAssumption DEF Sweep, SweepNode, treeVars, guardVars, Created
<1>2. LoggedRevoked' = LoggedRevoked /\ Positions' = Positions
  BY <1>1 DEF LoggedRevoked, RevokedBefore, Before, IsEvent, Positions
<1>3. ASSUME ~AnyIdRevoked, Unwritable = {}
      PROVE  Told' /\ work' \subseteq Created'
  <2>1. \/ revoked' = revoked /\ swept' = swept
        \/ n \notin revoked /\ revoked' = revoked \cup {n} /\ swept' = swept \cup {n}
    BY DEF Sweep, SweepNode
  <2>2. Told'
    BY <1>1, <1>2, <1>3, <2>1 DEF KillInv, Told
  <2>3. work' \subseteq Created
    BY <1>3 DEF KillInv, Sweep, SweepNode, Children
  <2>4. QED  BY <1>1, <2>2, <2>3
<1>4. QED  BY <1>1, <1>3 DEF KillInv, Holders

LEMMA LogKillKill ==
  ASSUME TypeOK, KillInv, NEW t \in Thread, LogKill(t)
  PROVE  KillInv'
<1> DEFINE ks == UNION {pending[n] : n \in swept}
           e == KillEntry(swept, ks)
<1>1. swept \subseteq NodeId /\ ks \subseteq Nat
  BY DEF TypeOK, ChainTypeOK
<1>2. e \in Entry /\ Log(e) /\ e.event = "kill" /\ e.revoked = swept
  BY <1>1, EntriesTyped DEF LogKill, KillEntry, Blank
<1>3. /\ lock' = Free /\ work' = {} /\ swept' = {} /\ revoked' = revoked
      /\ Goto(t, "idle", 0)
  BY DEF LogKill, EndSweep
<1> HIDE DEF e
<1>4. \A u \in Thread : pc'[u] \in {pc[u], "idle"}
  BY <1>3 DEF Goto, TypeOK
<1>5. ASSUME Told
      PROVE  Told'
  <2>1. LoggedRevoked' = LoggedRevoked \cup swept
    BY <1>2, ReadBefore
  <2>2. /\ Positions' = Positions \cup {Len(ledger) + 1}
        /\ \A i \in Positions : ledger'[i] = ledger[i]
        /\ ledger'[Len(ledger) + 1] = e
    BY <1>2, Appended
  <2>3. QED  BY <1>2, <1>3, <1>5, <2>1, <2>2 DEF Told
<1>6. QED  BY <1>3, <1>4, <1>5, ThreadAssumption DEF KillInv, Holders

(* A cascade that ends without an entry: neither can happen when callers    *)
(* revoke nodes that exist and the ledger can hold the agents' names.       *)
LEMMA UntoldKill ==
  ASSUME TypeOK, KillInv, NEW t \in Thread,
         KillUnlogged(t) \/ \E n \in NodeId : SweepKeyError(t, n)
  PROVE  KillInv'
<1>1. lock = t /\ lock' = Free /\ swept' = {}
  BY DEF KillUnlogged, SweepKeyError, SweepUnknown, EndSweep
<1>2. AnyIdRevoked \/ Unwritable # {}
  BY DEF KillUnlogged, SweepKeyError, KillInv
<1>3. QED  BY <1>1, <1>2, ThreadAssumption DEF KillInv, Holders

LEMMA PlainEntries ==
  ASSUME NEW n \in NodeId, NEW k \in Nat \cup {NoCall}
  PROVE  /\ Log(DenyEntry(n, k)) => Plain(DenyEntry(n, k))
         /\ Log(PassthroughEntry(n, k)) => Plain(PassthroughEntry(n, k))
         /\ Log(OutcomeEntry(n, k)) => Plain(OutcomeEntry(n, k))
         /\ Log(DoneEntry(n)) => Plain(DoneEntry(n))
         /\ Log(SpawnDeniedEntry(n)) => Plain(SpawnDeniedEntry(n))
         /\ \A m \in NodeId : Log(SpawnEntry(m, n)) => Plain(SpawnEntry(m, n))
         /\ \A x \in Act, b \in BOOLEAN : Log(AllowEntry(n, x, k, b)) => Plain(AllowEntry(n, x, k, b))
BY EntriesTyped, ZenonT(30) DEF Plain, DenyEntry, PassthroughEntry, OutcomeEntry, DoneEntry,
   SpawnDeniedEntry, SpawnEntry, AllowEntry, Blank

LEMMA CallKill ==
  ASSUME TypeOK, RevocationInv, KillInv, NEW t \in Thread, Call(t)
  PROVE  KillInv'
<1>0. pc[t] = "idle" => lock # t
  BY DEF KillInv, Holders
<1>1. ASSUME NEW n \in NodeId, NEW x \in Act, NEW terminal \in BOOLEAN,
             CheckAllow(t, n, x, terminal)
      PROVE  KillInv'
  <2>1. \E e : Plain(e)
    BY <1>1, CallIdTyped, PlainEntries DEF CheckAllow, TypeOK
  <2>2. UNCHANGED <<next, revoked, lock, work, swept, pc>>
    BY <1>1 DEF CheckAllow, treeVars, lockVars
  <2>3. QED  BY <2>1, <2>2, QuietKill DEF Created
<1>2. ASSUME NEW n \in NodeId, NEW x \in Act, NEW raises \in BOOLEAN,
             CheckDeny(t, n, x, raises)
      PROVE  KillInv'
  <2>1. \E e : Plain(e)
    BY <1>2, CallIdTyped, PlainEntries DEF CheckDeny, TypeOK
  <2>2. UNCHANGED <<next, revoked>> /\ lock = Free /\ n \in Created
    BY <1>2 DEF CheckDeny, Enter, treeVars, RevocationInv, WellParented
  <2>3. CASE UNCHANGED <<lock, work, swept, pc, subject>>
    BY <2>1, <2>2, <2>3, QuietKill DEF Created
  <2>4. CASE StartSweep(t, {n}) /\ Goto(t, "sweeping", n)
    BY <2>1, <2>2, <2>4, StartKill
  <2>5. QED  BY <1>2, <2>3, <2>4 DEF CheckDeny, Strike, lockVars
<1>3. ASSUME NEW n \in NodeId,
             \/ RecordDenial(t, n) \/ RecordPassthrough(t, n) \/ Complete(t, n)
             \/ \E k \in 0 .. MaxCalls : RecordOutcome(t, n, k)
      PROVE  KillInv'
  <2>1. CASE RecordDenial(t, n) \/ RecordPassthrough(t, n)
    <3>1. \E e : Plain(e)
      BY <2>1, CallIdTyped, PlainEntries DEF RecordDenial, RecordPassthrough, TypeOK
    <3>2. UNCHANGED <<next, revoked, lock, work, swept, pc>>
      BY <2>1 DEF RecordDenial, RecordPassthrough, chainVars, treeVars, lockVars
    <3>3. QED  BY <3>1, <3>2, QuietKill DEF Created
  <2>2. CASE Complete(t, n) \/ \E k \in 0 .. MaxCalls : RecordOutcome(t, n, k)
    <3>1. \A k \in 0 .. MaxCalls : k \in Nat \cup {NoCall}
      OBVIOUS
    <3>2. NoCall \in Nat \cup {NoCall}
      OBVIOUS
    <3>3. \E e : Plain(e)
      BY <2>2, <3>1, <3>2, PlainEntries DEF Complete, RecordOutcome
    <3>4. UNCHANGED <<next, revoked, lock, work, swept, pc>>
      BY <2>2 DEF Complete, RecordOutcome, treeVars, lockVars
    <3>5. QED  BY <3>3, <3>4, QuietKill DEF Created
  <2>3. QED  BY <1>3, <2>1, <2>2
<1>4. ASSUME NEW n \in NodeId, NEW a \in Agent, NEW r \in Request,
             DelegateAdd(t, n, a, r) \/ DelegateRefused(t, n, a, r)
      PROVE  KillInv'
  <2>1. UNCHANGED <<ledger, revoked, lock, work, swept>>
    BY <1>4 DEF DelegateAdd, DelegateRefused, chainVars, lockVars
  <2>2. lock # t /\ \A u \in Thread : pc'[u] = pc[u] \/ (u = t /\ pc'[u] \in {"spawned", "refused"})
    <3>1. pc[t] = "idle" /\ \E where \in {"spawned", "refused"} : \E m : Goto(t, where, m)
      BY <1>4 DEF DelegateAdd, DelegateRefused, Enter
    <3>2. PICK where \in {"spawned", "refused"} : \E m : Goto(t, where, m)
      BY <3>1
    <3>3. pc'[t] = where /\ \A u \in Thread : u # t => pc'[u] = pc[u]
      BY <3>2 DEF Goto, TypeOK
    <3>4. QED  BY <1>0, <3>1, <3>3
  <2>3. \A c \in Created : c \in Created'
    <3>1. CASE DelegateRefused(t, n, a, r)
      BY <3>1 DEF DelegateRefused, chainVars, treeVars, Created
    <3>2. CASE DelegateAdd(t, n, a, r)
      BY <3>2, OneNodeMore DEF DelegateAdd, AddChild, TypeOK, ChainTypeOK, TreeTypeOK
    <3>3. QED  BY <1>4, <3>1, <3>2
  <2>4. QED  BY <2>1, <2>2, <2>3, QuietKill
<1>5. ASSUME NEW n \in NodeId, Revoke(t, n)
      PROVE  KillInv'
  <2>1. /\ UNCHANGED <<revoked, next, ledger>> /\ lock = Free
        /\ StartSweep(t, {n}) /\ Goto(t, "sweeping", n)
        /\ AnyIdRevoked \/ {n} \subseteq Created
    BY <1>5 DEF Revoke, Enter, treeVars
  <2>2. QED  BY <2>1, StartKill
<1>6. ASSUME NEW a \in Agent, RevokeAgent(t, a)
      PROVE  KillInv'
  <2> DEFINE targets == {n \in Created : agent[n] = a} \ revoked
             where == IF a \in Unwritable THEN "unlogged" ELSE "sweeping"
  <2>1. /\ UNCHANGED <<revoked, next, ledger>> /\ lock = Free
        /\ StartSweep(t, targets) /\ Goto(t, where, 0)
    BY <1>6 DEF RevokeAgent, Enter, treeVars
  <2>2. /\ targets \subseteq Created /\ where \in {"sweeping", "unlogged"}
        /\ Unwritable = {} => where = "sweeping"
    OBVIOUS
  <2> HIDE DEF targets, where
  <2>3. QED  BY <2>1, <2>2, StartKill, RootIsNode
<1>7. QED  BY <1>1, <1>2, <1>3, <1>4, <1>5, <1>6, Zenon DEF Call

LEMMA ContinueKill ==
  ASSUME TypeOK, RevocationInv, KillInv, NEW t \in Thread, Continue(t)
  PROVE  KillInv'
<1>1. ASSUME \/ LogSpawn(t) \/ LogSpawnDenied(t)
             \/ \E fault \in {"uncommitted", "committed"} : SpawnFault(t, fault)
      PROVE  KillInv'
  <2>1. pc[t] \in {"spawned", "refused"} /\ lock = Free /\ Goto(t, "idle", 0) /\ UNCHANGED chainVars
    BY <1>1 DEF LogSpawn, LogSpawnDenied, SpawnFault
  <2>2. UNCHANGED <<next, revoked, lock, work, swept>>
    BY <2>1 DEF chainVars, treeVars, lockVars
  <2>3. \/ UNCHANGED ledger \/ Log(SpawnDeniedEntry(subject[t]))
        \/ Log(SpawnEntry(parent[subject[t]], subject[t]))
    BY <1>1 DEF LogSpawn, LogSpawnDenied, SpawnFault
  <2>4. subject[t] \in NodeId /\ parent[subject[t]] \in NodeId /\ NoCall \in Nat \cup {NoCall}
    BY DEF TypeOK, ChainTypeOK, TreeTypeOK
  <2>5. UNCHANGED ledger \/ \E e : Plain(e)
    BY <2>3, <2>4, PlainEntries
  <2>6. \A u \in Thread : lock # u /\ (pc'[u] = pc[u] \/ pc'[u] = "idle")
    BY <2>1, ThreadAssumption DEF Goto, TypeOK
  <2>7. QED  BY <2>2, <2>5, <2>6, QuietKill DEF Created
<1>2. QED  BY <1>1, SweepKill, LogKillKill, UntoldKill DEF Continue

THEOREM KillInvariant == Spec => []KillInv
<1>1. KillInv /\ RevocationInv /\ [Next]_vars => KillInv'
  <2> SUFFICES ASSUME KillInv, RevocationInv, [Next]_vars
               PROVE  KillInv'
    OBVIOUS
  <2>1. TypeOK
    BY DEF RevocationInv
  <2>2. CASE PassTime \/ UNCHANGED vars
    <3>1. UNCHANGED <<next, ledger, revoked, lock, work, swept, pc>>
      BY <2>2 DEF PassTime, Tick, vars, chainVars, treeVars, lockVars, guardVars
    <3>2. QED  BY <2>1, <3>1, QuietKill DEF Created
  <2>3. QED  BY <2>1, <2>2, CallKill, ContinueKill DEF Next
<1>2. QED  BY <1>1, InitKill, RevocationInvariant, PTL DEF Spec

(* When the lock is free, the kill entries name exactly the revoked nodes,  *)
(* each once (guard.py, _kill_atomically: cascade and entry under one hold  *)
(* of the lock): an offline reader of the ledger knows what the chain knows. *)
THEOREM KillsTellRevocations == Spec => []LedgerTellsRevocations
<1>1. KillInv => LedgerTellsRevocations
  BY DEF KillInv, Told, LedgerTellsRevocations
<1>2. QED  BY <1>1, KillInvariant, PTL

-----------------------------------------------------------------------------
(* The spawn entries *)

Spawning == {t \in Thread : pc[t] = "spawned"}

SpawnInv ==
  Faults = {} /\ Unwritable = {} =>
    /\ Created \ guards = {subject[t] : t \in Spawning}
    /\ \A t, u \in Spawning : t # u => subject[t] # subject[u]

LEMMA InitSpawn == Init => SpawnInv
<1> SUFFICES ASSUME Init
             PROVE  SpawnInv
  OBVIOUS
<1>1. Created = {0} /\ guards = {0} /\ Spawning = {}
  BY DEF Init, ChainInit, Created, Spawning
<1>2. QED  BY <1>1 DEF SpawnInv

LEMMA QuietSpawn ==
  ASSUME SpawnInv, UNCHANGED <<next, guards>>,
         \A t \in Thread : (pc'[t] = "spawned") = (pc[t] = "spawned"),
         \A t \in Thread : pc[t] = "spawned" => subject'[t] = subject[t]
  PROVE  SpawnInv'
<1>1. Created' = Created /\ Spawning' = Spawning /\ \A t \in Spawning : subject'[t] = subject[t]
  BY DEF Created, Spawning
<1>2. QED  BY <1>1 DEF SpawnInv

LEMMA GrowingSpawn ==
  ASSUME TypeOK, RevocationInv, SpawnInv, NEW t \in Thread, NEW p \in NodeId,
         NEW a \in Agent, NEW r \in Request, DelegateAdd(t, p, a, r)
  PROVE  SpawnInv'
<1>1. /\ Created' = Created \cup {next} /\ next \notin Created
  BY OneNodeMore DEF DelegateAdd, AddChild, TypeOK, ChainTypeOK, TreeTypeOK
<1>2. /\ guards' = guards /\ guards \subseteq Created
      /\ \A u \in Spawning : subject[u] \in Created
  BY DEF DelegateAdd, RevocationInv, WellParented, Spawning
<1>3. /\ Spawning' = Spawning \cup {t} /\ t \notin Spawning
      /\ subject'[t] = next /\ \A u \in Spawning : subject'[u] = subject[u]
  BY DEF DelegateAdd, Enter, Goto, Spawning, TypeOK
<1>4. QED  BY <1>1, <1>2, <1>3 DEF SpawnInv

LEMMA LoggedSpawn ==
  ASSUME TypeOK, SpawnInv, NEW t \in Thread, LogSpawn(t)
  PROVE  SpawnInv'
<1>1. /\ Created' = Created /\ guards' = guards \cup {subject[t]}
  BY DEF LogSpawn, chainVars, treeVars, Created
<1>2. /\ t \in Spawning /\ Spawning' = Spawning \ {t}
      /\ \A u \in Spawning' : subject'[u] = subject[u]
  BY DEF LogSpawn, Goto, Spawning, TypeOK
<1>3. QED  BY <1>1, <1>2 DEF SpawnInv

LEMMA OtherSpawn ==
  ASSUME TypeOK, KillInv, NEW t \in Thread, Call(t) \/ Continue(t)
  PROVE  \/ \E p \in NodeId, a \in Agent, r \in Request : DelegateAdd(t, p, a, r)
         \/ LogSpawn(t)
         \/ \E fault : SpawnFault(t, fault)
         \/ /\ UNCHANGED <<next, guards>>
            /\ \A u \in Thread : (pc'[u] = "spawned") = (pc[u] = "spawned")
            /\ \A u \in Thread : pc[u] = "spawned" => subject'[u] = subject[u]
<1> DEFINE Quiet ==
      /\ UNCHANGED <<next, guards>>
      /\ \A u \in Thread : (pc'[u] = "spawned") = (pc[u] = "spawned")
      /\ \A u \in Thread : pc[u] = "spawned" => subject'[u] = subject[u]
<1>1. ASSUME UNCHANGED <<next, guards>>, UNCHANGED <<pc, subject>>
      PROVE  Quiet
  BY <1>1
<1>2. ASSUME UNCHANGED <<next, guards>>, pc[t] # "spawned",
             NEW where \in {"idle", "refused", "sweeping", "unlogged"}, NEW n, Goto(t, where, n)
      PROVE  Quiet
  BY <1>2 DEF Goto, TypeOK
<1> HIDE DEF Quiet
<1>3. ASSUME NEW n \in NodeId, NEW x \in Act,
             \/ \E terminal \in BOOLEAN : CheckAllow(t, n, x, terminal)
             \/ \E raises \in BOOLEAN : CheckDeny(t, n, x, raises)
      PROVE  Quiet
  <2>1. /\ UNCHANGED <<next, guards>> /\ pc[t] = "idle"
        /\ UNCHANGED <<pc, subject>> \/ Goto(t, "sweeping", n)
    BY <1>3 DEF CheckAllow, CheckDeny, Strike, Enter, treeVars
  <2>2. QED  BY <1>1, <1>2, <2>1
<1>4. ASSUME NEW n \in NodeId,
             \/ RecordDenial(t, n) \/ RecordPassthrough(t, n) \/ Complete(t, n)
             \/ \E k \in 0 .. MaxCalls : RecordOutcome(t, n, k)
      PROVE  Quiet
  BY <1>1, <1>4 DEF RecordDenial, RecordPassthrough, Complete, RecordOutcome, chainVars, treeVars
<1>5. ASSUME NEW n \in NodeId,
             \/ Revoke(t, n)
             \/ \E a \in Agent, r \in Request : DelegateRefused(t, n, a, r)
      PROVE  Quiet
  <2>1. /\ UNCHANGED <<next, guards>> /\ pc[t] = "idle"
        /\ Goto(t, "sweeping", n) \/ Goto(t, "refused", n)
    BY <1>5 DEF Revoke, DelegateRefused, Enter, chainVars, treeVars
  <2>2. QED  BY <1>2, <2>1
<1>6. ASSUME NEW a \in Agent, RevokeAgent(t, a)
      PROVE  Quiet
  <2>1. /\ UNCHANGED <<next, guards>> /\ pc[t] = "idle"
        /\ Goto(t, "sweeping", 0) \/ Goto(t, "unlogged", 0)
    BY <1>6 DEF RevokeAgent, Enter, treeVars
  <2>2. QED  BY <1>2, <2>1
<1>7. ASSUME NEW n \in NodeId, Sweep(t, n)
      PROVE  Quiet
  BY <1>1, <1>7 DEF Sweep, treeVars, guardVars
<1>8. ASSUME \/ \E n \in NodeId : SweepKeyError(t, n)
             \/ LogKill(t) \/ KillUnlogged(t) \/ LogSpawnDenied(t)
      PROVE  Quiet
  <2>1. UNCHANGED <<next, guards>> /\ Goto(t, "idle", 0) /\ (lock = t \/ pc[t] = "refused")
    BY <1>8 DEF SweepKeyError, LogKill, KillUnlogged, LogSpawnDenied, chainVars, treeVars
  <2>2. pc[t] # "spawned"
    BY <2>1 DEF KillInv, Holders
  <2>3. QED  BY <1>2, <2>1, <2>2
<1>9. CASE Call(t)
  BY <1>3, <1>4, <1>5, <1>6, <1>9, Zenon DEF Call, Quiet
<1>10. CASE Continue(t)
  BY <1>7, <1>8, <1>10, Zenon DEF Continue, Quiet
<1>11. QED  BY <1>9, <1>10

THEOREM SpawnInvariant == Spec => []SpawnInv
<1>1. SpawnInv /\ RevocationInv /\ KillInv /\ [Next]_vars => SpawnInv'
  <2> SUFFICES ASSUME SpawnInv, RevocationInv, KillInv, [Next]_vars
               PROVE  SpawnInv'
    OBVIOUS
  <2>1. TypeOK
    BY DEF RevocationInv
  <2>2. CASE PassTime \/ UNCHANGED vars
    <3>1. UNCHANGED <<next, guards, pc, subject>>
      BY <2>2 DEF PassTime, Tick, vars, chainVars, treeVars, guardVars
    <3>2. QED  BY <3>1, QuietSpawn
  <2>3. ASSUME NEW t \in Thread, Call(t) \/ Continue(t)
        PROVE  SpawnInv'
    <3>1. ASSUME NEW fault, SpawnFault(t, fault)
          PROVE  Faults # {} \/ Unwritable # {}
      BY <3>1 DEF SpawnFault
    <3>2. (\E fault : SpawnFault(t, fault)) => SpawnInv'
      BY <3>1 DEF SpawnInv
    <3>3. QED  BY <2>1, <2>3, <3>2, OtherSpawn, GrowingSpawn, LoggedSpawn, QuietSpawn
  <2>4. QED  BY <2>2, <2>3 DEF Next
<1>2. QED  BY <1>1, InitSpawn, RevocationInvariant, KillInvariant, PTL DEF Spec

(* A Guard exists only for a node the ledger defines, and, when no append   *)
(* raises, the nodes without one are those of the delegate() calls between  *)
(* their two lock holds (guard.py, delegate).                               *)
THEOREM GuardsFollowTheLedger == Spec => []GuardsAreLogged
<1>1. SpawnInv /\ LedgerInv => GuardsAreLogged
  BY DEF SpawnInv, LedgerInv, GuardsAreLogged, Spawning
<1>2. QED  BY <1>1, SpawnInvariant, LedgerInvariant, PTL

-----------------------------------------------------------------------------
(* Execution binding                                                       *)

(* Entries that carry the id of a call the chain decided. *)
Decisions == {i \in Positions : IsEvent(i, "allow") \/ IsEvent(i, "deny")}

-----------------------------------------------------------------------------
(* What a step does to the calls                                           *)
(*                                                                         *)
(* Every step is one of these, as far as the calls, their outcomes and the *)
(* entries about them go.                                                  *)

CallsKept == UNCHANGED <<nextCall, calls, pending, outcomed, complete>>

(* check, record_denial, record_passthrough *)
Decide(e) ==
  /\ e \in Entry /\ Log(e)
  /\ e.event \in {"allow", "deny"}
  /\ e.call = CallId /\ DrawCallId
  /\ e.node \in guards
  /\ IF e.terminal
     THEN e.event = "allow" /\ e.gated /\ IsV2 /\ RegisterPending(e.node, CallId)
     ELSE UNCHANGED pending
  /\ IF e.event = "allow" /\ e.gated
     THEN ~(IsV2 /\ complete[e.node]) /\ AdmitsCall(e.node) /\ CountCall(e.node)
     ELSE UNCHANGED calls
  /\ UNCHANGED <<outcomed, complete>>

(* record_outcome *)
ReportCall(e) ==
  /\ e \in Entry /\ Log(e)
  /\ e.event = "outcome"
  /\ IsV2 /\ e.call \in 0 .. nextCall - 1 /\ e.call \notin outcomed
  /\ ResolvePending(e.call)
  /\ UNCHANGED <<nextCall, calls, complete>>

(* complete *)
FinishNode(e) ==
  /\ e \in Entry /\ Log(e)
  /\ e.event = "done" /\ e.node \in guards
  /\ IsV2 => pending[e.node] = {}
  /\ complete' = [complete EXCEPT ![e.node] = TRUE]
  /\ UNCHANGED <<nextCall, calls, pending, outcomed>>

(* _kill_atomically *)
TellKill(e) ==
  /\ e \in Entry /\ Log(e)
  /\ e.event = "kill" /\ e.revoked \subseteq NodeId
  /\ e.pending = UNION {pending[n] : n \in e.revoked}
  /\ CallsKept

(* delegate *)
TellSpawn(e) ==
  /\ e \in Entry /\ Log(e)
  /\ e.event \in {"spawn", "spawn_denied"}
  /\ e.event = "spawn_denied" => e.parent \in guards
  /\ CallsKept

CallStep ==
  \/ UNCHANGED ledger /\ CallsKept
  \/ \E e : Decide(e) \/ ReportCall(e) \/ FinishNode(e) \/ TellKill(e) \/ TellSpawn(e)

(* A refused delegation is logged for a node that has a Guard. *)
RefusedHeld == \A t \in Thread : pc[t] = "refused" => subject[t] \in guards

LEMMA DecisionEntries ==
  /\ \A n, x, k, b : LET e == AllowEntry(n, x, k, b) IN
       e.event = "allow" /\ e.node = n /\ e.call = k /\ e.terminal = b /\ e.gated
  /\ \A n, k : LET e == PassthroughEntry(n, k) IN
       e.event = "allow" /\ e.node = n /\ e.call = k /\ ~e.terminal /\ ~e.gated
  /\ \A n, k : LET e == DenyEntry(n, k) IN
       e.event = "deny" /\ e.node = n /\ e.call = k /\ ~e.terminal
BY DEF AllowEntry, PassthroughEntry, DenyEntry, Blank

LEMMA OtherEntries ==
  /\ \A n, k : OutcomeEntry(n, k).event = "outcome" /\ OutcomeEntry(n, k).call = k
  /\ \A n : DoneEntry(n).event = "done" /\ DoneEntry(n).node = n
  /\ \A ns, ks : LET e == KillEntry(ns, ks) IN
       e.event = "kill" /\ e.revoked = ns /\ e.pending = ks
  /\ \A m, n : SpawnEntry(m, n).event = "spawn" /\ SpawnEntry(m, n).node = n
  /\ \A n : SpawnDeniedEntry(n).event = "spawn_denied" /\ SpawnDeniedEntry(n).parent = n
BY DEF OutcomeEntry, DoneEntry, KillEntry, SpawnEntry, SpawnDeniedEntry, Blank

LEMMA CallsStep ==
  ASSUME TypeOK, NEW t \in Thread, Call(t)
  PROVE  CallStep
<1>1. CallId \in Nat \cup {NoCall}
  BY CallIdTyped DEF TypeOK
<1>2. ASSUME NEW n \in NodeId, NEW x \in Act, NEW terminal \in BOOLEAN,
             CheckAllow(t, n, x, terminal)
      PROVE  CallStep
  <2> DEFINE e == AllowEntry(n, x, CallId, terminal)
  <2>1. /\ e \in Entry /\ e.event = "allow" /\ e.node = n /\ e.call = CallId
        /\ e.terminal = terminal /\ e.gated
    BY <1>1, EntriesTyped, DecisionEntries
  <2> HIDE DEF e
  <2>2. Log(e) /\ DrawCallId /\ n \in guards /\ UNCHANGED <<outcomed, complete>>
        /\ (terminal => IsV2) /\ ~(IsV2 /\ complete[n]) /\ AdmitsCall(n) /\ CountCall(n)
    BY <1>2 DEF CheckAllow, Refused, e
  <2>3. IF terminal THEN RegisterPending(n, CallId) ELSE UNCHANGED pending
    BY <1>2 DEF CheckAllow
  <2>4. Decide(e)
    BY <2>1, <2>2, <2>3 DEF Decide
  <2>5. QED  BY <2>4 DEF CallStep
<1>3. ASSUME NEW n \in NodeId,
             \/ \E x \in Act, raises \in BOOLEAN : CheckDeny(t, n, x, raises)
             \/ RecordDenial(t, n)
      PROVE  CallStep
  <2> DEFINE e == DenyEntry(n, CallId)
  <2>1. e \in Entry /\ e.event = "deny" /\ e.node = n /\ e.call = CallId /\ ~e.terminal
    BY <1>1, EntriesTyped, DecisionEntries
  <2> HIDE DEF e
  <2>2. Log(e) /\ DrawCallId /\ n \in guards /\ UNCHANGED <<calls, pending, outcomed, complete>>
    BY <1>3 DEF CheckDeny, RecordDenial, chainVars, bindVars, e
  <2>3. Decide(e)
    BY <2>1, <2>2 DEF Decide
  <2>4. QED  BY <2>3 DEF CallStep
<1>4. ASSUME NEW n \in NodeId, RecordPassthrough(t, n)
      PROVE  CallStep
  <2> DEFINE e == PassthroughEntry(n, CallId)
  <2>1. /\ e \in Entry /\ e.event = "allow" /\ e.node = n /\ e.call = CallId
        /\ ~e.terminal /\ ~e.gated
    BY <1>1, EntriesTyped, DecisionEntries
  <2> HIDE DEF e
  <2>2. Log(e) /\ DrawCallId /\ n \in guards /\ UNCHANGED <<calls, pending, outcomed, complete>>
    BY <1>4 DEF RecordPassthrough, chainVars, bindVars, e
  <2>3. Decide(e)
    BY <2>1, <2>2 DEF Decide
  <2>4. QED  BY <2>3 DEF CallStep
<1>5. ASSUME NEW n \in NodeId, NEW k \in 0 .. MaxCalls, RecordOutcome(t, n, k)
      PROVE  CallStep
  <2> DEFINE e == OutcomeEntry(n, k)
  <2>1. e \in Entry /\ e.event = "outcome" /\ e.call = k
    BY EntriesTyped, OtherEntries
  <2> HIDE DEF e
  <2>2. /\ Log(e) /\ IsV2 /\ k \in 0 .. nextCall - 1 /\ k \notin outcomed
        /\ ResolvePending(k) /\ UNCHANGED <<nextCall, calls, complete>>
    BY <1>5 DEF RecordOutcome, e
  <2>3. ReportCall(e)
    BY <2>1, <2>2 DEF ReportCall
  <2>4. QED  BY <2>3 DEF CallStep
<1>6. ASSUME NEW n \in NodeId, Complete(t, n)
      PROVE  CallStep
  <2> DEFINE e == DoneEntry(n)
  <2>1. e \in Entry /\ e.event = "done" /\ e.node = n
    BY EntriesTyped, OtherEntries
  <2> HIDE DEF e
  <2>2. /\ Log(e) /\ n \in guards /\ (IsV2 => pending[n] = {})
        /\ complete' = [complete EXCEPT ![n] = TRUE]
        /\ UNCHANGED <<nextCall, calls, pending, outcomed>>
    BY <1>6 DEF Complete, bindVars, e
  <2>3. FinishNode(e)
    BY <2>1, <2>2 DEF FinishNode
  <2>4. QED  BY <2>3 DEF CallStep
<1>7. ASSUME \/ \E n \in NodeId : Revoke(t, n)
             \/ \E n \in NodeId, a \in Agent, r \in Request :
                  DelegateAdd(t, n, a, r) \/ DelegateRefused(t, n, a, r)
             \/ \E a \in Agent : RevokeAgent(t, a)
      PROVE  CallStep
  BY <1>7 DEF Revoke, DelegateAdd, DelegateRefused, RevokeAgent, chainVars, bindVars,
              CallStep, CallsKept
<1>8. QED  BY <1>2, <1>3, <1>4, <1>5, <1>6, <1>7, Zenon DEF Call

LEMMA ContinuedCallStep ==
  ASSUME TypeOK, RefusedHeld, NEW t \in Thread, Continue(t)
  PROVE  CallStep
<1>1. ASSUME LogSpawn(t) \/ \E fault : SpawnFault(t, fault)
      PROVE  CallStep
  <2> DEFINE e == SpawnEntry(parent[subject[t]], subject[t])
  <2>1. e \in Entry /\ e.event = "spawn"
    BY EntriesTyped, OtherEntries DEF TypeOK, ChainTypeOK, TreeTypeOK
  <2> HIDE DEF e
  <2>2. (Log(e) \/ UNCHANGED ledger) /\ CallsKept
    BY <1>1 DEF LogSpawn, SpawnFault, chainVars, bindVars, CallsKept, e
  <2>3. Log(e) => TellSpawn(e)
    BY <2>1, <2>2 DEF TellSpawn
  <2>4. QED  BY <2>2, <2>3 DEF CallStep
<1>2. CASE LogSpawnDenied(t)
  <2> DEFINE e == SpawnDeniedEntry(subject[t])
  <2>1. e \in Entry /\ e.event = "spawn_denied" /\ e.parent = subject[t]
    BY EntriesTyped, OtherEntries DEF TypeOK
  <2> HIDE DEF e
  <2>2. (Log(e) \/ UNCHANGED ledger) /\ CallsKept /\ subject[t] \in guards
    BY <1>2 DEF LogSpawnDenied, RefusedHeld, chainVars, bindVars, CallsKept, e
  <2>3. Log(e) => TellSpawn(e)
    BY <2>1, <2>2 DEF TellSpawn
  <2>4. QED  BY <2>2, <2>3 DEF CallStep
<1>3. ASSUME (\E n \in NodeId : Sweep(t, n) \/ SweepKeyError(t, n)) \/ KillUnlogged(t)
      PROVE  CallStep
  BY <1>3 DEF Sweep, SweepKeyError, KillUnlogged, bindVars, guardVars, CallStep, CallsKept
<1>4. CASE LogKill(t)
  <2> DEFINE ks == UNION {pending[n] : n \in swept}
             e == KillEntry(swept, ks)
  <2>1. swept \subseteq NodeId /\ ks \subseteq Nat
    BY DEF TypeOK, ChainTypeOK
  <2>2. e \in Entry /\ e.event = "kill" /\ e.revoked = swept /\ e.pending = ks
    BY <2>1, EntriesTyped, OtherEntries
  <2> HIDE DEF e
  <2>3. Log(e) /\ CallsKept
    BY <1>4 DEF LogKill, bindVars, CallsKept, e
  <2>4. TellKill(e)
    BY <2>1, <2>2, <2>3 DEF TellKill
  <2>5. QED  BY <2>4 DEF CallStep
<1>5. QED  BY <1>1, <1>2, <1>3, <1>4 DEF Continue

LEMMA StepsOfCalls ==
  ASSUME TypeOK, RefusedHeld, [Next]_vars
  PROVE  CallStep
<1>1. CASE PassTime \/ UNCHANGED vars
  BY <1>1 DEF PassTime, Tick, vars, chainVars, bindVars, guardVars, CallStep, CallsKept
<1>2. QED  BY <1>1, CallsStep, ContinuedCallStep DEF Next

-----------------------------------------------------------------------------
(* The entries about calls in a ledger that grows *)

Last == Len(ledger) + 1

LEMMA CallEntriesGrow ==
  ASSUME TypeOK, NEW e \in Entry, Log(e)
  PROVE  /\ Last \notin Positions /\ \A i \in Positions : i < Last /\ i \in Nat
         /\ Positions' = Positions \cup {Last}
         /\ \A i \in Positions : ledger'[i] = ledger[i]
         /\ ledger'[Last] = e
         /\ Decisions' = Decisions \cup {i \in {Last} : e.event \in {"allow", "deny"}}
         /\ Allows' = Allows \cup {i \in {Last} : e.event = "allow"}
         /\ Outcomes' = Outcomes \cup {i \in {Last} : e.event = "outcome"}
         /\ Decisions \subseteq Positions /\ Allows \subseteq Decisions
         /\ Outcomes \subseteq Positions
<1>1. /\ Positions' = Positions \cup {Last} /\ Last \notin Positions
      /\ \A i \in Positions : ledger'[i] = ledger[i]
      /\ ledger'[Last] = e
  BY Appended DEF Last
<1>2. \A i \in Positions : i < Last /\ i \in Nat
  BY PositionsTyped DEF Last
<1>3. /\ Decisions' = Decisions \cup {i \in {Last} : e.event \in {"allow", "deny"}}
      /\ Allows' = Allows \cup {i \in {Last} : e.event = "allow"}
      /\ Outcomes' = Outcomes \cup {i \in {Last} : e.event = "outcome"}
  BY <1>1 DEF Decisions, Allows, Outcomes, IsEvent
<1>4. Decisions \subseteq Positions /\ Allows \subseteq Decisions /\ Outcomes \subseteq Positions
  BY DEF Decisions, Allows, Outcomes
<1>5. QED  BY <1>1, <1>2, <1>3, <1>4

LEMMA CallEntriesStay ==
  ASSUME UNCHANGED ledger
  PROVE  /\ Positions' = Positions /\ Decisions' = Decisions /\ Allows' = Allows
         /\ Outcomes' = Outcomes /\ \A i : ledger'[i] = ledger[i]
BY DEF Positions, Decisions, Allows, Outcomes, IsEvent

-----------------------------------------------------------------------------
(* Call ids: the chain draws one for each decision, in order. *)

IdsInv ==
  IsV2 =>
    /\ \A i \in Decisions : ledger[i].call \in 0 .. nextCall - 1
    /\ \A i, j \in Decisions : SameCall(i, j) => i = j
    /\ IsFiniteSet(Decisions) /\ Cardinality(Decisions) = nextCall

LEMMA InitEntries ==
  ASSUME Init
  PROVE  /\ Positions = {1} /\ ledger[1] = Blank
         /\ Decisions = {} /\ Allows = {} /\ Outcomes = {}
<1>1. Positions = {1} /\ ledger[1] = Blank /\ Blank.event = "root"
  BY DEF Init, Positions, Blank
<1>2. QED  BY <1>1 DEF Decisions, Allows, Outcomes, IsEvent

LEMMA InitIds == Init => IdsInv
BY InitEntries, FS_EmptySet DEF Init, IdsInv

LEMMA IdsStep ==
  ASSUME TypeOK, IdsInv, CallStep
  PROVE  IdsInv'
<1> SUFFICES ASSUME IsV2
             PROVE  IdsInv'
  BY DEF IdsInv, IsV2
<1>1. nextCall \in Nat
  BY DEF TypeOK
<1>2. CASE UNCHANGED ledger /\ CallsKept
  BY <1>2, CallEntriesStay DEF CallsKept, IdsInv, SameCall
<1>3. ASSUME NEW e, Decide(e)
      PROVE  IdsInv'
  <2>1. e \in Entry /\ Log(e) /\ e.event \in {"allow", "deny"} /\ e.call = nextCall
        /\ nextCall' = nextCall + 1
    BY <1>3 DEF Decide, CallId, DrawCallId
  <2>2. /\ Decisions' = Decisions \cup {Last} /\ Last \notin Decisions
        /\ \A i \in Decisions : ledger'[i] = ledger[i]
        /\ ledger'[Last] = e
    BY <2>1, CallEntriesGrow
  <2>3. \A i \in Decisions' : ledger'[i].call \in 0 .. nextCall' - 1
    BY <1>1, <2>1, <2>2 DEF IdsInv
  <2>4. \A i, j \in Decisions' : ledger'[i].call = ledger'[j].call => i = j
    BY <1>1, <2>1, <2>2 DEF IdsInv, SameCall
  <2>5. IsFiniteSet(Decisions') /\ Cardinality(Decisions') = nextCall'
    BY <1>1, <2>1, <2>2, FS_AddElement DEF IdsInv
  <2>6. QED  BY <2>3, <2>4, <2>5 DEF IdsInv, SameCall
<1>4. ASSUME NEW e, ReportCall(e) \/ FinishNode(e) \/ TellKill(e) \/ TellSpawn(e)
      PROVE  IdsInv'
  <2>1. e \in Entry /\ Log(e) /\ e.event \notin {"allow", "deny"} /\ nextCall' = nextCall
    BY <1>4 DEF ReportCall, FinishNode, TellKill, TellSpawn, CallsKept
  <2>2. Decisions' = Decisions /\ \A i \in Decisions : ledger'[i] = ledger[i]
    BY <2>1, CallEntriesGrow
  <2>3. QED  BY <2>1, <2>2 DEF IdsInv, SameCall
<1>5. QED  BY <1>2, <1>3, <1>4 DEF CallStep

-----------------------------------------------------------------------------
(* Outcomes: one per call, after the decision it is of. *)

OutcomeInv ==
  /\ outcomed = {ledger[o].call : o \in Outcomes}
  /\ \A o \in Outcomes : IsV2 /\ ledger[o].call \in 0 .. nextCall - 1
  /\ \A o, p \in Outcomes : SameCall(o, p) => o = p
  /\ \A o \in Outcomes, i \in Decisions : SameCall(o, i) => i < o

LEMMA InitOutcomes == Init => OutcomeInv
BY InitEntries DEF Init, ChainInit, OutcomeInv

LEMMA OutcomeStep ==
  ASSUME TypeOK, IdsInv, OutcomeInv, CallStep
  PROVE  OutcomeInv'
<1>1. nextCall \in Nat
  BY DEF TypeOK
<1>2. CASE UNCHANGED ledger /\ CallsKept
  BY <1>2, CallEntriesStay DEF CallsKept, OutcomeInv, SameCall, IsV2
<1>3. ASSUME NEW e, Decide(e)
      PROVE  OutcomeInv'
  <2>1. /\ e \in Entry /\ Log(e) /\ e.event \in {"allow", "deny"} /\ e.call = CallId
        /\ DrawCallId /\ outcomed' = outcomed
    BY <1>3 DEF Decide
  <2>2. /\ Decisions' = Decisions \cup {Last} /\ Outcomes' = Outcomes
        /\ Outcomes \subseteq Positions /\ Decisions \subseteq Positions
        /\ \A i \in Positions : ledger'[i] = ledger[i]
        /\ ledger'[Last] = e
    BY <2>1, CallEntriesGrow
  <2>3. \A o \in Outcomes : IsV2' /\ ledger'[o].call \in 0 .. nextCall' - 1
    BY <1>1, <2>1, <2>2 DEF OutcomeInv, DrawCallId, IsV2
  <2>4. \A o \in Outcomes : ledger'[o].call # e.call
    BY <1>1, <2>1, <2>2 DEF OutcomeInv, CallId
  <2>5. \A o \in Outcomes, i \in Decisions' : ledger'[o].call = ledger'[i].call => i < o
    BY <2>2, <2>4 DEF OutcomeInv, SameCall
  <2>6. QED  BY <2>1, <2>2, <2>3, <2>5 DEF OutcomeInv, SameCall
<1>4. ASSUME NEW e, ReportCall(e)
      PROVE  OutcomeInv'
  <2>1. /\ e \in Entry /\ Log(e) /\ e.event = "outcome" /\ IsV2
        /\ e.call \in 0 .. nextCall - 1 /\ e.call \notin outcomed
        /\ outcomed' = outcomed \cup {e.call} /\ nextCall' = nextCall
    BY <1>4 DEF ReportCall, ResolvePending
  <2>2. /\ Outcomes' = Outcomes \cup {Last} /\ Decisions' = Decisions
        /\ Outcomes \subseteq Positions /\ Decisions \subseteq Positions
        /\ \A i \in Positions : ledger'[i] = ledger[i] /\ i < Last
        /\ ledger'[Last] = e
    BY <2>1, CallEntriesGrow
  <2>3. outcomed' = {ledger'[o].call : o \in Outcomes'}
    BY <2>1, <2>2 DEF OutcomeInv
  <2>4. \A o \in Outcomes' : IsV2' /\ ledger'[o].call \in 0 .. nextCall' - 1
    BY <2>1, <2>2 DEF OutcomeInv, IsV2
  <2>5. \A o, p \in Outcomes' : ledger'[o].call = ledger'[p].call => o = p
    BY <2>1, <2>2 DEF OutcomeInv, SameCall
  <2>6. \A o \in Outcomes', i \in Decisions' : ledger'[o].call = ledger'[i].call => i < o
    BY <2>1, <2>2 DEF OutcomeInv, SameCall
  <2>7. QED  BY <2>3, <2>4, <2>5, <2>6 DEF OutcomeInv, SameCall
<1>5. ASSUME NEW e, FinishNode(e) \/ TellKill(e) \/ TellSpawn(e)
      PROVE  OutcomeInv'
  <2>1. /\ e \in Entry /\ Log(e) /\ e.event \notin {"allow", "deny", "outcome"}
        /\ nextCall' = nextCall /\ outcomed' = outcomed
    BY <1>5 DEF FinishNode, TellKill, TellSpawn, CallsKept
  <2>2. /\ Decisions' = Decisions /\ Outcomes' = Outcomes
        /\ \A i \in Decisions \cup Outcomes : ledger'[i] = ledger[i]
    BY <2>1, CallEntriesGrow
  <2>3. QED  BY <2>1, <2>2 DEF OutcomeInv, SameCall, IsV2
<1>6. QED  BY <1>2, <1>3, <1>4, <1>5 DEF CallStep

-----------------------------------------------------------------------------
(* Pending calls: those an entry promised an outcome of, and none reported. *)

Owed(n) ==
  {i \in Allows : ledger[i].node = n /\ ledger[i].terminal /\ ledger[i].call \notin outcomed}

PendingInv ==
  /\ \A i \in Allows : ledger[i].terminal => IsV2 /\ ledger[i].gated
  /\ \A n \in NodeId : pending[n] = {ledger[i].call : i \in Owed(n)}

LEMMA InitPending == Init => PendingInv
BY InitEntries DEF Init, ChainInit, PendingInv, Owed

LEMMA PendingStep ==
  ASSUME TypeOK, OutcomeInv, PendingInv, CallStep
  PROVE  PendingInv'
<1>1. nextCall \in Nat /\ pending \in [NodeId -> SUBSET Nat]
  BY DEF TypeOK, ChainTypeOK
<1>2. CASE UNCHANGED ledger /\ CallsKept
  <2>1. Allows' = Allows /\ outcomed' = outcomed /\ pending' = pending
        /\ \A i : ledger'[i] = ledger[i]
    BY <1>2, CallEntriesStay DEF CallsKept
  <2>2. \A n : Owed(n)' = Owed(n)
    BY <2>1 DEF Owed
  <2>3. QED  BY <2>1, <2>2 DEF PendingInv, IsV2
<1>3. ASSUME NEW e, Decide(e)
      PROVE  PendingInv'
  <2>1. /\ e \in Entry /\ Log(e) /\ e.event \in {"allow", "deny"} /\ e.call = CallId
        /\ IF e.terminal
           THEN e.event = "allow" /\ e.gated /\ IsV2 /\ RegisterPending(e.node, CallId)
           ELSE UNCHANGED pending
        /\ outcomed' = outcomed
    BY <1>3 DEF Decide
  <2>2. /\ Allows' = Allows \cup {i \in {Last} : e.event = "allow"}
        /\ Last \notin Allows
        /\ \A i \in Allows : ledger'[i] = ledger[i]
        /\ ledger'[Last] = e
    BY <2>1, CallEntriesGrow
  <2>3. \A i \in Allows' : ledger'[i].terminal => IsV2' /\ ledger'[i].gated
    BY <2>1, <2>2 DEF PendingInv, IsV2
  <2>4. CASE ~e.terminal
    <3>1. \A n : Owed(n)' = Owed(n)
      BY <2>1, <2>2, <2>4 DEF Owed
    <3>2. \A n : \A i \in Owed(n) : ledger'[i].call = ledger[i].call
      BY <2>2 DEF Owed
    <3>3. QED  BY <2>1, <2>3, <2>4, <3>1, <3>2 DEF PendingInv
  <2>5. CASE e.terminal
    <3>1. /\ e.event = "allow" /\ e.call = nextCall /\ e.node \in NodeId
          /\ pending' = [pending EXCEPT ![e.node] = @ \cup {nextCall}]
      BY <2>1, <2>5 DEF RegisterPending, CallId, Entry
    <3>2. nextCall \notin outcomed
      BY <1>1 DEF OutcomeInv
    <3>3. \A n : Owed(n)' = Owed(n) \cup {i \in {Last} : n = e.node}
      BY <2>1, <2>2, <2>5, <3>1, <3>2 DEF Owed
    <3>4. \A n : \A i \in Owed(n) : ledger'[i].call = ledger[i].call
      BY <2>2 DEF Owed
    <3>5. ASSUME NEW n \in NodeId
          PROVE  pending'[n] = {ledger'[i].call : i \in Owed(n)'}
      <4>1. pending[n] = {ledger[i].call : i \in Owed(n)}
        BY DEF PendingInv
      <4>2. CASE n = e.node
        <5>1. pending'[n] = pending[n] \cup {nextCall} /\ Owed(n)' = Owed(n) \cup {Last}
          BY <1>1, <3>1, <3>3, <4>2
        <5>2. QED  BY <2>2, <3>1, <3>4, <4>1, <5>1
      <4>3. CASE n # e.node
        <5>1. pending'[n] = pending[n] /\ Owed(n)' = Owed(n)
          BY <1>1, <3>1, <3>3, <4>3
        <5>2. QED  BY <3>4, <4>1, <5>1
      <4>4. QED  BY <4>2, <4>3
    <3>6. QED  BY <2>3, <3>5 DEF PendingInv
  <2>6. QED  BY <2>4, <2>5
<1>4. ASSUME NEW e, ReportCall(e)
      PROVE  PendingInv'
  <2>1. /\ e \in Entry /\ Log(e) /\ e.event = "outcome"
        /\ outcomed' = outcomed \cup {e.call}
        /\ \A n \in NodeId : pending'[n] = pending[n] \ {e.call}
    BY <1>4 DEF ReportCall, ResolvePending
  <2>2. Allows' = Allows /\ \A i \in Allows : ledger'[i] = ledger[i]
    BY <2>1, CallEntriesGrow
  <2>3. \A n : Owed(n)' = {i \in Owed(n) : ledger[i].call # e.call}
    BY <2>1, <2>2 DEF Owed
  <2>4. \A n : \A i \in Owed(n) : ledger'[i].call = ledger[i].call
    BY <2>2 DEF Owed
  <2>5. ASSUME NEW n \in NodeId
        PROVE  pending'[n] = {ledger'[i].call : i \in Owed(n)'}
    <3>1. pending'[n] = {ledger[i].call : i \in Owed(n)} \ {e.call}
      BY <2>1 DEF PendingInv
    <3>2. QED  BY <2>3, <2>4, <3>1
  <2>6. QED  BY <2>2, <2>5 DEF PendingInv, IsV2
<1>5. ASSUME NEW e, FinishNode(e) \/ TellKill(e) \/ TellSpawn(e)
      PROVE  PendingInv'
  <2>1. /\ e \in Entry /\ Log(e) /\ e.event \notin {"allow", "deny", "outcome"}
        /\ pending' = pending /\ outcomed' = outcomed
    BY <1>5 DEF FinishNode, TellKill, TellSpawn, CallsKept
  <2>2. Allows' = Allows /\ \A i \in Allows : ledger'[i] = ledger[i]
    BY <2>1, CallEntriesGrow
  <2>3. \A n : Owed(n)' = Owed(n) /\ \A i \in Owed(n) : ledger'[i].call = ledger[i].call
    BY <2>1, <2>2 DEF Owed
  <2>4. QED  BY <2>1, <2>2, <2>3 DEF PendingInv, IsV2
<1>6. QED  BY <1>2, <1>3, <1>4, <1>5 DEF CallStep

-----------------------------------------------------------------------------
(* The done entry of a node *)

DoneInv ==
  /\ \A n \in NodeId : complete[n] <=> Finalized(n)
  /\ IsV2 => \A n \in NodeId : complete[n] => pending[n] = {}
  /\ DoneIsFinal

LEMMA InitDone == Init => DoneInv
<1> SUFFICES ASSUME Init
             PROVE  DoneInv
  OBVIOUS
<1>1. Positions = {1} /\ ledger[1].event = "root" /\ Allows = {}
  BY InitEntries DEF Blank
<1>2. QED  BY <1>1 DEF Init, ChainInit, DoneInv, DoneIsFinal, Finalized, IsEvent

(* An entry that is no done, and no allow of a node that is complete. *)
LEMMA NotDone ==
  ASSUME TypeOK, DoneInv, NEW e \in Entry, Log(e), UNCHANGED complete,
         e.event # "done",
         e.event = "allow" /\ e.gated => ~(IsV2 /\ complete[e.node]),
         \A n \in NodeId : IsV2 /\ complete[n] => pending'[n] = {}
  PROVE  DoneInv'
<1>1. /\ Positions' = Positions \cup {Last} /\ Last \notin Positions
      /\ \A i \in Positions : ledger'[i] = ledger[i] /\ i < Last
      /\ ledger'[Last] = e
      /\ Allows' = Allows \cup {i \in {Last} : e.event = "allow"}
      /\ Outcomes \subseteq Outcomes' /\ Outcomes \subseteq Positions /\ Allows \subseteq Positions
  BY CallEntriesGrow
<1>2. \A n : Finalized(n)' <=> Finalized(n)
  BY <1>1 DEF Finalized, IsEvent
<1>3. DoneIsFinal'
  <2> SUFFICES ASSUME IsV2, NEW d \in Positions', ledger'[d].event = "done",
                      NEW a \in Allows', ledger'[a].node = ledger'[d].node, ledger'[a].gated
               PROVE  /\ a < d
                      /\ ledger'[a].terminal =>
                           \E o \in Outcomes' : ledger'[o].call = ledger'[a].call /\ o < d
    BY DEF DoneIsFinal, IsEvent, SameCall, IsV2
  <2>1. d \in Positions /\ ledger'[d] = ledger[d]
    BY <1>1
  <2>2. a \in Allows /\ ledger'[a] = ledger[a]
    <3>1. CASE a = Last /\ a \notin Allows
      <4>1. e.event = "allow" /\ e.gated /\ e.node = ledger[d].node /\ e.node \in NodeId
        BY <1>1, <2>1, <3>1 DEF Entry
      <4>2. complete[e.node]
        BY <2>1, <4>1 DEF DoneInv, Finalized, IsEvent
      <4>3. QED  BY <4>1, <4>2
    <3>2. QED  BY <1>1, <3>1
  <2>3. /\ a < d
        /\ ledger[a].terminal => \E o \in Outcomes : ledger[o].call = ledger[a].call /\ o < d
    BY <2>1, <2>2 DEF DoneInv, DoneIsFinal, IsEvent, SameCall
  <2>4. QED  BY <1>1, <2>2, <2>3
<1>4. QED  BY <1>2, <1>3 DEF DoneInv, IsV2

LEMMA DoneStep ==
  ASSUME TypeOK, OutcomeInv, PendingInv, DoneInv, CallStep
  PROVE  DoneInv'
<1>1. pending \in [NodeId -> SUBSET Nat] /\ complete \in [NodeId -> BOOLEAN]
  BY DEF TypeOK, ChainTypeOK
<1>2. CASE UNCHANGED ledger /\ CallsKept
  BY <1>2, CallEntriesStay DEF CallsKept, DoneInv, DoneIsFinal, Finalized, IsEvent, SameCall, IsV2
<1>3. ASSUME NEW e, Decide(e)
      PROVE  DoneInv'
  <2>1. /\ e \in Entry /\ Log(e) /\ e.event # "done" /\ complete' = complete
        /\ e.event = "allow" /\ e.gated => ~(IsV2 /\ complete[e.node])
    BY <1>3 DEF Decide
  <2>2. \A n \in NodeId : IsV2 /\ complete[n] => pending'[n] = {}
    <3>1. CASE ~e.terminal
      BY <1>3, <3>1 DEF Decide, DoneInv
    <3>2. CASE e.terminal
      <4>1. e.node \in NodeId /\ ~complete[e.node] /\ RegisterPending(e.node, CallId)
        BY <1>3, <3>2 DEF Decide, Entry
      <4>2. \A n \in NodeId : n # e.node => pending'[n] = pending[n]
        BY <1>1, <4>1 DEF RegisterPending
      <4>3. QED  BY <4>1, <4>2 DEF DoneInv
    <3>3. QED  BY <3>1, <3>2
  <2>3. QED  BY <2>1, <2>2, NotDone
<1>4. ASSUME NEW e, ReportCall(e)
      PROVE  DoneInv'
  <2>1. /\ e \in Entry /\ Log(e) /\ e.event = "outcome" /\ complete' = complete
        /\ \A n \in NodeId : pending'[n] = pending[n] \ {e.call}
    BY <1>4 DEF ReportCall, ResolvePending
  <2>2. \A n \in NodeId : IsV2 /\ complete[n] => pending'[n] = {}
    BY <2>1 DEF DoneInv
  <2>3. QED  BY <2>1, <2>2, NotDone
<1>5. ASSUME NEW e, TellKill(e) \/ TellSpawn(e)
      PROVE  DoneInv'
  <2>1. /\ e \in Entry /\ Log(e) /\ e.event \in {"kill", "spawn", "spawn_denied"}
        /\ complete' = complete /\ pending' = pending
    BY <1>5 DEF TellKill, TellSpawn, CallsKept
  <2>2. \A n \in NodeId : IsV2 /\ complete[n] => pending'[n] = {}
    BY <2>1 DEF DoneInv
  <2>3. QED  BY <2>1, <2>2, NotDone
<1>6. ASSUME NEW e, FinishNode(e)
      PROVE  DoneInv'
  <2>1. /\ e \in Entry /\ Log(e) /\ e.event = "done" /\ e.node \in NodeId
        /\ IsV2 => pending[e.node] = {}
        /\ complete' = [complete EXCEPT ![e.node] = TRUE]
        /\ pending' = pending /\ outcomed' = outcomed
    BY <1>6 DEF FinishNode, Entry
  <2>2. /\ Positions' = Positions \cup {Last} /\ Last \notin Positions
        /\ \A i \in Positions : ledger'[i] = ledger[i] /\ i < Last
        /\ ledger'[Last] = e
        /\ Allows' = Allows /\ Outcomes' = Outcomes
        /\ Outcomes \subseteq Positions /\ Allows \subseteq Positions
    BY <2>1, CallEntriesGrow
  <2>3. \A n \in NodeId : Finalized(n)' <=> Finalized(n) \/ n = e.node
    BY <2>1, <2>2 DEF Finalized, IsEvent
  <2>4. \A n \in NodeId : complete'[n] <=> complete[n] \/ n = e.node
    BY <1>1, <2>1
  <2>5. DoneIsFinal'
    <3> SUFFICES ASSUME IsV2, NEW d \in Positions', ledger'[d].event = "done",
                        NEW a \in Allows, ledger[a].node = ledger'[d].node, ledger[a].gated
                 PROVE  /\ a < d
                        /\ ledger[a].terminal =>
                             \E o \in Outcomes : ledger[o].call = ledger[a].call /\ o < d
      BY <2>2 DEF DoneIsFinal, IsEvent, SameCall, IsV2
    <3>1. CASE d \in Positions
      BY <2>2, <3>1 DEF DoneInv, DoneIsFinal, IsEvent, SameCall
    <3>2. CASE d = Last
      <4>1. a < d /\ ledger[a].node = e.node
        BY <2>2, <3>2
      <4>2. a \notin Owed(e.node)
        BY <2>1 DEF PendingInv
      <4>3. ledger[a].terminal => ledger[a].call \in outcomed
        BY <4>1, <4>2 DEF Owed
      <4>4. ledger[a].terminal => \E o \in Outcomes : ledger[o].call = ledger[a].call
        BY <4>3 DEF OutcomeInv
      <4>5. QED  BY <2>2, <3>2, <4>1, <4>4
    <3>3. QED  BY <2>2, <3>1, <3>2
  <2>6. QED  BY <2>1, <2>3, <2>4, <2>5 DEF DoneInv, IsV2
<1>7. QED  BY <1>2, <1>3, <1>4, <1>5, <1>6 DEF CallStep

-----------------------------------------------------------------------------
(* The snapshot of a kill entry *)

(* The entries before k that promised an outcome none before k reported. *)
OpenAt(k) ==
  {b \in Allows :
     /\ b < k
     /\ ledger[b].node \in ledger[k].revoked
     /\ ledger[b].terminal
     /\ ~\E o \in Outcomes : SameCall(o, b) /\ o < k}

LEMMA SnapshotForm ==
  KillSnapshotExact <=>
    \A k \in Positions : IsEvent(k, "kill") =>
      ledger[k].pending = {ledger[a].call : a \in OpenAt(k)}
BY DEF KillSnapshotExact, OpenAt

(* What a snapshot is of is behind it. *)
LEMMA OpenAtStays ==
  ASSUME TypeOK, NEW e \in Entry, Log(e), NEW k \in Positions
  PROVE  /\ OpenAt(k)' = OpenAt(k)
         /\ \A a \in OpenAt(k) : ledger'[a] = ledger[a]
<1>1. /\ \A i \in Positions : ledger'[i] = ledger[i] /\ i < Last /\ i \in Nat
      /\ Last \in Nat
      /\ Allows' = Allows \cup {i \in {Last} : e.event = "allow"}
      /\ Outcomes' = Outcomes \cup {i \in {Last} : e.event = "outcome"}
      /\ Outcomes \subseteq Positions /\ Allows \subseteq Positions
  BY CallEntriesGrow, PositionsTyped DEF Last
<1>2. /\ \A b \in Allows' : b < k => b \in Allows
      /\ \A o \in Outcomes' : o < k => o \in Outcomes
  BY <1>1
<1>3. \A b \in Allows : ledger'[b] = ledger[b] /\ \A o \in Outcomes : SameCall(o, b)' <=> SameCall(o, b)
  BY <1>1 DEF SameCall
<1>4. ledger'[k] = ledger[k]
  BY <1>1
<1>5. Allows \subseteq Allows' /\ Outcomes \subseteq Outcomes'
  BY <1>1
<1>6. \A b : b \in OpenAt(k)' <=> b \in OpenAt(k)
  BY <1>2, <1>3, <1>4, <1>5 DEF OpenAt
<1>7. QED  BY <1>3, <1>6 DEF OpenAt

LEMMA InitSnapshot == Init => KillSnapshotExact
<1> SUFFICES ASSUME Init
             PROVE  KillSnapshotExact
  OBVIOUS
<1>1. Positions = {1} /\ ledger[1].event = "root"
  BY InitEntries DEF Blank
<1>2. QED  BY <1>1 DEF KillSnapshotExact, IsEvent

LEMMA SnapshotStep ==
  ASSUME TypeOK, OutcomeInv, PendingInv, KillSnapshotExact, CallStep
  PROVE  KillSnapshotExact'
<1>1. CASE UNCHANGED ledger
  BY <1>1, CallEntriesStay DEF KillSnapshotExact, IsEvent, SameCall
<1>2. ASSUME NEW e \in Entry, Log(e),
             e.event = "kill" => e.pending = UNION {pending[n] : n \in e.revoked}
      PROVE  KillSnapshotExact'
  <2>0. PICK l : l = Last
    OBVIOUS
  <2>1. /\ Positions' = Positions \cup {l} /\ l \notin Positions
        /\ \A i \in Positions : ledger'[i] = ledger[i] /\ i < l
        /\ ledger'[l] = e
        /\ Outcomes \subseteq Positions /\ Allows \subseteq Positions
    BY <1>2, <2>0, CallEntriesGrow
  <2>2. ASSUME NEW k \in Positions, ledger[k].event = "kill"
        PROVE  ledger'[k].pending = {ledger'[a].call : a \in OpenAt(k)'}
    <3>1. ledger[k].pending = {ledger[a].call : a \in OpenAt(k)}
      BY <2>2, SnapshotForm DEF IsEvent
    <3>2. QED  BY <1>2, <2>1, <3>1, OpenAtStays
  <2>3. ASSUME e.event = "kill"
        PROVE  e.pending = {ledger'[a].call : a \in OpenAt(l)'}
    <3>1. Allows' = Allows /\ Outcomes' = Outcomes
      <4>1. /\ Allows' = Allows \cup {i \in {l} : e.event = "allow"}
            /\ Outcomes' = Outcomes \cup {i \in {l} : e.event = "outcome"}
        BY <1>2, <2>0, CallEntriesGrow
      <4>2. QED  BY <2>3, <4>1
    <3>2. \A b : b \in OpenAt(l)' <=>
            /\ b \in Allows /\ ledger[b].node \in e.revoked /\ ledger[b].terminal
            /\ ~\E o \in Outcomes : ledger[o].call = ledger[b].call
      <4>1. \A b \in Allows \cup Outcomes : ledger'[b] = ledger[b] /\ b < l
        BY <2>1
      <4>2. \A b : b \in OpenAt(l)' <=>
              /\ b \in Allows /\ b < l /\ ledger'[b].node \in e.revoked /\ ledger'[b].terminal
              /\ ~\E o \in Outcomes : ledger'[o].call = ledger'[b].call /\ o < l
        BY <2>1, <3>1 DEF OpenAt, SameCall
      <4>3. QED  BY <4>1, <4>2
    <3>3. \A b \in Allows : ledger[b].call \in outcomed <=>
            \E o \in Outcomes : ledger[o].call = ledger[b].call
      BY DEF OutcomeInv
    <3>4. \A b : b \in OpenAt(l)' <=> \E n \in e.revoked : b \in Owed(n)
      BY <3>2, <3>3 DEF Owed
    <3>5. \A n \in e.revoked : pending[n] = {ledger[b].call : b \in Owed(n)}
      BY <1>2 DEF Entry, PendingInv
    <3>6. \A n : \A b \in Owed(n) : ledger'[b].call = ledger[b].call
      BY <2>1 DEF Owed
    <3>7. \A c : c \in e.pending <=> \E n \in e.revoked : \E b \in Owed(n) : c = ledger[b].call
      BY <1>2, <2>3, <3>5
    <3>8. \A c : c \in {ledger'[a].call : a \in OpenAt(l)'} <=>
                 \E b \in OpenAt(l)' : c = ledger'[b].call
      OBVIOUS
    <3>9. \A c : c \in e.pending <=> c \in {ledger'[a].call : a \in OpenAt(l)'}
      BY <3>4, <3>6, <3>7, <3>8
    <3>10. e.pending \in SUBSET Nat
      BY <1>2 DEF Entry
    <3>11. QED  BY <3>9, <3>10
  <2>4. \A k \in Positions' : ledger'[k].event = "kill" =>
          ledger'[k].pending = {ledger'[a].call : a \in OpenAt(k)'}
    BY <2>1, <2>2, <2>3
  <2>5. QED  BY <2>4 DEF KillSnapshotExact, OpenAt, IsEvent
<1>3. ASSUME NEW e, Decide(e) \/ ReportCall(e) \/ FinishNode(e) \/ TellSpawn(e)
      PROVE  KillSnapshotExact'
  <2>1. e \in Entry /\ Log(e) /\ e.event # "kill"
    BY <1>3 DEF Decide, ReportCall, FinishNode, TellSpawn
  <2>2. QED  BY <1>2, <2>1
<1>4. ASSUME NEW e, TellKill(e)
      PROVE  KillSnapshotExact'
  BY <1>2, <1>4 DEF TellKill
<1>5. QED  BY <1>1, <1>3, <1>4 DEF CallStep

-----------------------------------------------------------------------------
(* What is said of a node is said after the entry that defines it: a Guard  *)
(* is handed out once its node's spawn is on the ledger.                    *)

ShownInv ==
  /\ \A i \in Positions :
       ledger[i].event \in {"allow", "deny", "done"} => ledger[i].node \in DefinedBefore(i)
  /\ \A i \in Positions : IsEvent(i, "spawn_denied") => ledger[i].parent \in DefinedBefore(i)

LEMMA InitShown == Init => ShownInv
<1> SUFFICES ASSUME Init
             PROVE  ShownInv
  OBVIOUS
<1>1. Positions = {1} /\ ledger[1].event = "root"
  BY InitEntries DEF Blank
<1>2. QED  BY <1>1 DEF ShownInv, IsEvent

LEMMA ShownStep ==
  ASSUME TypeOK, LedgerInv, ShownInv, CallStep
  PROVE  ShownInv'
<1>1. CASE UNCHANGED ledger
  BY <1>1 DEF ShownInv, Positions, DefinedBefore, Before, IsEvent
<1>2. ASSUME NEW e, Decide(e) \/ ReportCall(e) \/ FinishNode(e) \/ TellKill(e) \/ TellSpawn(e)
      PROVE  ShownInv'
  <2>1. /\ e \in Entry /\ Log(e)
        /\ e.event \in {"allow", "deny", "done"} => e.node \in guards
        /\ e.event = "spawn_denied" => e.parent \in guards
    BY <1>2 DEF Decide, ReportCall, FinishNode, TellKill, TellSpawn
  <2>2. PICK l : l = Last
    OBVIOUS
  <2>3. /\ Positions' = Positions \cup {l}
        /\ \A i \in Positions : ledger'[i] = ledger[i]
        /\ ledger'[l] = e
    BY <2>1, <2>2, CallEntriesGrow
  <2>4. /\ \A i \in Positions' : DefinedBefore(i)' = DefinedBefore(i)
        /\ DefinedBefore(l) = Logged
    BY <2>1, <2>2, ReadBefore DEF Logged, Last
  <2>5. guards \subseteq DefinedBefore(l)
    BY <2>4 DEF LedgerInv
  <2>6. QED  BY <2>1, <2>3, <2>4, <2>5 DEF ShownInv, IsEvent
<1>3. QED  BY <1>1, <1>2 DEF CallStep

LEMMA RefusedStep ==
  ASSUME TypeOK, RefusedHeld, [Next]_vars
  PROVE  RefusedHeld'
<1> DEFINE Quiet ==
      /\ guards \subseteq guards'
      /\ \A u \in Thread : pc'[u] = "refused" => pc[u] = "refused" /\ subject'[u] = subject[u]
<1>1. Quiet => RefusedHeld'
  BY DEF RefusedHeld
<1>2. ASSUME NEW t \in Thread,
             NEW where \in {"idle", "spawned", "sweeping", "unlogged"}, NEW n, Goto(t, where, n),
             guards \subseteq guards'
      PROVE  RefusedHeld'
  <2>1. Quiet
    BY <1>2 DEF Goto, TypeOK
  <2>2. QED  BY <1>1, <2>1
<1>3. ASSUME UNCHANGED <<guards, pc, subject>>
      PROVE  RefusedHeld'
  BY <1>3 DEF RefusedHeld
<1> HIDE DEF Quiet
<1>4. CASE PassTime \/ UNCHANGED vars
  BY <1>3, <1>4 DEF PassTime, vars, guardVars
<1>5. ASSUME NEW t \in Thread, Call(t)
      PROVE  RefusedHeld'
  <2>1. ASSUME NEW n \in NodeId, NEW x \in Act,
               \/ \E terminal \in BOOLEAN : CheckAllow(t, n, x, terminal)
               \/ \E raises \in BOOLEAN : CheckDeny(t, n, x, raises)
        PROVE  RefusedHeld'
    <3>1. UNCHANGED guards /\ (UNCHANGED <<pc, subject>> \/ Goto(t, "sweeping", n))
      BY <2>1 DEF CheckAllow, CheckDeny, Strike
    <3>2. QED  BY <1>2, <1>3, <3>1
  <2>2. ASSUME NEW n \in NodeId,
               \/ RecordDenial(t, n) \/ RecordPassthrough(t, n) \/ Complete(t, n)
               \/ \E k \in 0 .. MaxCalls : RecordOutcome(t, n, k)
        PROVE  RefusedHeld'
    BY <1>3, <2>2 DEF RecordDenial, RecordPassthrough, Complete, RecordOutcome
  <2>3. ASSUME NEW n \in NodeId, Revoke(t, n)
        PROVE  RefusedHeld'
    BY <1>2, <2>3 DEF Revoke
  <2>4. ASSUME NEW a \in Agent, RevokeAgent(t, a)
        PROVE  RefusedHeld'
    <3>1. UNCHANGED guards /\ (Goto(t, "sweeping", 0) \/ Goto(t, "unlogged", 0))
      BY <2>4 DEF RevokeAgent
    <3>2. QED  BY <1>2, <3>1
  <2>5. ASSUME NEW n \in NodeId, NEW a \in Agent, NEW r \in Request, DelegateAdd(t, n, a, r)
        PROVE  RefusedHeld'
    BY <1>2, <2>5 DEF DelegateAdd
  <2>6. ASSUME NEW n \in NodeId, NEW a \in Agent, NEW r \in Request, DelegateRefused(t, n, a, r)
        PROVE  RefusedHeld'
    BY <2>6 DEF DelegateRefused, RefusedHeld, Goto, TypeOK
  <2>7. QED  BY <1>5, <2>1, <2>2, <2>3, <2>4, <2>5, <2>6, Zenon DEF Call
<1>6. ASSUME NEW t \in Thread, Continue(t)
      PROVE  RefusedHeld'
  <2>1. \/ \E n \in NodeId : Sweep(t, n)
        \/ guards \subseteq guards' /\ Goto(t, "idle", 0)
    BY <1>6 DEF Continue, LogSpawn, SpawnFault, LogSpawnDenied, SweepKeyError, LogKill, KillUnlogged
  <2>2. QED  BY <1>2, <1>3, <2>1 DEF Sweep, guardVars
<1>7. QED  BY <1>4, <1>5, <1>6 DEF Next

-----------------------------------------------------------------------------
(* The meter: a CallLimit counts the gated allows of its node, which has    *)
(* none before it is there.                                                 *)

GatedAllows(n) == {a \in Allows : ledger[a].node = n /\ ledger[a].gated}

MeterInv ==
  \A n \in NodeId :
    /\ IsFiniteSet(GatedAllows(n))
    /\ n \notin Created => calls[n] = 0
    /\ n \in Created /\ CallLimits(auth[n]) # {} =>
         /\ calls[n] = Cardinality(GatedAllows(n))
         /\ \A m \in CallLimits(auth[n]) : calls[n] <= m

LEMMA InitMeter == Init => MeterInv
<1> SUFFICES ASSUME Init
             PROVE  MeterInv
  OBVIOUS
<1>1. \A n : GatedAllows(n) = {}
  BY InitEntries DEF GatedAllows
<1>2. \A n \in NodeId : calls[n] = 0 /\ auth[n] = RootAuth
  BY DEF Init, ChainInit
<1>3. \A m \in CallLimits(RootAuth) : 0 <= m
  BY RootAssumption, QuantityAssumption
<1>4. QED  BY <1>1, <1>2, <1>3, FS_EmptySet DEF MeterInv

LEMMA EarlierIsLogged ==
  ASSUME TypeOK, NEW i \in Positions
  PROVE  DefinedBefore(i) \subseteq Logged
BY PositionsTyped DEF Logged, DefinedBefore, Before

(* Only gated allows of nodes that are there are on the ledger. *)
LEMMA GatedAllowsOfCreated ==
  ASSUME TypeOK, LedgerInv, NEW n, n \notin Created
  PROVE  GatedAllows(n) = {}
<1>1. \A a \in Allows : ledger[a].gated => ledger[a].node \in Created
  <2>1. \A a \in Positions : DefinedBefore(a) \subseteq Created
    BY EarlierIsLogged DEF LedgerInv
  <2>2. QED  BY <2>1 DEF Allows, LedgerInv, LedgerContained, ContainedAt
<1>2. QED  BY <1>1 DEF GatedAllows

(* A step that counts nothing, and may add a node. *)
LEMMA MeterKept ==
  ASSUME TypeOK, LedgerInv, MeterInv,
         UNCHANGED calls, \A n : GatedAllows(n)' = GatedAllows(n),
         \/ UNCHANGED treeVars
         \/ \E t \in Thread, p \in NodeId, a \in Agent, r \in Request : DelegateAdd(t, p, a, r)
  PROVE  MeterInv'
<1>1. CASE UNCHANGED treeVars
  BY <1>1 DEF treeVars, MeterInv, Created
<1>2. ASSUME NEW t \in Thread, NEW p \in NodeId, NEW a \in Agent, NEW r \in Request,
             DelegateAdd(t, p, a, r)
      PROVE  MeterInv'
  <2>1. /\ next \in 1 .. MaxNodes /\ next < MaxNodes /\ next' = next + 1
        /\ auth \in [NodeId -> Auth] /\ auth' = [auth EXCEPT ![next] = Attenuate(auth[p], r)]
        /\ Attenuate(auth[p], r) \in Auth
    BY <1>2, MeetLaw DEF DelegateAdd, AddChild, TypeOK, ChainTypeOK, TreeTypeOK
  <2>2. /\ Created' = Created \cup {next} /\ next \notin Created
        /\ Created \subseteq NodeId /\ next \in NodeId
        /\ \A n \in Created : auth'[n] = auth[n]
        /\ auth'[next] = Attenuate(auth[p], r)
    BY <2>1, OneNodeMore
  <2>3. calls'[next] = Cardinality(GatedAllows(next)) /\ calls'[next] = 0
    BY <2>2, GatedAllowsOfCreated, FS_EmptySet DEF MeterInv
  <2>4. \A m \in CallLimits(auth'[next]) : 0 <= m
    BY <2>1, <2>2, QuantityAssumption
  <2>5. QED  BY <2>2, <2>3, <2>4 DEF MeterInv
<1>3. QED  BY <1>1, <1>2

LEMMA MeterStep ==
  ASSUME TypeOK, LedgerInv, MeterInv, [Next]_vars, CallStep
  PROVE  MeterInv'
<1>1. CASE UNCHANGED ledger /\ CallsKept
  <2>1. \A n : GatedAllows(n)' = GatedAllows(n)
    BY <1>1, CallEntriesStay DEF GatedAllows
  <2>2. QED  BY <1>1, <2>1, TreeFrame, MeterKept DEF CallsKept
<1>2. ASSUME NEW e, Log(e), e \in Entry
      PROVE  UNCHANGED treeVars
  <2>1. ledger' # ledger
    BY <1>2 DEF Log, TypeOK
  <2>2. QED  BY <2>1, TreeFrame DEF DelegateAdd
<1>3. ASSUME NEW e, e \in Entry, Log(e), ~(e.event = "allow" /\ e.gated), UNCHANGED calls
      PROVE  MeterInv'
  <2>1. \A n : GatedAllows(n)' = GatedAllows(n)
    BY <1>3, CallEntriesGrow DEF GatedAllows
  <2>2. QED  BY <1>2, <1>3, <2>1, MeterKept
<1>4. ASSUME NEW e, Decide(e), e.event = "allow", e.gated
      PROVE  MeterInv'
  <2> DEFINE n == e.node
  <2>1. /\ e \in Entry /\ Log(e) /\ n \in guards
        /\ AdmitsCall(n) /\ CountCall(n) /\ UNCHANGED treeVars
    BY <1>2, <1>4 DEF Decide
  <2>2. n \in Created /\ n \in NodeId /\ calls \in [NodeId -> Nat]
    BY <2>1 DEF LedgerInv, Entry, TypeOK, ChainTypeOK
  <2>3. /\ Allows' = Allows \cup {Last} /\ Last \notin Allows
        /\ \A i \in Allows : ledger'[i] = ledger[i]
        /\ ledger'[Last] = e
    BY <1>4, <2>1, CallEntriesGrow
  <2>4. GatedAllows(n)' = GatedAllows(n) \cup {Last} /\ Last \notin GatedAllows(n)
    BY <1>4, <2>3 DEF GatedAllows
  <2>5. \A m \in NodeId \ {n} : GatedAllows(m)' = GatedAllows(m)
    BY <2>3 DEF GatedAllows
  <2>6. /\ IsFiniteSet(GatedAllows(n)')
        /\ Cardinality(GatedAllows(n)') = Cardinality(GatedAllows(n)) + 1
    BY <2>2, <2>4, FS_AddElement DEF MeterInv
  <2>7. UNCHANGED auth /\ Created' = Created
    BY <2>1 DEF treeVars, Created
  <2>8. /\ \A m \in NodeId \ {n} : calls'[m] = calls[m]
        /\ CallLimits(auth[n]) # {} => calls'[n] = calls[n] + 1
    BY <2>1, <2>2 DEF CountCall
  <2>9. \A m \in CallLimits(auth[n]) : calls[n] + 1 <= m
    BY <2>1 DEF AdmitsCall
  <2> HIDE DEF n
  <2>10. QED  BY <2>2, <2>5, <2>6, <2>7, <2>8, <2>9 DEF MeterInv
<1>5. ASSUME NEW e, Decide(e) \/ ReportCall(e) \/ FinishNode(e) \/ TellKill(e) \/ TellSpawn(e)
      PROVE  MeterInv'
  BY <1>3, <1>4, <1>5 DEF Decide, ReportCall, FinishNode, TellKill, TellSpawn, CallsKept
<1>6. QED  BY <1>1, <1>5 DEF CallStep

-----------------------------------------------------------------------------
(* The invariant *)

BindingInv ==
  /\ RefusedHeld
  /\ IdsInv
  /\ OutcomeInv
  /\ PendingInv
  /\ DoneInv
  /\ KillSnapshotExact
  /\ ShownInv
  /\ MeterInv

THEOREM BindingInvariant == Spec => []BindingInv
<1>1. Init => BindingInv
  <2>1. Init => RefusedHeld
    BY DEF Init, RefusedHeld
  <2>2. QED  BY <2>1, InitIds, InitOutcomes, InitPending, InitDone, InitSnapshot, InitShown,
             InitMeter
             DEF BindingInv
<1>2. TypeOK /\ LedgerInv /\ BindingInv /\ [Next]_vars => BindingInv'
  <2> SUFFICES ASSUME TypeOK, LedgerInv, BindingInv, [Next]_vars
               PROVE  BindingInv'
    OBVIOUS
  <2>1. /\ RefusedHeld /\ IdsInv /\ OutcomeInv /\ PendingInv /\ DoneInv
        /\ KillSnapshotExact /\ ShownInv /\ MeterInv
    BY DEF BindingInv
  <2>2. CallStep
    BY <2>1, StepsOfCalls
  <2>3. RefusedHeld'
    BY <2>1, RefusedStep
  <2>4. IdsInv' /\ OutcomeInv' /\ PendingInv'
    BY <2>1, <2>2, IdsStep, OutcomeStep, PendingStep
  <2>5. DoneInv' /\ KillSnapshotExact' /\ ShownInv' /\ MeterInv'
    BY <2>1, <2>2, DoneStep, SnapshotStep, ShownStep, MeterStep
  <2>6. QED  BY <2>3, <2>4, <2>5 DEF BindingInv
<1>3. QED  BY <1>1, <1>2, Typed, LedgerInvariant, PTL DEF Spec

(* After the done entry of a node no gated call of it is allowed, and each  *)
(* call of it that promised an outcome has one before the entry (guard.py,  *)
(* complete; chain.py, pending_for).                                        *)
THEOREM DoneEntriesAreFinal == Spec => []DoneIsFinal
<1>1. BindingInv => DoneIsFinal
  BY DEF BindingInv, DoneInv
<1>2. QED  BY <1>1, BindingInvariant, PTL

(* A kill entry lists exactly the calls of its nodes that were allowed, had *)
(* promised an outcome and had none when the kill was logged (guard.py,     *)
(* _kill_atomically).                                                       *)
THEOREM KillsTellPending == Spec => []KillSnapshotExact
<1>1. BindingInv => KillSnapshotExact
  BY DEF BindingInv
<1>2. QED  BY <1>1, BindingInvariant, PTL

(* The meter of a node that holds a CallLimit counts its gated allows on    *)
(* the ledger, and never passes the limit, whatever threads call at once    *)
(* (guard.py, check; chain.py, count_call).                                 *)
THEOREM MetersCountAllows == Spec => []MeterExact
<1>1. TypeOK /\ BindingInv => MeterExact
  BY CreatedAreNodes DEF BindingInv, MeterInv, MeterExact, GatedAllows, TypeOK, ChainTypeOK, TreeTypeOK
<1>2. QED  BY <1>1, Typed, BindingInvariant, PTL

-----------------------------------------------------------------------------
(* What a reader is told *)

(* The views show each decision, under the node it is of. *)
LEMMA ShownDecisions ==
  ASSUME TypeOK, ShownInv
  PROVE  UNION {ShownCalls(n) : n \in Logged} = Decisions
<1>1. \A n : ShownCalls(n) \subseteq Decisions
  BY DEF ShownCalls, Shown, Decisions
<1>2. ASSUME NEW i \in Decisions
      PROVE  \E n \in Logged : i \in ShownCalls(n)
  <2>1. i \in Positions /\ ledger[i].event \in {"allow", "deny"}
    BY DEF Decisions, IsEvent
  <2>2. ledger[i].node \in DefinedBefore(i)
    BY <2>1 DEF ShownInv
  <2>3. ledger[i].node \in Logged
    BY <2>1, <2>2, EarlierIsLogged
  <2>4. i \in ShownCalls(ledger[i].node)
    BY <2>1, <2>2 DEF ShownCalls, Shown, IsEvent
  <2>5. QED  BY <2>3, <2>4
<1>3. QED  BY <1>1, <1>2

LEMMA ShownRefusals ==
  ASSUME TypeOK, ShownInv, NEW i \in Positions, IsEvent(i, "deny") \/ IsEvent(i, "spawn_denied")
  PROVE  \E n \in Logged : i \in Denials(n)
<1>1. CASE IsEvent(i, "deny")
  <2>1. ledger[i].node \in Logged
    BY <1>1, EarlierIsLogged DEF ShownInv, IsEvent
  <2>2. QED  BY <1>1, <2>1 DEF Denials
<1>2. CASE IsEvent(i, "spawn_denied")
  <2>1. ledger[i].parent \in Logged
    BY <1>2, EarlierIsLogged DEF ShownInv
  <2>2. QED  BY <1>2, <2>1 DEF Denials
<1>3. QED  BY <1>1, <1>2

(* A node is shown complete when it is, and revoked only when it is. *)
LEMMA ShownState ==
  ASSUME TypeOK, LedgerInv, DoneInv, ShownInv, NEW n \in NodeId
  PROVE  /\ ShownComplete(n) = complete[n]
         /\ ShownRevoked(n) => n \in revoked
<1>1. ShownComplete(n) <=> Finalized(n)
  BY DEF ShownComplete, Finalized, Shown, ShownInv, IsEvent
<1>2. complete[n] \in BOOLEAN
  BY DEF TypeOK, ChainTypeOK
<1>3. ShownComplete(n) \in BOOLEAN
  BY DEF ShownComplete
<1>4. complete[n] <=> Finalized(n)
  BY DEF DoneInv
<1>5. ShownRevoked(n) => n \in LoggedRevoked
  <2>1. Positions \subseteq Before(Len(ledger) + 1)
    BY PositionsTyped DEF Before
  <2>2. QED  BY <2>1 DEF ShownRevoked, Shown, LoggedRevoked, RevokedBefore
<1>6. QED  BY <1>1, <1>2, <1>3, <1>4, <1>5 DEF LedgerInv

(* Reported through the Guard that allowed it, an outcome is bound to the   *)
(* allow, and what the verifier cannot account for is what is pending.      *)
LEMMA ReportedOutcomesBound ==
  ASSUME TypeOK, IdsInv, OutcomeInv, IsV2, ReportedByHolder
  PROVE  /\ \A o \in Outcomes : \E a \in Allows : Bound(o, a)
         /\ \A a \in Allows : (\E o \in Outcomes : Bound(o, a)) <=> ledger[a].call \in outcomed
<1>1. Allows \subseteq Decisions
  BY DEF Allows, Decisions
<1>2. \A o \in Outcomes, a \in Decisions : SameCall(o, a) => o > a
  <2>1. \A i \in Outcomes \cup Decisions : i \in Nat
    BY PositionsTyped DEF Outcomes, Decisions
  <2>2. QED  BY <2>1 DEF OutcomeInv
<1>3. ASSUME NEW o \in Outcomes
      PROVE  \E a \in Allows : Bound(o, a)
  BY <1>1, <1>2 DEF ReportedByHolder, Bound
<1>4. ASSUME NEW a \in Allows, ledger[a].call \in outcomed
      PROVE  \E o \in Outcomes : Bound(o, a)
  <2>1. PICK o \in Outcomes : ledger[o].call = ledger[a].call
    BY <1>4 DEF OutcomeInv
  <2>2. PICK b \in Allows : Bound(o, b)
    BY <1>3
  <2>3. SameCall(a, b)
    BY <2>1, <2>2 DEF Bound, SameCall
  <2>4. a = b
    BY <1>1, <2>3 DEF IdsInv
  <2>5. QED  BY <2>2, <2>4
<1>5. \A a \in Allows : (\E o \in Outcomes : Bound(o, a)) => ledger[a].call \in outcomed
  BY DEF Bound, SameCall, OutcomeInv
<1>6. QED  BY <1>3, <1>4, <1>5

LEMMA HonestVerdict ==
  ASSUME TypeOK, BindingInv, LedgerInv, IsV2, ReportedByHolder
  PROVE  /\ Aggregate # "failed"
         /\ \A n \in Logged : Unaccounted(n) = pending[n]
<1>1. IdsInv /\ OutcomeInv /\ PendingInv /\ DoneInv
  BY DEF BindingInv
<1>2. /\ \A o \in Outcomes : \E a \in Allows : Bound(o, a)
      /\ \A a \in Allows : (\E o \in Outcomes : Bound(o, a)) <=> ledger[a].call \in outcomed
  BY <1>1, ReportedOutcomesBound
<1>3. Logged \subseteq NodeId
  BY CreatedAreNodes DEF LedgerInv, TypeOK, ChainTypeOK, TreeTypeOK
<1>4. ASSUME NEW n \in Logged
      PROVE  Unaccounted(n) = pending[n]
  <2>1. Owed(n) = {b \in Allows : /\ ledger[b].node = n /\ ledger[b].terminal
                                  /\ ~\E o \in Outcomes : Bound(o, b)}
    BY <1>2 DEF Owed
  <2>2. QED  BY <1>1, <1>3, <2>1 DEF Unaccounted, PendingInv
<1>5. BindingFailures = {}
  <2>1. \A i \in Positions : Before(i) \subseteq Positions /\ i \notin Before(i)
    BY PositionsTyped DEF Before
  <2>2. \A i \in Positions : ~DuplicateCallId(i)
    BY <1>1, <2>1 DEF DuplicateCallId, IdsInv, Decisions, SameCall
  <2>3. \A i \in Positions : ~DuplicateOutcome(i)
    BY <1>1, <2>1 DEF DuplicateOutcome, OutcomeInv, Outcomes, IsEvent, SameCall
  <2>4. \A i \in Positions : ~Unbound(i)
    BY <1>2 DEF Unbound, Outcomes
  <2>5. QED  BY <2>2, <2>3, <2>4 DEF BindingFailures
<1>6. ASSUME NEW n \in Logged, Lifecycle(n) = "finalized"
      PROVE  Unaccounted(n) = {}
  <2>1. Finalized(n)
    BY <1>6 DEF Lifecycle
  <2>2. QED  BY <1>1, <1>3, <1>4, <2>1 DEF DoneInv
<1>7. Aggregate # "failed"
  BY <1>5, <1>6 DEF Aggregate
<1>8. QED  BY <1>4, <1>7

(* What an offline reader of a v2 ledger is told is what the chain knows:   *)
(* every decision, every refusal, which nodes are complete and, as long as  *)
(* outcomes are reported through the Guard that allowed the call, exactly   *)
(* the calls still pending, with no binding failure (evidence.py,           *)
(* delegation_graph, denials and execution_binding over what guard.py       *)
(* wrote).                                                                  *)
THEOREM HonestLedgersBind == Spec => []HonestBinding
<1>1. TypeOK /\ LedgerInv /\ BindingInv => HonestBinding
  <2> SUFFICES ASSUME TypeOK, LedgerInv, BindingInv, IsV2
               PROVE  HonestBinding
    BY DEF HonestBinding
  <2>1. IdsInv /\ DoneInv /\ ShownInv
    BY DEF BindingInv
  <2>2. Cardinality(UNION {ShownCalls(n) : n \in Logged}) = nextCall
    BY <2>1, ShownDecisions DEF IdsInv
  <2>3. Logged \subseteq NodeId
    BY CreatedAreNodes DEF LedgerInv, TypeOK, ChainTypeOK, TreeTypeOK
  <2>4. \A n \in Logged : ShownComplete(n) = complete[n] /\ (ShownRevoked(n) => n \in revoked)
    BY <2>1, <2>3, ShownState
  <2>5. \A i \in Positions : IsEvent(i, "deny") \/ IsEvent(i, "spawn_denied") =>
          \E n \in Logged : i \in Denials(n)
    BY <2>1, ShownRefusals
  <2>6. QED  BY <2>2, <2>4, <2>5, HonestVerdict DEF HonestBinding
<1>2. QED  BY <1>1, Typed, LedgerInvariant, BindingInvariant, PTL

-----------------------------------------------------------------------------
(* The refinement                                                          *)
(*                                                                         *)
(* Guard implements AbstractGuard as long as callers revoke only nodes     *)
(* that are there.  A revoked id that names no node yet stays in           *)
(* Chain._revoked, and the node that gets it later is revoked from its     *)
(* grant on: the service has no such step.                                 *)

(* What the mapping needs besides the invariants proved so far: only nodes  *)
(* that are there are revoked or about to be, finitely many threads are in  *)
(* a call, and the ids of the calls are among the service's.                *)

ServiceInv ==
  /\ parent[0] = 0
  /\ revoked \cup work \subseteq Created
  /\ IsFiniteSet(InCall)
  /\ nextCall <= MaxCalls

LEMMA InitService == Init => ServiceInv
<1> SUFFICES ASSUME Init
             PROVE  ServiceInv
  OBVIOUS
<1>1. parent[0] = 0 /\ revoked \cup work \subseteq Created
  BY RootIsNode DEF Init, ChainInit
<1>2. InCall = {}
  BY DEF Init, InCall
<1>3. nextCall <= MaxCalls
  BY GuardAssumption DEF Init
<1>4. QED  BY <1>1, <1>2, <1>3, FS_EmptySet DEF ServiceInv

(* What a step does to them. *)
IdDrawn   == nextCall' = nextCall \/ (nextCall < MaxCalls /\ nextCall' = nextCall + 1)
OneEnters == UNCHANGED pc \/ \E t \in Thread : \E where : pc' = [pc EXCEPT ![t] = where]
OnlyNodesRevoked == revoked' \cup work' \subseteq revoked \cup work \cup Created

LEMMA CallService ==
  ASSUME TypeOK, WellParented, ~AnyIdRevoked, NEW t \in Thread, Call(t)
  PROVE  IdDrawn /\ OneEnters /\ OnlyNodesRevoked
<1> USE DEF Goto, OneEnters, OnlyNodesRevoked
<1>1. ASSUME NEW n \in NodeId, NEW x \in Act, NEW terminal \in BOOLEAN,
             CheckAllow(t, n, x, terminal)
      PROVE  IdDrawn /\ OneEnters /\ OnlyNodesRevoked
  BY <1>1 DEF CheckAllow, DrawCallId, IdDrawn, lockVars
<1>2. ASSUME NEW n \in NodeId, NEW x \in Act, NEW raises \in BOOLEAN,
             CheckDeny(t, n, x, raises)
      PROVE  IdDrawn /\ OneEnters /\ OnlyNodesRevoked
  <2>1. n \in Created
    BY <1>2 DEF CheckDeny, WellParented
  <2>2. QED  BY <1>2, <2>1 DEF CheckDeny, DrawCallId, IdDrawn, Strike, StartSweep, lockVars
<1>3. ASSUME NEW n \in NodeId, RecordDenial(t, n) \/ RecordPassthrough(t, n)
      PROVE  IdDrawn /\ OneEnters /\ OnlyNodesRevoked
  BY <1>3 DEF RecordDenial, RecordPassthrough, DrawCallId, IdDrawn, chainVars, lockVars
<1>4. ASSUME NEW n \in NodeId,
             \/ Complete(t, n) \/ Revoke(t, n)
             \/ \E k \in 0 .. MaxCalls : RecordOutcome(t, n, k)
             \/ \E a \in Agent, r \in Request : DelegateAdd(t, n, a, r) \/ DelegateRefused(t, n, a, r)
      PROVE  IdDrawn /\ OneEnters /\ OnlyNodesRevoked
  BY <1>4 DEF Complete, Revoke, RecordOutcome, DelegateAdd, DelegateRefused, IdDrawn,
              StartSweep, chainVars, lockVars
<1>5. ASSUME NEW a \in Agent, RevokeAgent(t, a)
      PROVE  IdDrawn /\ OneEnters /\ OnlyNodesRevoked
  BY <1>5 DEF RevokeAgent, IdDrawn, StartSweep
<1>6. QED  BY <1>1, <1>2, <1>3, <1>4, <1>5, Zenon DEF Call

LEMMA ContinueService ==
  ASSUME TypeOK, NEW t \in Thread, Continue(t)
  PROVE  IdDrawn /\ OneEnters /\ OnlyNodesRevoked
<1> USE DEF Goto, IdDrawn, OneEnters, OnlyNodesRevoked
<1>1. ASSUME LogSpawn(t) \/ LogSpawnDenied(t) \/ \E fault : SpawnFault(t, fault)
      PROVE  IdDrawn /\ OneEnters /\ OnlyNodesRevoked
  BY <1>1 DEF LogSpawn, LogSpawnDenied, SpawnFault, chainVars, lockVars
<1>2. CASE LogKill(t) \/ KillUnlogged(t)
  BY <1>2 DEF LogKill, KillUnlogged, EndSweep
<1>3. ASSUME NEW n \in NodeId, Sweep(t, n)
      PROVE  IdDrawn /\ OneEnters /\ OnlyNodesRevoked
  BY <1>3 DEF Sweep, SweepNode, guardVars, Children
<1>4. ASSUME NEW n \in NodeId, SweepKeyError(t, n)
      PROVE  IdDrawn /\ OneEnters /\ OnlyNodesRevoked
  BY <1>4 DEF SweepKeyError, SweepUnknown
<1>5. QED  BY <1>1, <1>2, <1>3, <1>4, Zenon DEF Continue

LEMMA ServiceStep ==
  ASSUME RevocationInv, ServiceInv, ~AnyIdRevoked, [Next]_vars
  PROVE  ServiceInv'
<1>1. TypeOK /\ WellParented
  BY DEF RevocationInv
<1>2. IdDrawn /\ OneEnters /\ OnlyNodesRevoked
  <2>1. CASE PassTime \/ UNCHANGED vars
    BY <2>1 DEF PassTime, Tick, vars, chainVars, lockVars, guardVars, IdDrawn, OneEnters,
                OnlyNodesRevoked
  <2>2. QED  BY <1>1, <2>1, CallService, ContinueService DEF Next
<1>3. parent'[0] = 0 /\ Created \subseteq Created'
  <2>1. CASE UNCHANGED treeVars
    BY <2>1 DEF treeVars, ServiceInv, Created
  <2>2. ASSUME NEW t \in Thread, NEW p \in NodeId, NEW a \in Agent, NEW r \in Request,
               DelegateAdd(t, p, a, r)
        PROVE  parent'[0] = 0 /\ Created \subseteq Created'
    <3>1. /\ next \in 1 .. MaxNodes /\ next < MaxNodes /\ next' = next + 1
          /\ parent \in [NodeId -> NodeId] /\ parent' = [parent EXCEPT ![next] = p]
      BY <1>1, <2>2 DEF DelegateAdd, AddChild, TypeOK, ChainTypeOK, TreeTypeOK
    <3>2. QED  BY <3>1, OneNodeMore, RootIsNode DEF ServiceInv
  <2>3. QED  BY <2>1, <2>2, TreeFrame
<1>4. revoked' \cup work' \subseteq Created'
  BY <1>2, <1>3 DEF OnlyNodesRevoked, ServiceInv
<1>5. IsFiniteSet(InCall')
  <2>1. CASE UNCHANGED pc
    BY <2>1 DEF InCall, ServiceInv
  <2>2. ASSUME NEW t \in Thread, NEW where, pc' = [pc EXCEPT ![t] = where]
        PROVE  IsFiniteSet(InCall')
    <3>1. InCall' \subseteq InCall \cup {t}
      BY <1>1, <2>2 DEF InCall, TypeOK
    <3>2. IsFiniteSet(InCall \cup {t})
      BY FS_AddElement DEF ServiceInv
    <3>3. QED  BY <3>1, <3>2, FS_Subset
  <2>3. QED  BY <1>2, <2>1, <2>2 DEF OneEnters
<1>6. nextCall' <= MaxCalls
  BY <1>1, <1>2, GuardAssumption DEF IdDrawn, ServiceInv, TypeOK
<1>7. QED  BY <1>3, <1>4, <1>5, <1>6 DEF ServiceInv

LEMMA ServiceInvariant ==
  ASSUME ~AnyIdRevoked
  PROVE  Spec => []ServiceInv
<1>1. RevocationInv /\ ServiceInv /\ [Next]_vars => ServiceInv'
  BY ServiceStep
<1>2. QED  BY <1>1, InitService, RevocationInvariant, PTL DEF Spec

-----------------------------------------------------------------------------
(* The nodes above a node *)

LEMMA AncestorsClosed ==
  ASSUME TypeOK, NEW n \in NodeId
  PROVE  /\ Ancestors(n) \in SUBSET NodeId /\ n \in Ancestors(n)
         /\ ParentClosed(Ancestors(n))
         /\ \A S \in SUBSET NodeId : n \in S /\ ParentClosed(S) => Ancestors(n) \subseteq S
<1>1. Ancestors(n) \subseteq NodeId /\ n \in Ancestors(n)
  BY DEF Ancestors
<1>2. \A m \in NodeId : parent[m] \in NodeId
  BY DEF TypeOK, ChainTypeOK, TreeTypeOK
<1>3. ASSUME NEW m \in Ancestors(n)
      PROVE  parent[m] \in Ancestors(n)
  <2>1. parent[m] \in NodeId
    BY <1>1, <1>2
  <2>2. ASSUME NEW S \in SUBSET NodeId, n \in S, ParentClosed(S)
        PROVE  parent[m] \in S
    BY <2>2 DEF Ancestors, ParentClosed
  <2>3. QED  BY <2>1, <2>2 DEF Ancestors
<1>4. ParentClosed(Ancestors(n))
  BY <1>3 DEF ParentClosed
<1>5. \A S \in SUBSET NodeId : n \in S /\ ParentClosed(S) => Ancestors(n) \subseteq S
  BY DEF Ancestors
<1>6. QED  BY <1>1, <1>4, <1>5

(* Nothing above a live node is revoked while no cascade is running. *)
LEMMA LiveLine ==
  ASSUME RevocationInv, ServiceInv, work = {}, NEW n \in Created, n \notin revoked
  PROVE  Ancestors(n) \subseteq Created \ revoked
<1> DEFINE live == Created \ revoked
<1>1. TypeOK /\ Created \subseteq NodeId
  BY CreatedAreNodes DEF RevocationInv, TypeOK, ChainTypeOK, TreeTypeOK
<1>2. \A m \in live : parent[m] \in live
  BY DEF RevocationInv, WellParented, CascadeCovered, ServiceInv
<1>3. live \in SUBSET NodeId /\ n \in live /\ ParentClosed(live)
  BY <1>1, <1>2 DEF ParentClosed
<1> HIDE DEF live
<1>4. Ancestors(n) \subseteq live
  BY <1>1, <1>3, AncestorsClosed
<1>5. QED  BY <1>4 DEF live

(* A new node is below its parent and what is above that; no line moves.    *)
LEMMA GrownLine ==
  ASSUME TypeOK, WellParented, TypeOK', NEW p \in Created, NEW k \in NodeId, k = next,
         next < MaxNodes, next' = next + 1, parent' = [parent EXCEPT ![next] = p]
  PROVE  /\ \A m \in Created : Ancestors(m)' = Ancestors(m)
         /\ Ancestors(k)' = Ancestors(p) \cup {k}
<1> DEFINE Rises(S) == \A m \in S : parent[m] \in S
           Climbs(S) == \A m \in S : parent'[m] \in S
<1>1. Created \subseteq NodeId /\ k \notin Created
  BY OneNodeMore DEF TypeOK, ChainTypeOK, TreeTypeOK
<1>2. /\ parent'[k] = p
      /\ \A m \in Created : parent'[m] = parent[m] /\ parent[m] \in Created
  BY <1>1 DEF TypeOK, ChainTypeOK, TreeTypeOK, WellParented
<1>3. \A n \in NodeId :
        /\ Ancestors(n) = {z \in NodeId : \A S \in SUBSET NodeId : n \in S /\ Rises(S) => z \in S}
        /\ Ancestors(n)' = {z \in NodeId : \A S \in SUBSET NodeId : n \in S /\ Climbs(S) => z \in S}
  BY DEF Ancestors, ParentClosed
<1>4. \A S \in SUBSET NodeId :
        /\ S \cap Created \in SUBSET NodeId
        /\ Rises(S) => Climbs(S \cap Created)
        /\ Climbs(S) => Rises(S \cap Created)
  BY <1>1, <1>2
<1> HIDE DEF Rises, Climbs
<1>5. ASSUME NEW m \in Created
      PROVE  Ancestors(m)' = Ancestors(m)
  <2>1. m \in NodeId
    BY <1>1
  <2>2. \A z \in NodeId :
          (\A S \in SUBSET NodeId : m \in S /\ Rises(S) => z \in S)
          <=> (\A S \in SUBSET NodeId : m \in S /\ Climbs(S) => z \in S)
    BY <1>4
  <2>3. QED  BY <1>3, <2>1, <2>2
<1>6. Ancestors(k)' = Ancestors(p) \cup {k}
  <2>1. p \in NodeId /\ Ancestors(p)' = Ancestors(p)
    BY <1>1, <1>5
  <2>2. \A S \in SUBSET NodeId : k \in S /\ Climbs(S) => Ancestors(p) \cup {k} \subseteq S
    <3>1. \A S \in SUBSET NodeId : k \in S /\ Climbs(S) => p \in S
      BY <1>2 DEF Climbs
    <3>2. QED  BY <1>3, <2>1, <3>1
  <2>3. /\ Ancestors(p) \cup {k} \in SUBSET NodeId
        /\ Climbs(Ancestors(p) \cup {k})
    <3>1. Ancestors(p) \in SUBSET NodeId /\ p \in Ancestors(p) /\ ParentClosed(Ancestors(p))
      BY <2>1, AncestorsClosed
    <3>2. Created \in SUBSET NodeId /\ p \in Created /\ ParentClosed(Created)
      BY <1>1, <1>2 DEF ParentClosed
    <3>3. Ancestors(p) \subseteq Created
      BY <2>1, <3>2, AncestorsClosed
    <3>4. QED  BY <1>2, <3>1, <3>3 DEF ParentClosed, Climbs
  <2>4. \A z \in NodeId : z \in Ancestors(k)' <=>
          \A S \in SUBSET NodeId : k \in S /\ Climbs(S) => z \in S
    BY <1>3
  <2>5. Ancestors(k)' \subseteq NodeId
    BY <1>3
  <2>6. \A z \in Ancestors(p) \cup {k} : z \in Ancestors(k)'
    BY <2>2, <2>3, <2>4
  <2>7. \A z \in Ancestors(k)' : z \in Ancestors(p) \cup {k}
    BY <2>3, <2>4, <2>5
  <2>8. QED  BY <2>6, <2>7
<1>7. QED  BY <1>5, <1>6

-----------------------------------------------------------------------------
(* The mapped variables *)

Serves == A!AbstractNext \/ UNCHANGED A!serviceVars

LEMMA TreeMapped ==
  ASSUME UNCHANGED treeVars
  PROVE  Created' = Created /\ Line' = Line /\ agent' = agent /\ Rights' = Rights
<1>1. Created' = Created /\ agent' = agent /\ auth' = auth
  BY DEF treeVars, Created
<1>2. \A n : Ancestors(n)' = Ancestors(n)
  BY DEF treeVars, Ancestors, ParentClosed
<1>3. QED  BY <1>1, <1>2 DEF Line, Rights

LEMMA AllowedGrows ==
  ASSUME TypeOK, NEW e \in Entry, Log(e)
  PROVE  Allowed' = Allowed \cup
           IF e.event = "allow" /\ e.gated
           THEN {<<IF IsV2 THEN e.call ELSE Last, e.node, e.act>>} ELSE {}
<1> DEFINE Gated == {j \in Allows : ledger[j].gated}
           TellOf(i) == <<CallOf(i), ledger[i].node, ledger[i].act>>
<1>1. PICK l : l = Last
  OBVIOUS
<1>2. /\ Allows' = Allows \cup {i \in {l} : e.event = "allow"}
      /\ \A i \in Allows : ledger'[i] = ledger[i]
      /\ ledger'[l] = e
  BY <1>1, CallEntriesGrow
<1>3. Gated' = Gated \cup {i \in {l} : e.event = "allow" /\ e.gated}
  BY <1>2
<1>4. /\ \A i \in Gated : TellOf(i)' = TellOf(i)
      /\ TellOf(l)' = <<IF IsV2 THEN e.call ELSE l, e.node, e.act>>
  BY <1>2 DEF CallOf, IsV2
<1>5. Allowed = {TellOf(i) : i \in Gated} /\ Allowed' = {TellOf(i)' : i \in Gated'}
  BY DEF Allowed
<1> HIDE DEF Gated, TellOf
<1>6. QED  BY <1>1, <1>3, <1>4, <1>5

LEMMA AllowedStays ==
  ASSUME TypeOK,
         UNCHANGED ledger \/ \E e \in Entry : Log(e) /\ ~(e.event = "allow" /\ e.gated)
  PROVE  Allowed' = Allowed
<1>1. CASE UNCHANGED ledger
  BY <1>1 DEF Allowed, CallOf, IsV2, Allows, Positions, IsEvent
<1>2. QED  BY <1>1, AllowedGrows

(* A step the service does not see. *)
LEMMA Unseen ==
  ASSUME TypeOK, UNCHANGED <<treeVars, complete, banned, bindVars>>, Killed' = Killed,
         UNCHANGED ledger \/ \E e \in Entry : Log(e) /\ ~(e.event = "allow" /\ e.gated)
  PROVE  Serves
<1>1. Allowed' = Allowed
  BY AllowedStays
<1>2. Finished' = Finished /\ Open' = Open
  BY TreeMapped DEF Finished, Open, bindVars
<1>3. QED  BY <1>1, <1>2, TreeMapped DEF Serves, A!serviceVars, bindVars

LEMMA FreeKilled ==
  ASSUME UNCHANGED <<treeVars, revoked, lockVars>>
  PROVE  Killed' = Killed
BY TreeMapped DEF Killed, lockVars

LEMMA StartKilled ==
  ASSUME lock = Free, NEW t \in Thread, NEW targets, StartSweep(t, targets),
         UNCHANGED <<treeVars, revoked>>
  PROVE  Killed' = Killed
BY TreeMapped, ThreadAssumption DEF Killed, StartSweep

-----------------------------------------------------------------------------
(* The steps *)

LEMMA AllowServes ==
  ASSUME TypeOK, RevocationInv, LedgerInv, AuthorityInv, BindingInv, ServiceInv,
         NEW t \in Thread, NEW n \in NodeId, NEW x \in Act, NEW terminal \in BOOLEAN,
         CheckAllow(t, n, x, terminal)
  PROVE  Serves
<1> DEFINE c == IF IsV2 THEN nextCall ELSE Last
           e == AllowEntry(n, x, CallId, terminal)
<1>1. /\ lock = Free /\ work = {} /\ n \in Created /\ ~Refused(n, x)
      /\ nextCall \in Nat /\ nextCall < MaxCalls /\ Len(ledger) \in Nat
      /\ UNCHANGED <<treeVars, complete, banned, revoked, lockVars, outcomed>>
      /\ Log(e) /\ (terminal => IsV2)
      /\ IF terminal THEN RegisterPending(n, CallId) ELSE UNCHANGED pending
  BY PositionsTyped DEF CheckAllow, Enter, RevocationInv, WellParented, StackSound, TypeOK
<1>2. e \in Entry /\ e.event = "allow" /\ e.gated /\ e.call = CallId /\ e.node = n /\ e.act = x
  <2>1. e \in Entry
    BY <1>1, CallIdTyped, EntriesTyped
  <2>2. QED  BY <2>1 DEF AllowEntry, Blank
<1> HIDE DEF e
<1>3. c \in 0 .. MaxCalls + MaxLog /\ (IsV2 => c \in 0 .. MaxCalls /\ c = CallId)
  <2>1. Cardinality(InCall) \in Nat
    BY FS_CardinalityType DEF ServiceInv
  <2>2. Len(ledger) + Cardinality(InCall) < MaxLog
    BY DEF CheckAllow, Enter
  <2>3. QED  BY <1>1, <2>1, <2>2, GuardAssumption DEF Last, CallId
<1>4. \A i \in Allows : CallOf(i) # c
  <2>1. \A i \in Allows : i \in Decisions /\ i \in Positions
    BY DEF Allows, Decisions
  <2>2. \A i \in Positions : i \in Nat /\ i < Last
    BY PositionsTyped DEF Last
  <2>3. QED  BY <1>1, <2>1, <2>2 DEF CallOf, BindingInv, IdsInv
<1>5. c \notin A!Decided
  <2>1. \A i : (<<CallOf(i), ledger[i].node, ledger[i].act>>)[1] = CallOf(i)
    OBVIOUS
  <2>2. QED  BY <1>4, <2>1 DEF A!Decided, Allowed
<1>6. A!MayAct(n, x)
  <2>1. Line[n] = Ancestors(n)
    BY <1>1 DEF Line
  <2>2. Ancestors(n) \subseteq Created \ revoked
    BY <1>1, LiveLine DEF Refused
  <2>3. ASSUME NEW m \in Ancestors(n)
        PROVE  x \in Rights[m]
    <3>1. m \in Created /\ Narrower(auth[n], auth[m])
      BY <1>1, AncestorsWider
    <3>2. \A k \in Created : k \in NodeId /\ auth[k] \in Auth
      BY CreatedAreNodes DEF TypeOK, ChainTypeOK, TreeTypeOK
    <3>3. PermitsAct(auth[m], x)
      BY <1>1, <3>1, <3>2, PermitsLaw DEF Refused
    <3>4. QED  BY <3>1, <3>2, <3>3 DEF Rights
  <2>4. IsV2 => n \notin Finished
    BY <1>1 DEF Refused, Finished
  <2>5. QED  BY <1>1, <2>1, <2>2, <2>3, <2>4 DEF A!MayAct, Killed
<1>7. Allowed' = Allowed \cup {<<c, n, x>>} /\ Allowed' # Allowed
  <2>1. Allowed' = Allowed \cup {<<c, n, x>>}
    BY <1>1, <1>2, <1>3, AllowedGrows
  <2>2. \A i : <<CallOf(i), ledger[i].node, ledger[i].act>> = <<c, n, x>> => CallOf(i) = c
    OBVIOUS
  <2>3. <<c, n, x>> \notin Allowed
    BY <1>4, <2>2 DEF Allowed
  <2>4. QED  BY <2>1, <2>3
<1>8. Open' = IF terminal THEN Open \cup {<<c, n>>} ELSE Open
  <2>1. CASE terminal
    <3>1. /\ c \in 0 .. MaxCalls /\ pending' = [pending EXCEPT ![n] = @ \cup {c}]
          /\ pending \in [NodeId -> SUBSET Nat]
      BY <1>1, <1>3, <2>1 DEF RegisterPending, TypeOK, ChainTypeOK
    <3>2. \A o \in (0 .. MaxCalls) \X NodeId : o = <<o[1], o[2]>> /\ o[2] \in NodeId
      OBVIOUS
    <3>3. \A o \in (0 .. MaxCalls) \X NodeId :
            o[1] \in pending'[o[2]] <=> o[1] \in pending[o[2]] \/ o = <<c, n>>
      BY <3>1, <3>2
    <3>4. <<c, n>> \in (0 .. MaxCalls) \X NodeId
      BY <3>1
    <3> HIDE DEF c
    <3>5. QED  BY <2>1, <3>3, <3>4 DEF Open
  <2>2. CASE ~terminal
    BY <1>1, <2>2 DEF Open
  <2>3. QED  BY <2>1, <2>2
<1>9. Killed' = Killed /\ Finished' = Finished
  BY <1>1, FreeKilled, TreeMapped DEF Finished
<1> HIDE DEF c
<1>10. A!Allow(c, n, x, terminal)
  BY <1>1, <1>5, <1>6, <1>7, <1>8, <1>9, TreeMapped DEF A!Allow
<1>11. QED  BY <1>3, <1>7, <1>10 DEF Serves, A!AbstractNext

LEMMA GrantServes ==
  ASSUME TypeOK, TypeOK', RevocationInv, LedgerInv, AuthorityInv, BindingInv, ServiceInv,
         NEW t \in Thread, NEW p \in NodeId, NEW a \in Agent, NEW r \in Request,
         DelegateAdd(t, p, a, r)
  PROVE  Serves
<1> PICK k : k = next
  OBVIOUS
<1> DEFINE given == Attenuate(auth[p], r)
           R == {x \in Act : PermitsAct(given, x)}
<1>1. /\ lock = Free /\ work = {} /\ p \in Created /\ p \notin revoked /\ a \notin banned
      /\ k < MaxNodes /\ next' = k + 1 /\ CanAttenuate(auth[p], r)
      /\ parent' = [parent EXCEPT ![k] = p] /\ agent' = [agent EXCEPT ![k] = a]
      /\ auth' = [auth EXCEPT ![k] = given]
      /\ UNCHANGED <<complete, revoked, banned, pending, outcomed, lock, swept, ledger>>
  BY DEF DelegateAdd, Enter, AddChild, Delegable, RevocationInv, WellParented, StackSound,
         bindVars, lockVars
<1>2. /\ parent \in [NodeId -> NodeId] /\ agent \in [NodeId -> Agent]
      /\ auth \in [NodeId -> Auth] /\ next \in 1 .. MaxNodes
  BY DEF TypeOK, ChainTypeOK, TreeTypeOK
<1>3. Created' = Created \cup {k} /\ k \notin Created /\ Created \subseteq NodeId /\ k \in NodeId
  BY <1>1, <1>2, OneNodeMore
<1>4. given \in Auth /\ R \subseteq Rights[p]
  <2>1. given \in Auth /\ Narrower(given, auth[p]) /\ auth[p] \in Auth
    BY <1>1, <1>2, MeetLaw
  <2>2. \A x \in Act : PermitsAct(given, x) => PermitsAct(auth[p], x)
    BY <2>1, PermitsLaw
  <2> HIDE DEF given
  <2>3. QED  BY <1>1, <2>1, <2>2 DEF Rights
<1> HIDE DEF given
<1>5. A!MayGrant(p, a)
  <2>1. Line[p] = Ancestors(p) /\ Ancestors(p) \subseteq Created \ revoked
    BY <1>1, LiveLine DEF Line
  <2>2. QED  BY <1>1, <2>1 DEF A!MayGrant, Killed
<1>6. Line' = [Line EXCEPT ![k] = Line[p] \cup {k}]
  <2>1. /\ \A m \in Created : Ancestors(m)' = Ancestors(m)
        /\ Ancestors(k)' = Ancestors(p) \cup {k}
    <3>1. WellParented
      BY DEF RevocationInv
    <3>2. QED  BY <1>1, <1>3, <3>1, GrownLine
  <2>2. Line' = [m \in NodeId |-> IF m \in Created' THEN Ancestors(m)' ELSE {}]
    BY DEF Line
  <2>3. QED  BY <1>1, <1>3, <2>1, <2>2 DEF Line
<1>7. agent' = [agent EXCEPT ![k] = a] /\ Rights' = [Rights EXCEPT ![k] = R]
  <2>1. auth'[k] = given /\ \A m \in Created : auth'[m] = auth[m]
    BY <1>1, <1>2, <1>3
  <2>2. Rights' = [m \in NodeId |->
                     IF m \in Created' THEN {x \in Act : PermitsAct(auth'[m], x)} ELSE {}]
    BY DEF Rights
  <2>3. QED  BY <1>1, <1>3, <2>1, <2>2 DEF Rights
<1>8. Killed' = Killed
  BY <1>1, <1>3 DEF Killed, ServiceInv
<1>9. Finished' = Finished
  <2>1. ~Finalized(k)
    <3>1. \A i \in Positions : IsEvent(i, "done") => ledger[i].node \in Logged
      BY EarlierIsLogged DEF BindingInv, ShownInv, IsEvent
    <3>2. QED  BY <1>3, <3>1 DEF Finalized, LedgerInv
  <2>2. ~complete[k]
    BY <1>3, <2>1 DEF BindingInv, DoneInv
  <2>3. QED  BY <1>1, <1>3, <2>2 DEF Finished
<1>10. Allowed' = Allowed /\ Open' = Open
  BY <1>1, AllowedStays DEF Open
<1> HIDE DEF R
<1>11. A!Grant(p, k, a, R)
  BY <1>1, <1>3, <1>4, <1>5, <1>6, <1>7, <1>8, <1>9, <1>10 DEF A!Grant
<1>12. R \in SUBSET Act
  BY DEF R
<1>13. QED  BY <1>3, <1>11, <1>12 DEF Serves, A!AbstractNext

LEMMA ReportServes ==
  ASSUME TypeOK, ServiceInv,
         NEW t \in Thread, NEW n \in NodeId, NEW c \in 0 .. MaxCalls, RecordOutcome(t, n, c)
  PROVE  Serves
<1>1. /\ IsV2 /\ c \notin outcomed /\ outcomed' = outcomed \cup {c}
      /\ pending' = [m \in NodeId |-> pending[m] \ {c}]
      /\ UNCHANGED <<treeVars, complete, banned, revoked, lockVars>>
      /\ OutcomeEntry(n, c) \in Entry /\ Log(OutcomeEntry(n, c))
  BY EntriesTyped DEF RecordOutcome, ResolvePending
<1>2. Allowed' = Allowed
  BY <1>1, OtherEntries, AllowedStays
<1>3. Killed' = Killed /\ Finished' = Finished
  BY <1>1, FreeKilled, TreeMapped DEF Finished
<1>4. Open' = {o \in Open : o[1] # c}
  BY <1>1 DEF Open
<1>5. A!Report(c)
  BY <1>1, <1>2, <1>3, <1>4, TreeMapped DEF A!Report
<1>6. c \in 0 .. MaxCalls + MaxLog
  BY GuardAssumption
<1>7. QED  BY <1>1, <1>5, <1>6 DEF Serves, A!AbstractNext

LEMMA FinishServes ==
  ASSUME TypeOK, RevocationInv, NEW t \in Thread, NEW n \in NodeId, Complete(t, n)
  PROVE  Serves
<1>1. /\ n \in Created /\ ~complete[n] /\ (IsV2 => pending[n] = {})
      /\ complete' = [complete EXCEPT ![n] = TRUE]
      /\ UNCHANGED <<treeVars, banned, revoked, lockVars, pending, outcomed>>
      /\ DoneEntry(n) \in Entry /\ Log(DoneEntry(n))
      /\ complete \in [NodeId -> BOOLEAN]
  BY EntriesTyped DEF Complete, RevocationInv, WellParented, bindVars, TypeOK, ChainTypeOK
<1>2. Allowed' = Allowed
  BY <1>1, OtherEntries, AllowedStays
<1>3. Killed' = Killed /\ Open' = Open
  BY <1>1, FreeKilled DEF Open
<1>4. Finished' = Finished \cup {n} /\ n \notin Finished
  <2>1. Created \subseteq NodeId
    BY CreatedAreNodes DEF TypeOK, ChainTypeOK, TreeTypeOK
  <2>2. QED  BY <1>1, <2>1, TreeMapped DEF Finished
<1>5. IsV2 => A!OpenOn(n) = {}
  BY <1>1 DEF A!OpenOn, Open
<1>6. A!Finish(n)
  BY <1>1, <1>2, <1>3, <1>4, <1>5, TreeMapped DEF A!Finish, A!MayFinish
<1>7. Finished' # Finished
  BY <1>4
<1>8. QED  BY <1>6, <1>7 DEF Serves, A!AbstractNext

LEMMA BanServes ==
  ASSUME TypeOK, NEW t \in Thread, NEW a \in Agent, RevokeAgent(t, a)
  PROVE  Serves
<1>1. /\ lock = Free /\ StartSweep(t, {n \in Created : agent[n] = a} \ revoked)
      /\ banned' = banned \cup {a}
      /\ UNCHANGED <<treeVars, complete, revoked, pending, outcomed, ledger>>
  BY DEF RevokeAgent, Enter, bindVars
<1>2. Allowed' = Allowed /\ Open' = Open /\ Finished' = Finished /\ Killed' = Killed
  BY <1>1, AllowedStays, StartKilled, TreeMapped DEF Open, Finished
<1>3. A!Ban(a)
  BY <1>1, <1>2, TreeMapped DEF A!Ban
<1>4. CASE banned' # banned
  BY <1>3, <1>4 DEF Serves, A!AbstractNext
<1>5. CASE banned' = banned
  BY <1>1, <1>2, <1>5, TreeMapped DEF Serves, A!serviceVars
<1>6. QED  BY <1>4, <1>5

(* The service sees a cascade when the lock is given back: all of it.       *)
LEMMA KillServes ==
  ASSUME TypeOK, RevocationInv, LedgerInv, ServiceInv, work = {}, lock # Free, EndSweep,
         UNCHANGED <<treeVars, complete, revoked, banned, pending, outcomed>>,
         UNCHANGED ledger \/ \E e \in Entry : Log(e) /\ e.event = "kill"
  PROVE  Serves
<1>1. Allowed' = Allowed /\ Open' = Open /\ Finished' = Finished
  BY AllowedStays, TreeMapped DEF Open, Finished
<1>2. /\ Killed = revoked \ swept /\ Killed' = revoked
      /\ swept \subseteq revoked /\ revoked \subseteq Created /\ Created' = Created
  BY TreeMapped DEF Killed, EndSweep, ServiceInv, LedgerInv
<1>3. CASE swept = {}
  BY <1>1, <1>2, <1>3, TreeMapped DEF Serves, A!serviceVars
<1>4. CASE swept # {}
  <2>1. ASSUME NEW n \in swept, NEW m \in Created, n \in Line[m]
        PROVE  m \in revoked
    <3>1. m \in NodeId
      BY CreatedAreNodes DEF TypeOK, ChainTypeOK, TreeTypeOK
    <3>2. n \in Ancestors(m)
      BY <2>1, <3>1 DEF Line
    <3>3. QED  BY <1>2, <3>2, LiveLine
  <2>2. \A n \in swept : A!Below(n) \subseteq swept \cup Killed
    BY <1>2, <2>1 DEF A!Below
  <2>3. A!Kill(swept)
    BY <1>1, <1>2, <1>4, <2>2, TreeMapped DEF A!Kill
  <2>4. swept \in SUBSET NodeId /\ Killed' # Killed
    BY <1>2, <1>4 DEF TypeOK, ChainTypeOK
  <2>5. QED  BY <2>3, <2>4 DEF Serves, A!AbstractNext
<1>5. QED  BY <1>3, <1>4

LEMMA CallServes ==
  ASSUME TypeOK, TypeOK', RevocationInv, LedgerInv, AuthorityInv, BindingInv, ServiceInv,
         NEW t \in Thread, Call(t)
  PROVE  Serves
<1>1. \A k \in Nat \cup {NoCall}, n \in NodeId :
        LET d == DenyEntry(n, k)
            p == PassthroughEntry(n, k)
        IN d \in Entry /\ p \in Entry /\ d.event # "allow" /\ ~p.gated
  BY EntriesTyped, DecisionEntries
<1>2. CallId \in Nat \cup {NoCall}
  BY CallIdTyped DEF TypeOK
<1>3. ASSUME NEW n \in NodeId, NEW x \in Act, NEW raises \in BOOLEAN,
             CheckDeny(t, n, x, raises)
      PROVE  Serves
  <2>1. /\ lock = Free /\ UNCHANGED <<treeVars, complete, banned, revoked, bindVars>>
        /\ UNCHANGED lockVars \/ StartSweep(t, {n})
        /\ \E e \in Entry : Log(e) /\ ~(e.event = "allow" /\ e.gated)
    BY <1>1, <1>2, <1>3 DEF CheckDeny, Enter, Strike
  <2>2. Killed' = Killed
    BY <2>1, FreeKilled, StartKilled
  <2>3. QED  BY <2>1, <2>2, Unseen
<1>4. ASSUME NEW n \in NodeId, RecordDenial(t, n) \/ RecordPassthrough(t, n)
      PROVE  Serves
  <2>1. /\ UNCHANGED chainVars
        /\ \E e \in Entry : Log(e) /\ ~(e.event = "allow" /\ e.gated)
    BY <1>1, <1>2, <1>4 DEF RecordDenial, RecordPassthrough
  <2>2. QED  BY <2>1, FreeKilled, Unseen DEF chainVars
<1>5. ASSUME NEW n \in NodeId, NEW a \in Agent, NEW r \in Request, DelegateRefused(t, n, a, r)
      PROVE  Serves
  BY <1>5, FreeKilled, Unseen DEF DelegateRefused, chainVars
<1>6. ASSUME NEW n \in NodeId, Revoke(t, n)
      PROVE  Serves
  <2>1. /\ lock = Free /\ StartSweep(t, {n})
        /\ UNCHANGED <<treeVars, complete, banned, revoked, bindVars, ledger>>
    BY <1>6 DEF Revoke, Enter
  <2>2. QED  BY <2>1, StartKilled, Unseen
<1>7. QED  BY <1>3, <1>4, <1>5, <1>6, AllowServes, GrantServes, ReportServes, FinishServes,
              BanServes, Zenon DEF Call

LEMMA ContinueServes ==
  ASSUME TypeOK, RevocationInv, LedgerInv, ServiceInv, NEW t \in Thread, Continue(t)
  PROVE  Serves
<1>1. ASSUME LogSpawn(t) \/ (\E fault : SpawnFault(t, fault)) \/ LogSpawnDenied(t)
      PROVE  Serves
  <2>1. LET s == SpawnEntry(parent[subject[t]], subject[t])
            d == SpawnDeniedEntry(subject[t])
        IN s \in Entry /\ s.event = "spawn" /\ d \in Entry /\ d.event = "spawn_denied"
    <3>1. \A m, n : SpawnDeniedEntry(n).event = "spawn_denied" /\ SpawnEntry(m, n).event = "spawn"
      BY DEF SpawnDeniedEntry, SpawnEntry, Blank
    <3>2. QED  BY <3>1, EntriesTyped DEF TypeOK, ChainTypeOK, TreeTypeOK
  <2>2. /\ UNCHANGED chainVars
        /\ UNCHANGED ledger \/ \E e \in Entry : Log(e) /\ ~(e.event = "allow" /\ e.gated)
    BY <1>1, <2>1 DEF LogSpawn, SpawnFault, LogSpawnDenied
  <2>3. QED  BY <2>2, FreeKilled, Unseen DEF chainVars
<1>2. ASSUME NEW n \in NodeId, Sweep(t, n)
      PROVE  Serves
  <2>1. /\ lock # Free /\ UNCHANGED <<treeVars, complete, banned, bindVars, ledger, lock>>
        /\ revoked' \ swept' = revoked \ swept
    BY <1>2, ThreadAssumption DEF Sweep, SweepNode, guardVars, LedgerInv
  <2>2. Killed' = Killed
    BY <2>1, TreeMapped DEF Killed
  <2>3. QED  BY <2>1, <2>2, Unseen
<1>3. ASSUME NEW n \in NodeId, SweepKeyError(t, n)
      PROVE  Serves
  BY <1>3 DEF SweepKeyError, ServiceInv
<1>4. CASE LogKill(t)
  <2> DEFINE e == KillEntry(swept, UNION {pending[n] : n \in swept})
  <2>1. e \in Entry /\ e.event = "kill"
    <3>1. swept \subseteq NodeId /\ UNION {pending[n] : n \in swept} \subseteq Nat
      BY DEF TypeOK, ChainTypeOK
    <3>2. QED  BY <3>1, EntriesTyped, OtherEntries
  <2> HIDE DEF e
  <2>2. /\ lock # Free /\ work = {} /\ EndSweep /\ Log(e)
        /\ UNCHANGED <<treeVars, complete, revoked, banned, pending, outcomed>>
    BY <1>4, ThreadAssumption DEF LogKill, bindVars, e
  <2>3. QED  BY <2>1, <2>2, KillServes
<1>5. CASE KillUnlogged(t)
  <2>1. /\ lock # Free /\ work = {} /\ EndSweep /\ UNCHANGED ledger
        /\ UNCHANGED <<treeVars, complete, revoked, banned, pending, outcomed>>
    BY <1>5, ThreadAssumption DEF KillUnlogged, bindVars
  <2>2. QED  BY <2>1, KillServes
<1>6. QED  BY <1>1, <1>2, <1>3, <1>4, <1>5, Zenon DEF Continue

LEMMA InitServes ==
  ASSUME Init
  PROVE  A!AbstractInit
<1>1. /\ Created = {0} /\ TypeOK /\ 0 \in NodeId
      /\ parent[0] = 0 /\ auth = [n \in NodeId |-> RootAuth]
  BY InitTyped, RootIsNode DEF Init, ChainInit, Created
<1>2. Line = [n \in NodeId |-> IF n = 0 THEN {0} ELSE {}]
  <2>1. {0} \in SUBSET NodeId /\ 0 \in {0} /\ ParentClosed({0})
    BY <1>1 DEF ParentClosed
  <2>2. Ancestors(0) = {0}
    BY <1>1, <2>1, AncestorsClosed
  <2>3. QED  BY <1>1, <2>2 DEF Line
<1>3. Rights = [n \in NodeId |-> IF n = 0 THEN {x \in Act : PermitsAct(RootAuth, x)} ELSE {}]
  BY <1>1 DEF Rights
<1>4. Killed = {} /\ Finished = {} /\ Open = {}
  BY <1>1 DEF Init, ChainInit, Killed, Finished, Open
<1>5. Allowed = {}
  BY InitEntries DEF Allowed
<1>6. agent = [n \in NodeId |-> RootAgent] /\ banned = {} /\ outcomed = {}
  BY DEF Init, ChainInit
<1>7. {x \in Act : PermitsAct(RootAuth, x)} \in SUBSET Act
  OBVIOUS
<1>8. QED  BY <1>1, <1>2, <1>3, <1>4, <1>5, <1>6, <1>7 DEF A!AbstractInit

(* Every step of the threads is one step of the atomic service of           *)
(* AbstractGuard, or none of its (guard.py, Guard; chain.py, Chain): what a *)
(* caller is promised of allows, grants, kills and reports holds whatever   *)
(* the threads interleave and whatever an append does, as long as callers   *)
(* revoke only ids of nodes that are there.                                 *)
THEOREM GuardImplementsService ==
  ASSUME ~AnyIdRevoked
  PROVE  Spec => ImplementsAbstractGuard
<1> DEFINE Inv == /\ TypeOK /\ RevocationInv /\ LedgerInv /\ AuthorityInv /\ BindingInv
                  /\ ServiceInv
<1>1. Inv /\ TypeOK' /\ [Next]_vars => [A!AbstractNext]_(A!serviceVars)
  <2> SUFFICES ASSUME Inv, TypeOK', [Next]_vars
               PROVE  Serves
    BY DEF Serves
  <2>1. CASE PassTime \/ UNCHANGED vars
    BY <2>1, FreeKilled, Unseen DEF PassTime, Tick, vars, chainVars, guardVars
  <2>2. QED  BY <2>1, CallServes, ContinueServes DEF Next
<1>2. Init => A!AbstractInit
  BY InitServes
<1>3. Spec => []Inv
  BY Typed, RevocationInvariant, LedgerInvariant, AuthorityInvariant, BindingInvariant,
     ServiceInvariant, PTL
<1> HIDE DEF Inv
<1>4. Inv => TypeOK
  BY DEF Inv
<1>5. QED  BY <1>1, <1>2, <1>3, <1>4, PTL DEF Spec, ImplementsAbstractGuard, A!AbstractSpec
=============================================================================
