------------------------------- MODULE Guard -------------------------------
(***************************************************************************)
(* The Guard API (src/attenu_guard/guard.py) used by several threads on    *)
(* one chain, with the ledger it writes (audit.py, in memory).             *)
(*                                                                         *)
(* check, record_denial, record_passthrough, record_outcome and complete   *)
(* hold the chain lock throughout: one step each.  The kills (revoke,      *)
(* revoke_agent, the strike policy) hold it over the cascade of module     *)
(* Chain and the kill entry.  delegate holds it twice, once to add the     *)
(* child and once to log it: between the two any thread may run.           *)
(*                                                                         *)
(* A fault is an append that raises: "uncommitted", before the commit      *)
(* point (the entry cannot be written in RFC 8785), or "committed", after  *)
(* it (CommittedAuditError: the file or a sink failed).  A check whose     *)
(* append fails uncommitted, or whose call id cannot be drawn, puts its    *)
(* meter back and leaves no trace: such a call is a stuttering step.       *)
(***************************************************************************)
EXTENDS Chain, Sequences

CONSTANTS
  Version,        \* schema_version of the chain: 1, or 2 with execution binding
  Ops,            \* the operations the program uses
  Faults,         \* the ways an append may raise in this run
  Unwritable,     \* agents whose name the ledger cannot hold (RFC 8785)
  AnyIdRevoked,   \* callers pass revoke() ids that name no node
  MaxCalls,       \* bound: call ids drawn
  MaxLog,         \* bound: ledger entries before no operation starts
  MaxTime         \* bound: clock ticks

ASSUME GuardAssumption ==
  /\ Version \in {1, 2}
  /\ Faults \subseteq {"uncommitted", "committed"}
  /\ Unwritable \subseteq Agent \ {RootAgent}
  /\ AnyIdRevoked \in BOOLEAN
  /\ MaxCalls \in Nat
  /\ MaxLog \in Nat
  /\ MaxTime \in Nat

VARIABLES
  ledger,    \* AuditLog._entries
  guards,    \* nodes for which a Guard object has been handed out
  nextCall,  \* call ids drawn so far: they never repeat, the k-th is k
  pc,        \* where each thread is in the call it is making
  subject    \* the node that call is about

guardVars == <<ledger, guards, nextCall, pc, subject>>
vars      == <<chainVars, guardVars>>

IsV2 == Version = 2

-----------------------------------------------------------------------------
(* Ledger entries: the fields the readers of the ledger tell apart.  What a *)
(* root or spawn entry says was granted is auth[node], which never changes. *)
NoCall == -1
Blank ==
  [event |-> "root", node |-> 0, parent |-> 0, act |-> "-", call |-> NoCall,
   terminal |-> FALSE, gated |-> TRUE, revoked |-> {}, pending |-> {}]
SpawnEntry(p, c) == [Blank EXCEPT !.event = "spawn", !.parent = p, !.node = c]
SpawnDeniedEntry(p) == [Blank EXCEPT !.event = "spawn_denied", !.parent = p]
AllowEntry(n, x, k, t) ==
  [Blank EXCEPT !.event = "allow", !.node = n, !.act = x, !.call = k, !.terminal = t]
PassthroughEntry(n, k) ==
  [Blank EXCEPT !.event = "allow", !.node = n, !.call = k, !.gated = FALSE]
DenyEntry(n, k) == [Blank EXCEPT !.event = "deny", !.node = n, !.call = k]
OutcomeEntry(n, k) == [Blank EXCEPT !.event = "outcome", !.node = n, !.call = k]
DoneEntry(n) == [Blank EXCEPT !.event = "done", !.node = n]
KillEntry(ns, ks) == [Blank EXCEPT !.event = "kill", !.revoked = ns, !.pending = ks]

Log(e) == ledger' = Append(ledger, e)

(* The call id of the entry being written: drawn on a v2 chain only. *)
CallId == IF IsV2 THEN nextCall ELSE NoCall
DrawCallId == nextCall' = IF IsV2 THEN nextCall + 1 ELSE nextCall

-----------------------------------------------------------------------------
Init ==
  /\ ChainInit
  /\ ledger = <<Blank>>
  /\ guards = {0}
  /\ nextCall = 0
  /\ pc = [t \in Thread |-> "idle"]
  /\ subject = [t \in Thread |-> 0]

InCall == {t \in Thread : pc[t] # "idle"}

(* Thread t, in no call, starts operation op and gets the lock. *)
Enter(t, op) ==
  /\ op \in Ops
  /\ pc[t] = "idle"
  /\ lock = Free
  /\ Len(ledger) + Cardinality(InCall) < MaxLog

Goto(t, where, n) ==
  /\ pc' = [pc EXCEPT ![t] = where]
  /\ subject' = [subject EXCEPT ![t] = n]

-----------------------------------------------------------------------------
(* Mutants of Refused: on a killed node; against the root's authority; on a *)
(* finalized node.                                                          *)
BeyondAuthority(n, x) == IsExpired(n) \/ ~PermitsAct(auth[n], x) \/ ~AdmitsCall(n)
RefusedIfLive(n, x)   == (IsV2 /\ complete[n]) \/ BeyondAuthority(n, x)
RefusedByRoot(n, x)   ==
  (IsV2 /\ complete[n]) \/ n \in revoked \/ IsExpired(n) \/ ~PermitsAct(auth[0], x)
RefusedUntilKill(n, x) == n \in revoked \/ BeyondAuthority(n, x)

(* check: what _evaluate refuses.  A finalized v2 node refuses everything;  *)
(* the code tests it only on a node not revoked, which refuses as well.     *)
Refused(n, x) ==
  \/ IsV2 /\ complete[n]
  \/ n \in revoked
  \/ IsExpired(n)
  \/ ~PermitsAct(auth[n], x)
  \/ ~AdmitsCall(n)

(* check, allowed.  `terminal` says that the capture promises an outcome.   *)
(* A post-commit fault changes nothing here: the call is registered before  *)
(* CommittedAuditError leaves.                                              *)
CheckAllow(t, n, x, terminal) ==
  /\ Enter(t, "check")
  /\ n \in guards
  /\ nextCall < MaxCalls
  /\ terminal => IsV2
  /\ ~Refused(n, x)
  /\ CountCall(n)
  /\ DrawCallId
  /\ Log(AllowEntry(n, x, CallId, terminal))
  /\ IF terminal THEN RegisterPending(n, CallId) ELSE UNCHANGED pending
  /\ UNCHANGED <<treeVars, complete, marked, revoked, banned, strikes, outcomed,
                 now, lockVars, guards, pc, subject>>

(* Mutant of Strike: one strike too late. *)
StrikeLate(t, n, x) ==
  IF StrikeMode # "off" /\ n \notin revoked
  THEN /\ RecordStrike(n, x)
       /\ IF strikes[<<n, StrikeSlot(x)>>] + 1 > StrikeLimit
          THEN StartSweep(t, {n}) /\ Goto(t, "sweeping", n)
          ELSE UNCHANGED <<lockVars, pc, subject>>
  ELSE UNCHANGED <<strikes, lockVars, pc, subject>>

(* check, refused, and the strike policy after it.  A post-commit fault     *)
(* leaves check() before the strike is counted.                             *)
Strike(t, n, x) ==
  IF StrikeMode # "off" /\ n \notin revoked
  THEN /\ RecordStrike(n, x)
       /\ IF strikes[<<n, StrikeSlot(x)>>] + 1 >= StrikeLimit
          THEN StartSweep(t, {n}) /\ Goto(t, "sweeping", n)
          ELSE UNCHANGED <<lockVars, pc, subject>>
  ELSE UNCHANGED <<strikes, lockVars, pc, subject>>

CheckDeny(t, n, x, raises) ==
  /\ Enter(t, "check")
  /\ n \in guards
  /\ nextCall < MaxCalls
  /\ raises => "committed" \in Faults
  /\ Refused(n, x)
  /\ DrawCallId
  /\ Log(DenyEntry(n, CallId))
  /\ IF raises THEN UNCHANGED <<strikes, lockVars, pc, subject>> ELSE Strike(t, n, x)
  /\ UNCHANGED <<treeVars, complete, marked, revoked, banned, calls, bindVars,
                 now, guards>>

(* record_denial: an adapter's own refusal; no strike, nothing evaluated.  *)
(* check records a context the ledger cannot hold in the same way.         *)
RecordDenial(t, n) ==
  /\ Enter(t, "record_denial")
  /\ n \in guards
  /\ nextCall < MaxCalls
  /\ DrawCallId
  /\ Log(DenyEntry(n, CallId))
  /\ UNCHANGED <<chainVars, guards, pc, subject>>

(* record_passthrough: a call nothing gated; never pending. *)
RecordPassthrough(t, n) ==
  /\ Enter(t, "record_passthrough")
  /\ n \in guards
  /\ nextCall < MaxCalls
  /\ DrawCallId
  /\ Log(PassthroughEntry(n, CallId))
  /\ UNCHANGED <<chainVars, guards, pc, subject>>

-----------------------------------------------------------------------------
(* record_outcome: exactly one per call id.  Any Guard of the chain may     *)
(* report it, the call need not be pending, nor its node live.              *)
RecordOutcome(t, n, k) ==
  /\ Enter(t, "record_outcome")
  /\ IsV2
  /\ n \in guards
  /\ k \in 0 .. nextCall - 1
  /\ k \notin outcomed
  /\ Log(OutcomeEntry(n, k))
  /\ ResolvePending(k)
  /\ UNCHANGED <<treeVars, complete, marked, revoked, banned, calls, strikes, now,
                 lockVars, guards, nextCall, pc, subject>>

(* Mutant of Complete: whatever is pending. *)
CompleteAnyway(t, n) ==
  /\ Enter(t, "complete")
  /\ n \in guards
  /\ ~complete[n]
  /\ complete' = [complete EXCEPT ![n] = TRUE]
  /\ Log(DoneEntry(n))
  /\ UNCHANGED <<treeVars, marked, revoked, banned, calls, strikes, bindVars, now,
                 lockVars, guards, nextCall, pc, subject>>

(* complete: refused while calls are pending, a no-op the second time. *)
Complete(t, n) ==
  /\ Enter(t, "complete")
  /\ n \in guards
  /\ ~complete[n]
  /\ IsV2 => pending[n] = {}
  /\ complete' = [complete EXCEPT ![n] = TRUE]
  /\ Log(DoneEntry(n))
  /\ UNCHANGED <<treeVars, marked, revoked, banned, calls, strikes, bindVars, now,
                 lockVars, guards, nextCall, pc, subject>>

-----------------------------------------------------------------------------
(* delegate, first lock hold: add_child returns the child ... *)
DelegateAdd(t, p, a, r) ==
  /\ Enter(t, "delegate")
  /\ p \in guards
  /\ next < MaxNodes
  /\ AddChild(p, a, r)
  /\ Goto(t, "spawned", next)
  /\ UNCHANGED <<complete, marked, revoked, banned, calls, strikes, bindVars, now,
                 lockVars, ledger, guards, nextCall>>

(* ... or raises AuthorityError. *)
DelegateRefused(t, p, a, r) ==
  /\ Enter(t, "delegate")
  /\ p \in guards
  /\ ~Delegable(p, a) \/ ~CanAttenuate(auth[p], r)
  /\ Goto(t, "refused", p)
  /\ UNCHANGED <<chainVars, ledger, guards, nextCall>>

(* delegate, second lock hold: the spawn entry.  The Guard of the child is  *)
(* handed out only if the append returns.                                   *)
LogSpawn(t) ==
  /\ pc[t] = "spawned"
  /\ agent[subject[t]] \notin Unwritable
  /\ lock = Free
  /\ Log(SpawnEntry(parent[subject[t]], subject[t]))
  /\ guards' = guards \cup {subject[t]}
  /\ Goto(t, "idle", 0)
  /\ UNCHANGED <<chainVars, nextCall>>

SpawnFault(t, fault) ==
  /\ pc[t] = "spawned"
  /\ IF agent[subject[t]] \in Unwritable THEN fault = "uncommitted" ELSE fault \in Faults
  /\ lock = Free
  /\ IF fault = "committed" THEN Log(SpawnEntry(parent[subject[t]], subject[t]))
                            ELSE UNCHANGED ledger
  /\ Goto(t, "idle", 0)
  /\ UNCHANGED <<chainVars, guards, nextCall>>

(* delegate, second lock hold after an AuthorityError; an uncommitted fault *)
(* leaves the refusal off the ledger.                                       *)
LogSpawnDenied(t) ==
  /\ pc[t] = "refused"
  /\ lock = Free
  /\ Log(SpawnDeniedEntry(subject[t])) \/ ("uncommitted" \in Faults /\ UNCHANGED ledger)
  /\ Goto(t, "idle", 0)
  /\ UNCHANGED <<chainVars, guards, nextCall>>

-----------------------------------------------------------------------------
(* revoke: any node, by any thread that holds a Guard of the chain. *)
Revoke(t, n) ==
  /\ Enter(t, "revoke")
  /\ AnyIdRevoked \/ n \in Created
  /\ StartSweep(t, {n})
  /\ Goto(t, "sweeping", n)
  /\ UNCHANGED <<treeVars, complete, marked, revoked, banned, calls, strikes,
                 bindVars, now, ledger, guards, nextCall>>

(* revoke_agent: the ban, and the nodes the agent holds. *)
RevokeAgent(t, a) ==
  /\ Enter(t, "revoke_agent")
  /\ banned' = banned \cup {a}
  /\ StartSweep(t, {n \in Created : agent[n] = a} \ revoked)
  /\ Goto(t, IF a \in Unwritable THEN "unlogged" ELSE "sweeping", 0)
  /\ UNCHANGED <<treeVars, complete, marked, revoked, calls, strikes, bindVars,
                 now, ledger, guards, nextCall>>

Sweep(t, n) ==
  /\ lock = t
  /\ n \in work
  /\ n \in Created \cup revoked
  /\ SweepNode(n)
  /\ UNCHANGED <<treeVars, complete, banned, calls, strikes, bindVars, now,
                 guardVars>>

SweepKeyError(t, n) ==
  /\ lock = t
  /\ n \in work \ Created
  /\ SweepUnknown(n)
  /\ Goto(t, "idle", 0)
  /\ UNCHANGED <<treeVars, complete, banned, calls, strikes, bindVars, now,
                 ledger, guards, nextCall>>

(* Mutant of LogKill: the calls pending on every revoked node. *)
LogKillAll(t) ==
  /\ lock = t
  /\ pc[t] = "sweeping"
  /\ work = {}
  /\ Log(KillEntry(swept, UNION {pending[n] : n \in revoked}))
  /\ EndSweep
  /\ Goto(t, "idle", 0)
  /\ UNCHANGED <<treeVars, complete, marked, revoked, banned, calls, strikes,
                 bindVars, now, guards, nextCall>>

(* _kill_atomically: the entry, with the calls pending on the nodes just    *)
(* revoked, before the lock is released.                                    *)
LogKill(t) ==
  /\ lock = t
  /\ pc[t] = "sweeping"
  /\ work = {}
  /\ Log(KillEntry(swept, UNION {pending[n] : n \in swept}))
  /\ EndSweep
  /\ Goto(t, "idle", 0)
  /\ UNCHANGED <<treeVars, complete, marked, revoked, banned, calls, strikes,
                 bindVars, now, guards, nextCall>>

(* The kill entry of an agent the ledger cannot name: the append raises and *)
(* the nodes stay revoked.                                                  *)
KillUnlogged(t) ==
  /\ lock = t
  /\ pc[t] = "unlogged"
  /\ work = {}
  /\ EndSweep
  /\ Goto(t, "idle", 0)
  /\ UNCHANGED <<treeVars, complete, marked, revoked, banned, calls, strikes,
                 bindVars, now, ledger, guards, nextCall>>

PassTime ==
  /\ now < MaxTime
  /\ Tick
  /\ UNCHANGED guardVars

-----------------------------------------------------------------------------
Call(t) ==
  \/ \E n \in NodeId, x \in Act :
       \/ \E terminal \in BOOLEAN : CheckAllow(t, n, x, terminal)
       \/ \E raises \in BOOLEAN : CheckDeny(t, n, x, raises)
  \/ \E n \in NodeId :
       \/ RecordDenial(t, n)
       \/ RecordPassthrough(t, n)
       \/ \E k \in 0 .. MaxCalls : RecordOutcome(t, n, k)
       \/ Complete(t, n)
       \/ Revoke(t, n)
       \/ \E a \in Agent, r \in Request :
            DelegateAdd(t, n, a, r) \/ DelegateRefused(t, n, a, r)
  \/ \E a \in Agent : RevokeAgent(t, a)

Continue(t) ==
  \/ LogSpawn(t)
  \/ \E fault \in {"uncommitted", "committed"} : SpawnFault(t, fault)
  \/ LogSpawnDenied(t)
  \/ \E n \in NodeId : Sweep(t, n) \/ SweepKeyError(t, n)
  \/ LogKill(t)
  \/ KillUnlogged(t)

Next == PassTime \/ \E t \in Thread : Call(t) \/ Continue(t)

Spec == Init /\ [][Next]_vars

(* A thread that holds the lock keeps running.  Nothing is assumed about    *)
(* who gets the lock, or about threads outside of it.                       *)
Hold(t) == lock = t /\ Continue(t)
FairSpec == Spec /\ \A t \in Thread : WF_vars(Hold(t))
=============================================================================
