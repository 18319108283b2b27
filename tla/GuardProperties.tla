--------------------------- MODULE GuardProperties --------------------------
(***************************************************************************)
(* What the chain, its ledger and an offline reader of the ledger owe one  *)
(* another.  Invariants about revocation hold when the lock is free, or    *)
(* always; the comment says which.                                         *)
(***************************************************************************)
EXTENDS LedgerVerifier

(* Every variable holds a value of its type. *)
Entry ==
  [event : {"root", "spawn", "spawn_denied", "allow", "deny", "outcome", "done", "kill"},
   node : NodeId, parent : NodeId, act : Act \cup {"-"}, call : Nat \cup {NoCall},
   terminal : BOOLEAN, gated : BOOLEAN, revoked : SUBSET NodeId, pending : SUBSET Nat]

TreeTypeOK ==
  /\ next \in 1 .. MaxNodes
  /\ parent \in [NodeId -> NodeId]
  /\ agent \in [NodeId -> Agent]
  /\ auth \in [NodeId -> Auth]
  /\ depth \in [NodeId -> Nat]
  /\ issued \in [NodeId -> Nat]

ChainTypeOK ==
  /\ TreeTypeOK
  /\ complete \in [NodeId -> BOOLEAN]
  /\ marked \in SUBSET NodeId
  /\ revoked \in SUBSET NodeId
  /\ banned \in SUBSET Agent
  /\ calls \in [NodeId -> Nat]
  /\ strikes \in [NodeId \X (Act \cup {"*"}) -> Nat]
  /\ pending \in [NodeId -> SUBSET Nat]
  /\ outcomed \in SUBSET Nat
  /\ now \in Nat
  /\ lock \in Thread \cup {Free}
  /\ work \in SUBSET NodeId
  /\ swept \in SUBSET NodeId

TypeOK ==
  /\ ChainTypeOK
  /\ ledger \in Seq(Entry)
  /\ guards \in SUBSET NodeId
  /\ nextCall \in Nat
  /\ pc \in [Thread -> {"idle", "spawned", "refused", "sweeping", "unlogged"}]
  /\ subject \in [Thread -> NodeId]

-----------------------------------------------------------------------------
(* Revocation *)

(* When no cascade is running, no live node hangs under a revoked one: the  *)
(* loop of Chain.revoke reaches every descendant, and add_child puts none   *)
(* under a revoked parent behind its back.                                  *)
CascadeClosed ==
  lock = Free => \A c \in Created : c # 0 /\ parent[c] \in revoked => c \in revoked

(* During a cascade, every child of a revoked node is revoked or still on   *)
(* the stack: what makes CascadeClosed hold when the stack is empty.        *)
CascadeCovered ==
  \A c \in Created : c # 0 /\ parent[c] \in revoked => c \in revoked \cup work

(* A banned agent holds no live node, whatever delegation was in flight     *)
(* when revoke_agent ran ("no node may delegate() to it again").            *)
BannedHoldNothing ==
  lock = Free => \A n \in Created : agent[n] \in banned => n \in revoked

(* When the lock is free, the kill entries name exactly the nodes the chain *)
(* holds revoked, each in one entry only: as long as callers revoke only    *)
(* nodes that exist, and the ledger can hold the agents' names.             *)
LedgerTellsRevocations ==
  lock = Free /\ ~AnyIdRevoked /\ Unwritable = {} =>
    /\ LoggedRevoked = revoked
    /\ \A i, j \in Positions : i # j => ledger[i].revoked \cap ledger[j].revoked = {}

(* The strike policy has revoked every node that reached its limit. *)
StrikesRevoke ==
  (lock = Free /\ StrikeMode # "off") =>
    \A n \in NodeId, s \in Act \cup {"*"} :
      /\ strikes[<<n, s>>] <= StrikeLimit
      /\ strikes[<<n, s>>] = StrikeLimit => n \in revoked

-----------------------------------------------------------------------------
(* Authority *)

(* A node and the nodes above it: the least set with the node in it that    *)
(* `parent` does not leave.                                                 *)
ParentClosed(S) == \A m \in S : parent[m] \in S
Ancestors(n) ==
  {m \in NodeId : \A S \in SUBSET NodeId : n \in S /\ ParentClosed(S) => m \in S}

(* Every delegated authority is within the authority of every ancestor. *)
Attenuated ==
  \A c \in Created : \A p \in Ancestors(c) : Narrower(auth[c], auth[p])

(* A gated allow on the ledger is one every ancestor's authority permits. *)
AllowsWithinAncestors ==
  \A i \in Positions : IsEvent(i, "allow") /\ ledger[i].gated =>
    \A p \in Ancestors(ledger[i].node) : PermitsAct(auth[p], ledger[i].act)

(* The meter of a node that holds a CallLimit counts its gated allows on    *)
(* the ledger, and never passes the limit.                                  *)
MeterExact ==
  \A n \in Created : CallLimits(auth[n]) # {} =>
    /\ calls[n] = Cardinality({a \in Allows : ledger[a].node = n /\ ledger[a].gated})
    /\ \A m \in CallLimits(auth[n]) : calls[n] <= m

-----------------------------------------------------------------------------
(* What the offline verifier makes of an honest ledger *)

(* verify_bundle's containment check passes: no gated allow is on the       *)
(* ledger before its node's spawn or after a kill of its node, whatever     *)
(* the threads interleave.                                                  *)
LedgerContained == \A i \in Positions : ContainedAt(i)

(* verify_bundle's monotonicity check passes. *)
LedgerMonotone == \A i \in Positions : MonotoneAt(i)

(* A Guard exists only for a node the ledger defines, and every node the    *)
(* ledger does not define is one a delegate() in progress, or one that      *)
(* raised, has left behind.                                                 *)
GuardsAreLogged ==
  /\ guards \subseteq Logged
  /\ Logged \subseteq Created
  /\ Faults = {} /\ Unwritable = {} =>
       Created \ guards = {subject[t] : t \in {u \in Thread : pc[u] = "spawned"}}

-----------------------------------------------------------------------------
(* Execution binding *)

(* After the done entry of a node, no gated call of it is allowed (v2), and *)
(* each call that promised an outcome had it on the ledger before.          *)
DoneIsFinal ==
  IsV2 => \A d \in Positions : IsEvent(d, "done") =>
    \A a \in Allows : (ledger[a].node = ledger[d].node /\ ledger[a].gated) =>
      /\ a < d
      /\ ledger[a].terminal => \E o \in Outcomes : SameCall(o, a) /\ o < d

(* A kill entry snapshots exactly the calls its nodes had pending then.     *)
KillSnapshotExact ==
  \A k \in Positions : IsEvent(k, "kill") =>
    ledger[k].pending =
      {ledger[a].call : a \in {b \in Allows :
         /\ b < k
         /\ ledger[b].node \in ledger[k].revoked
         /\ ledger[b].terminal
         /\ ~\E o \in Outcomes : SameCall(o, b) /\ o < k}}

(* What a reader of a v2 ledger is told is what the chain knows.  In the    *)
(* views every call id the chain drew is a call of a node in the graph,     *)
(* whatever was in progress around its delegation; every refusal is of a    *)
(* node in it; a node is shown complete exactly when it is, and revoked     *)
(* only when it is.  As long as each outcome is reported through the Guard  *)
(* that allowed the call, as the wrappers of the adapters do, the verifier  *)
(* finds no binding failure, the calls it cannot account for are the ones   *)
(* the chain holds pending, and no finalized node has one.                  *)
ReportedByHolder ==
  \A o \in Outcomes : \E x \in Allows :
    SameCall(o, x) /\ ledger[o].node = ledger[x].node

HonestBinding ==
  IsV2 =>
    /\ Cardinality(UNION {ShownCalls(n) : n \in Logged}) = nextCall
    /\ \A i \in Positions :
         IsEvent(i, "deny") \/ IsEvent(i, "spawn_denied") => \E n \in Logged : i \in Denials(n)
    /\ \A n \in Logged : ShownComplete(n) = complete[n] /\ (ShownRevoked(n) => n \in revoked)
    /\ ReportedByHolder =>
         /\ Aggregate # "failed"
         /\ \A n \in Logged : Unaccounted(n) = pending[n]

-----------------------------------------------------------------------------
(* Progress *)

(* A cascade ends and its thread gives the lock back, whatever tree it      *)
(* meets and whichever way it ends: with a kill entry, on an id no node     *)
(* has, or on an append that raises.                                        *)
LockReturned == \A t \in Thread : lock = t ~> lock # t

=============================================================================
