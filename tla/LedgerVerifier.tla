--------------------------- MODULE LedgerVerifier ---------------------------
(***************************************************************************)
(* What verify_bundle (src/attenu_guard/evidence.py) reads in a ledger,    *)
(* with no engine state: the graph, monotonicity, containment and, for a   *)
(* v2 chain, the execution binding.  Each reader goes through the entries  *)
(* in ledger order and judges one by those before it, so it is written     *)
(* here over a position and the positions before it.  The hash chain is    *)
(* not modelled here: entries are appended under the lock of AuditLog.     *)
(* The members of an entry are well formed (an honest Guard wrote them).   *)
(***************************************************************************)
EXTENDS Guard

Positions == DOMAIN ledger
Before(i) == 1 .. i - 1
IsEvent(i, e) == ledger[i].event = e

(* The nodes a root or spawn entry before position i defines. *)
DefinedBefore(i) ==
  {ledger[j].node : j \in {k \in Before(i) : IsEvent(k, "root") \/ IsEvent(k, "spawn")}}

(* The nodes a kill entry before position i revokes (_note_revoked). *)
RevokedBefore(i) ==
  UNION {ledger[j].revoked : j \in {k \in Before(i) : IsEvent(k, "kill")}}

Logged        == DefinedBefore(Len(ledger) + 1)
LoggedRevoked == RevokedBefore(Len(ledger) + 1)

(* monotonicity: the spawn at i defines a new node, under a parent defined  *)
(* earlier and not revoked earlier, with no more authority than it.         *)
MonotoneAt(i) ==
  IsEvent(i, "spawn") =>
    LET p == ledger[i].parent
        c == ledger[i].node
    IN /\ c \notin DefinedBefore(i)
       /\ p \in DefinedBefore(i)
       /\ p \notin RevokedBefore(i)
       /\ Narrower(auth[c], auth[p])

(* containment: the gated allow at i is for a node defined earlier, not     *)
(* revoked earlier, whose authority permits it.                             *)
ContainedAt(i) ==
  (IsEvent(i, "allow") /\ ledger[i].gated) =>
    LET n == ledger[i].node
    IN /\ n \in DefinedBefore(i)
       /\ n \notin RevokedBefore(i)
       /\ PermitsAct(auth[n], ledger[i].act)

-----------------------------------------------------------------------------
(* delegation_graph and denials: what a reader of the ledger is shown, as   *)
(* it is, judged or not.  What is said of a node before the entry that      *)
(* defines it is not shown of it.                                           *)
Shown(n) == {i \in Positions : n \in DefinedBefore(i)}
ShownCalls(n) ==
  {i \in Shown(n) : (IsEvent(i, "allow") \/ IsEvent(i, "deny")) /\ ledger[i].node = n}
ShownComplete(n) == \E i \in Shown(n) : IsEvent(i, "done") /\ ledger[i].node = n
ShownRevoked(n)  == \E i \in Shown(n) : IsEvent(i, "kill") /\ n \in ledger[i].revoked

(* The refused calls of a node and the delegations refused to it. *)
Denials(n) ==
  {i \in Positions : \/ IsEvent(i, "deny") /\ ledger[i].node = n
                     \/ IsEvent(i, "spawn_denied") /\ ledger[i].parent = n}

-----------------------------------------------------------------------------
(* execution binding, on a v2 chain *)
Allows   == {i \in Positions : IsEvent(i, "allow")}
Outcomes == {i \in Positions : IsEvent(i, "outcome")}

DuplicateCallId(i) ==
  /\ IsEvent(i, "allow") \/ IsEvent(i, "deny")
  /\ \E j \in Before(i) :
       (IsEvent(j, "allow") \/ IsEvent(j, "deny")) /\ ledger[j].call = ledger[i].call

DuplicateOutcome(i) ==
  /\ IsEvent(i, "outcome")
  /\ \E j \in Before(i) : IsEvent(j, "outcome") /\ ledger[j].call = ledger[i].call

(* The outcome at o is bound to the allow at a: same call, same node, later. *)
SameCall(o, a) == ledger[o].call = ledger[a].call
Bound(o, a) == SameCall(o, a) /\ ledger[o].node = ledger[a].node /\ o > a

(* outcome_without_allow, cross_ref and outcome_before_allow *)
Unbound(i) ==
  IsEvent(i, "outcome") /\ ~\E a \in Allows : Bound(i, a)

BindingFailures ==
  {i \in Positions : DuplicateCallId(i) \/ DuplicateOutcome(i) \/ Unbound(i)}

(* The calls of node n that promised an outcome none was bound to. *)
Unaccounted(n) ==
  {ledger[a].call : a \in {b \in Allows :
     /\ ledger[b].node = n
     /\ ledger[b].terminal
     /\ ~\E o \in Outcomes : Bound(o, b)}}

(* per_call: an allow with no outcome that promised none. *)
Unobserved ==
  {a \in Allows : ~ledger[a].terminal /\ ~\E o \in Outcomes : Bound(o, a)}

Finalized(n) == \E i \in Positions : IsEvent(i, "done") /\ ledger[i].node = n

Lifecycle(n) ==
  IF Finalized(n) THEN "finalized"
  ELSE IF n \notin LoggedRevoked THEN "in_progress"
  ELSE IF Unaccounted(n) = {} THEN "revoked"
  ELSE "revoked_with_pending"

Aggregate ==
  IF \/ BindingFailures # {}
     \/ \E n \in Logged : Lifecycle(n) = "finalized" /\ Unaccounted(n) # {}
  THEN "failed"
  ELSE IF \/ \E n \in Logged : Lifecycle(n) \in {"in_progress", "revoked_with_pending"}
          \/ Unobserved # {}
  THEN "incomplete"
  ELSE "clean"
=============================================================================
