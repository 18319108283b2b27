-------------------------- MODULE GuardRefinement --------------------------
(***************************************************************************)
(* Guard implements AbstractGuard: what a cascade has swept becomes killed *)
(* in one step, when it gives the lock back, and a child is granted when   *)
(* add_child returns.                                                      *)
(***************************************************************************)
EXTENDS GuardProperties

(* The id of the call an allow on the ledger decided: v1 entries have none, *)
(* and their position serves.                                               *)
CallOf(i) == IF IsV2 THEN ledger[i].call ELSE i

(* The variables of the service, as the chain and its ledger hold them. *)
Line == [n \in NodeId |-> IF n \in Created THEN Ancestors(n) ELSE {}]
Rights ==
  [n \in NodeId |-> IF n \in Created THEN {x \in Act : PermitsAct(auth[n], x)} ELSE {}]
Killed   == (IF lock = Free THEN revoked ELSE revoked \ swept) \cap Created
Finished == {n \in Created : complete[n]}
Allowed ==
  {<<CallOf(i), ledger[i].node, ledger[i].act>> : i \in {j \in Allows : ledger[j].gated}}
Open == {o \in (0 .. MaxCalls) \X NodeId : o[1] \in pending[o[2]]}

A == INSTANCE AbstractGuard WITH
  Node <- NodeId,
  Root <- 0,
  Dispatch <- 0 .. MaxCalls + MaxLog,
  Binding <- IsV2,
  granted <- Created,
  line <- Line,
  who <- agent,
  rights <- Rights,
  killed <- Killed,
  finished <- Finished,
  allowed <- Allowed,
  open <- Open,
  reported <- outcomed

(* Every step of the threads, interleaved as they may be, is one step of    *)
(* the atomic service or none of its: no allow, grant or report is ever     *)
(* seen that a kill, however far its cascade has come, should have stopped. *)
ImplementsAbstractGuard == A!AbstractSpec
=============================================================================
