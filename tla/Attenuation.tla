---------------------------- MODULE Attenuation ----------------------------
(***************************************************************************)
(* One root-to-leaf path of delegations: each hop's authority is the meet  *)
(* of the parent's with what was requested (chain.py, add_child).  The     *)
(* properties say what the lattice of module Authority owes such a path,   *)
(* whatever is requested along it.                                         *)
(***************************************************************************)
EXTENDS Authority

CONSTANTS
  Roots,      \* authorities a chain is issued with
  Requests,   \* authorities a delegation asks for
  Asked,      \* scopes a call asks for
  Contexts,   \* contexts of a call
  MaxHops     \* bound: delegations along the path

ASSUME MaxHopsAssumption == MaxHops \in Nat

VARIABLE path   \* the granted authorities, from the root

Parent == Last(path)

Init == \E root \in Roots : path = <<root>>

(* add_child, with Authority.meet and its re-assertion of narrowing. *)
Delegate(request) ==
  /\ Len(path) <= MaxHops
  /\ Meetable(Parent, request)
  /\ path' = Append(path, Meet(Parent, request))

Next == \E request \in Requests : Delegate(request)

Spec == Init /\ [][Next]_path

-----------------------------------------------------------------------------
Hops == DOMAIN path
PermitsNoMore(a, b) ==
  \A s \in Asked, ctx \in Contexts : Permits(a, s, ctx) => Permits(b, s, ctx)

(* Each authority is narrower, by the relation the offline verifiers apply, *)
(* than every authority above it, and not only than its parent's.           *)
PathNarrows == \A i, j \in Hops : i <= j => IsNarrowerThan(path[j], path[i])

(* No authority permits an action that one above it does not: what          *)
(* is_narrower_than is meant to prove.                                      *)
PathPermits == \A i, j \in Hops : i <= j => PermitsNoMore(path[j], path[i])

(* The meet is the greatest authority within parent and request: one       *)
(* narrower than both is narrower than it (no scope or bound is lost).     *)
MeetIsGreatest ==
  \A request \in Requests : Meetable(Parent, request) =>
    \A a \in Requests :
      IsNarrowerThan(a, Parent) /\ IsNarrowerThan(a, request) =>
        IsNarrowerThan(a, Meet(Parent, request))
=============================================================================
