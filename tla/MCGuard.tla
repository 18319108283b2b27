------------------------------ MODULE MCGuard ------------------------------
(***************************************************************************)
(* Values for the constants of Guard: a small lattice, built by module     *)
(* Authority from one root and the requests a run makes, and the threads   *)
(* and agents of each configuration.                                       *)
(***************************************************************************)
EXTENDS GuardRefinement, TLC

L == INSTANCE Authority

CONSTANTS t1, t2, a, b   \* threads, agents

Crm     == L!Scope(<<"crm">>, TRUE)
CrmRead == L!Scope(<<"crm", "read">>, FALSE)
Mail    == L!Scope(<<"mail", "send">>, FALSE)

(* Two calls: one a narrowed node keeps, one it loses. *)
MCAct     == {"read", "send"}
Asked(x)  == IF x = "read" THEN CrmRead ELSE Mail
Context(x) == IF x = "read" THEN [rows |-> L!Number(1)] ELSE <<>>

Calls(n) == "max_calls" :> L!CallLimit("calls", n, {})

MCRootAuth == L!Grant({Crm, Mail}, <<>>, {})
ReadOnly   == L!Grant({CrmRead}, <<>>, {})
Other      == L!Grant({Crm}, "max_rows" :> L!Allow("rows", {}), {})
Brief      == L!Grant({CrmRead}, Calls(1), {1})
MCMetered  == L!Grant({Crm, Mail}, Calls(2), {2})
MCOneRow   == L!Grant({Crm, Mail}, "max_rows" :> L!Maximum("rows", 1), {})

PlainRequest   == {ReadOnly}
NarrowRequests == {ReadOnly, Other}
BriefRequests  == {Brief}

(* The authorities the requests lead to, two delegations deep. *)
Deeper(S) == S \cup {L!Meet(g, r) : g \in S, r \in {q \in Request : \A h \in S : L!Meetable(h, q)}}
MCAuth == Deeper(Deeper({RootAuth}))

MCCanAttenuate(g, r)  == L!Meetable(g, r)
MCAttenuate(g, r)      == L!Meet(g, r)
MCNarrower(g, h)  == L!IsNarrowerThan(g, h)
PermitTable       == [g \in Auth, x \in Act |-> L!Permits(g, Asked(x), Context(x))]
MCPermitsAct(g, x)   == PermitTable[g, x]
MCCallLimits(g)   ==
  {g.ceilings[k].bound : k \in {j \in L!Keys(g) : g.ceilings[j].kind = "calls"}}
MCTtls(g)         == g.ttl

Threads == {t1, t2}
Agents  == {a, b}
OneAgent == {a}
OnlyB   == {b}
OneAct  == {"read"}
Interchangeable == Permutations(Threads)
=============================================================================
