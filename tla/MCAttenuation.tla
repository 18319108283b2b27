--------------------------- MODULE MCAttenuation ---------------------------
(* Small universes of scopes, ceilings, contexts and mints for Tokens. *)
EXTENDS Tokens, TLC

MCAsked ==
  {Scope(<<"crm">>, FALSE), Scope(<<"crm", "read">>, FALSE),
   Scope(<<"crm", "read", "all">>, FALSE), Scope(<<"crm", "read">>, TRUE),
   Scope(<<"mail">>, FALSE)}

Crm      == Scope(<<"crm">>, TRUE)
CrmRead  == Scope(<<"crm", "read">>, FALSE)
CrmReads == Scope(<<"crm", "read">>, TRUE)
Mail     == Scope(<<"mail">>, FALSE)
OnCrm    == {CrmReads}

Here == <<"/", "a">>
MCContexts ==
  {<<>>} \cup
  {[rows |-> v] : v \in {Number(1), Number(2), Text(<<"2">>), Other("null")}} \cup
  {[rows |-> Number(2), path |-> v] : v \in {Text(<<"/">>), Text(Here), Text(<<"/", "b">>)}} \cup
  {[egress |-> v] : v \in {Text(<<"none">>), Text(<<"any">>), Text(<<"lan">>)}} \cup
  {("calls" :> Number(n)) @@ ("calls[crm.read.*]" :> Number(m)) : n \in 1 .. 2, m \in 1 .. 2} \cup
  {[region |-> v] : v \in {Text(<<"eu">>), Text(<<"us">>), Other("array")}} \cup
  {[rows_total |-> Number(n)] : n \in 1 .. 2} \cup
  {[tier |-> v] : v \in {Text(<<"low">>), Text(<<"high">>), Text(<<"odd">>), Number(1)}}

Wide == {Crm, Mail}

Upward == <<<<"low">>, <<"high">>>>
AtLeast(bound) == "max_rows/min" :> Minimum("rows", bound)
InTotal(bound) == "max_rows/max_lifetime" :> Total("lifetime", "rows_total", bound, {})
Tier(order, bound) == "tier/rank" :> Ranked("tier", order, bound)

MCRoots ==
  {Grant(Wide, <<>>, {})} \cup
  {Grant(Wide, ceilings, {2}) :
     ceilings \in {<<>>, "max_rows" :> Maximum("rows", 2),
                   "region" :> Allow("region", {Text(<<"eu">>), Text(<<"us">>)}),
                   "odd" :> UnknownCeiling("odd"), InTotal(2) @@ Tier(Upward, 1)}}

MCRequests ==
  {Grant({Crm}, <<>>, {}), Grant({CrmReads, CrmRead, Mail}, <<>>, {1}),
   Grant({CrmRead}, "max_rows" :> Maximum("rows", 1), {3}),
   Grant(Wide, "max_rows" :> Maximum("rows", 3), {}),
   Grant({CrmReads}, "egress" :> EgressRank(<<"internal">>), {}),
   Grant(Wide, "egress" :> EgressRank(<<"none">>), {2}),
   Grant(Wide, "path" :> Prefix("path", <<"/">>), {}),
   Grant(Wide, "path" :> Prefix("path", Here), {}),
   Grant(Wide, "path" :> Prefix("path", <<"/", "b">>), {}),
   Grant(Wide, "region" :> Allow("region", {Text(<<"us">>)}), {}),
   Grant(Wide, "region" :> Deny("region", {Text(<<"us">>)}), {}),
   Grant(Wide, "odd" :> UnknownCeiling("odd"), {}),
   Grant(Wide, "odd" :> UnknownCeiling("other"), {}),
   Grant(Wide, ("max_calls" :> CallLimit("calls", 1, {})) @@
               ("max_calls[crm.read.*]" :> CallLimit("calls[crm.read.*]", 1, OnCrm)), {}),
   Grant(Wide, "max_calls[crm.read.*]" :> CallLimit("calls[crm.read.*]", 2, OnCrm), {}),
   Grant(Wide, AtLeast(1) @@ InTotal(1), {}), Grant(Wide, AtLeast(2) @@ Tier(Upward, 2), {}),
   Grant(Wide, Tier(Reverse(Upward), 1), {})}

(* One key used twice under each profile, and another key. *)
Ours   == Signer("EdDSA", "ours", "k1")
Theirs == Signer("EdDSA", "theirs", "k2")
MCMints ==
  {Mint(Ours, "01", {}, {}, {}, 0), Mint(Ours, "01", {}, {}, {}, 1),
   Mint(Theirs, "01", {}, {}, {}, 0),
   Mint(Ours, "02", {"alice"}, {{"shop"}}, {"jkt"}, 0),
   Mint(Ours, "02", {"bob"}, {{"bank"}}, {"jkt"}, 0)}
MCVerifiers ==
  {Verifier(Ours, {{"ours"}}, "01", {}, 2), Verifier(Ours, {}, "02", {"shop"}, 1)}
=============================================================================
