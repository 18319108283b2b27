-------------------------------- MODULE MCA2A --------------------------------
(* A client and two remotes, each of which may call the other. *)
EXTENDS A2AProperties, TLC

CONSTANTS shop, bank

MCKey == Signer("EdDSA", "ours", "k1")

Crm     == Scope(<<"crm">>, TRUE)
CrmRead == Scope(<<"crm", "read">>, FALSE)
Mail    == Scope(<<"mail">>, FALSE)
Rows(n) == "max_rows" :> Maximum("rows", n)

MCClientGrant == Grant({Crm, Mail}, Rows(3), {2})

(* The shop is given less than it thinks it needs, or needs what does not   *)
(* meet with it; the bank is asked for what the client does not hold.       *)
MCAsks(r)  == IF r = shop THEN {Grant({Crm}, <<>>, {1})} ELSE {Grant({Crm, Mail}, Rows(4), {1})}
MCNeeds(r) ==
  IF r = shop THEN {Grant({Crm, Mail}, Rows(2), {}),
                    Grant({Crm}, "max_rows" :> Deny("rows", {Number(3)}), {})}
  ELSE {Grant({CrmRead, Mail}, <<>>, {})}

MCAsked    == {CrmRead, Mail}
MCContexts == {[rows |-> Number(n)] : n \in 2 .. 4}
=============================================================================
