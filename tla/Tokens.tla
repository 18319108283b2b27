------------------------------- MODULE Tokens -------------------------------
(***************************************************************************)
(* The path of Attenuation minted as chains of tokens, and what a verifier *)
(* makes of them when a holder of several presents some put together.      *)
(***************************************************************************)
EXTENDS Attenuation, Wire

CONSTANTS
  Mints,       \* how the path is serialised
  Verifiers    \* who loads what

WirePath == [i \in Hops |-> WireNode(i, i, path[i])]

(* Serialisations that raise nothing, of the profile the verifier parses:   *)
(* what the parser of one makes of the other's tokens is not represented.   *)
Usable(v) ==
  {m \in Mints : m.draft = v.draft /\ \A i \in Hops : Mintable(WirePath[i], m)}

(* Token i of a serialisation, out of the chain or minted by itself. *)
TokenOf(m, i, alone) ==
  IF alone THEN Serialize(WirePath[i], i - 1, MaxHops, m)
  ELSE SerializeChain(WirePath, MaxHops, m)[i]

(* What may be presented: consecutive hops, each from any serialisation.    *)
Presented(v) ==
  LET token == [c \in Usable(v) \X Hops \X BOOLEAN |-> TokenOf(c[1], c[2], c[3])]
      Cut(n, skip) ==
        {[i \in 1 .. n |-> token[<<cut[i][1], i + skip, cut[i][2]>>]] :
           cut \in [1 .. n -> Usable(v) \X BOOLEAN]}
  IN  UNION {UNION {Cut(n, skip) : skip \in 0 .. Len(path) - n} : n \in Hops}

(* By the key the verifier trusts, for it, and in time: the leaf runs out   *)
(* first.                                                                   *)
Honours(v, m, n) ==
  /\ m.signer = v.signer
  /\ \A roots \in v.roots : m.signer.kid \in roots
  /\ \A e \in {m.iat + t : t \in path[n].ttl} : v.now < e \/ (v.draft = "01" /\ v.now = e)
  /\ v.draft = "02" => \A a \in v.audience, aud \in m.aud : a \in aud

(* Of all that can be put together from the tokens of several mints, what   *)
(* loads is one mint from its root down to some hop, and all of that does.  *)
LoadsExactlyMints ==
  \A v \in Verifiers : \A ts \in Presented(v) :
    Loads(ts, v) <=>
      \E m \in Usable(v) :
        /\ Honours(v, m, Len(ts))
        /\ ts = SubSeq(SerializeChain(WirePath, MaxHops, m), 1, Len(ts))

(* What a verifier permits on the loaded chain, the node that was minted    *)
(* permits: no bound is loosened on its way to the other profile's types.   *)
LoadedPermitsNoMore ==
  \A v \in Verifiers : \A m \in Usable(v) :
    LET ts == SerializeChain(WirePath, MaxHops, m)
    IN  Loads(ts, v) =>
          \A s \in Asked, ctx \in Contexts :
            ChainPermits(ts, v, s, ctx) => Permits(Parent, s, ctx)
=============================================================================
