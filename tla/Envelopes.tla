----------------------------- MODULE Envelopes -----------------------------
(***************************************************************************)
(* The envelopes of a bundle: a witness outside the process signs that it  *)
(* observed the event of one entry.  What sign_envelope writes, how        *)
(* verify_bundle scores it against the trusted witness keys, and the       *)
(* verdict on a whole bundle (src/attenu_guard/evidence.py).               *)
(*                                                                         *)
(* An envelope is [form, subject, kid, by, over]: "over" is what its       *)
(* signature is of, "by" the key.  "form" is "v1", or the one thing that   *)
(* is wrong with it: a "version" or a set of "members" the build does not  *)
(* know, a subject of another "event", an "alg" that is not EdDSA, or      *)
(* bytes as received that are not its canonical "encoding".  The result,   *)
(* time and method it reports are not told apart.                          *)
(***************************************************************************)
EXTENDS Bundle

CONSTANTS
  Signer,       \* the key the producer signs anchors with
  NoKey,        \* a verification with no producer's key
  Witnesses,    \* the kids witnesses sign under, each with a key of its own
  Never         \* a not_after that is absent

ASSUME SignerAssumption == Signer # NoKey

Forms == {"v1", "version", "members", "event", "alg", "encoding"}
Observable == {"spawn", "allow"}

Content(env) == [form |-> env.form, subject |-> env.subject, kid |-> env.kid]

(* envelope_subject: the position and the recomputed hash of an entry, and *)
(* the members that locate it.                                             *)
Locators(body) ==
  [chain |-> body.chain, node |-> body.node, event |-> body.event,
   call |-> IF body.event = "allow" THEN body.call ELSE ""]

Positioned(es, seq) == {i \in DOMAIN es : es[i].seq = seq}

SubjectAt(es, i) ==
  [seq |-> es[i].seq, hash |-> Recomputed(es)[i], at |-> Locators(es[i].body)]

(* sign_envelope *)
SignedOver(es, i, kid, key) ==
  LET content == [form |-> "v1", subject |-> SubjectAt(es, i), kid |-> kid]
  IN  [form |-> "v1", subject |-> content.subject, kid |-> kid, by |-> key, over |-> content]

-----------------------------------------------------------------------------
(* A trust set is [rows, until]: a row is [kid, until, known], with "known" *)
(* FALSE when it has a member the build does not evaluate, and the outer    *)
(* "until" bounds every row.  A row is read whole, and a kid has one.       *)
RowsOk(rows) ==
  /\ \A i \in DOMAIN rows : rows[i].known
  /\ \A i, j \in DOMAIN rows : rows[i].kid = rows[j].kid => i = j

Before(at, until) == until = Never \/ at < until

(* _trusted_witnesses *)
Trusted(trust, at) ==
  {row.kid : row \in {r \in Range(trust.rows) : Before(at, r.until) /\ Before(at, trust.until)}}

(* The envelopes that name entry i: they claim it before anything of them *)
(* but their members and their seq is looked at.                          *)
Claims(b, i) ==
  {j \in DOMAIN b.envelopes :
     /\ b.envelopes[j].form \notin {"version", "members", "event"}
     /\ LET named == Positioned(b.entries, b.envelopes[j].subject.seq)
        IN  named # {} /\ i = Max(named)}

(* _score_envelope, of an envelope that claims entry i. *)
Scores(b, env, i, trusted) ==
  /\ env.subject.hash = Recomputed(b.entries)[i]
  /\ env.subject.at = Locators(b.entries[i].body)
  /\ env.form \notin {"alg", "encoding"}
  /\ env.kid \in trusted
  /\ env.by = env.kid /\ env.over = Content(env)

(* Mutant of Witnessed: one of two envelopes is enough. *)
WitnessedByAny(b, i, trusted) ==
  \E j \in Claims(b, i) : Scores(b, b.envelopes[j], i, trusted)

(* The state witness-signed: exactly one envelope names the entry, and it  *)
(* verifies.  Two contradict each other, and strip it from both.           *)
Witnessed(b, i, trusted) ==
  \E j \in DOMAIN b.envelopes : Claims(b, i) = {j} /\ Scores(b, b.envelopes[j], i, trusted)

(* verify_envelopes: every envelope of the bundle makes its entry so. *)
EnvelopesOk(b, trusted) ==
  \A j \in DOMAIN b.envelopes :
    \E i \in DOMAIN b.entries : Claims(b, i) = {j} /\ Witnessed(b, i, trusted)

-----------------------------------------------------------------------------
(* The verdict of verify_bundle.  With no key, a bundle vouches for its own *)
(* consistency only; a part of the wrong JSON type is refused unread.       *)
Accepts(b, key, trusted) ==
  /\ b.mistyped = {}
  /\ LedgerOk(b)
  /\ EnvelopesOk(b, trusted)
  /\ key # NoKey => AnchorVerifies(b.entries, b.anchor, key)

(* With the anchor the verifier retained from earlier. *)
AcceptsRetained(b, anchor, trusted) ==
  /\ Accepts(b, NoKey, trusted)
  /\ anchor.body.seq = Len(b.entries) - 1
  /\ anchor.body.head = HeadHash(b.entries)
  /\ anchor.body.chain = b.chain /\ anchor.body.v = b.v

(* The entries as the readers that never fail read them, and those the      *)
(* report shows as witness-signed: none of a bundle it could not read.      *)
ReadableEntries(b) == IF "entries" \in b.mistyped THEN <<>> ELSE b.entries
WitnessSigned(b, trusted) ==
  {i \in DOMAIN b.entries : b.mistyped = {} /\ Witnessed(b, i, trusted)}

(* delegation_graph, read from a bundle whether or not it verifies. *)
GraphNodes(es) == {es[i].body.node : i \in {k \in DOMAIN es : IsDefinition(es[k].body)}}
GraphEdges(es) ==
  {<<es[i].body.parent, es[i].body.node>> :
     i \in {k \in DOMAIN es : IsDefinition(es[k].body) /\ es[k].body.event = "spawn"
                              /\ Min(Definitions(es, es[k].body.node)) = k}}
=============================================================================
