------------------------------- MODULE Bundle -------------------------------
(***************************************************************************)
(* The entries of an evidence bundle and their anchor, and what            *)
(* verify_bundle asks of them with no state of the producer's              *)
(* (src/attenu_guard/evidence.py, and verify_anchor of audit.py).          *)
(* The envelopes of a bundle are in Envelopes, and the life of one in      *)
(* Evidence.                                                               *)
(*                                                                         *)
(* A hash is the sequence of the payloads it covers, so two hashes are the *)
(* same exactly when those are.  An authority is the set of the acts it    *)
(* permits, or Unreadable.  The members of an entry that the verifier      *)
(* tells apart by presence and form are two sets: "members" the ones       *)
(* present, "malformed" those of them with a value of no legal form, null  *)
(* included.  The parts of a bundle that are of the wrong JSON type are     *)
(* its "mistyped".                                                         *)
(***************************************************************************)
EXTENDS Integers, FiniteSets, FiniteSetsExt, Sequences, SequencesExt

CONSTANTS
  Unreadable,   \* an authority that from_wire does not read
  NoAnchor      \* a bundle with no anchor

-----------------------------------------------------------------------------
(* The hash chain *)
Genesis == <<>>

(* The payload of an entry names the hash before it; it is spelled out only *)
(* when that is not the hash it is hashed after.                            *)
Payload(prev, e) ==
  IF e.prev = prev THEN <<e.seq, e.body>> ELSE <<e.seq, e.body, e.prev>>
Hash(prev, e) == Append(prev, Payload(prev, e))

HeadHash(es) == IF es = <<>> THEN Genesis ELSE Last(es).hash

(* The entry with its prev_hash and hash set after those of es. *)
Sealed(es, e) ==
  LET linked == [e EXCEPT !.prev = HeadHash(es)]
  IN  Append(es, [linked EXCEPT !.hash = Hash(HeadHash(es), linked)])

(* What the hash of the first k entries covers, each hashed after the ones *)
(* before it.                                                              *)
Trail(es, k) == [j \in 1 .. k |-> <<es[j].seq, es[j].body>>]

(* The entries of es linked and hashed anew, to go on from that head. *)
HashedAfter(head, es) ==
  [i \in DOMAIN es |->
     [es[i] EXCEPT !.prev = head \o Trail(es, i - 1), !.hash = head \o Trail(es, i)]]

Rehashed(es) == HashedAfter(Genesis, es)

Entry(seq, body) == [seq |-> seq, prev |-> Genesis, hash |-> Genesis, body |-> body]
Chained(bodies) == Rehashed([i \in DOMAIN bodies |-> Entry(i - 1, bodies[i])])

(* _recomputed_hashes: each hash from the payloads alone. *)
Recomputed(es) ==
  LET hash[i \in 0 .. Len(es)] == IF i = 0 THEN Genesis ELSE Hash(hash[i - 1], es[i])
  IN  hash

(* AuditLog.verify *)
ChainVerifies(es) ==
  \A i \in DOMAIN es :
    /\ es[i].seq = i - 1
    /\ es[i].prev = IF i = 1 THEN Genesis ELSE es[i - 1].hash
    /\ es[i].hash = Hash(es[i].prev, es[i])

-----------------------------------------------------------------------------
(* Anchors: the head of a ledger, signed.  "over" is what the signature is *)
(* of, "by" the key.                                                       *)
ChainIdOf(es) == IF es = <<>> THEN "chain" ELSE Head(es).body.chain
VersionOf(es) ==
  LET roots == {i \in DOMAIN es : es[i].body.event = "root"}
  IN  IF roots = {} THEN 2 ELSE es[Min(roots)].body.v
LastSeq(es) == IF es = <<>> THEN -1 ELSE Last(es).seq

AnchorFor(es, key) ==
  LET body == [v |-> VersionOf(es), chain |-> ChainIdOf(es), seq |-> LastSeq(es), head |-> HeadHash(es)]
  IN  [body |-> body, by |-> key, over |-> body]

(* Mutant of AnchorVerifies: the head is not compared. *)
AnchorVerifiesSeqless(es, a, key) ==
  /\ a # NoAnchor
  /\ a.by = key /\ a.over = a.body
  /\ ChainVerifies(es)
  /\ es # <<>> => a.body.chain = ChainIdOf(es)

(* verify_anchor under a key *)
AnchorVerifies(es, a, key) ==
  /\ a # NoAnchor
  /\ a.by = key /\ a.over = a.body
  /\ ChainVerifies(es)
  /\ a.body.seq = LastSeq(es)
  /\ es # <<>> => a.body.chain = ChainIdOf(es) /\ a.body.head = HeadHash(es)

BundleParts == {"entries", "anchor", "envelopes"}
BundleOf(es, anchor, envs) ==
  [v |-> VersionOf(es), chain |-> ChainIdOf(es), entries |-> es, anchor |-> anchor,
   envelopes |-> envs, mistyped |-> {}]

-----------------------------------------------------------------------------
(* verify_bundle, one operator per check *)
AnchorAgrees(b, member, value) == b.anchor = NoAnchor \/ b.anchor.body[member] = value

VersionOk(b) ==
  /\ b.v \in {1, 2}
  /\ AnchorAgrees(b, "v", b.v)
  /\ \A i \in DOMAIN b.entries : b.entries[i].body.v = b.v

RootOk(es) == Cardinality({i \in DOMAIN es : es[i].body.event = "root"}) = 1

AllowOnly == {"capture", "adapter", "authorized_params_hash", "params_hash_reason", "policy"}
V2Only ==
  {"call_id", "capture", "adapter", "authorized_params_hash", "params_hash_reason",
   "params_salt", "body_state", "error_code", "invoked_params_hash", "duration_ms",
   "receipt", "pending_at_kill"}
LedgerFields == V2Only \cup AllowOnly \cup {"node"}
LedgerEvents == {"root", "spawn", "spawn_denied", "allow", "deny", "kill", "done", "outcome"}

FieldsOk(b) ==
  \A i \in DOMAIN b.entries :
    /\ b.entries[i].body.event \in LedgerEvents \ (IF b.v = 1 THEN {"outcome"} ELSE {})
    /\ b.entries[i].body.members \subseteq LedgerFields

(* The node of the others is judged by the graph and by containment. *)
NodesOk(es) ==
  \A i \in DOMAIN es :
    "node" \in es[i].body.malformed => es[i].body.event \in {"root", "spawn", "allow"}

ChainIdOk(b) ==
  /\ \A i \in DOMAIN b.entries : b.entries[i].body.chain = b.chain
  /\ AnchorAgrees(b, "chain", b.chain)

(* _node_authorities: a node is defined by its first root or spawn entry. *)
IsDefinition(b) == b.event \in {"root", "spawn"} /\ "node" \notin b.malformed
Definitions(es, n) == {i \in DOMAIN es : IsDefinition(es[i].body) /\ es[i].body.node = n}
IsDefined(es, n, i) == \E d \in Definitions(es, n) : d < i
AuthorityOf(es, n) == es[Min(Definitions(es, n))].body.auth

GraphReadable(es) ==
  \A i \in DOMAIN es :
    es[i].body.event \in {"root", "spawn"} =>
      /\ "node" \notin es[i].body.malformed
      /\ AuthorityOf(es, es[i].body.node) # Unreadable

(* _note_revoked, over the kills before position i. *)
IsRevoked(es, n, i) ==
  \E k \in 1 .. i - 1 : es[k].body.event = "kill" /\ n \in es[k].body.revoked

(* An authority that cannot be read is reported by GraphReadable. *)
NarrowerIfRead(a, b) == a = Unreadable \/ b = Unreadable \/ a \subseteq b

(* Mutant of MonotoneAt: a parent that is not defined earlier is skipped. *)
MonotoneIfKnownAt(es, i) ==
  IsDefinition(es[i].body) =>
    LET n == es[i].body.node
        p == es[i].body.parent
    IN  /\ ~IsDefined(es, n, i)
        /\ es[i].body.event = "spawn" /\ IsDefined(es, p, i) =>
             ~IsRevoked(es, p, i) /\ NarrowerIfRead(AuthorityOf(es, n), AuthorityOf(es, p))

MonotoneAt(es, i) ==
  IsDefinition(es[i].body) =>
    LET n == es[i].body.node
        p == es[i].body.parent
    IN  /\ ~IsDefined(es, n, i)
        /\ es[i].body.event = "spawn" =>
             /\ IsDefined(es, p, i)
             /\ ~IsRevoked(es, p, i)
             /\ NarrowerIfRead(AuthorityOf(es, n), AuthorityOf(es, p))

(* An allow under a known policy was not gated: it is counted apart. *)
IsUngated(b) == "policy" \in b.members \ b.malformed

ContainedAt(es, i) ==
  (es[i].body.event = "allow" /\ ~IsUngated(es[i].body)) =>
    LET n == es[i].body.node
    IN  /\ "node" \notin es[i].body.malformed
        /\ IsDefined(es, n, i)
        /\ ~IsRevoked(es, n, i)
        /\ AuthorityOf(es, n) # Unreadable
        /\ es[i].body.act \in AuthorityOf(es, n)

-----------------------------------------------------------------------------
(* _execution_binding: the form of the v2 entries, and what an outcome is  *)
(* bound to.                                                               *)
Good(b, members) == members \subseteq b.members \ b.malformed
NotBoth(b, x, y) == ~({x, y} \subseteq b.members)

ValidAllow(b) ==
  /\ Good(b, {"call_id", "capture", "adapter"})
  /\ b.malformed \cap {"policy", "authorized_params_hash", "params_hash_reason"} = {}
  /\ NotBoth(b, "params_hash_reason", "authorized_params_hash")

ValidDeny(b) == Good(b, {"call_id"}) /\ b.members \cap AllowOnly = {}

ValidOutcome(b) ==
  /\ Good(b, {"call_id", "body_state", "duration_ms"})
  /\ IF b.state = "raised" THEN Good(b, {"error_code"}) ELSE "error_code" \notin b.members
  /\ b.malformed \cap {"invoked_params_hash", "params_hash_reason", "receipt"} = {}
  /\ NotBoth(b, "params_hash_reason", "invoked_params_hash")

Valid(b) ==
  CASE b.event = "root"    -> Good(b, {"params_salt"})
    [] b.event = "allow"   -> ValidAllow(b)
    [] b.event = "deny"    -> ValidDeny(b)
    [] b.event = "outcome" -> ValidOutcome(b)
    [] b.event = "kill"    -> "pending_at_kill" \notin b.malformed
    [] OTHER               -> TRUE

(* One allow or deny, and one outcome, per call. *)
SameCall(x, y) ==
  /\ x.call = y.call
  /\ "call_id" \in x.members \cap y.members
  /\ \/ {x.event, y.event} \subseteq {"allow", "deny"}
     \/ x.event = "outcome" /\ y.event = "outcome"

ParamsAgree(a, o) ==
  ("authorized_params_hash" \in a.members /\ "invoked_params_hash" \in o.members) =>
    a.params = o.params

BoundTo(o, a) ==
  /\ a.body.event = "allow"
  /\ a.body.call = o.body.call /\ a.body.node = o.body.node
  /\ a.seq < o.seq
  /\ ParamsAgree(a.body, o.body)

(* _v2_field_leaks_on_v1 *)
NoV2Field(es) == \A i \in DOMAIN es : es[i].body.members \cap V2Only = {}

BindingOk(b) ==
  LET es == b.entries
  IN  IF b.v = 1
      THEN NoV2Field(es)
      ELSE /\ \A i \in DOMAIN es : Valid(es[i].body)
           /\ \A i, j \in DOMAIN es : i # j => ~SameCall(es[i].body, es[j].body)
           /\ \A i \in DOMAIN es :
                es[i].body.event = "outcome" => \E j \in DOMAIN es : BoundTo(es[i], es[j])

(* _params_coverage: how many of the allows carry the hash of the parameters *)
(* authorized, and have an outcome that carries the one of those invoked.    *)
ParamsCoverage(es) ==
  LET calls == {i \in DOMAIN es : es[i].body.event = "allow" /\ ValidAllow(es[i].body)}
      invoked(call) ==
        \E o \in DOMAIN es :
          /\ es[o].body.event = "outcome" /\ ValidOutcome(es[o].body)
          /\ es[o].body.call = call /\ "invoked_params_hash" \in es[o].body.members
      both == {i \in calls : /\ "authorized_params_hash" \in es[i].body.members
                             /\ invoked(es[i].body.call)}
  IN  IF both = {} THEN "none" ELSE IF both = calls THEN "complete" ELSE "partial"

(* _policy_failures, on any version. *)
PolicyOk(es) ==
  \A i \in DOMAIN es :
    "policy" \in es[i].body.members =>
      es[i].body.event = "allow" /\ "policy" \notin es[i].body.malformed

-----------------------------------------------------------------------------
(* The verdict "ok" of verify_bundle, of the entries alone. *)
LedgerOk(b) ==
  /\ VersionOk(b)
  /\ RootOk(b.entries)
  /\ FieldsOk(b)
  /\ NodesOk(b.entries)
  /\ ChainIdOk(b)
  /\ ChainVerifies(b.entries)
  /\ GraphReadable(b.entries)
  /\ \A i \in DOMAIN b.entries : MonotoneAt(b.entries, i) /\ ContainedAt(b.entries, i)
  /\ BindingOk(b)
  /\ PolicyOk(b.entries)
=============================================================================
