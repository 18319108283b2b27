------------------------------ MODULE Evidence ------------------------------
(***************************************************************************)
(* The life of an evidence bundle: the producer's Guard goes on writing    *)
(* its ledger, exports it under a signed anchor as often as it likes,      *)
(* witnesses sign what they saw of it, whoever carries the bundle edits    *)
(* it, and a verifier holds it against the producer's key, against an      *)
(* anchor it retained, or against nothing, at a time of its own.           *)
(***************************************************************************)
EXTENDS CommandLine

CONSTANTS
  History,      \* the bodies of the entries the producer's Guard writes, in order
  Bodies,       \* the bodies an editor of the bundle writes
  Editor,       \* the key of whoever edits the bundle
  TrustFiles,   \* the files a verifier may give for its witness keys
  NoBundle,
  MaxNow, MaxSigned, MaxExports, MaxEdits, MaxForged   \* bounds

ASSUME BoundAssumption == {MaxNow, MaxSigned, MaxExports, MaxEdits, MaxForged} \subseteq Nat
ASSUME HistoryAssumption == History \in Seq(Range(History))
ASSUME KeyAssumption == Editor # Signer /\ {Editor, Signer} \cap Witnesses = {}
ASSUME TrustAssumption == \A file \in TrustFiles : \A r \in Range(file.rows) : r.kid \in Witnesses
ASSUME FileAssumption ==   \* an array of rows has nothing beside them
  \A file \in TrustFiles :
    /\ file.shape \in {"none", "rows", "document", "case", "other", "missing"}
    /\ file.shape \in {"none", "rows"} => file.until = Never

VARIABLES
  log,       \* AuditLog._entries of the producer
  exports,   \* what it exported: [entries, anchor]
  signed,    \* the envelopes the witnesses signed
  bundle,    \* the bundle on its way to a verifier
  edits,     \* how many times it was edited
  now        \* the verification time

vars == <<log, exports, signed, bundle, edits, now>>

Init ==
  /\ log = <<>>
  /\ exports = {}
  /\ signed = {}
  /\ bundle = NoBundle
  /\ edits = 0
  /\ now = 0

(* Mutant of Redact: the tasks are masked, the hashes kept. *)
RedactInPlace(es) == [i \in DOMAIN es |-> [es[i] EXCEPT !.body.task = "redacted"]]

(* redact_task=True: the tasks are masked, and the chain is hashed anew. *)
Redact(es) == Rehashed([i \in DOMAIN es |-> [es[i] EXCEPT !.body.task = "redacted"]])

ASSUME HonestAssumption ==   \* the producer's Guard writes what the verifier accepts
  History # <<>> =>
    /\ Head(History).event = "root"
    /\ LedgerOk(BundleOf(Chained(History), NoAnchor, <<>>))
ASSUME BodyAssumption ==
  \A b \in Range(History) :
    b = [v |-> b.v, chain |-> b.chain, event |-> b.event, node |-> b.node, parent |-> b.parent,
         auth |-> b.auth, act |-> b.act, call |-> b.call, revoked |-> b.revoked,
         state |-> b.state, params |-> b.params, task |-> b.task, members |-> b.members,
         malformed |-> b.malformed]
ASSUME NoAnchorAssumption ==
  \A k \in 1 .. Len(History) :
    LET es == Chained(SubSeq(History, 1, k))
    IN  NoAnchor \notin {AnchorFor(es, Signer), AnchorFor(Redact(es), Signer)}

-----------------------------------------------------------------------------
(* The Guard appends its next entry (bound: followed up to the last export). *)
Write ==
  /\ Len(log) < Len(History) /\ Cardinality(exports) < MaxExports
  /\ log' = Sealed(log, Entry(Len(log), History[Len(log) + 1]))
  /\ UNCHANGED <<exports, signed, bundle, edits, now>>

(* export_bundle, with envelopes signed over this ledger.  Redacting would *)
(* change the hashes they name, so the two together are refused.           *)
Export(redact, envelopes) ==
  /\ log # <<>> /\ Cardinality(exports) < MaxExports
  /\ redact => envelopes = <<>>
  /\ LET es == IF redact THEN Redact(log) ELSE log
         anchor == AnchorFor(es, Signer)
     IN  /\ exports' = exports \cup {[entries |-> es, anchor |-> anchor]}
         /\ bundle' = BundleOf(es, anchor, envelopes)
  /\ edits' = 0
  /\ UNCHANGED <<log, signed, now>>

(* sign_envelope, over the ledger or over the entries of an export (bound: *)
(* the witnesses are done before the bundle is edited).                    *)
Sign(es, i, kid) ==
  /\ edits = 0 /\ Cardinality(signed) < MaxSigned
  /\ es[i].body.event \in Observable
  /\ signed' = signed \cup {SignedOver(es, i, kid, kid)}
  /\ UNCHANGED <<log, exports, bundle, edits, now>>

Tick ==
  /\ now < MaxNow
  /\ now' = now + 1
  /\ UNCHANGED <<log, exports, signed, bundle, edits>>

-----------------------------------------------------------------------------
(* What may happen to a bundle on its way. *)
Edited(b) ==
  /\ edits < MaxEdits /\ bundle # NoBundle
  /\ edits' = edits + 1
  /\ bundle' = b
  /\ UNCHANGED <<log, exports, signed, now>>

Entries == IF bundle = NoBundle THEN <<>> ELSE bundle.entries

CutTail == Entries # <<>> /\ Edited([bundle EXCEPT !.entries = Front(@)])

Drop(i) == Edited([bundle EXCEPT !.entries = RemoveAt(@, i)])

Swap(i) ==
  Edited([bundle EXCEPT !.entries = [@ EXCEPT ![i] = Entries[i + 1], ![i + 1] = Entries[i]]])

(* What an entry says of its event is changed, its hash left. *)
Rewrite(i, body) ==
  /\ body.event = Entries[i].body.event
  /\ Edited([bundle EXCEPT !.entries[i].body = body])

(* Every entry is numbered, linked and hashed as if just written. *)
Reseal ==
  Edited([bundle EXCEPT !.entries = Chained([i \in DOMAIN @ |-> @[i].body])])

(* The anchor of any export, the editor's own, or one whose body the *)
(* signature is not of.                                              *)
Anchors ==
  {x.anchor : x \in exports} \cup {NoAnchor, AnchorFor(Entries, Editor)}
    \cup {[x.anchor EXCEPT !.body = AnchorFor(Entries, Editor).body] : x \in exports}

Reanchor(anchor) == Edited([bundle EXCEPT !.anchor = anchor])

(* A part of it becomes a value of the wrong JSON type. *)
Mistype(part) == Edited([bundle EXCEPT !.mistyped = @ \cup {part}])

(* An envelope is added: signed by a witness, here or elsewhere, by the     *)
(* editor under the kid of a witness, or one changed after it was signed.   *)
TrustedKids == UNION {{row.kid : row \in Range(file.rows)} : file \in TrustFiles}
Attachable ==
  signed
    \cup {[env EXCEPT !.form = f] : env \in signed, f \in Forms}
    \cup {[env EXCEPT !.subject = SubjectAt(Entries, i)] : env \in signed, i \in DOMAIN Entries}
    \cup {SignedOver(Entries, i, kid, Editor) : i \in DOMAIN Entries, kid \in TrustedKids}

Attach(env) == Edited([bundle EXCEPT !.envelopes = Append(@, env)])

(* A whole ledger, well linked and hashed, that goes on from the first *)
(* entries of the producer's, or from none, as the editor wants.       *)
Forgeries ==
  {SubSeq(History, 1, k) \o bodies : k \in 0 .. Len(History), bodies \in SeqOf(Bodies, MaxForged)}

Forge ==
  /\ Len(log) = Len(History) /\ bundle = NoBundle /\ signed = {} /\ now = 0
  /\ \E bodies \in Forgeries :
       LET es == Chained(bodies)
       IN  bundle' = BundleOf(es, AnchorFor(es, Editor), <<>>)
  /\ edits' = MaxEdits
  /\ UNCHANGED <<log, exports, signed, now>>

Next ==
  \/ Write
  \/ \E redact \in BOOLEAN : Export(redact, <<>>)
  \/ Export(FALSE, SetToSeq(signed))
  \/ \E kid \in Witnesses : \E i \in DOMAIN log : Sign(log, i, kid)
  \/ \E kid \in Witnesses, x \in exports : \E i \in DOMAIN x.entries : Sign(x.entries, i, kid)
  \/ Tick
  \/ CutTail
  \/ \E i \in DOMAIN Entries : Drop(i) \/ (i < Len(Entries) /\ Swap(i))
  \/ \E i \in DOMAIN Entries, body \in Bodies : Rewrite(i, body)
  \/ Reseal
  \/ \E anchor \in Anchors : Reanchor(anchor)
  \/ \E part \in BundleParts : Mistype(part)
  \/ edits < MaxEdits /\ \E env \in Attachable : Attach(env)
  \/ Forge

Spec == Init /\ [][Next]_vars

-----------------------------------------------------------------------------
Usable == {file \in TrustFiles : file.shape # "missing" /\ ~Refused(file)}
TrustSets == {Trusted(TrustOf(file), now) : file \in Usable}

(* A bundle that verifies under the producer's key, whatever trust file is  *)
(* given, or against the anchor a verifier retained from one of its         *)
(* exports, holds the entries of that export, all of them and no others,    *)
(* however it was edited.  Of one edited once, --entries points at the      *)
(* first entry that is not the exported one.                                *)
VerifiedIsExported ==
  bundle # NoBundle =>
    /\ \A file \in TrustFiles :
         VerifyStatus(bundle, Signer, file, now) = 0 => \E x \in exports : x.entries = bundle.entries
    /\ \A x \in exports, trusted \in TrustSets :
         AcceptsRetained(bundle, x.anchor, trusted) => x.entries = bundle.entries
    /\ \A x \in exports :
         LET break == IntegrityBreak(Entries)
         IN  (edits = 1 /\ bundle.anchor = x.anchor /\ break # 0) =>
               /\ SubSeq(Entries, 1, break - 1) = SubSeq(x.entries, 1, break - 1)
               /\ break > Len(x.entries) \/ Entries[break] # x.entries[break]

(* An entry listed as witness-signed, whether or not the bundle verifies,   *)
(* is one the producer wrote, after the history the bundle gives it; a      *)
(* witness signed it whose key no not_after of the trust file has ended;    *)
(* and no other envelope of the bundle names it.                            *)
WitnessedIsSigned ==
  bundle # NoBundle =>
    \A file \in TrustFiles : \A i \in ListedSigned(bundle, file, now) :
      /\ \E env \in signed :
           /\ env.subject = SubjectAt(Entries, i)
           /\ Before(now, file.until)
           /\ \E row \in Range(file.rows) : row.kid = env.kid
           /\ \A row \in Range(file.rows) : row.kid = env.kid => Before(now, row.until)
      /\ \E es \in {log, Redact(log)} :
           i <= Len(es) /\ SubjectAt(Entries, i) = SubjectAt(es, i)
      /\ Cardinality({j \in DOMAIN bundle.envelopes :
                        /\ bundle.envelopes[j].form = "v1"
                        /\ bundle.envelopes[j].subject.seq = Entries[i].seq}) = 1

(* What the producer exports verifies under its key, redacted or not, at    *)
(* any point of its history, whatever it writes afterwards; so it does with *)
(* the envelopes of trusted witnesses over its entries, one an entry, until *)
(* a key of theirs expires.                                                 *)
HonestEnvelopes(b, trusted) ==
  \A j \in DOMAIN b.envelopes :
    /\ b.envelopes[j] \in signed /\ b.envelopes[j].kid \in trusted
    /\ \E i \in DOMAIN b.entries : b.envelopes[j].subject = SubjectAt(b.entries, i)
    /\ \A k \in DOMAIN b.envelopes : b.envelopes[k].subject = b.envelopes[j].subject => k = j

ExportsVerify ==
  \A x \in exports, file \in Usable :
    LET trusted == Trusted(TrustOf(file), now)
    IN  (/\ bundle # NoBundle
         /\ bundle.entries = x.entries /\ bundle.anchor = x.anchor /\ bundle.mistyped = {}
         /\ HonestEnvelopes(bundle, trusted))
          => /\ VerifyStatus(bundle, Signer, file, now) = 0
             /\ AcceptsRetained(bundle, x.anchor, trusted)
             /\ LedgerStatus(x.entries) = 0

(* A node and all delegated under it: what no set of nodes leaves out that   *)
(* has that node and, of each of its own, every child.                      *)
Subtree(es, n) ==
  {m \in GraphNodes(es) :
     \A S \in SUBSET GraphNodes(es) :
       (n \in S /\ \A edge \in GraphEdges(es) : edge[1] \in S => edge[2] \in S) => m \in S}

(* A ledger the verifier accepts, were it written to deceive it, is a tree  *)
(* under its one root, in which a gated allow is within the authority of    *)
(* its node and of every ancestor of that node, and no entry of a call      *)
(* stands without the allow it belongs to.  If its parameters are covered,  *)
(* every call it allows was made with those authorized, by the node that    *)
(* was.  The view of it ends, and draws each of its nodes once.             *)
AcceptedIsNarrowing ==
  (bundle # NoBundle /\ LedgerOk(bundle)) =>
    LET es == Entries
        nodes == GraphNodes(es)
        roots == {es[i].body.node : i \in {k \in DOMAIN es : es[k].body.event = "root"}}
    IN  /\ Cardinality(roots) = 1 /\ Cardinality(GraphEdges(es)) = Cardinality(nodes) - 1
        /\ \A r \in roots : Subtree(es, r) = nodes
        /\ \A i \in DOMAIN es :
             (es[i].body.event = "allow" /\ ~IsUngated(es[i].body)) =>
                \A n \in nodes : es[i].body.node \in Subtree(es, n) => es[i].body.act \in AuthorityOf(es, n)
        /\ DrawingEnds(es) /\ Cardinality(Lines(es)) = Cardinality(nodes)
        /\ bundle.v = 2 => \A i \in DOMAIN es : es[i].body.event = "outcome" =>
             \E j \in 1 .. i - 1 : es[j].body.event = "allow" /\ es[j].body.call = es[i].body.call
        /\ (bundle.v = 2 /\ ParamsCoverage(es) = "complete") =>
             \A i \in DOMAIN es : es[i].body.event = "allow" =>
               \E j \in i + 1 .. Len(es) :
                 /\ es[j].body.event = "outcome" /\ es[j].body.node = es[i].body.node
                 /\ es[j].body.call = es[i].body.call /\ es[j].body.params = es[i].body.params
=============================================================================
