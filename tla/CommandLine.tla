---------------------------- MODULE CommandLine ----------------------------
(***************************************************************************)
(* attenu-guard verify and attenu-guard view: the options and files a run  *)
(* is given, its exit status, and what it shows of the entries             *)
(* (src/attenu_guard/cli.py).                                              *)
(*                                                                         *)
(* A trust file is [shape, rows, until], whatever JSON it is: an array of  *)
(* "rows", a trust-set "document" around them or a "case" of the interop   *)
(* vectors, either of which may have a not_after beside the rows; some     *)
(* "other" text; a file that is "missing"; or "none" given.                *)
(***************************************************************************)
EXTENDS Envelopes

NoTrustFile == [shape |-> "none", rows |-> <<>>, until |-> Never]

(* _witness_keys: a vector case would lose its not_after, so with one it is *)
(* neither a case nor a document.                                           *)
Refused(file) ==
  \/ file.shape = "other"
  \/ file.shape = "case" /\ file.until # Never
  \/ ~RowsOk(file.rows)

(* The trust set handed on.  With no file it is empty, not unchecked. *)
TrustOf(file) ==
  [rows |-> file.rows, until |-> IF file.shape = "document" THEN file.until ELSE Never]

(* _verify, of a bundle. *)
VerifyStatus(b, key, file, at) ==
  IF file.shape = "missing" THEN 1
  ELSE IF ~Refused(file) /\ Accepts(b, key, Trusted(TrustOf(file), at)) THEN 0 ELSE 2

(* _verify of a ledger, one entry a line, and _view once it has drawn: one *)
(* with no events is not OK.                                               *)
LedgerStatus(es) == IF es # <<>> /\ ChainVerifies(es) THEN 0 ELSE 2

(* --entries: the entries it lists as witness-signed, and the one it shows *)
(* as failing the hash chain, 0 when it holds.                             *)
ListedSigned(b, file, at) ==
  IF file.shape = "missing" \/ Refused(file) THEN {}
  ELSE WitnessSigned(b, Trusted(TrustOf(file), at)) \cap DOMAIN ReadableEntries(b)

IntegrityBreak(es) ==
  LET holds(k) == ChainVerifies(SubSeq(es, 1, k))
  IN  IF holds(Len(es)) THEN 0 ELSE Min({k \in DOMAIN es : ~holds(k)})

-----------------------------------------------------------------------------
(* _view draws the root entries, and under an entry the spawns whose parent *)
(* is its node, whether or not the chain holds.  A line is the path of the  *)
(* entries above it and itself.  Only a parent below its own child is as    *)
(* deep as there are entries: there the drawing does not end.               *)
Drawn(es) ==
  LET Below(line) ==
        {Append(line, i) : i \in {k \in DOMAIN es : /\ es[k].body.event = "spawn"
                                                    /\ es[k].body.parent = es[Last(line)].body.node}}
      at[depth \in 0 .. Len(es)] ==
        IF depth = 0 THEN {<<i>> : i \in {k \in DOMAIN es : es[k].body.event = "root"}}
        ELSE UNION {Below(line) : line \in at[depth - 1]}
  IN  at

DrawingEnds(es) == Drawn(es)[Len(es)] = {}
Lines(es) == UNION Range(Drawn(es))
=============================================================================
