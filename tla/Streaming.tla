----------------------------- MODULE Streaming -----------------------------
(***************************************************************************)
(* A ledger streamed through a spool (docs/STREAMING.md): processes with   *)
(* an AuditLog whose last sink is a SpoolSink, and an uploader.            *)
(***************************************************************************)
EXTENDS AuditLog, Spool, FiniteSets

ASSUME BootAssumption == Boot = Proc

vars == <<logVars, spoolVars>>

Init == LogInit /\ SpoolInit

Line(p) == <<p, Last(log[p])>>

(* The sink is constructed before the log it is given to. *)
Start(p) == (Find(p) \/ Refuse(p)) /\ OpenSink(p) /\ UNCHANGED uploadVars

(* The steps of the log that leave the spool alone. *)
LogStep(p) ==
  /\ Truncate(p) \/ Commit(p) \/ WriteFile(p) \/ WriteFails(p)
  /\ UNCHANGED spoolVars

(* The spool takes the entry, or drops it, which it does not report. *)
SpoolEntry(p) ==
  /\ Hand(p)
  /\ WriteLine(p, Line(p)) \/ WriteDropped(p, Line(p))
  /\ UNCHANGED uploadVars

(* Its flush raises, or the fsync after it, or a sink before it has raised. *)
SpoolFails(p) ==
  /\ HandFails(p)
  /\ \/ WriteHeld(p, Line(p))
     \/ "fsync" \in SpoolFaults /\ WriteLine(p, Line(p))
     \/ SinkFaults /\ UNCHANGED sinkVars
  /\ UNCHANGED uploadVars

FlushSpool(p) ==
  /\ pc[p] = "open"
  /\ Flush(p)
  /\ UNCHANGED <<logVars, uploadVars>>

Crash(p) == Die(p) /\ LoseBuffer(p) /\ UNCHANGED uploadVars

UploadStep == Upload /\ UNCHANGED <<logVars, sinkVars>>

Next ==
  \/ \E p \in Proc :
       \/ Start(p) \/ LogStep(p) \/ SpoolEntry(p) \/ SpoolFails(p)
       \/ FlushSpool(p) \/ Crash(p)
  \/ UploadStep

Spec == Init /\ [][Next]_vars

(* The uploader's loop keeps running, and a POST that is retried succeeds   *)
(* in the end; nothing is assumed of the processes that write.              *)
FairSpec ==
  /\ Spec
  /\ WF_vars(ReadPending /\ UNCHANGED <<logVars, sinkVars>>)
  /\ WF_vars(Post /\ UNCHANGED <<logVars, sinkVars>>)
  /\ WF_vars(AckOpen /\ UNCHANGED <<logVars, sinkVars>>)
  /\ WF_vars(AckWrite /\ UNCHANGED <<logVars, sinkVars>>)

-----------------------------------------------------------------------------
Verified(lines) == Loads(lines) /\ Verifies(lines)
(* The places of a process's lines in the spool, and those up to place i: *)
(* as many as the number of the line at i among the lines of the process.  *)
LinesOf(p) == {i \in DOMAIN spool : spool[i][1] = p}
UpTo(p, i) == {j \in LinesOf(p) : j <= i}

(* A ledger file that loads and verifies is the beginning of one process's  *)
(* log, through failed and torn writes, crashes and restarts; and one that  *)
(* passes an anchor over an entry of that log ends at that entry.           *)
VerifiedIsOneLog ==
  Verified(file) =>
    /\ \E p \in Proc : IsPrefix(file, log[p])
    /\ \A p \in Proc : \A n \in DOMAIN log[p] :
         VerifiesAnchor(file, log[p][n]) => file = SubSeq(log[p], 1, n)

(* A log with no append in progress, none of whose appends raised, is in    *)
(* its file: load() returns exactly its entries.                            *)
FilesLoadBack ==
  \A p \in Proc : pc[p] = "open" /\ p \notin raised => Loads(file) /\ file = log[p]

(* No complete line on disk is changed or erased, unless by a process that  *)
(* asked to overwrite; so the calls a crash left pending stay on the ledger *)
(* (the restart rule).                                                      *)
LedgersAreKept ==
  [][ \/ IsPrefix(IF ended THEN file ELSE Front(file), file')
      \/ \E p \in Overwriters : pc[p] = "opening" ]_file

(* The spool holds the beginning of each log whose appends never raised,    *)
(* whole unless it overflowed, however many processes wrote to it: once a   *)
(* line is dropped no later one is kept.                                    *)
SpoolIsAPrefix ==
  \A p \in Proc \ raised :
    /\ \A i \in LinesOf(p) :
         LET n == Cardinality(UpTo(p, i))
         IN  n <= Len(log[p]) /\ spool[i][2] = log[p][n]
    /\ pc[p] = "open" /\ p \notin overflowed => Cardinality(LinesOf(p)) = Len(log[p])

(* Every line of the spool reaches the endpoint. *)
SpoolIsDelivered == \A p \in Proc : \A n \in 1 .. MaxEntries :
  (\E i \in DOMAIN spool : spool[i][1] = p /\ Len(spool[i][2]) = n)
    ~> (\E line \in delivered : line[1] = p /\ Len(line[2]) = n)
=============================================================================
