------------------------------ MODULE AuditLog ------------------------------
(***************************************************************************)
(* The persistence of a ledger (src/attenu_guard/audit.py): several        *)
(* processes, one after another or at once, each open an AuditLog on the   *)
(* same path, append to it, and may die at any step.                       *)
(*                                                                         *)
(* An entry is the sequence of events up to and including its own: its     *)
(* hash covers the hash before it and its payload, so two entries have one *)
(* hash exactly when their histories are the same, whichever process wrote *)
(* them.  An append holds the log's lock; between its steps no other       *)
(* append of the process runs.                                             *)
(***************************************************************************)
EXTENDS Naturals, Sequences, SequencesExt

CONSTANTS
  Proc,         \* processes: the lives of one program, or several programs
  Overwriters,  \* those that pass audit_overwrite=True
  Overlap,      \* may a process start while another one runs?
  Event,        \* what an entry records
  Separated,    \* events whose text holds a line separator (U+2028 and others)
  FileFaults,   \* how a write of the file may fail: subset of {"lost", "torn"}
  SinkFaults,   \* FALSE: no earlier sink ever raises
  MaxEntries    \* bound: entries of one process

ASSUME ProcAssumption == Proc # {} /\ Overwriters \subseteq Proc /\ Overlap \in BOOLEAN
ASSUME FaultAssumption == FileFaults \subseteq {"lost", "torn"} /\ SinkFaults \in BOOLEAN
ASSUME EntryAssumption == Separated \subseteq Event /\ MaxEntries \in Nat

VARIABLES
  pc,      \* "new", "opening", "open", "writing", "handing", "refused" or "dead"
  log,     \* AuditLog._entries, of each process
  raised,  \* processes with a caller that has seen a CommittedAuditError
  file,    \* the lines of the ledger file; Garbled is one that is no entry
  ended    \* the last line of the file ends with its newline

logVars == <<pc, log, raised, file, ended>>

Garbled == <<>>          \* no entry has an empty history

Running(p) == pc[p] \in {"opening", "open", "writing", "handing"}
Goto(p, state) == pc' = [pc EXCEPT ![p] = state]

LogInit ==
  /\ pc = [p \in Proc |-> "new"]
  /\ log = [p \in Proc |-> <<>>]
  /\ raised = {}
  /\ file = <<>>
  /\ ended = TRUE

-----------------------------------------------------------------------------
(* load: read_text().splitlines(), each line parsed.  splitlines also ends  *)
(* a line at a separator inside a text, which RFC 8785 leaves unescaped, so *)
(* such an entry comes back as two halves that do not parse.                *)
Loads(lines) ==
  \A i \in DOMAIN lines : lines[i] # Garbled /\ Last(lines[i]) \notin Separated

(* verify: the sequence numbers have no gap, and each entry's prev_hash is *)
(* the hash of the one before it.                                          *)
Verifies(entries) ==
  \A i \in DOMAIN entries :
    /\ Len(entries[i]) = i
    /\ Front(entries[i]) = IF i = 1 THEN <<>> ELSE entries[i - 1]

(* anchor: the head signed, and verify_anchor of it; <<>> is the head of an *)
(* empty log.  The signature and the chain id match.                        *)
VerifiesAnchor(entries, head) ==
  /\ Verifies(entries)
  /\ IF entries = <<>> THEN head = <<>> ELSE Last(entries) = head

-----------------------------------------------------------------------------
(* Mutant of Find: no look at the file. *)
FindAnything(p) ==
  /\ pc[p] = "new"
  /\ Overlap \/ \A q \in Proc : ~Running(q)
  /\ Goto(p, "opening")
  /\ UNCHANGED <<log, raised, file, ended>>

(* AuditLog(path), up to the check: the file is absent or empty, or to be *)
(* overwritten.                                                           *)
Find(p) ==
  /\ pc[p] = "new"
  /\ Overlap \/ \A q \in Proc : ~Running(q)
  /\ file = <<>> \/ p \in Overwriters
  /\ Goto(p, "opening")
  /\ UNCHANGED <<log, raised, file, ended>>

(* FileExistsError: a ledger is there. *)
Refuse(p) ==
  /\ pc[p] = "new"
  /\ Overlap \/ \A q \in Proc : ~Running(q)
  /\ file # <<>> /\ p \notin Overwriters
  /\ Goto(p, "refused")
  /\ UNCHANGED <<log, raised, file, ended>>

(* Its write_text(""): the fresh log. *)
Truncate(p) ==
  /\ pc[p] = "opening"
  /\ Goto(p, "open")
  /\ file' = <<>>
  /\ ended' = TRUE
  /\ UNCHANGED <<log, raised>>

(* append, up to its commit in memory. *)
Commit(p) ==
  /\ pc[p] = "open"
  /\ Len(log[p]) < MaxEntries
  /\ \E e \in Event :
       LET prev == IF log[p] = <<>> THEN <<>> ELSE Last(log[p])
       IN  log' = [log EXCEPT ![p] = Append(@, Append(prev, e))]
  /\ Goto(p, "writing")
  /\ UNCHANGED <<raised, file, ended>>

(* What the file holds once text is appended: a line of its own, unless the *)
(* one before has no newline, which then reads as one line with it.         *)
Extended(lines, text) ==
  IF ended THEN Append(lines, text) ELSE Append(Front(lines), Garbled)

(* Mutant of WriteFile: the file opened with "w". *)
WriteFileAlone(p) ==
  /\ pc[p] = "writing"
  /\ file' = <<Last(log[p])>>
  /\ ended' = TRUE
  /\ Goto(p, "handing")
  /\ UNCHANGED <<log, raised>>

(* The line is appended to the file; the path given. *)
WriteFile(p) ==
  /\ pc[p] = "writing"
  /\ file' = Extended(file, Last(log[p]))
  /\ ended' = TRUE
  /\ Goto(p, "handing")
  /\ UNCHANGED <<log, raised>>

(* Mutant of WriteFails: the entry is taken back, for the caller to retry. *)
WriteFailsUndone(p) ==
  /\ pc[p] = "writing"
  /\ raised' = raised \cup {p}
  /\ Goto(p, "open")
  /\ \/ /\ "lost" \in FileFaults
        /\ UNCHANGED <<file, ended>>
     \/ /\ "torn" \in FileFaults
        /\ \E text \in {Garbled, Last(log[p])} : file' = Extended(file, text)
        /\ ended' = FALSE
  /\ log' = [log EXCEPT ![p] = Front(@)]

(* The write raises: nothing of the line, or its first part, which may be   *)
(* all of it but the newline, is in the file.  The sinks get nothing.  The  *)
(* entry stays in the log, and the caller sees CommittedAuditError.         *)
WriteFails(p) ==
  /\ pc[p] = "writing"
  /\ raised' = raised \cup {p}
  /\ Goto(p, "open")
  /\ \/ /\ "lost" \in FileFaults
        /\ UNCHANGED <<file, ended>>
     \/ /\ "torn" \in FileFaults
        /\ \E text \in {Garbled, Last(log[p])} : file' = Extended(file, text)
        /\ ended' = FALSE
  /\ UNCHANGED log

(* The sinks, in turn, up to the last one, which has the entry. *)
Hand(p) ==
  /\ pc[p] = "handing"
  /\ Goto(p, "open")
  /\ UNCHANGED <<log, raised, file, ended>>

(* A sink raises: those after it do not get the entry. *)
HandFails(p) ==
  /\ pc[p] = "handing"
  /\ raised' = raised \cup {p}
  /\ Goto(p, "open")
  /\ UNCHANGED <<log, file, ended>>

(* The process dies, at any step. *)
Die(p) ==
  /\ Running(p)
  /\ Goto(p, "dead")
  /\ UNCHANGED <<log, raised, file, ended>>
=============================================================================
