------------------------------- MODULE Spool -------------------------------
(***************************************************************************)
(* The write-ahead spool (SpoolSink, src/attenu_guard/sinks.py): a bounded *)
(* file of lines that each process appends to through a sink of its own,   *)
(* and the acknowledged offset an uploader drains it by.                   *)
(*                                                                         *)
(* A line is <<boot, entry>>: the idempotency key (boot, chain, seq, hash) *)
(* says no more, with one chain per process.  What fsync protects from is  *)
(* left out: processes die here, machines do not.                          *)
(***************************************************************************)
EXTENDS Naturals, Sequences, SequencesExt

CONSTANTS
  Boot,          \* the processes, by their boot ids
  Size(_),       \* the length of a line
  MaxBytes,      \* SpoolSink.max_bytes
  SpoolFaults,   \* where a write may raise: subset of {"flush", "fsync"}
  MaxBatch,      \* max_n of read_pending
  AckDies,       \* may the uploader die inside ack?
  MaxRestarts    \* bound: uploaders that die

ASSUME SpoolAssumption ==
  /\ MaxBytes \in Nat /\ MaxBatch \in Nat \ {0} /\ MaxRestarts \in Nat
  /\ SpoolFaults \subseteq {"flush", "fsync"} /\ AckDies \in BOOLEAN

VARIABLES
  spool,       \* the lines of the file
  size,        \* SpoolSink._size of each process
  overflowed,  \* the processes whose sink has stopped
  buffer,      \* lines a sink's file object holds after a failed flush
  offset,      \* what the offset file holds (0: it is absent), unless
  emptied,     \* it is empty, between the open and the write of an ack
  batch,       \* the lines the uploader has read
  upc,         \* the uploader: "idle", "post", "ack" or "write"
  restarts,    \* uploaders that have died
  delivered    \* the lines the endpoint has stored, each once

sinkVars   == <<spool, size, overflowed, buffer>>
uploadVars == <<offset, emptied, batch, upc, restarts, delivered>>
spoolVars  == <<sinkVars, uploadVars>>

Bytes(lines) == FoldSeq(LAMBDA line, n : Size(line) + n, 0, lines)

SpoolInit ==
  /\ spool = <<>>
  /\ size = [b \in Boot |-> 0]
  /\ overflowed = {}
  /\ buffer = [b \in Boot |-> <<>>]
  /\ offset = 0
  /\ emptied = FALSE
  /\ batch = <<>>
  /\ upc = "idle"
  /\ restarts = 0
  /\ delivered = {}

-----------------------------------------------------------------------------
(* SpoolSink(path): opened for appending, at the size the file has. *)
OpenSink(b) ==
  /\ size' = [size EXCEPT ![b] = Bytes(spool)]
  /\ UNCHANGED <<spool, overflowed, buffer>>

(* The two tests of write; the second alone is its mutant. *)
TooLong(b, line) == size[b] + Size(line) > MaxBytes
Drops(b, line)   == b \in overflowed \/ TooLong(b, line)

(* write, when full: the sink stops for good. *)
WriteDropped(b, line) ==
  /\ Drops(b, line)
  /\ overflowed' = overflowed \cup {b}
  /\ UNCHANGED <<spool, size, buffer>>

(* write: flushed at once, with what an earlier flush has left. *)
WriteLine(b, line) ==
  /\ ~Drops(b, line)
  /\ spool' = spool \o Append(buffer[b], line)
  /\ size' = [size EXCEPT ![b] = @ + Size(line)]
  /\ buffer' = [buffer EXCEPT ![b] = <<>>]
  /\ UNCHANGED overflowed

(* write, when its flush raises: the line stays in the file object and goes *)
(* out with the next flush, but was not counted in _size.                   *)
WriteHeld(b, line) ==
  /\ "flush" \in SpoolFaults
  /\ ~Drops(b, line)
  /\ buffer' = [buffer EXCEPT ![b] = Append(@, line)]
  /\ UNCHANGED <<spool, size, overflowed>>

(* flush *)
Flush(b) ==
  /\ buffer[b] # <<>>
  /\ spool' = spool \o buffer[b]
  /\ buffer' = [buffer EXCEPT ![b] = <<>>]
  /\ UNCHANGED <<size, overflowed>>

(* The process has died: what its file object held is gone. *)
LoseBuffer(b) ==
  /\ buffer' = [buffer EXCEPT ![b] = <<>>]
  /\ UNCHANGED <<spool, size, overflowed>>

-----------------------------------------------------------------------------
Pending == SubSeq(spool, offset + 1, Len(spool))
FirstOf(lines) == SubSeq(lines, 1, IF Len(lines) < MaxBatch THEN Len(lines) ELSE MaxBatch)

(* Mutant of ReadPending: only whole batches are returned. *)
ReadFullBatch ==
  /\ upc = "idle" /\ ~emptied
  /\ Len(Pending) >= MaxBatch
  /\ batch' = FirstOf(Pending)
  /\ upc' = "post"
  /\ UNCHANGED <<offset, emptied, restarts, delivered>>

(* The uploader reads the next lines that are not acknowledged.  An empty *)
(* offset file makes int() raise, in this and in every later call.        *)
ReadPending ==
  /\ upc = "idle" /\ ~emptied
  /\ Pending # <<>>
  /\ batch' = FirstOf(Pending)
  /\ upc' = "post"
  /\ UNCHANGED <<offset, emptied, restarts, delivered>>

(* It POSTs them; the endpoint stores each line once under its key. *)
Post ==
  /\ upc = "post"
  /\ delivered' = delivered \cup {batch[i] : i \in DOMAIN batch}
  /\ upc' = "ack"
  /\ UNCHANGED <<offset, emptied, batch, restarts>>

(* ack: write_text opens the offset file, which empties it, ... *)
AckOpen ==
  /\ upc = "ack"
  /\ emptied' = TRUE
  /\ upc' = "write"
  /\ UNCHANGED <<offset, batch, restarts, delivered>>

(* ... and writes the offset it read before, plus the lines confirmed. *)
AckWrite ==
  /\ upc = "write"
  /\ offset' = offset + Len(batch)
  /\ emptied' = FALSE
  /\ upc' = "idle"
  /\ batch' = <<>>
  /\ UNCHANGED <<restarts, delivered>>

(* The uploader dies and a new one starts from the offset file. *)
UploaderDies ==
  /\ upc \in {"post", "ack"} \/ (AckDies /\ upc = "write")
  /\ restarts < MaxRestarts
  /\ restarts' = restarts + 1
  /\ upc' = "idle"
  /\ batch' = <<>>
  /\ UNCHANGED <<offset, emptied, delivered>>

Upload == ReadPending \/ Post \/ AckOpen \/ AckWrite \/ UploaderDies
=============================================================================
