---------------------------- MODULE MCStreaming ----------------------------
(* Values for the constants of Streaming. *)
EXTENDS Streaming

CONSTANTS p1, p2
Procs == {p1, p2}
OnlyP2 == {p2}

(* Two events, one with a line twice as long. *)
MCSize(line) == IF Last(line[2]) = "long" THEN 2 ELSE 1
=============================================================================
