---------------------------- MODULE ChunkEmitter ----------------------------
(***************************************************************************)
(* chunkemitter.js as operators.  An emitter is the sequence of pieces it  *)
(* holds.  Until they come near its size they wait in bufs, then in a      *)
(* buffer of that size: bufs never holds more than the size, so the two    *)
(* emit alike.                                                             *)
(***************************************************************************)
EXTENDS Naturals, Sequences, FiniteSetsExt

\* fill(): a full buffer is emitted when another piece comes, not before.
Full(all, size) == IF all = <<>> THEN 0 ELSE (Len(all) - 1) \div size

\* What fill() emits, in order, and what it then holds.
Emitted(held, input, size) ==
    LET all == held \o input
    IN  [i \in 1 .. Full(all, size) |-> SubSeq(all, (i - 1) * size + 1, i * size)]

Filled(held, input, size) ==
    LET all == held \o input
    IN  SubSeq(all, Full(all, size) * size + 1, Len(all))
=============================================================================
