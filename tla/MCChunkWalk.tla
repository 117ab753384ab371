------------------------------ MODULE MCChunkWalk ------------------------------
(***************************************************************************)
(* Regions of every alignment and length around two blocks of four bytes,  *)
(* the degenerate block of one byte and the unchunked generator.           *)
(***************************************************************************)
EXTENDS ChunkWalk

MCStarts == 0 .. 5
MCTotals == 0 .. 11
MCChunks == {0, 1, 2, 4}
=============================================================================
