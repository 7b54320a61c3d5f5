---------------------------- MODULE MCMixedArena ----------------------------
(* MixedArena with chunks of four bytes. *)
EXTENDS MixedArena

\* A byte, an aligned word, and more than a chunk.
MCRequests == {[size |-> 1, align |-> 1], [size |-> 2, align |-> 2],
               [size |-> 5, align |-> 4]}
=============================================================================
