---------------------------- MODULE MCGregQueue ----------------------------
(* TLC instance of SlabQueue: the constants are given in the cfg.          *)
EXTENDS SlabQueue, TLC

\* Threads and paths are interchangeable.
Interchangeable == Permutations(Workers) \cup Permutations(Items)

=============================================================================
