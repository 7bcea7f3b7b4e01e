--------------------------- MODULE MCMemoryBackend ---------------------------
(* Instances of MemoryBackend; the callers are interchangeable. *)
EXTENDS MemoryBackend, TLC

CallerSymmetry == Permutations(Procs)
=============================================================================
