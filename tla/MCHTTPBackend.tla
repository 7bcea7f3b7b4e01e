---------------------------- MODULE MCHTTPBackend ----------------------------
(* Instances of HTTPBackend.  Callers, keys and buffers are interchangeable:  *)
(* no definition singles one of them out.                                     *)
EXTENDS HTTPBackend, TLC

HTTPSymmetry == Permutations(Callers) \cup Permutations(Keys) \cup Permutations(Buffers)
=============================================================================
