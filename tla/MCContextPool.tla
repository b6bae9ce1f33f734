--------------------------- MODULE MCContextPool ---------------------------
(* A small instance of ContextPool for TLC. *)
EXTENDS ContextPool, TLC

(* Requests are alike, and so are the Contexts of the pool. *)
Symmetry == Permutations(Requests) \cup Permutations(Pooled)
=============================================================================
