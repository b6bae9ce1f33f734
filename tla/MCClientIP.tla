---------------------------- MODULE MCClientIP ----------------------------
(* A small instance of ClientIP for TLC. *)
EXTENDS ClientIP, TLC

(* Each address alone, and everybody. *)
MCNetworks == {{ip} : ip \in Addresses} \cup {Addresses}

Symmetry == Permutations(Addresses)
=============================================================================
