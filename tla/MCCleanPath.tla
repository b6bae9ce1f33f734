---------------------------- MODULE MCCleanPath ----------------------------
(* A small instance of CleanPath for TLC. *)
EXTENDS PathRules

(* All strings of up to seven bytes. *)
MCPaths == UNION {[1..k -> Bytes] : k \in 0..7}
=============================================================================
