-------------------------- MODULE MCResponseWriter --------------------------
(* Small instances of ResponseWriter for TLC. *)
EXTENDS ResponseWriter

SomeCodes == {101, 103, 200, 204, 404, 500}
=============================================================================
