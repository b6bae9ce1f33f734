--------------------------- MODULE MCRouterGroup ---------------------------
(* A small instance of RouterGroup for TLC. *)
EXTENDS RouterGroup

CONSTANTS auth, log

MCLists == {<<>>, <<auth>>, <<log, auth>>}
=============================================================================
