------------------------------ MODULE MCRouter ------------------------------
(* Small instances of Router for TLC. *)
EXTENDS Router, TLC

MCParams == {":p", ":q"}
MCCatchAlls == {"*c"}
MCLetters == {"a", "b"}

(* A path for every way into and out of the routes below. *)
SomePaths ==
    { <<"/", "a">>, <<"/", "b">>, <<"/", "a", "b">>, <<"/", "a", "/">>, <<"/", "a", "/", "b">>,
      <<"/", "b", "/", "a">>, <<"/", "a", "/", "b", "/">> }

CONSTANTS GET, POST, PUT
Symmetry == Permutations(Methods)

(* Routes whose wildcards fill whole segments, one of them malformed. *)
Segments ==
    { <<"/", "a">>, <<"/", ":p">>, <<"/", "a", "/", "b">>, <<"/", "a", "/", ":q">>,
      <<"/", ":p", "/", "a">>, <<"/", ":p", "/", "*c", "/">> }
=============================================================================
