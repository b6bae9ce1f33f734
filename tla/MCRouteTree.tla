---------------------------- MODULE MCRouteTree ----------------------------
(* Small instances of RouteTree for TLC. *)
EXTENDS FixedPath

MCParams == {":p", ":q"}
MCCatchAlls == {"*c"}
MCLetters == {"a", "A", "b"}

(* All request paths of at most four tokens, and longer ones in which no    *)
(* slash follows another.                                                   *)
PathsOf(n) == {<<Slash>> \o s : s \in [1 .. n - 1 -> {"/", "a", "b"}]}
CleanPathsOf(n) == {p \in PathsOf(n) : \A i \in 1 .. n - 1 : p[i] = Slash => p[i + 1] # Slash}
SomePaths == UNION {PathsOf(n) : n \in 1..4} \cup CleanPathsOf(5)
LongPaths == CleanPathsOf(6)

(* Routes whose wildcards fill whole segments. *)
Segments ==
    { <<"/">>, <<"/", "a">>, <<"/", "a", "b">>, <<"/", ":p">>, <<"/", "*c">>,
      <<"/", "a", "/", ":q">>, <<"/", "a", "/">>, <<"/", ":p", "/", "b">>,
      <<"/", ":p", "/", "a">>, <<"/", "a", "/", "*c">>, <<"/", ":p", "/", ":q", "/", "b">> }

(* ... and wildcards after a letter, and conflicting and malformed ones.    *)
Mixed ==
    Segments \cup
    { <<"/", ":q">>, <<"/", "a", ":p">>, <<"/", "a", "b", ":p">>, <<"/", "b", ":p">>,
      <<"/", "a", ":p", "/", "a">>, <<"/", "a", "*c">>, <<"/", ":p", ":q">>,
      <<"/", ":p", "/">>, <<"/", ":p", "/", "*c">>, <<"/", ":p", "/", "*c", "/">> }

(* A letter with two cases, in routes and in clean paths. *)
MCUpper == [a |-> "A"]
Cased == Mixed \cup { <<"/", "A">>, <<"/", "A", "b", "/">> }
MCCasedPaths ==
    {<<Slash>> \o s : s \in {t \in UNION {[1..k -> {"/", "a", "A", "b"}] : k \in 0..3} :
        \A i \in DOMAIN t : t[i] = "/" => i > 1 /\ t[i - 1] # "/"}}
=============================================================================
