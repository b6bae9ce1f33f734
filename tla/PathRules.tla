----------------------------- MODULE PathRules -----------------------------
(***************************************************************************)
(* What cleanPath and removeRepeatedChar compute, by elements: a path is   *)
(* the list of its elements between slashes.                               *)
(***************************************************************************)
EXTENDS CleanPath, SequencesExt

(* A path's elements, with "." and empty ones dropped and ".." taking the   *)
(* one before it away.                                                      *)
Entered(elements, e) ==
    CASE e \in {<<>>, <<".">>} -> elements
      [] e = <<".", ".">>      -> IF elements = <<>> THEN <<>> ELSE Front(elements)
      [] OTHER                 -> Append(elements, e)

(* The first i bytes of a path: the elements they end, and what they hold   *)
(* of the one they do not.                                                  *)
Read(s, c) ==
    IF c = "/" THEN [elements |-> Entered(s.elements, s.last), last |-> <<>>]
    ELSE [elements |-> s.elements, last |-> Append(s.last, c)]
Scanned(q) ==
    LET s[i \in 0..Len(q)] == IF i = 0 THEN [elements |-> <<>>, last |-> <<>>] ELSE Read(s[i - 1], q[i])
    IN s
Elements(q) == Entered(Scanned(q)[Len(q)].elements, Scanned(q)[Len(q)].last)

Slashed(s, e) == s \o <<"/">> \o e
Joined(elements) ==
    LET s[i \in 0..Len(elements)] == IF i = 0 THEN <<>> ELSE Slashed(s[i - 1], elements[i])
    IN s[Len(elements)]

Canonical(q) ==
    IF Elements(q) = <<>> THEN <<"/">>
    ELSE IF Scanned(q)[Len(q)].last \in {<<>>, <<".">>} THEN Append(Joined(Elements(q)), "/")
    ELSE Joined(Elements(q))

(* The first i bytes of a string without the slashes after a slash.         *)
Squeezed(s, c) == IF c = "/" /\ s # <<>> /\ Last(s) = "/" THEN s ELSE Append(s, c)
Collapsed(q) ==
    LET s[i \in 0..Len(q)] == IF i = 0 THEN <<>> ELSE Squeezed(s[i - 1], q[i])
    IN s

(* The result is the canonical path (path.go:10-22), and for                *)
(* removeRepeatedChar the string with every run of slashes made one         *)
(* (path.go:153-154).                                                       *)
Cleaned == pc = "done" => Result = IF job = "clean" THEN Canonical(p) ELSE Collapsed(p)[n]
=============================================================================
