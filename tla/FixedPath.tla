------------------------------ MODULE FixedPath ------------------------------
(***************************************************************************)
(* findCaseInsensitivePath (tree.go:715-932), which RedirectFixedPath asks *)
(* for the path to redirect a request to that no route was found for.      *)
(*                                                                         *)
(* Letters are of one byte.  rb is what the buffer for the bytes of a rune *)
(* holds: the letter that led to a node, until a node without a wildcard   *)
(* shifts it out by the length of its path.  It stays over a wildcard, and *)
(* over a node whose path is empty, the one before a catch-all that        *)
(* follows a parameter or starts the tree.  A path is compared from its    *)
(* second byte: the first is the slash, or the letter that led to the node. *)
(***************************************************************************)
EXTENDS TreeShape

CONSTANTS
    Upper,      \* the letters with two cases, as a function to the upper case
    CasedPaths  \* the paths that are looked up regardless of case

ToUpper(t) == IF t \in DOMAIN Upper THEN Upper[t] ELSE t
ToLower(t) == IF \E l \in DOMAIN Upper : Upper[l] = t
              THEN CHOOSE l \in DOMAIN Upper : Upper[l] = t ELSE t
Lowered(s) == [i \in DOMAIN s |-> ToLower(s[i])]

EqualFold(s, t) == Lowered(s) = Lowered(t)

Fixed(path) == [kind |-> "fixed", path |-> path]
NotFixed == [kind |-> "none", path |-> Nil]
InvalidNodeType == [kind |-> "panic", path |-> Nil]

NoRune == "none"

(* What a node with a path of this size leaves of the buffer.               *)
Shifted(rb, size) == IF size = 0 THEN rb ELSE NoRune

(* The positions of the children for a letter, in lower and in upper case.  *)
(* The search for the letter's first byte may go back over the node's path  *)
(* and does not even start if that is empty: then no letter is read.        *)
At(n, c) == {k \in DOMAIN n.indices : n.indices[k] = c}
LowerChild(n, t) == IF n.path = <<>> THEN {} ELSE At(n, ToLower(t))
UpperChild_None(n, t) == {}
UpperChild(n, t) ==
    IF n.path = <<>> \/ ToUpper(t) = ToLower(t) THEN {} ELSE At(n, ToUpper(t))

(* The path ends at n, or under a slash that fixTrailingSlash may add.      *)
EndsHere(n, ci, fixTrailingSlash) ==
    LET below == At(n, Slash) IN
    IF n.handlers # Nil THEN Fixed(ci)
    ELSE IF fixTrailingSlash /\ below # {} /\ LET c == n.children[LowestOf(below)] IN
                 \/ Len(c.path) = 1 /\ c.handlers # Nil
                 \/ c.nType = "catchAll" /\ c.children[1].handlers # Nil
    THEN Fixed(Append(ci, Slash))
    ELSE NotFixed

(* n's path is not the start of what is left: all that may be wrong is the  *)
(* slash at the end.                                                        *)
NoPrefix(n, path, ci, fixTrailingSlash) ==
    IF fixTrailingSlash /\ path = <<Slash>> THEN Fixed(ci)
    ELSE IF fixTrailingSlash /\ LacksSlash([n EXCEPT !.path = Lowered(@)], Lowered(path))
    THEN Fixed(ci \o n.path)
    ELSE NotFixed

RECURSIVE findRec(_, _, _, _, _)
findRec(n, path, ci, rb, fixTrailingSlash) ==
    LET size  == Len(n.path)
        rest  == From(path, size + 1)
        here  == ci \o n.path
        old   == Shifted(rb, size)
        again == At(n, old)
        lower == LowerChild(n, rest[1])
        upper == UpperChild(n, rest[1])
        w     == n.children[1]
        end   == SegmentEnd(rest)
        value == here \o SubSeq(rest, 1, end)
        Below(k, c) == findRec(n.children[LowestOf(k)], rest, here, c, fixTrailingSlash)
        found == IF lower = {} THEN NotFixed ELSE Below(lower, ToLower(rest[1]))
    IN
    IF Len(path) < size \/ ~EqualFold(SubSeq(path, 2, size), SubSeq(n.path, 2, size))
    THEN NoPrefix(n, path, ci, fixTrailingSlash)
    ELSE IF rest = <<>> THEN EndsHere(n, here, fixTrailingSlash)
    ELSE IF ~n.wildChild
    THEN IF again # {} THEN Below(again, old)
         ELSE IF old = NoRune /\ found # NotFixed THEN found
         ELSE IF old = NoRune /\ upper # {} THEN Below(upper, ToUpper(rest[1]))
         ELSE IF fixTrailingSlash /\ rest = <<Slash>> /\ n.handlers # Nil THEN Fixed(here)
         ELSE NotFixed
    ELSE IF w.nType = "catchAll" THEN Fixed(here \o rest)
    ELSE IF w.nType # "param" THEN InvalidNodeType
    ELSE IF end < Len(rest)
    THEN IF w.children # <<>> THEN findRec(w.children[1], From(rest, end + 1), value, rb, fixTrailingSlash)
         ELSE IF fixTrailingSlash /\ Len(rest) = end + 1 THEN Fixed(value)
         ELSE NotFixed
    ELSE IF w.handlers # Nil THEN Fixed(value)
    ELSE IF /\ fixTrailingSlash /\ Len(w.children) = 1
            /\ w.children[1].path = <<Slash>> /\ w.children[1].handlers # Nil
    THEN Fixed(Append(value, Slash))
    ELSE NotFixed

findCaseInsensitivePath(path, fixTrailingSlash) == findRec(tree, path, <<>>, NoRune, fixTrailingSlash)

-----------------------------------------------------------------------------
(* Properties *)

Alike(p, q, fixTrailingSlash) == EqualFold(p, q) \/ (fixTrailingSlash /\ EqualFold(OtherSlash(p), q))

(* Where a request that no route is found for is redirected, with both      *)
(* redirections on (gin.go:788-793).                                        *)
LeadsTo(p, q) ==
    IF Redirected(p) THEN q = OtherSlash(p) ELSE q = findCaseInsensitivePath(p, TRUE).path

(* A catch-all that does not stand behind a letter and a slash has an empty *)
(* node before it, at which the look-up may end.                            *)
CatchAllAt(r) == {i \in DOMAIN r : r[i] \in CatchAlls}
Findable(r) == \A i \in CatchAllAt(r) : i > 2 /\ r[i - 2] \notin Wildcards

(* In unmixed trees a request is redirected to its own path up to case and, *)
(* if that is asked for, one slash at the end.  A look-up finds that path,  *)
(* except that taking a slash away may lead to a 404, but never back.       *)
(* Every path of a route is found up to case, through parameters too, if    *)
(* all routes are Findable, and up to a slash at the end if no route has a  *)
(* wildcard (gin.go:103-108, tree.go:787-878).                              *)
FixedFound ==
    Cardinality(accepted) = calls /\ Unmixed(tree) =>
        \A p \in CasedPaths \ {<<Slash>>}, fix \in BOOLEAN :
            LET f == findCaseInsensitivePath(p, fix) IN
            /\ f.kind = "fixed" =>
                  /\ Alike(p, f.path, fix)
                  /\ \/ Answer(f.path).kind = "hit"
                     \/ fix /\ Last(p) = Slash /\ (Answer(p).kind = "hit" \/ ~LeadsTo(f.path, p))
            /\ \/ /\ \A r \in accepted : Findable(r)
                  /\ \E r \in accepted : Matches(Lowered(r), Lowered(p))
               \/ /\ \A r \in accepted : Wild(r) = {}
                  /\ \E r \in accepted : Alike(p, r, fix)
               => f.kind = "fixed"

(* The node a look-up takes for the wildcard is one (tree.go:868, 916).     *)
NeverInvalidNode ==
    \A p \in CasedPaths : findCaseInsensitivePath(p, TRUE).kind # "panic"
=============================================================================
