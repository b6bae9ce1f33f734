----------------------------- MODULE RouteTree -----------------------------
(***************************************************************************)
(* The radix tree of one HTTP method (tree.go): addRoute with insertChild  *)
(* and incrementChildPrio, and getValue with its list of skipped nodes.    *)
(*                                                                         *)
(* A path is a sequence of tokens: "/", a letter, and, in a route, a whole *)
(* wildcard (":p" or "*c"), which the code never splits and only compares  *)
(* as a whole.  Escaped colons and wildcards without a name are left out.  *)
(* A node is a value; what a Go pointer would change in place, an operator *)
(* returns.  handlers is the route the handlers belong to, Nil if none.    *)
(*                                                                         *)
(* A loop of the code is a function over its rounds, of which there are at *)
(* most MaxRounds.  An operator with an underscore in its name is a mutant *)
(* of the one below it.                                                    *)
(***************************************************************************)
EXTENDS Integers, Sequences, SequencesExt, FiniteSets

CONSTANTS
    Params, CatchAlls,  \* the wildcard tokens
    Letters,            \* the other tokens that are not a slash
    Routes,             \* the routes that are registered, in any order
    Paths,              \* the paths that are looked up
    MaxRoutes,          \* bound: calls of addRoute
    MaxRounds           \* bound: rounds of a loop

Slash == "/"
Nil == <<>>
Wildcards == Params \cup CatchAlls
Plain == {Slash} \cup Letters
Tokens == Plain \cup Wildcards

(* The shape of every path the engine registers, up to the checks that      *)
(* insertChild makes itself.                                                *)
RoutesAndPaths ==
    /\ Params \cap CatchAlls = {} /\ Plain \cap Wildcards = {}
    /\ \A r \in Routes :
          /\ r \in Seq(Tokens) /\ r # <<>> /\ r[1] = Slash
          /\ \A i \in 1 .. Len(r) - 1 : r[i] \in Wildcards => r[i + 1] \in Wildcards \cup {Slash}
    /\ \A p \in Paths : p \in Seq(Plain) /\ p # <<>> /\ p[1] = Slash
    /\ MaxRounds \in Nat

ASSUME RoutesAssumption == RoutesAndPaths

From(s, i) == SubSeq(s, i, Len(s))
LowestOf(S) == CHOOSE x \in S : \A y \in S : x <= y
HighestOf(S) == CHOOSE x \in S : \A y \in S : x >= y

NewNode == [path |-> <<>>, indices |-> <<>>, wildChild |-> FALSE, nType |-> "static",
            priority |-> 0, children |-> <<>>, handlers |-> Nil, fullPath |-> <<>>]
EmptyTree == [NewNode EXCEPT !.fullPath = <<Slash>>]

-----------------------------------------------------------------------------
(* Registration.  A round of the loops in addRoute and insertChild is at    *)
(* one node, with the rest of the path still to place; up holds the nodes   *)
(* above it as they are by then, each with the child that was taken.        *)

Down(s, n, k, path, at, fate) ==
    [s EXCEPT !.node = n.children[k], !.path = path, !.at = at, !.fate = fate,
              !.up = Append(@, [node |-> n, child |-> k])]
End(s, n, fate) == [s EXCEPT !.node = n, !.fate = fate]

longestCommonPrefix(a, b) ==
    HighestOf({i \in 0..Len(a) : i <= Len(b) /\ SubSeq(a, 1, i) = SubSeq(b, 1, i)})

addChild_Last(n, child) == [n EXCEPT !.children = Append(@, child)]
addChild(n, child) ==
    IF n.wildChild /\ n.children # <<>>
    THEN [n EXCEPT !.children = Front(@) \o <<child, Last(n.children)>>]
    ELSE [n EXCEPT !.children = Append(@, child)]

Bumped(n) == [n EXCEPT !.priority = @ + 1]

(* The position child k moves to when its priority grows by one.            *)
NewPosition(n, k) ==
    1 + HighestOf({0} \cup {j \in 1 .. k - 1 : n.children[j].priority > n.children[k].priority})

Moved(s, k, pos) == SubSeq(s, 1, pos - 1) \o <<s[k]>> \o SubSeq(s, pos, k - 1) \o From(s, k + 1)

incrementChildPrio(n, k) ==
    [n EXCEPT !.children = Moved([n.children EXCEPT ![k] = Bumped(@)], k, NewPosition(n, k)),
              !.indices  = Moved(n.indices, k, NewPosition(n, k))]

(* The parameter at position i, with what is before it, under the node. *)
insertParam(s, i) ==
    LET n     == s.node
        rest  == From(s.path, i + 1)
        child == [NewNode EXCEPT !.nType = "param", !.path = <<s.path[i]>>,
                                 !.fullPath = s.full, !.priority = 1]
        leaf  == [child EXCEPT !.handlers = s.full]
        inner == [child EXCEPT !.children = <<[NewNode EXCEPT !.priority = 1, !.fullPath = s.full]>>]
        with(c) == [addChild([n EXCEPT !.path = IF i > 1 THEN SubSeq(s.path, 1, i - 1) ELSE @], c)
                      EXCEPT !.wildChild = TRUE]
    IN
    IF rest = <<>> THEN End(s, with(leaf), "done")
    ELSE Down(Down(s, with(inner), Len(n.children) + 1, rest, s.at, "insert"),
              inner, 1, rest, s.at, "insert")

(* The catch-all at position i, behind a slash, under a node without path. *)
insertCatchAll(s, i) ==
    LET leaf  == [NewNode EXCEPT !.path = From(s.path, i - 1), !.nType = "catchAll",
                                 !.handlers = s.full, !.priority = 1, !.fullPath = s.full]
        inner == [NewNode EXCEPT !.wildChild = TRUE, !.nType = "catchAll", !.priority = 1,
                                 !.fullPath = s.full, !.children = <<leaf>>]
        n     == [s.node EXCEPT !.path = SubSeq(s.path, 1, i - 2)]
    IN End(s, [addChild(n, inner) EXCEPT !.indices = <<Slash>>], "done")

insertChild(s) ==
    LET n    == s.node
        path == s.path
        i    == LowestOf({k \in 1..Len(path) : path[k] \in Wildcards} \cup {Len(path) + 1})
        rest == From(path, i + 1)
    IN
    IF i > Len(path)
    THEN End(s, [n EXCEPT !.path = path, !.handlers = s.full, !.fullPath = s.full], "done")
    ELSE IF rest # <<>> /\ rest[1] \in Wildcards
    THEN End(s, n, "panic")                                 \* only one wildcard per segment
    ELSE IF path[i] \in Params THEN insertParam(s, i)
    ELSE IF \/ rest # <<>>                                  \* only at the end
            \/ n.path # <<>> /\ Last(n.path) = Slash        \* conflicts with a segment
            \/ i = 1 \/ path[i - 1] # Slash                 \* no / before catch-all
    THEN End(s, n, "panic")
    ELSE insertCatchAll(s, i)

(* Split the edge of n after its first i tokens. *)
Split_LosesWildcard(n, i, full, at) ==
    IF i = Len(n.path) THEN n
    ELSE [n EXCEPT !.path = SubSeq(@, 1, i), !.indices = <<n.path[i + 1]>>, !.wildChild = FALSE,
                   !.handlers = Nil, !.fullPath = SubSeq(full, 1, at + i),
                   !.children = <<[n EXCEPT !.path = From(@, i + 1), !.nType = "static",
                                            !.wildChild = FALSE, !.priority = @ - 1]>>]
Split(n, i, full, at) ==
    IF i = Len(n.path) THEN n
    ELSE [n EXCEPT !.path = SubSeq(@, 1, i), !.indices = <<n.path[i + 1]>>, !.wildChild = FALSE,
                   !.handlers = Nil, !.fullPath = SubSeq(full, 1, at + i),
                   !.children = <<[n EXCEPT !.path = From(@, i + 1), !.nType = "static",
                                            !.priority = @ - 1]>>]

(* Below n, which path goes through. *)
Descend(s, n, path) ==
    LET below == s.at + Len(n.path)
        same  == {k \in 1..Len(n.indices) : n.indices[k] = path[1]}
        k     == LowestOf(same)
        wide  == addChild([n EXCEPT !.indices = Append(@, path[1])], [NewNode EXCEPT !.fullPath = s.full])
        new   == Len(wide.indices)
        last  == Len(n.children)
        w     == n.children[last]
        wild  == [n EXCEPT !.children[last] = Bumped(@)]
    IN
    IF n.nType = "param" /\ path[1] = Slash /\ Len(n.children) = 1
    THEN Down(s, [n EXCEPT !.children[1] = Bumped(@)], 1, path, below, "walk")
    ELSE IF same # {}
    THEN Down(s, incrementChildPrio(n, k), NewPosition(n, k), path, below, "walk")
    ELSE IF path[1] \notin Wildcards /\ n.nType # "catchAll"
    THEN Down(s, incrementChildPrio(wide, new), NewPosition(wide, new), path, s.at, "insert")
    ELSE IF ~n.wildChild THEN insertChild([s EXCEPT !.node = n, !.path = path])
    ELSE IF /\ w.nType # "catchAll" /\ path[1] = w.path[1]
            /\ Len(path) > 1 => path[2] = Slash
    THEN Down(s, wild, last, path, s.at, "walk")
    ELSE End(s, wild, "panic")                              \* conflicts with the wildcard

(* at is parentFullPathIndex. *)
Walk(s) ==
    LET i    == longestCommonPrefix(s.path, s.node.path)
        n    == Split(s.node, i, s.full, s.at)
        rest == From(s.path, i + 1)
    IN
    IF rest # <<>> THEN Descend(s, n, rest)
    ELSE IF n.handlers # Nil THEN End(s, n, "panic")
    ELSE End(s, [n EXCEPT !.handlers = s.full, !.fullPath = s.full], "done")

Placed(s) ==
    CASE s.fate = "walk" -> Walk(s) [] s.fate = "insert" -> insertChild(s) [] OTHER -> s

(* The whole tree: each node above takes the one below as its child. *)
Root(n, up) ==
    LET top[i \in 0..Len(up)] ==
            IF i = 0 THEN n
            ELSE LET above == up[Len(up) - i + 1] IN
                 [above.node EXCEPT !.children[above.child] = top[i - 1]]
    IN top[Len(up)]

(* The tree with path in it, also as far as a panic lets it come. *)
addRoute(root, path) ==
    LET n     == Bumped(root)
        empty == n.path = <<>> /\ n.children = <<>>
        start == [node |-> n, path |-> path, full |-> path, at |-> 0, up |-> <<>>,
                  fate |-> IF empty THEN "insert" ELSE "walk"]
        round[i \in 0..MaxRounds] == IF i = 0 THEN start ELSE Placed(round[i - 1])
        end   == round[MaxRounds]
        whole == Root(end.node, end.up)
    IN [node  |-> IF empty /\ end.fate = "done" THEN [whole EXCEPT !.nType = "root"] ELSE whole,
        panic |-> end.fate = "panic"]

-----------------------------------------------------------------------------
(* Look-up: getValue with the slice of skipped nodes it is given.           *)

Miss(tsr, skipped) == [kind |-> "miss", tsr |-> tsr, skipped |-> skipped]
Hit(n, params, skipped) ==
    [kind |-> "hit", route |-> n.handlers, full |-> n.fullPath, params |-> params, skipped |-> skipped]
OutOfCapacity(skipped) == [kind |-> "panic", skipped |-> skipped]
Looking == [kind |-> "none", skipped |-> <<>>]

(* The skipped node to go back to with path left, 0 if there is none.       *)
Latest_First(skipped, path) ==
    LowestOf({Len(skipped) + 1} \cup {k \in 1..Len(skipped) : IsSuffix(path, skipped[k].path)})
        % (Len(skipped) + 1)
Latest_Whole(skipped, path) ==
    HighestOf({0} \cup {k \in 1..Len(skipped) : skipped[k].path = path})
Latest(skipped, path) ==
    HighestOf({0} \cup {k \in 1..Len(skipped) : IsSuffix(path, skipped[k].path)})

(* The parameters that were bound when s was skipped. *)
Truncated_Never(params, s) == params
Truncated(params, s) == SubSeq(params, 1, s.paramsCount)

(* The node's path is the rest of the request's path and a slash. *)
LacksSlash_Prefix(n, path) == Len(n.path) = Len(path) + 1 /\ path = Front(n.path)
LacksSlash(n, path) ==
    Len(n.path) = Len(path) + 1 /\ Last(n.path) = Slash /\ path = Front(n.path) /\ n.handlers # Nil

Found(s, value) == [s EXCEPT !.value = value]

SegmentEnd(path) == LowestOf({k \in 1..Len(path) : path[k] = Slash} \cup {Len(path) + 1}) - 1

(* Back to the latest skipped node that fits, or the end of the look-up.    *)
Resume(s, k) ==
    [s EXCEPT !.node = s.skipped[k].node, !.path = s.skipped[k].path,
              !.params = Truncated(s.params, s.skipped[k]), !.skipped = SubSeq(@, 1, k - 1)]
GoBack(s, path, tsr) ==
    LET k == Latest(s.skipped, path) IN
    IF k > 0 THEN Resume(s, k) ELSE Found(s, Miss(tsr, <<>>))

(* rest is the path behind the node's own. *)
ToChild(s, rest, k, capacity) ==
    LET n    == s.node
        down == [s EXCEPT !.node = n.children[k], !.path = rest]
    IN
    IF ~n.wildChild THEN down
    ELSE IF Len(s.skipped) = capacity THEN Found(s, OutOfCapacity(s.skipped))
    ELSE [down EXCEPT !.skipped = Append(@, [path |-> s.path, node |-> [n EXCEPT !.indices = <<>>],
                                             paramsCount |-> Len(s.params)])]

ToWildcard(s, rest) ==
    LET w     == Last(s.node.children)
        end   == SegmentEnd(rest)
        bound == Append(s.params, [key   |-> w.path[Len(w.path)],
                                   value |-> IF w.nType = "param" THEN SubSeq(rest, 1, end) ELSE rest])
    IN
    IF w.nType = "catchAll" THEN Found(s, Hit(w, bound, s.skipped))
    ELSE IF end < Len(rest)
    THEN IF w.children # <<>>
         THEN [s EXCEPT !.node = w.children[1], !.path = From(rest, end + 1), !.params = bound]
         ELSE Found(s, Miss(Len(rest) = end + 1, s.skipped))
    ELSE IF w.handlers # Nil THEN Found(s, Hit(w, bound, s.skipped))
    ELSE Found(s, Miss(Len(w.children) = 1 /\ LET c == w.children[1] IN
                           \/ c.path = <<Slash>> /\ c.handlers # Nil
                           \/ c.path = <<>> /\ c.indices = <<Slash>>, s.skipped))

Through(s, capacity) ==
    LET n    == s.node
        rest == From(s.path, Len(n.path) + 1)
        same == {k \in 1..Len(n.indices) : n.indices[k] = rest[1]}
    IN
    IF same # {} THEN ToChild(s, rest, LowestOf(same), capacity)
    ELSE IF n.wildChild THEN ToWildcard(s, rest)
    ELSE IF rest = <<Slash>> THEN Found(s, Miss(n.handlers # Nil, s.skipped))
    ELSE GoBack(s, rest, FALSE)

(* The path ends with the node's own. *)
Here(s) ==
    LET n     == s.node
        below == {n.children[k] : k \in {j \in 1..Len(n.indices) : n.indices[j] = Slash}}
        tsr   == \/ s.path = <<Slash>> /\ n.nType # "root" /\ (n.wildChild \/ n.nType = "static")
                 \/ \E c \in below : \/ Len(c.path) = 1 /\ c.handlers # Nil
                                     \/ c.nType = "catchAll" /\ c.children[1].handlers # Nil
    IN
    IF n.handlers # Nil THEN Found(s, Hit(n, s.params, s.skipped))
    ELSE IF s.path = <<Slash>> THEN Found(s, Miss(tsr, s.skipped))
    ELSE GoBack(s, s.path, tsr)

Visit(s, capacity) ==
    IF s.value.kind # "none" THEN s
    ELSE IF Len(s.path) > Len(s.node.path) /\ IsPrefix(s.node.path, s.path) THEN Through(s, capacity)
    ELSE IF s.path = s.node.path THEN Here(s)
    ELSE IF s.path = <<Slash>> \/ LacksSlash(s.node, s.path) THEN Found(s, Miss(TRUE, s.skipped))
    ELSE GoBack(s, s.path, FALSE)

getValue(root, path, skipped, capacity) ==
    LET start == [node |-> root, path |-> path, params |-> <<>>, skipped |-> skipped, value |-> Looking]
        round[i \in 0..MaxRounds] == IF i = 0 THEN start ELSE Visit(round[i - 1], capacity)
    IN round[MaxRounds].value

-----------------------------------------------------------------------------
VARIABLES
    tree,       \* the root node
    accepted,   \* history: the routes whose registration returned
    calls       \* calls of addRoute so far

vars == <<tree, accepted, calls>>

Init == tree = EmptyTree /\ accepted = {} /\ calls = 0

(* A call of addRoute; a panic may be recovered by the program, which then  *)
(* goes on with the tree as the panic left it.                              *)
Register ==
    /\ calls < MaxRoutes
    /\ calls' = calls + 1
    /\ \E r \in Routes :
          LET result == addRoute(tree, r) IN
          /\ tree' = result.node
          /\ accepted' = accepted \cup (IF result.panic THEN {} ELSE {r})

Next == Register \/ (calls = MaxRoutes /\ UNCHANGED vars)

Spec == Init /\ [][Next]_vars

-----------------------------------------------------------------------------
(* What the tree is for: the reference the look-up is compared with.        *)

(* A route is read token by token, each one taking its part of the path. *)
Read(m, token) ==
    LET end == SegmentEnd(m.rest) IN
    CASE token \in CatchAlls ->
            [m EXCEPT !.rest = <<>>,
                      !.params = Append(@, [key |-> token, value |-> <<Slash>> \o m.rest])]
      [] token \in Params /\ m.rest # <<>> ->
            [m EXCEPT !.rest = From(@, end + 1),
                      !.params = Append(@, [key |-> token, value |-> SubSeq(m.rest, 1, end)])]
      [] token \in Plain /\ m.rest # <<>> /\ token = m.rest[1] -> [m EXCEPT !.rest = Tail(@)]
      [] OTHER -> [m EXCEPT !.fits = FALSE]

Reading(r, p) ==
    LET read[i \in 0..Len(r)] ==
            IF i = 0 THEN [fits |-> TRUE, rest |-> p, params |-> <<>>] ELSE Read(read[i - 1], r[i])
    IN read[Len(r)]

Matches(r, p) == LET m == Reading(r, p) IN m.fits /\ m.rest = <<>>
Bindings(r, p) == Reading(r, p).params

MatchingRoutes(p) == {r \in accepted : Matches(r, p)}

(* Of two routes that match, the one that has a letter where the other      *)
(* first has a wildcard is the better one.                                  *)
Better(r, s) ==
    \E i \in 1..Len(r) :
        /\ i <= Len(s) /\ SubSeq(r, 1, i - 1) = SubSeq(s, 1, i - 1)
        /\ r[i] \notin Wildcards /\ s[i] \in Wildcards

Wild(r) == {i \in 1..Len(r) : r[i] \in Wildcards}

(* A look-up that starts with nothing skipped and never runs out of room. *)
Unlimited == -1
LookUp(t, p) == getValue(t, p, <<>>, Unlimited)
Answer(p) == LookUp(tree, p)

(* Where redirectTrailingSlash sends a client. *)
OtherSlash(p) == IF Len(p) > 1 /\ Last(p) = Slash THEN Front(p) ELSE Append(p, Slash)
Redirected(p) == p # <<Slash>> /\ LET f == Answer(p) IN f.kind = "miss" /\ f.tsr

-----------------------------------------------------------------------------
(* Properties *)

(* What a look-up answers is a registered route that matches the path, with *)
(* the values the route binds, after any backtracking, and also in a tree   *)
(* that panicking registrations have left behind (tree.go:463-710).         *)
Sound ==
    \A p \in Paths :
        LET f == Answer(p) IN
        f.kind = "hit" =>
            /\ f.route \in accepted /\ f.full = f.route
            /\ Matches(f.route, p) /\ f.params = Bindings(f.route, p)

(* No registered route that matches is better than the one that is found,   *)
(* and one without wildcards is always found, whatever wildcards compete    *)
(* with it and whatever registrations panicked (tree.go:470-516).  The      *)
(* bound cuts no look-up short.                                             *)
BestFound ==
    \A p \in Paths :
        LET f == Answer(p) IN
        /\ f.kind # "none"
        /\ f.kind = "hit" => \A r \in MatchingRoutes(p) : ~Better(r, f.route)
        /\ p \in accepted => f.kind = "hit" /\ f.route = p

(* Which route a path finds does not depend on the order of registration.   *)
OrderIndependent ==
    Cardinality(accepted) = calls =>
        LET other == FoldSet(LAMBDA r, t : addRoute(t, r).node, EmptyTree, accepted) IN
        \A p \in Paths :
            LET f == Answer(p) g == LookUp(other, p) IN
            /\ f.kind = g.kind
            /\ f.kind = "hit" => f.route = g.route /\ f.params = g.params

(* All that r has behind a parameter is a slash, or a catch-all.  Where a   *)
(* letter competes with the parameter such a route may be missed: with      *)
(* /ab, /a/:q and /:p/ the path /a goes back to /:p/ and is sent to /a/,    *)
(* which ends at the slash before :q and is sent to /a (tree.go:590, 635,   *)
(* 661).                                                                    *)
SlashOnly(r) ==
    \E i \in Wild(r) : i < Len(r) /\ (i + 1 = Len(r) \/ r[i + 2] \in CatchAlls)

(* No redirect for a trailing slash leads back to where it came from, in a  *)
(* tree without such routes, and as long as no registration panicked: what  *)
(* /:p/*c/ leaves behind, with /:p/a added, sends /x to /x/ and back        *)
(* (tree.go:590, 685).                                                      *)
NoRedirectLoop ==
    Cardinality(accepted) = calls /\ (\A r \in accepted : ~SlashOnly(r)) =>
        \A p \in Paths : Last(p) # Slash /\ Redirected(p) => ~Redirected(OtherSlash(p))

(* A path that a registered route matches is answered, if need be after one *)
(* redirect for a trailing slash (tree.go:460).                             *)
Complete ==
    \A p \in Paths :
        MatchingRoutes(p) # {} =>
            \/ Answer(p).kind = "hit"
            \/ Redirected(p) /\ Answer(OtherSlash(p)).kind = "hit"

(* So it is if no registration panicked and no route has more than one      *)
(* wildcard, which then fills a segment and has more behind it than a       *)
(* slash, or nothing.                                                       *)
CompleteForOneWildcard ==
    /\ Cardinality(accepted) = calls
    /\ \A r \in accepted :
          /\ Cardinality(Wild(r)) <= 1 /\ ~SlashOnly(r)
          /\ \A i \in Wild(r) : r[i - 1] = Slash
    => Complete

=============================================================================
