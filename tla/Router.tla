------------------------------- MODULE Router -------------------------------
(***************************************************************************)
(* The engine's table of routing trees: Engine.addRoute, which fills it,   *)
(* and the dispatch of handleHTTPRequest up to the choice of the handlers, *)
(* with the list of skipped nodes that a pooled Context carries from one   *)
(* look-up to the next (gin.go 297-301, 409-438, 723-820).                 *)
(*                                                                         *)
(* A request runs in one step: its Context is its own, and the trees must  *)
(* not change while it runs; between requests routes may be added.  Left   *)
(* out: fixed-path redirects, escaped and raw paths, and the slice of      *)
(* parameters, which reset empties as it does the skipped nodes.           *)
(***************************************************************************)
EXTENDS Integers, Sequences, SequencesExt, FiniteSets

CONSTANTS
    Params, CatchAlls, Letters, \* the tokens, see RouteTree
    Methods,                    \* HTTP methods
    Routes,                     \* the paths that are registered
    Paths,                      \* the paths that are requested
    MaxRoutes,                  \* bound: calls of addRoute
    MaxRounds,                  \* bound: rounds of a loop in a tree
    RedirectTrailingSlash, HandleMethodNotAllowed  \* options of the engine

VARIABLES
    trees,          \* engine.trees: a sequence of [method, root]
    maxSections,    \* engine.maxSections
    idle,           \* a Context in the pool: the capacity of its skippedNodes and
                    \* what the last look-up left in them; None before the first request
    registered,     \* history: the <<method, path>> whose registration returned
    calls,          \* calls of addRoute so far
    answer          \* the last request and what was chosen for it

vars == <<trees, maxSections, idle, registered, calls, answer>>

RT == INSTANCE RouteTree WITH tree <- trees, accepted <- registered

ASSUME RouterAssumption == RT!RoutesAndPaths

None == [capacity |-> -1, skipped |-> <<>>]
NoAnswer == [kind |-> "none"]

Init ==
    /\ trees = <<>> /\ maxSections = 0 /\ idle = None
    /\ registered = {} /\ calls = 0 /\ answer = NoAnswer

-----------------------------------------------------------------------------
(* Registration *)

countSections_Wildcards(path) == Cardinality({i \in 1..Len(path) : path[i] \in RT!Wildcards})
countSections(path) == Cardinality({i \in 1..Len(path) : path[i] = RT!Slash})

TreesOf(method) == {k \in 1..Len(trees) : trees[k].method = method}

(* The table with a tree for the method, which stays there even if the      *)
(* insertion panics.                                                        *)
WithTree(method) ==
    IF TreesOf(method) # {} THEN trees
    ELSE Append(trees, [method |-> method, root |-> RT!EmptyTree])

addRoute(method, path) ==
    /\ calls < MaxRoutes /\ calls' = calls + 1
    /\ LET table  == WithTree(method)
           k      == CHOOSE j \in 1..Len(table) : table[j].method = method
           result == RT!addRoute(table[k].root, path)
       IN /\ trees' = [table EXCEPT ![k].root = result.node]
          /\ IF result.panic
             THEN UNCHANGED <<maxSections, registered>>
             ELSE /\ maxSections' = RT!HighestOf({maxSections, countSections(path)})
                  /\ registered' = registered \cup {<<method, path>>}
    /\ answer' = NoAnswer
    /\ UNCHANGED idle

-----------------------------------------------------------------------------
(* Dispatch *)

allocateContext == [capacity |-> maxSections, skipped |-> <<>>]

reset_KeepsSkipped(c) == c
reset(c) == [c EXCEPT !.skipped = <<>>]

(* The look-up in the tree of the request's own method. *)
OwnValue(method, path, c) ==
    IF TreesOf(method) = {} THEN RT!Miss(FALSE, c.skipped)
    ELSE RT!getValue(trees[CHOOSE k \in TreesOf(method) : TRUE].root, path, c.skipped, c.capacity)

(* The look-ups in the other trees, one after the other over the same       *)
(* slice of skipped nodes: the methods that answer, and whether one of the  *)
(* look-ups ran out of the slice's capacity.                                *)
Others_SkipsFirst(method) == {k \in 2..Len(trees) : trees[k].method # method}
Others(method) == {k \in 1..Len(trees) : trees[k].method # method}

Allowed(method, path, left, capacity) ==
    LET Asked(seen, k) ==
            LET value == RT!getValue(trees[k].root, path, seen.skipped, capacity) IN
            IF k \notin Others(method) \/ seen.panic THEN seen
            ELSE [methods |-> seen.methods \cup (IF value.kind = "hit" THEN {trees[k].method} ELSE {}),
                  skipped |-> value.skipped,
                  panic   |-> value.kind = "panic"]
        after[k \in 0..Len(trees)] ==
            IF k = 0 THEN [methods |-> {}, skipped |-> left, panic |-> FALSE] ELSE Asked(after[k - 1], k)
    IN after[Len(trees)]

(* choice holds the route that is given, or the methods of the Allow header. *)
Outcome(kind, choice, skipped) == [kind |-> kind, choice |-> choice, skipped |-> skipped]

(* What handleHTTPRequest chooses, and the skipped nodes it leaves behind.  *)
Dispatch(method, path, c) ==
    LET value   == OwnValue(method, path, c)
        allowed == IF HandleMethodNotAllowed
                   THEN Allowed(method, path, value.skipped, c.capacity)
                   ELSE [methods |-> {}, skipped |-> value.skipped, panic |-> FALSE]
        redirects == /\ value.kind = "miss" /\ value.tsr /\ RedirectTrailingSlash
                     /\ method # "CONNECT" /\ path # <<RT!Slash>>
    IN
    IF value.kind = "panic" THEN Outcome("panic", {}, value.skipped)
    ELSE IF value.kind = "hit"
    THEN Outcome("route", {value.route}, value.skipped)
    ELSE IF redirects THEN Outcome("redirect", {}, value.skipped)
    ELSE IF allowed.panic THEN Outcome("panic405", {}, allowed.skipped)
    ELSE IF allowed.methods # {}
    THEN Outcome("405", allowed.methods, allowed.skipped)
    ELSE Outcome("404", {}, allowed.skipped)

(* One request.  The pool gives back a Context or allocates one; a panic    *)
(* in the look-up passes pool.Put.                                          *)
ServeHTTP(method, path) ==
    \E c \in ({idle} \ {None}) \cup {allocateContext} :
        LET outcome == Dispatch(method, path, reset(c)) IN
        /\ answer' = [method |-> method, path |-> path, kind |-> outcome.kind,
                      choice |-> outcome.choice, capacity |-> c.capacity]
        /\ idle' = IF outcome.kind \in {"panic", "panic405"} THEN idle
                   ELSE [c EXCEPT !.skipped = outcome.skipped]
        /\ UNCHANGED <<trees, maxSections, registered, calls>>

Next ==
    \/ \E m \in Methods, r \in Routes : addRoute(m, r)
    \/ \E m \in Methods, p \in Paths : ServeHTTP(m, p)

Spec == Init /\ [][Next]_vars

-----------------------------------------------------------------------------
(* Properties *)

Answers(m, p) ==
    TreesOf(m) # {} /\
    RT!LookUp(trees[CHOOSE k \in TreesOf(m) : TRUE].root, p).kind = "hit"

(* The look-up in the method's own tree runs out of the capacity only on a  *)
(* Context that is older than the route with the most sections, as long as  *)
(* no registration panicked, which leaves nodes that maxSections does not   *)
(* count (tree.go:480, gin.go:435).                                         *)
OwnLookupFits ==
    Cardinality(registered) = calls /\ answer.kind = "panic" => answer.capacity < maxSections

(* A request is given a route exactly if a look-up in its method's tree     *)
(* alone, with nothing skipped before, finds one, on any Context and        *)
(* whatever the Context served before; the route is of its method and       *)
(* matches its path (gin.go:768-785).                                       *)
RouteGiven ==
    /\ answer.kind \in {"route", "redirect", "404", "405"} =>
          (answer.kind = "route") = Answers(answer.method, answer.path)
    /\ answer.kind = "route" =>
          \A r \in answer.choice :
              <<answer.method, r>> \in registered /\ RT!Matches(r, answer.path)

(* The Allow header leaves out no method that has a route for the path, and *)
(* the answer is 404 only if there is none (gin.go:111-116).                *)
AllowComplete ==
    HandleMethodNotAllowed /\ answer.kind \in {"404", "405"} =>
        {m \in Methods \ {answer.method} : Answers(m, answer.path)} \subseteq answer.choice
=============================================================================
