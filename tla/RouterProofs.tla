---------------------------- MODULE RouterProofs ----------------------------
(***************************************************************************)
(* For every set of methods, routes and paths, and any number of trees and *)
(* requests: a request is given a route of its own method that matches its *)
(* path if there is one to be found, whatever its Context served before,   *)
(* and the Allow header leaves no method out.                              *)
(***************************************************************************)
EXTENDS Router, SequenceTheorems, TLAPS

P == INSTANCE RouteTreeProofs WITH tree <- trees, accepted <- registered

-----------------------------------------------------------------------------
(* The trees of RT are the trees of P *)

(* The two instances of the sequence operators compute the same.           *)
LEMMA SameSequences ==
    ASSUME NEW s, NEW t, NEW i
    PROVE  /\ P!From(s, i) = RT!From(s, i) /\ P!Last(s) = RT!Last(s) /\ P!Front(s) = RT!Front(s)
           /\ P!IsPrefix(s, t) = RT!IsPrefix(s, t) /\ P!IsSuffix(s, t) = RT!IsSuffix(s, t)
           /\ P!LowestOf(s) = RT!LowestOf(s) /\ P!HighestOf(s) = RT!HighestOf(s)
BY Zenon DEF P!From, RT!From, P!Last, RT!Last, P!Front, RT!Front, P!IsPrefix, RT!IsPrefix,
    P!IsSuffix, RT!IsSuffix, P!Reverse, RT!Reverse, P!LowestOf, RT!LowestOf, P!HighestOf, RT!HighestOf

(* So do those of the tokens and the empty tree.                           *)
LEMMA SameTokens ==
    /\ P!Slash = RT!Slash /\ P!Nil = RT!Nil /\ P!Wildcards = RT!Wildcards /\ P!Plain = RT!Plain
    /\ P!Tokens = RT!Tokens /\ P!Unlimited = RT!Unlimited /\ P!EmptyTree = RT!EmptyTree
BY Zenon DEF P!Slash, RT!Slash, P!Nil, RT!Nil, P!Wildcards, RT!Wildcards, P!Plain, RT!Plain,
    P!Tokens, RT!Tokens, P!Unlimited, RT!Unlimited, P!EmptyTree, RT!EmptyTree, P!NewNode, RT!NewNode

(* The assumption on the routes and paths, as the lemmas about one tree    *)
(* state it.                                                               *)
LEMMA RoutesHold == P!RoutesAndPaths
<1>1. RT!RoutesAndPaths
  BY RouterAssumption
<1>. QED BY <1>1, SameTokens DEF P!RoutesAndPaths, RT!RoutesAndPaths

(* A round of a look-up is the same in both.                               *)
LEMMA SameVisit ==
    ASSUME NEW s, NEW capacity
    PROVE  P!Visit(s, capacity) = RT!Visit(s, capacity)
BY Zenon DEF P!Visit, RT!Visit, P!Here, RT!Here, P!Through, RT!Through, P!ToWildcard, RT!ToWildcard,
    P!ToChild, RT!ToChild, P!GoBack, RT!GoBack, P!Resume, RT!Resume, P!SegmentEnd, RT!SegmentEnd,
    P!Found, RT!Found, P!LacksSlash, RT!LacksSlash, P!Truncated, RT!Truncated, P!Latest, RT!Latest,
    P!OutOfCapacity, RT!OutOfCapacity, P!Hit, RT!Hit, P!Miss, RT!Miss, P!Nil, RT!Nil, P!Slash, RT!Slash,
    P!From, RT!From, P!Last, RT!Last, P!Front, RT!Front, P!IsPrefix, RT!IsPrefix,
    P!IsSuffix, RT!IsSuffix, P!Reverse, RT!Reverse, P!LowestOf, RT!LowestOf, P!HighestOf, RT!HighestOf

(* A look-up is the same in both.                                          *)
LEMMA SameLookUp ==
    ASSUME NEW t, NEW path, NEW skipped, NEW capacity
    PROVE  P!getValue(t, path, skipped, capacity) = RT!getValue(t, path, skipped, capacity)
BY SameVisit, Zenon DEF P!getValue, RT!getValue, P!Looking, RT!Looking

(* So is the match of a route and a path.                                  *)
LEMMA SameMatches ==
    ASSUME NEW r, NEW path
    PROVE  P!Matches(r, path) = RT!Matches(r, path)
BY Zenon DEF P!Matches, RT!Matches, P!Reading, RT!Reading, P!Read, RT!Read, P!SegmentEnd, RT!SegmentEnd,
    P!From, RT!From, P!LowestOf, RT!LowestOf, P!Slash, RT!Slash, P!Plain, RT!Plain

(* A round that inserts is the same in both.                               *)
LEMMA SameInsertion ==
    ASSUME NEW s
    PROVE  P!insertChild(s) = RT!insertChild(s)
BY Zenon DEF P!insertChild, RT!insertChild, P!insertCatchAll, RT!insertCatchAll, P!insertParam, RT!insertParam,
    P!addChild, RT!addChild, P!Down, RT!Down, P!End, RT!End, P!NewNode, RT!NewNode, P!Nil, RT!Nil,
    P!Slash, RT!Slash, P!Wildcards, RT!Wildcards, P!From, RT!From, P!Last, RT!Last, P!Front, RT!Front,
    P!LowestOf, RT!LowestOf

(* So is one that goes down into a child.                                  *)
LEMMA SameDescent ==
    ASSUME NEW s, NEW n, NEW path
    PROVE  P!Descend(s, n, path) = RT!Descend(s, n, path)
BY ZenonT(60) DEF P!Descend, RT!Descend, P!insertChild, RT!insertChild, P!insertCatchAll, RT!insertCatchAll, P!insertParam, RT!insertParam,
    P!incrementChildPrio, RT!incrementChildPrio, P!Moved, RT!Moved,
    P!NewPosition, RT!NewPosition, P!Bumped, RT!Bumped, P!addChild, RT!addChild, P!Down, RT!Down, P!End, RT!End,
    P!NewNode, RT!NewNode, P!Nil, RT!Nil, P!Slash, RT!Slash, P!Wildcards, RT!Wildcards, P!From, RT!From,
    P!Last, RT!Last, P!Front, RT!Front, P!LowestOf, RT!LowestOf, P!HighestOf, RT!HighestOf

(* So is one that compares a path with a node's.                           *)
LEMMA SameWalk ==
    ASSUME NEW s
    PROVE  P!Walk(s) = RT!Walk(s)
<1>. DEFINE i == P!longestCommonPrefix(s.path, s.node.path)
            n == P!Split(s.node, i, s.full, s.at)
            rest == P!From(s.path, i + 1)
            last == IF n.handlers # P!Nil THEN P!End(s, n, "panic")
                    ELSE P!End(s, [n EXCEPT !.handlers = s.full, !.fullPath = s.full], "done")
<1>1. P!Walk(s) = IF rest # <<>> THEN P!Descend(s, n, rest) ELSE last
  BY Zenon DEF P!Walk
<1>2. RT!Walk(s) = IF rest # <<>> THEN RT!Descend(s, n, rest) ELSE last
  BY Zenon DEF RT!Walk, P!Split, RT!Split, P!End, RT!End, P!longestCommonPrefix, RT!longestCommonPrefix,
      P!From, RT!From, P!HighestOf, RT!HighestOf, P!Nil, RT!Nil
<1>. HIDE DEF n, rest, last
<1>3. P!Descend(s, n, rest) = RT!Descend(s, n, rest)
  BY SameDescent
<1>4. CASE rest # <<>>
  BY <1>1, <1>2, <1>3, <1>4
<1>5. CASE ~(rest # <<>>)
  BY <1>1, <1>2, <1>5
<1>. QED BY <1>4, <1>5

(* So is any round of a registration.                                      *)
LEMMA SamePlaced ==
    ASSUME NEW s
    PROVE  P!Placed(s) = RT!Placed(s)
<1>1. P!Walk(s) = RT!Walk(s) /\ P!insertChild(s) = RT!insertChild(s)
  BY SameWalk, SameInsertion
<1>2. CASE s.fate = "walk"
  BY <1>1, <1>2 DEF P!Placed, RT!Placed
<1>3. CASE s.fate = "insert"
  BY <1>1, <1>3 DEF P!Placed, RT!Placed
<1>4. CASE s.fate # "walk" /\ s.fate # "insert"
  BY <1>4 DEF P!Placed, RT!Placed
<1>. QED BY <1>2, <1>3, <1>4

(* The root that is put together again is the same in both.                *)
LEMMA SameRoot ==
    ASSUME NEW n, NEW up
    PROVE  P!Root(n, up) = RT!Root(n, up)
BY Zenon DEF P!Root, RT!Root

(* A registration is the same in both.                                     *)
LEMMA SameAdd ==
    ASSUME NEW t, NEW path
    PROVE  P!addRoute(t, path) = RT!addRoute(t, path)
<1>. DEFINE n == P!Bumped(t)
            empty == n.path = <<>> /\ n.children = <<>>
            start == [node |-> n, path |-> path, full |-> path, at |-> 0, up |-> <<>>,
                      fate |-> IF empty THEN "insert" ELSE "walk"]
            one(g) == [i \in 0..MaxRounds |-> IF i = 0 THEN start ELSE P!Placed(g[i - 1])]
            two(g) == [i \in 0..MaxRounds |-> IF i = 0 THEN start ELSE RT!Placed(g[i - 1])]
            f == CHOOSE g : g = one(g)
            h == CHOOSE g : g = two(g)
            end(g) == g[MaxRounds]
<1>1. ASSUME NEW g PROVE one(g) = two(g)
  <2>. HIDE DEF start
  <2>. QED BY SamePlaced, Zenon
<1>2. P!addRoute(t, path) =
          [node  |-> IF empty /\ end(f).fate = "done"
                     THEN [P!Root(end(f).node, end(f).up) EXCEPT !.nType = "root"]
                     ELSE P!Root(end(f).node, end(f).up),
           panic |-> end(f).fate = "panic"]
  BY Zenon DEF P!addRoute
<1>3. RT!addRoute(t, path) =
          [node  |-> IF empty /\ end(h).fate = "done"
                     THEN [RT!Root(end(h).node, end(h).up) EXCEPT !.nType = "root"]
                     ELSE RT!Root(end(h).node, end(h).up),
           panic |-> end(h).fate = "panic"]
  BY Zenon DEF RT!addRoute, RT!Bumped, P!Bumped
<1>4. f = h
  <2>. HIDE DEF one, two
  <2>. QED BY <1>1, Zenon
<1>. HIDE DEF f, h, empty
<1>5. P!Root(end(f).node, end(f).up) = RT!Root(end(h).node, end(h).up)
  BY <1>4, SameRoot
<1>. QED BY <1>2, <1>3, <1>4, <1>5

-----------------------------------------------------------------------------
(* The invariant *)

(* The routes of a method whose registration returned.                     *)
Given(method, given) == {r \in Routes : <<method, r>> \in given}

(* Every tree holds routes of its own method only.                         *)
Table(ts, given) ==
    /\ P!IsSeq(ts)
    /\ \A k \in 1..Len(ts) :
          /\ ts[k] \in [method : {ts[k].method}, root : {ts[k].root}]
          /\ P!GoodTree(Given(ts[k].method, given), ts[k].root)

Context(c) == c \in [capacity : {c.capacity}, skipped : {c.skipped}]

RouterInv == Table(trees, registered) /\ Context(idle) /\ RouteGiven /\ AllowComplete

(* A tree stays good when a registration adds routes to other trees.       *)
LEMMA TablesGrow ==
    ASSUME NEW ts, NEW given, NEW more, Table(ts, given), given \subseteq more
    PROVE  Table(ts, more)
<1>1. ASSUME NEW k \in 1..Len(ts) PROVE P!GoodTree(Given(ts[k].method, more), ts[k].root)
  <2>. DEFINE A == Given(ts[k].method, given)
              B == Given(ts[k].method, more)
  <2>1. P!GoodTree(A, ts[k].root)
    BY DEF Table
  <2>2. A \subseteq B
    BY DEF Given
  <2>. HIDE DEF A, B
  <2>3. P!GoodTree(B, ts[k].root)
    BY <2>1, <2>2, RoutesHold, P!GoodMore DEF P!GoodTree
  <2>. QED BY <2>3 DEF B
<1>. QED BY <1>1 DEF Table

(* The table has a tree for the method before anything is put into it.     *)
LEMMA WithTreeFits ==
    ASSUME Table(trees, registered), NEW method
    PROVE  LET table == WithTree(method) IN
           /\ Table(table, registered)
           /\ \E j \in 1..Len(table) : table[j].method = method
<1>. DEFINE new == [method |-> method, root |-> RT!EmptyTree]
            more == Append(trees, new)
<1>1. PICK S : trees \in Seq(S)
  BY DEF Table, P!IsSeq
<1>2. CASE TreesOf(method) # {}
  <2>1. WithTree(method) = trees
    BY <1>2 DEF WithTree
  <2>2. \E j \in 1..Len(trees) : trees[j].method = method
    BY <1>2 DEF TreesOf
  <2>. QED BY <2>1, <2>2
<1>3. CASE TreesOf(method) = {}
  <2>1. WithTree(method) = more
    BY <1>3 DEF WithTree
  <2>2. new.method = method /\ new.root = P!EmptyTree /\ new \in [method : {new.method}, root : {new.root}]
    BY SameTokens
  <2>. HIDE DEF new
  <2>3. trees \in Seq(S \cup {new}) /\ new \in S \cup {new}
    BY <1>1, SeqMonotonic
  <2>4. /\ more \in Seq(S \cup {new}) /\ Len(more) = Len(trees) + 1 /\ Len(trees) \in Nat
        /\ more[Len(trees) + 1] = new /\ \A j \in 1..Len(trees) : more[j] = trees[j]
    BY <2>3, AppendProperties
  <2>. HIDE DEF more
  <2>5. ASSUME NEW k \in 1..Len(more)
        PROVE  /\ more[k] \in [method : {more[k].method}, root : {more[k].root}]
               /\ P!GoodTree(Given(more[k].method, registered), more[k].root)
    <3>1. CASE k \in 1..Len(trees)
      BY <2>4, <3>1 DEF Table
    <3>2. CASE k \notin 1..Len(trees)
      <4>1. more[k] = new
        BY <2>4, <2>5, <3>2
      <4>2. P!GoodTree(Given(new.method, registered), P!EmptyTree)
        BY RoutesHold, P!EmptyGood
      <4>. QED BY <2>2, <4>1, <4>2
    <3>. QED BY <3>1, <3>2
  <2>6. Table(more, registered)
    BY <2>4, <2>5 DEF Table, P!IsSeq
  <2>7. Len(trees) + 1 \in 1..Len(more) /\ more[Len(trees) + 1].method = method
    BY <2>2, <2>4
  <2>. QED BY <2>1, <2>6, <2>7
<1>. QED BY <1>2, <1>3

(* A registration, whether it returns or panics, puts its route into the   *)
(* tree of its method only (gin.go:297-301, tree.go:193-292).              *)
LEMMA RegistrationKeeps ==
    ASSUME RouterInv, NEW method \in Methods, NEW path \in Routes, addRoute(method, path)
    PROVE  RouterInv'
<1>. DEFINE table == WithTree(method)
            k == CHOOSE j \in 1..Len(table) : table[j].method = method
            result == RT!addRoute(table[k].root, path)
            B == Given(method, registered')
<1>1. Table(table, registered) /\ k \in 1..Len(table) /\ table[k].method = method
  <2>1. Table(table, registered) /\ \E j \in 1..Len(table) : table[j].method = method
    BY WithTreeFits DEF RouterInv
  <2>. HIDE DEF table
  <2>. QED BY <2>1
<1>2. /\ trees' = [table EXCEPT ![k].root = result.node]
      /\ registered' = IF result.panic THEN registered ELSE registered \cup {<<method, path>>}
      /\ answer' = NoAnswer /\ idle' = idle
  BY DEF addRoute
<1>. HIDE DEF table, k
<1>3. P!GoodTree(Given(method, registered), table[k].root)
  BY <1>1 DEF Table
<1>4. P!GoodTree(B, result.node)
  <2>1. path \in Seq(P!Tokens) /\ path # <<>>
    BY RoutesHold DEF P!RoutesAndPaths
  <2>2. P!GoodTree(IF result.panic THEN Given(method, registered) ELSE Given(method, registered) \cup {path}, result.node)
    BY <1>3, <2>1, RoutesHold, SameAdd, P!AddRouteGood
  <2>. HIDE DEF result
  <2>3. B = IF result.panic THEN Given(method, registered) ELSE Given(method, registered) \cup {path}
    BY <1>2 DEF Given
  <2>. QED BY <2>2, <2>3
<1>. HIDE DEF result
<1>5. registered \subseteq registered'
  BY <1>2
<1>6. PICK S : table \in Seq(S)
  BY <1>1 DEF Table, P!IsSeq
<1>. DEFINE new == [table[k] EXCEPT !.root = result.node]
<1>7. /\ trees' \in Seq(S \cup {new}) /\ Len(trees') = Len(table)
      /\ \A j \in 1..Len(table) : trees'[j] = IF j = k THEN new ELSE table[j]
  <2>1. trees' = [table EXCEPT ![k] = new]
    BY <1>2
  <2>. HIDE DEF new
  <2>2. table \in Seq(S \cup {new}) /\ new \in S \cup {new}
    BY <1>6, SeqMonotonic
  <2>. QED BY <1>1, <2>1, <2>2, ExceptSeq
<1>8. new.method = method /\ new.root = result.node /\ new \in [method : {new.method}, root : {new.root}]
  BY <1>1 DEF Table
<1>. HIDE DEF new
<1>9. Table(table, registered')
  BY <1>1, <1>5, TablesGrow
<1>10. ASSUME NEW j \in 1..Len(trees')
       PROVE  /\ trees'[j] \in [method : {trees'[j].method}, root : {trees'[j].root}]
              /\ P!GoodTree(Given(trees'[j].method, registered'), trees'[j].root)
  <2>1. CASE j = k
    <3>1. trees'[j] = new /\ new.method = method /\ table[k].method = method
      BY <1>1, <1>7, <1>8, <1>10, <2>1
    <3>2. P!GoodTree(Given(new.method, registered'), new.root)
      BY <1>4, <1>8, <3>1
    <3>. QED BY <1>8, <3>1, <3>2
  <2>2. CASE j # k
    <3>1. trees'[j] = table[j] /\ j \in 1..Len(table)
      BY <1>7, <1>10, <2>2
    <3>2. /\ table[j] \in [method : {table[j].method}, root : {table[j].root}]
          /\ P!GoodTree(Given(table[j].method, registered'), table[j].root)
      BY <1>9, <3>1 DEF Table
    <3>. QED BY <3>1, <3>2
  <2>. QED BY <2>1, <2>2
<1>11. Table(trees', registered')
  BY <1>7, <1>10 DEF Table, P!IsSeq
<1>12. Context(idle)' /\ RouteGiven' /\ AllowComplete'
  <2>1. answer'.kind = "none"
    BY <1>2 DEF NoAnswer
  <2>. QED BY <1>2, <2>1 DEF RouterInv, Context, RouteGiven, AllowComplete
<1>. QED BY <1>11, <1>12 DEF RouterInv

-----------------------------------------------------------------------------
(* A request *)

(* A look-up in one of the trees of a method finds routes of that method.   *)
LEMMA FoundInTable ==
    ASSUME Table(trees, registered), NEW k \in 1..Len(trees), NEW path \in Paths, NEW capacity,
           NEW value, value = RT!getValue(trees[k].root, path, <<>>, capacity), value.kind = "hit"
    PROVE  <<trees[k].method, value.route>> \in registered /\ RT!Matches(value.route, path)
<1>. DEFINE A == Given(trees[k].method, registered)
<1>1. P!GoodTree(A, trees[k].root) /\ path \in Seq(P!Plain)
  BY RoutesHold DEF Table, P!RoutesAndPaths
<1>. HIDE DEF A
<1>2. P!Answered(A, path, value)
  <2>1. value = P!getValue(trees[k].root, path, <<>>, capacity)
    BY SameLookUp
  <2>2. P!Answered(A, path, P!getValue(trees[k].root, path, <<>>, capacity))
    BY <1>1, RoutesHold, P!LookUpSound
  <2>. QED BY <2>1, <2>2
<1>3. value.route \in A /\ P!Reading(value.route, path) = P!At(<<>>, value.params)
  BY <1>2 DEF P!Answered
<1>4. P!Matches(value.route, path)
  BY <1>3 DEF P!Matches, P!At
<1>. QED BY <1>3, <1>4, SameMatches DEF A, Given

(* A look-up on a Context is as good as one on its own.                     *)
LEMMA LookUps ==
    ASSUME NEW t, NEW path, NEW left, P!IsSeq(left), NEW capacity
    PROVE  LET v == RT!getValue(t, path, left, capacity) IN
           /\ P!IsSeq(v.skipped)
           /\ v.kind # "panic" /\ RT!LookUp(t, path).kind = "hit" => v.kind = "hit"
           /\ v.kind # "panic" /\ left = <<>> => (v.kind = "hit") = (RT!LookUp(t, path).kind = "hit")
<1>. DEFINE v == RT!getValue(t, path, left, capacity)
            u == RT!LookUp(t, path)
<1>1. v = P!getValue(t, path, left, capacity)
  BY SameLookUp
<1>2. u = P!getValue(t, path, <<>>, P!Unlimited)
  BY SameLookUp, SameTokens DEF RT!LookUp
<1>. DEFINE w == P!getValue(t, path, left, capacity)
            x == P!getValue(t, path, <<>>, P!Unlimited)
<1>3. /\ P!IsSeq(w.skipped)
      /\ w.kind # "panic" /\ x.kind = "hit" => w.kind = "hit"
      /\ w.kind # "panic" /\ left = <<>> => (w.kind = "hit") = (x.kind = "hit")
  BY RoutesHold, P!LookUpOverLeft
<1>. HIDE DEF v, u, w, x
<1>4. v = w /\ u = x
  BY <1>1, <1>2 DEF w, x
<1>. QED BY <1>3, <1>4 DEF v, u

(* What the look-up in the tree of the request's own method says.           *)
LEMMA OwnGiven ==
    ASSUME Table(trees, registered), NEW method, NEW path \in Paths, NEW c, c.skipped = <<>>,
           NEW value, value = OwnValue(method, path, c)
    PROVE  /\ P!IsSeq(value.skipped)
           /\ value.kind # "panic" => (value.kind = "hit") = Answers(method, path)
           /\ value.kind = "hit" =>
                 <<method, value.route>> \in registered /\ RT!Matches(value.route, path)
<1>1. P!IsSeq(<<>>)
  BY RoutesHold, P!NoSkipped
<1>2. CASE TreesOf(method) = {}
  <2>1. value = RT!Miss(FALSE, <<>>) /\ Answers(method, path) = FALSE
    BY <1>2 DEF OwnValue, Answers
  <2>2. value.kind = "miss" /\ value.skipped = <<>>
    BY <2>1 DEF RT!Miss
  <2>. QED BY <1>1, <2>1, <2>2
<1>3. CASE TreesOf(method) # {}
  <2>. DEFINE k == CHOOSE k \in TreesOf(method) : TRUE
  <2>1. k \in TreesOf(method)
    BY <1>3
  <2>2. value = RT!getValue(trees[k].root, path, <<>>, c.capacity)
    BY <1>3 DEF OwnValue
  <2>3. Answers(method, path) = (RT!LookUp(trees[k].root, path).kind = "hit")
    BY <1>3 DEF Answers
  <2>. HIDE DEF k
  <2>4. k \in 1..Len(trees) /\ trees[k].method = method
    BY <2>1 DEF TreesOf
  <2>5. /\ P!IsSeq(value.skipped)
        /\ value.kind # "panic" => (value.kind = "hit") = (RT!LookUp(trees[k].root, path).kind = "hit")
    BY <1>1, <2>2, LookUps
  <2>6. value.kind = "hit" => <<method, value.route>> \in registered /\ RT!Matches(value.route, path)
    BY <2>2, <2>4, FoundInTable
  <2>. QED BY <2>3, <2>5, <2>6
<1>. QED BY <1>2, <1>3

-----------------------------------------------------------------------------
(* The Allow header *)

(* One tree of the loop: seen is what the trees before it have said.       *)
Asking(method, path, capacity, seen, k) ==
    LET value == RT!getValue(trees[k].root, path, seen.skipped, capacity) IN
    IF k \notin Others(method) \/ seen.panic THEN seen
    ELSE [methods |-> seen.methods \cup (IF value.kind = "hit" THEN {trees[k].method} ELSE {}),
          skipped |-> value.skipped,
          panic   |-> value.kind = "panic"]

NoneSeen(left) == [methods |-> {}, skipped |-> left, panic |-> FALSE]

(* after is the loop, tree by tree.                                        *)
Asks(after, method, path, left, capacity) ==
    /\ after[0] = NoneSeen(left)
    /\ \A k \in 1..Len(trees) : after[k] = Asking(method, path, capacity, after[k - 1], k)
    /\ Allowed(method, path, left, capacity) = after[Len(trees)]

(* The recursive function in Allowed is one that Asks describes.           *)
LEMMA AskRounds ==
    ASSUME Table(trees, registered), NEW method, NEW path, NEW left, NEW capacity
    PROVE  \E after : Asks(after, method, path, left, capacity)
<1>. DEFINE n == Len(trees)
            start == NoneSeen(left)
            next(seen, k) == Asking(method, path, capacity, seen, k)
            fits(g, m) == g = [k \in 0..m |-> IF k = 0 THEN start ELSE next(g[k - 1], k)]
            T == {m \in 0..n : \E g : fits(g, m)}
<1>1. n \in Nat
  BY DEF Table, P!IsSeq
<1>3. ASSUME \E g : fits(g, n) PROVE \E after : fits(after, n) /\ Allowed(method, path, left, capacity) = after[n]
  BY <1>3, Zenon DEF Allowed, NoneSeen, Asking
<1>. HIDE DEF start, n, next
<1>4. 0 \in T
  <2>1. fits([k \in 0..0 |-> start], 0)
    OBVIOUS
  <2>2. 0 \in 0..n
    BY <1>1
  <2>. QED BY <2>1, <2>2
<1>5. ASSUME NEW m \in 1..n, m - 1 \in T PROVE m \in T
  <2>1. PICK g : fits(g, m - 1)
    BY <1>5
  <2>. DEFINE h == [k \in 0..m |-> IF k < m THEN g[k] ELSE next(g[m - 1], m)]
  <2>2. \A k \in 0 .. m - 1 : g[k] = IF k = 0 THEN start ELSE next(g[k - 1], k)
    BY <2>1
  <2>3. \A k \in 0..m : h[k] = IF k = 0 THEN start ELSE next(h[k - 1], k)
    BY <1>1, <2>2
  <2>4. h = [k \in 0..m |-> h[k]]
    OBVIOUS
  <2>. HIDE DEF h
  <2>5. fits(h, m)
    BY <2>3, <2>4
  <2>. QED BY <2>5
<1>6. n \in T
  <2>. HIDE DEF T
  <2>1. \A k \in 0..n : k \in T
    BY <1>1, <1>4, <1>5, RoutesHold, P!CountUp
  <2>. QED BY <1>1, <2>1
<1>7. PICK after : fits(after, n) /\ Allowed(method, path, left, capacity) = after[n]
  BY <1>3, <1>6
<1>8. after[0] = start /\ \A k \in 1..n : after[k] = next(after[k - 1], k)
  BY <1>1, <1>7
<1>. QED BY <1>7, <1>8 DEF Asks, start, n, next

(* A method that has a route for the path is in the list by the time its    *)
(* tree has been asked, unless a look-up ran out of room.                  *)
LEMMA AllowedAll ==
    ASSUME Table(trees, registered), NEW method, NEW path, NEW left, P!IsSeq(left), NEW capacity,
           ~Allowed(method, path, left, capacity).panic,
           NEW other, other # method, Answers(other, path)
    PROVE  other \in Allowed(method, path, left, capacity).methods
<1>1. PICK after : Asks(after, method, path, left, capacity)
  BY AskRounds
<1>. DEFINE n == Len(trees)
            k == CHOOSE k \in TreesOf(other) : TRUE
            Known(seen, i) ==
                /\ P!IsSeq(seen.skipped) /\ seen.panic \in BOOLEAN
                /\ i >= k /\ ~seen.panic => other \in seen.methods
            T == {i \in 0..n : Known(after[i], i)}
<1>2. k \in TreesOf(other) /\ RT!LookUp(trees[k].root, path).kind = "hit"
  BY DEF Answers
<1>3. n \in Nat
  BY DEF Table, P!IsSeq
<1>. HIDE DEF k
<1>4. k \in 1..n /\ trees[k].method = other /\ k \in Others(method)
  BY <1>2 DEF TreesOf, Others
<1>. HIDE DEF n
<1>5. 0 \in T
  <2>1. after[0].skipped = left /\ after[0].panic = FALSE
    BY <1>1 DEF Asks, NoneSeen
  <2>2. ~(0 >= k)
    BY <1>4
  <2>. DEFINE seen == after[0]
  <2>3. P!IsSeq(seen.skipped) /\ seen.panic = FALSE
    BY <2>1
  <2>. HIDE DEF seen
  <2>4. Known(seen, 0)
    BY <2>2, <2>3
  <2>5. 0 \in 0..n
    BY <1>3
  <2>. QED BY <2>4, <2>5 DEF seen
<1>6. ASSUME NEW i \in 1..n, i - 1 \in T PROVE i \in T
  <2>. DEFINE seen == after[i - 1]
              now == after[i]
              value == RT!getValue(trees[i].root, path, seen.skipped, capacity)
              found == IF value.kind = "hit" THEN {trees[i].method} ELSE {}
  <2>1. Known(seen, i - 1)
    BY <1>6
  <2>2. now = IF i \notin Others(method) \/ seen.panic THEN seen
              ELSE [methods |-> seen.methods \cup found, skipped |-> value.skipped,
                    panic |-> value.kind = "panic"]
    BY <1>1, <1>6 DEF Asks, Asking, n
  <2>3. i # k /\ i >= k => i - 1 >= k
    BY <1>3, <1>4, <1>6
  <2>4. CASE i \notin Others(method) \/ seen.panic
    <3>1. now = seen
      BY <2>2, <2>4
    <3>2. i = k => seen.panic
      BY <1>4, <2>4
    <3>. HIDE DEF seen, now
    <3>3. Known(now, i)
      BY <2>1, <2>3, <3>1, <3>2
    <3>. QED BY <3>3 DEF now
  <2>5. CASE ~(i \notin Others(method) \/ seen.panic)
    <3>1. /\ now.methods = seen.methods \cup found /\ now.skipped = value.skipped
          /\ now.panic = (value.kind = "panic")
      BY <2>2, <2>5
    <3>2. /\ P!IsSeq(value.skipped)
          /\ value.kind # "panic" /\ RT!LookUp(trees[i].root, path).kind = "hit" => value.kind = "hit"
      <4>1. P!IsSeq(seen.skipped)
        BY <2>1
      <4>. DEFINE t == trees[i].root
                  before == seen.skipped
                  v == RT!getValue(t, path, before, capacity)
      <4>2. P!IsSeq(before)
        BY <4>1
      <4>3. value = v
        OBVIOUS
      <4>. HIDE DEF t, before, seen, value
      <4>4. /\ P!IsSeq(v.skipped)
            /\ v.kind # "panic" /\ RT!LookUp(t, path).kind = "hit" => v.kind = "hit"
        <5>1. P!IsSeq(v.skipped)
          BY <4>2, LookUps
        <5>2. v.kind # "panic" /\ RT!LookUp(t, path).kind = "hit" => v.kind = "hit"
          BY <4>2, LookUps
        <5>. QED BY <5>1, <5>2
      <4>. HIDE DEF v
      <4>. QED BY <4>3, <4>4 DEF t
    <3>3. i = k /\ value.kind # "panic" => other \in found
      BY <1>2, <1>4, <3>2
    <3>4. i # k /\ i >= k => other \in seen.methods
      BY <2>1, <2>3, <2>5
    <3>. HIDE DEF seen, now, value, found
    <3>5. Known(now, i)
      BY <3>1, <3>2, <3>3, <3>4
    <3>. QED BY <3>5 DEF now
  <2>. QED BY <2>4, <2>5
<1>7. Known(after[n], n)
  <2>1. \A i \in 0..n : i \in T
    <3>. HIDE DEF T
    <3>. QED BY <1>3, <1>5, <1>6, RoutesHold, P!CountUp
  <2>. QED BY <1>3, <2>1
<1>8. n >= k /\ Allowed(method, path, left, capacity) = after[n]
  BY <1>1, <1>3, <1>4 DEF Asks, n
<1>. QED BY <1>7, <1>8

-----------------------------------------------------------------------------
(* The theorems *)

(* What each kind of answer says of the look-ups it comes from.            *)
LEMMA DispatchCases ==
    ASSUME NEW method, NEW path, NEW d, NEW value, value = OwnValue(method, path, d),
           NEW allowed, allowed = Allowed(method, path, value.skipped, d.capacity),
           NEW outcome, outcome = Dispatch(method, path, d)
    PROVE  /\ outcome.kind = "route" => value.kind = "hit" /\ outcome.choice = {value.route}
           /\ outcome.kind \in {"redirect", "404", "405"} => value.kind # "hit" /\ value.kind # "panic"
           /\ HandleMethodNotAllowed /\ outcome.kind \in {"404", "405"} =>
                 ~allowed.panic /\ allowed.methods \subseteq outcome.choice
<1>. DEFINE asked == IF HandleMethodNotAllowed THEN allowed
                     ELSE [methods |-> {}, skipped |-> value.skipped, panic |-> FALSE]
            redirects == /\ value.kind = "miss" /\ value.tsr /\ RedirectTrailingSlash
                         /\ method # "CONNECT" /\ path # <<RT!Slash>>
<1>1. outcome = IF value.kind = "panic" THEN Outcome("panic", {}, value.skipped)
                ELSE IF value.kind = "hit" THEN Outcome("route", {value.route}, value.skipped)
                ELSE IF redirects THEN Outcome("redirect", {}, value.skipped)
                ELSE IF asked.panic THEN Outcome("panic405", {}, asked.skipped)
                ELSE IF asked.methods # {} THEN Outcome("405", asked.methods, asked.skipped)
                ELSE Outcome("404", {}, asked.skipped)
  BY Zenon DEF Dispatch
<1>2. HandleMethodNotAllowed => asked = allowed
  OBVIOUS
<1>. HIDE DEF asked, redirects
<1>3. CASE value.kind = "panic"
  <2>1. outcome = Outcome("panic", {}, value.skipped)
    BY <1>1, <1>3
  <2>. QED BY <2>1 DEF Outcome
<1>4. CASE value.kind = "hit"
  <2>1. outcome = Outcome("route", {value.route}, value.skipped)
    BY <1>1, <1>4
  <2>. QED BY <1>4, <2>1 DEF Outcome
<1>5. CASE value.kind # "panic" /\ value.kind # "hit" /\ redirects
  <2>1. outcome = Outcome("redirect", {}, value.skipped)
    BY <1>1, <1>5
  <2>. QED BY <1>5, <2>1 DEF Outcome
<1>6. CASE value.kind # "panic" /\ value.kind # "hit" /\ ~redirects /\ asked.panic
  <2>1. outcome = Outcome("panic405", {}, asked.skipped)
    BY <1>1, <1>6
  <2>. QED BY <2>1 DEF Outcome
<1>7. CASE value.kind # "panic" /\ value.kind # "hit" /\ ~redirects /\ ~asked.panic
  <2>1. outcome = IF asked.methods # {} THEN Outcome("405", asked.methods, asked.skipped)
                  ELSE Outcome("404", {}, asked.skipped)
    BY <1>1, <1>7
  <2>2. outcome.kind \in {"404", "405"} /\ asked.methods \subseteq outcome.choice
    BY <2>1 DEF Outcome
  <2>. QED BY <1>2, <1>7, <2>2
<1>. QED BY <1>3, <1>4, <1>5, <1>6, <1>7

(* The answer to one request, on a Context whose skipped nodes are empty.   *)
LEMMA DispatchRight ==
    ASSUME Table(trees, registered), NEW method, NEW path \in Paths, NEW d, d.skipped = <<>>,
           NEW outcome, outcome = Dispatch(method, path, d)
    PROVE  /\ outcome.kind \in {"route", "redirect", "404", "405"} =>
                 (outcome.kind = "route") = Answers(method, path)
           /\ outcome.kind = "route" =>
                 \A r \in outcome.choice : <<method, r>> \in registered /\ RT!Matches(r, path)
           /\ HandleMethodNotAllowed /\ outcome.kind \in {"404", "405"} =>
                 {m \in Methods \ {method} : Answers(m, path)} \subseteq outcome.choice
<1>. DEFINE value == OwnValue(method, path, d)
            allowed == Allowed(method, path, value.skipped, d.capacity)
<1>. HIDE DEF value
<1>1. /\ P!IsSeq(value.skipped)
      /\ value.kind # "panic" => (value.kind = "hit") = Answers(method, path)
      /\ value.kind = "hit" => <<method, value.route>> \in registered /\ RT!Matches(value.route, path)
  BY OwnGiven DEF value
<1>2. HandleMethodNotAllowed /\ ~allowed.panic =>
          \A m \in Methods \ {method} : Answers(m, path) => m \in allowed.methods
  BY <1>1, AllowedAll
<1>. HIDE DEF allowed
<1>3. /\ outcome.kind = "route" => value.kind = "hit" /\ outcome.choice = {value.route}
      /\ outcome.kind \in {"redirect", "404", "405"} => value.kind # "hit" /\ value.kind # "panic"
      /\ HandleMethodNotAllowed /\ outcome.kind \in {"404", "405"} =>
            ~allowed.panic /\ allowed.methods \subseteq outcome.choice
  BY DispatchCases DEF value, allowed
<1>4. outcome.kind \in {"route", "redirect", "404", "405"} =>
          (outcome.kind = "route") = Answers(method, path)
  <2>1. CASE outcome.kind = "route"
    <3>1. value.kind = "hit"
      BY <1>3, <2>1
    <3>. QED BY <1>1, <2>1, <3>1
  <2>2. CASE outcome.kind \in {"redirect", "404", "405"}
    <3>1. value.kind # "hit" /\ value.kind # "panic" /\ outcome.kind # "route"
      BY <1>3, <2>2
    <3>. QED BY <1>1, <3>1
  <2>. QED BY <2>1, <2>2
<1>5. outcome.kind = "route" =>
          \A r \in outcome.choice : <<method, r>> \in registered /\ RT!Matches(r, path)
  BY <1>1, <1>3
<1>6. HandleMethodNotAllowed /\ outcome.kind \in {"404", "405"} =>
          {m \in Methods \ {method} : Answers(m, path)} \subseteq outcome.choice
  BY <1>2, <1>3
<1>. QED BY <1>4, <1>5, <1>6

(* A request changes neither the trees nor what is registered, and answers  *)
(* from them.                                                              *)
LEMMA RequestKeeps ==
    ASSUME RouterInv, NEW method \in Methods, NEW path \in Paths, ServeHTTP(method, path)
    PROVE  RouterInv'
<1>. DEFINE Chosen(c) == Dispatch(method, path, reset(c))
<1>1. PICK c \in {idle} \cup {allocateContext} :
          /\ answer' = [method |-> method, path |-> path, kind |-> Chosen(c).kind,
                        choice |-> Chosen(c).choice, capacity |-> c.capacity]
          /\ idle' = IF Chosen(c).kind \in {"panic", "panic405"} THEN idle
                     ELSE [c EXCEPT !.skipped = Chosen(c).skipped]
  BY DEF ServeHTTP
<1>2. trees' = trees /\ registered' = registered
  BY DEF ServeHTTP
<1>3. Context(c) /\ Context(idle)
  BY <1>1 DEF RouterInv, Context, allocateContext
<1>4. reset(c).skipped = <<>>
  BY <1>3 DEF reset, Context
<1>. DEFINE outcome == Chosen(c)
<1>5. /\ outcome.kind \in {"route", "redirect", "404", "405"} =>
            (outcome.kind = "route") = Answers(method, path)
      /\ outcome.kind = "route" =>
            \A r \in outcome.choice : <<method, r>> \in registered /\ RT!Matches(r, path)
      /\ HandleMethodNotAllowed /\ outcome.kind \in {"404", "405"} =>
            {m \in Methods \ {method} : Answers(m, path)} \subseteq outcome.choice
  BY <1>4, DispatchRight DEF RouterInv
<1>6. Context(idle')
  <2>. HIDE DEF Chosen
  <2>. QED BY <1>1, <1>3 DEF Context
<1>7. /\ answer'.method = method /\ answer'.path = path
      /\ answer'.kind = outcome.kind /\ answer'.choice = outcome.choice
  <2>. HIDE DEF Chosen
  <2>. QED BY <1>1
<1>. HIDE DEF outcome
<1>8. \A m, p : Answers(m, p)' = Answers(m, p)
  BY <1>2 DEF Answers, TreesOf
<1>9. RouteGiven'
  BY <1>2, <1>5, <1>7, <1>8 DEF RouteGiven
<1>10. AllowComplete'
  BY <1>5, <1>7, <1>8 DEF AllowComplete
<1>11. Table(trees, registered)'
  BY <1>2 DEF RouterInv
<1>. QED BY <1>6, <1>9, <1>10, <1>11 DEF RouterInv

(* The table, the pooled Context and the last answer stay right through     *)
(* every sequence of registrations and requests.                           *)
THEOREM RouterInvariant == Spec => []RouterInv
<1>1. Init => RouterInv
  <2>. SUFFICES ASSUME Init PROVE RouterInv
    OBVIOUS
  <2>1. Table(trees, registered)
    <3>1. trees = <<>> /\ P!IsSeq(<<>>)
      BY RoutesHold, P!NoSkipped DEF Init
    <3>. QED BY <3>1 DEF Table
  <2>2. Context(idle)
    BY DEF Init, Context, None
  <2>3. answer.kind = "none"
    BY DEF Init, NoAnswer
  <2>. QED BY <2>1, <2>2, <2>3 DEF RouterInv, RouteGiven, AllowComplete
<1>2. RouterInv /\ [Next]_vars => RouterInv'
  <2>. SUFFICES ASSUME RouterInv, [Next]_vars PROVE RouterInv'
    OBVIOUS
  <2>1. CASE \E m \in Methods, r \in Routes : addRoute(m, r)
    BY <2>1, RegistrationKeeps
  <2>2. CASE \E m \in Methods, p \in Paths : ServeHTTP(m, p)
    BY <2>2, RequestKeeps
  <2>3. CASE UNCHANGED vars
    <3>1. trees' = trees /\ registered' = registered /\ idle' = idle /\ answer' = answer
      BY <2>3 DEF vars
    <3>. QED BY <3>1 DEF RouterInv, RouteGiven, AllowComplete, Answers, TreesOf
  <2>. QED BY <2>1, <2>2, <2>3 DEF Next
<1>. QED BY <1>1, <1>2, PTL DEF Spec

(* Whatever a Context served before, a request is given a route exactly if  *)
(* the tree of its method has one for its path, and the route is of its     *)
(* method and matches its path (gin.go:768-785).                           *)
THEOREM RequestsGiven == Spec => []RouteGiven
<1>1. RouterInv => RouteGiven
  BY DEF RouterInv
<1>. QED BY <1>1, RouterInvariant, PTL

(* The Allow header names every other method that answers, and 404 is       *)
(* answered only if there is none (gin.go:799-809).                        *)
THEOREM AllowNamesAll == Spec => []AllowComplete
<1>1. RouterInv => AllowComplete
  BY DEF RouterInv
<1>. QED BY <1>1, RouterInvariant, PTL


=============================================================================
