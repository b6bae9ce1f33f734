-------------------------- MODULE RouteTreeProofs --------------------------
(***************************************************************************)
(* For every set of routes and paths, and any number of rounds: what the   *)
(* tree answers is a registered route that matches the path.               *)
(***************************************************************************)
EXTENDS RouteTree, SequenceTheorems, WellFoundedInduction, TLAPS

-----------------------------------------------------------------------------
(* Numbers and sequences *)

(* What holds of 0 and goes from each number to the next holds up to m.    *)
LEMMA CountUp ==
    ASSUME NEW m \in Nat, NEW T, 0 \in T, \A i \in 1..m : i - 1 \in T => i \in T
    PROVE  \A i \in 0..m : i \in T
<1>1. SUFFICES ASSUME (0..m) \ T # {} PROVE FALSE
  OBVIOUS
<1>2. PICK x \in (0..m) \ T : \A y \in (0..m) \ T : ~(<<y, x>> \in OpToRel(<, Nat))
  <2>1. (0..m) \ T \subseteq Nat
    OBVIOUS
  <2>. HIDE <1>1
  <2>. QED BY <1>1, <2>1, NatLessThanWellFounded, WFMin
<1>3. x \in 0..m /\ x \notin T
  OBVIOUS
<1>4. x # 0
  BY <1>3
<1>5. x \in 1..m /\ x - 1 \in 0..m /\ x - 1 \in Nat /\ x \in Nat /\ x - 1 < x
  BY <1>3, <1>4
<1>6. <<x - 1, x>> \in OpToRel(<, Nat)
  BY <1>5 DEF OpToRel
<1>7. x - 1 \in T
  BY <1>2, <1>5, <1>6
<1>. QED BY <1>3, <1>5, <1>7

(* The least of a set of natural numbers.                                  *)
LEMMA Lowest ==
    ASSUME NEW S \in SUBSET Nat, S # {}
    PROVE  LowestOf(S) \in S /\ \A y \in S : LowestOf(S) <= y
<1>1. PICK x \in S : \A y \in S : ~(<<y, x>> \in OpToRel(<, Nat))
  BY NatLessThanWellFounded, WFMin
<1>2. \A y \in S : x <= y
  <2>1. SUFFICES ASSUME NEW y \in S, y < x PROVE FALSE
    BY SMT
  <2>2. <<y, x>> \in OpToRel(<, Nat)
    BY <2>1 DEF OpToRel
  <2>. QED BY <1>1, <2>2
<1>. QED BY <1>2 DEF LowestOf

(* The greatest of a set of numbers that has a bound.                      *)
LEMMA Highest ==
    ASSUME NEW m \in Nat, NEW S \in SUBSET (0..m), S # {}
    PROVE  HighestOf(S) \in S /\ \A y \in S : HighestOf(S) >= y
<1>. DEFINE T == {m - x : x \in S}
<1>1. T \in SUBSET Nat /\ T # {}
  OBVIOUS
<1>. HIDE DEF T
<1>2. LowestOf(T) \in T /\ \A y \in T : LowestOf(T) <= y
  BY <1>1, Lowest
<1>3. PICK x \in S : LowestOf(T) = m - x
  BY <1>2 DEF T
<1>4. \A y \in S : x >= y
  <2>1. TAKE y \in S
  <2>2. m - y \in T
    BY DEF T
  <2>3. m - x <= m - y
    BY <1>2, <1>3, <2>2
  <2>. QED BY <2>3
<1>. QED BY <1>4 DEF HighestOf

IsSeq(s) == \E S : s \in Seq(S)

(* The end of a path's first segment.                                      *)
LEMMA SegmentEndFits ==
    ASSUME NEW path \in Seq(Plain)
    PROVE  SegmentEnd(path) \in 0..Len(path)
<1>. DEFINE S == {k \in 1..Len(path) : path[k] = Slash} \cup {Len(path) + 1}
<1>1. S \in SUBSET Nat /\ S # {} /\ S \subseteq 1 .. Len(path) + 1
  OBVIOUS
<1>2. LowestOf(S) \in S
  <2>. HIDE DEF S
  <2>. QED BY <1>1, Lowest
<1>3. SegmentEnd(path) = LowestOf(S) - 1
  BY DEF SegmentEnd
<1>4. Len(path) \in Nat
  OBVIOUS
<1>5. LowestOf(S) \in 1 .. Len(path) + 1
  <2>. HIDE DEF S
  <2>. QED BY <1>1, <1>2
<1>6. ASSUME NEW x \in 1 .. Len(path) + 1 PROVE x - 1 \in 0..Len(path)
  BY <1>4
<1>. QED
  <2>. HIDE DEF S
  <2>. QED BY <1>3, <1>5, <1>6

(* What is left of a sequence behind one of its positions.                 *)
LEMMA FromType ==
    ASSUME NEW S, NEW s \in Seq(S), NEW i \in 1 .. Len(s) + 1
    PROVE  /\ From(s, i) \in Seq(S) /\ Len(From(s, i)) = Len(s) - i + 1
           /\ \A j \in 1 .. Len(s) - i + 1 : From(s, i)[j] = s[i + j - 1]
<1>1. Len(s) \in Nat /\ i \in Int /\ \A j \in i..Len(s) : s[j] \in S
  BY ElementOfSeq
<1>. QED BY <1>1, SubSeqProperties DEF From

(* The rest of a sequence is its next element and the rest after that.     *)
LEMMA FromTail ==
    ASSUME NEW S, NEW s \in Seq(S), NEW i \in 1..Len(s)
    PROVE  From(s, i) # <<>> /\ From(s, i)[1] = s[i] /\ Tail(From(s, i)) = From(s, i + 1)
<1>1. Len(s) \in Nat /\ Len(s) \in i..Len(s)
  OBVIOUS
<1>2. Len(From(s, i)) > 0 /\ From(s, i)[1] = s[i] /\ From(s, i) \in Seq(S)
  BY <1>1, FromType
<1>3. Tail(From(s, i)) = From(s, i + 1)
  BY <1>1, HeadTailOfSubSeq DEF From
<1>. QED BY <1>2, <1>3

(* A route has a token's place after a prefix and before the rest.         *)
LEMMA SplitAt ==
    ASSUME NEW S, NEW s \in Seq(S), NEW i \in 0..Len(s)
    PROVE  /\ SubSeq(s, 1, i) \in Seq(S) /\ Len(SubSeq(s, 1, i)) = i
           /\ \A j \in 1..i : SubSeq(s, 1, i)[j] = s[j]
           /\ s = SubSeq(s, 1, i) \o From(s, i + 1)
<1>1. Len(s) \in Nat /\ i \in Int /\ 1 \in Int /\ \A j \in 1..i : s[j] \in S
  BY ElementOfSeq
<1>2. /\ SubSeq(s, 1, i) \in Seq(S) /\ Len(SubSeq(s, 1, i)) = i
      /\ \A j \in 1..i : SubSeq(s, 1, i)[j] = s[j]
  BY <1>1, SubSeqProperties
<1>3. SubSeq(s, 1, i) \o SubSeq(s, i + 1, Len(s)) = SubSeq(s, 1, Len(s))
  <2>1. 1 \in 1 .. Len(s) + 1 /\ i \in 1 - 1 .. Len(s) /\ Len(s) \in i .. Len(s)
    BY <1>1
  <2>. QED BY <2>1, ConcatAdjacentSubSeq
<1>. QED BY <1>2, <1>3, SubSeqFull DEF From

-----------------------------------------------------------------------------
(* The reference, token by token *)

At(rest, params) == [fits |-> TRUE, rest |-> rest, params |-> params]

(* read takes the route's tokens one after the other.                      *)
Reads(read, r, p) ==
    /\ read[0] = At(p, <<>>) /\ Reading(r, p) = read[Len(r)]
    /\ \A i \in 1..Len(r) : read[i] = Read(read[i - 1], r[i])

(* The recursive function in Reading is one that Reads describes.          *)
LEMMA ReadingRounds ==
    ASSUME NEW r \in Seq(Tokens), NEW p
    PROVE  \E read : Reads(read, r, p)
<1>. DEFINE start == At(p, <<>>)
            m == Len(r)
            fits(g, k) == g = [i \in 0..k |-> IF i = 0 THEN start ELSE Read(g[i - 1], r[i])]
            T == {k \in 0..m : \E g : fits(g, k)}
<1>1. m \in Nat
  OBVIOUS
<1>. HIDE DEF start, m
<1>2. 0 \in T
  <2>1. fits([i \in 0..0 |-> start], 0)
    OBVIOUS
  <2>2. 0 \in 0..m
    BY <1>1
  <2>. QED BY <2>1, <2>2
<1>3. ASSUME NEW k \in 1..m, k - 1 \in T PROVE k \in T
  <2>1. PICK g : fits(g, k - 1)
    BY <1>3
  <2>. DEFINE h == [i \in 0..k |-> IF i < k THEN g[i] ELSE Read(g[k - 1], r[k])]
  <2>2. \A i \in 0 .. k - 1 : g[i] = IF i = 0 THEN start ELSE Read(g[i - 1], r[i])
    BY <2>1
  <2>3. \A i \in 0..k : h[i] = IF i = 0 THEN start ELSE Read(h[i - 1], r[i])
    BY <1>1, <2>2
  <2>4. h = [i \in 0..k |-> h[i]]
    OBVIOUS
  <2>. HIDE DEF h
  <2>5. fits(h, k)
    BY <2>3, <2>4
  <2>. QED BY <2>5
<1>4. m \in T
  <2>. HIDE DEF T
  <2>1. \A i \in 0..m : i \in T
    BY <1>1, <1>2, <1>3, CountUp
  <2>. QED BY <1>1, <2>1
<1>5. PICK g : fits(g, m)
  BY <1>4
<1>6. PICK read : fits(read, m) /\ Reading(r, p) = read[m]
  BY <1>5 DEF Reading, start, m, At
<1>7. read[0] = start /\ \A i \in 1..m : read[i] = Read(read[i - 1], r[i])
  BY <1>1, <1>6
<1>. QED BY <1>6, <1>7 DEF Reads, start, m

(* Reading is done from left to right: one more token is read last.        *)
LEMMA ReadingAppend ==
    ASSUME NEW r \in Seq(Tokens), NEW t \in Tokens, NEW p
    PROVE  Reading(Append(r, t), p) = Read(Reading(r, p), t)
<1>. DEFINE q == Append(r, t)
<1>1. /\ q \in Seq(Tokens) /\ Len(q) = Len(r) + 1 /\ Len(r) \in Nat /\ q[Len(r) + 1] = t
      /\ \A i \in 1..Len(r) : q[i] = r[i]
  BY AppendProperties
<1>. HIDE DEF q
<1>2. PICK f : Reads(f, r, p)
  BY ReadingRounds
<1>3. PICK g : Reads(g, q, p)
  BY <1>1, ReadingRounds
<1>. DEFINE T == {i \in 0..Len(r) : f[i] = g[i]}
<1>4. 0 \in T
  BY <1>1, <1>2, <1>3 DEF Reads
<1>5. ASSUME NEW i \in 1..Len(r), i - 1 \in T PROVE i \in T
  <2>1. f[i] = Read(f[i - 1], r[i]) /\ g[i] = Read(g[i - 1], q[i])
    BY <1>1, <1>2, <1>3 DEF Reads
  <2>. QED BY <1>1, <1>5, <2>1
<1>6. f[Len(r)] = g[Len(r)]
  <2>1. \A i \in 0..Len(r) : i \in T
    <3>. HIDE DEF T
    <3>. QED BY <1>1, <1>4, <1>5, CountUp
  <2>. QED BY <1>1, <2>1
<1>7. g[Len(r) + 1] = Read(g[Len(r)], t)
  <2>1. Len(r) + 1 \in 1..Len(q) /\ Len(r) + 1 - 1 = Len(r)
    BY <1>1
  <2>. QED BY <1>1, <1>3, <2>1 DEF Reads
<1>. QED BY <1>1, <1>2, <1>3, <1>6, <1>7 DEF Reads, q

(* Before anything is read.                                                *)
LEMMA ReadingNothing ==
    ASSUME NEW p
    PROVE  Reading(<<>>, p) = At(p, <<>>)
<1>1. <<>> \in Seq(Tokens) /\ Len(<<>>) = 0
  BY EmptySeq
<1>. QED BY <1>1, ReadingRounds DEF Reads

(* Plain tokens are read by taking them off the path.                      *)
LEMMA ReadPlain ==
    ASSUME RoutesAndPaths,
           NEW a \in Seq(Tokens), NEW u \in Seq(Plain), NEW v \in Seq(Plain), NEW p, NEW q,
           Len(u) <= Len(v), SubSeq(u, 1, Len(u)) = SubSeq(v, 1, Len(u)),
           Reading(a, p) = At(v, q)
    PROVE  Reading(a \o u, p) = At(From(v, Len(u) + 1), q)
<1>. DEFINE done(i) == a \o SubSeq(u, 1, i)
            T == {i \in 0..Len(u) : Reading(done(i), p) = At(From(v, i + 1), q)}
<1>1. Len(u) \in Nat /\ Len(v) \in Nat /\ u \in Seq(Tokens)
  BY SeqMonotonic DEF Tokens
<1>2. ASSUME NEW i \in 0..Len(u)
      PROVE  done(i) \in Seq(Tokens) /\ Len(SubSeq(u, 1, i)) = i /\ SubSeq(u, 1, i) \in Seq(Tokens)
  BY <1>1, SplitAt, ConcatProperties
<1>3. \A i \in 1..Len(u) : u[i] = v[i]
  <2>1. Len(u) \in 0..Len(v) /\ Len(u) \in 0..Len(u)
    BY <1>1
  <2>2. /\ \A j \in 1..Len(u) : SubSeq(u, 1, Len(u))[j] = u[j]
        /\ \A j \in 1..Len(u) : SubSeq(v, 1, Len(u))[j] = v[j]
    BY <2>1, SplitAt
  <2>. QED BY <2>2
<1>4. 0 \in T
  <2>1. SubSeq(u, 1, 0) = <<>>
    BY SubSeqEmpty
  <2>2. done(0) = a
    BY <2>1, ConcatEmptySeq
  <2>3. From(v, 0 + 1) = v
    BY SubSeqFull DEF From
  <2>4. 0 \in 0..Len(u)
    BY <1>1
  <2>. HIDE DEF done
  <2>. QED BY <2>2, <2>3, <2>4
<1>5. ASSUME NEW i \in 1..Len(u), i - 1 \in T PROVE i \in T
  <2>1. /\ i \in 1..Len(v) /\ i \in 0..Len(u) /\ i - 1 \in 0..Len(u)
        /\ u[i] \in Plain /\ u[i] \in Tokens /\ u[i] = v[i]
    BY <1>1, <1>3, ElementOfSeq DEF Tokens
  <2>2. done(i) = Append(done(i - 1), u[i])
    <3>1. SubSeq(u, 1, i) = SubSeq(u, 1, i - 1) \o <<u[i]>>
      <4>1. 1 \in 1..Len(u) /\ i \in 1..Len(u)
        BY <1>1
      <4>. QED BY <4>1, SubSeqRecursiveSecond
    <3>2. <<u[i]>> \in Seq(Tokens)
      BY <2>1
    <3>3. done(i) = done(i - 1) \o <<u[i]>>
      BY <1>2, <2>1, <3>1, <3>2, ConcatAssociative
    <3>4. done(i - 1) \in Seq(Tokens)
      BY <1>2, <2>1
    <3>. HIDE DEF done
    <3>. QED BY <2>1, <3>3, <3>4, AppendIsConcat
  <2>3. done(i - 1) \in Seq(Tokens)
    BY <1>2, <2>1
  <2>. DEFINE w == From(v, i)
  <2>4. w # <<>> /\ w[1] = u[i] /\ Tail(w) = From(v, i + 1)
    BY <2>1, FromTail
  <2>5. Reading(done(i - 1), p) = At(w, q)
    BY <1>1, <1>5
  <2>6. u[i] \notin CatchAlls /\ u[i] \notin Params
    BY <2>1 DEF RoutesAndPaths, Wildcards
  <2>. HIDE DEF w, done
  <2>7. Read(At(w, q), u[i]) = At(Tail(w), q)
    BY <2>1, <2>4, <2>6 DEF Read, At
  <2>8. Reading(done(i), p) = At(From(v, i + 1), q)
    BY ZenonT(60), <2>1, <2>2, <2>3, <2>4, <2>5, <2>7, ReadingAppend
  <2>. QED BY <2>1, <2>8
<1>6. Reading(done(Len(u)), p) = At(From(v, Len(u) + 1), q)
  <2>1. \A i \in 0..Len(u) : i \in T
    <3>. HIDE DEF T
    <3>. QED BY <1>1, <1>4, <1>5, CountUp
  <2>. QED BY <1>1, <2>1
<1>7. done(Len(u)) = a \o u
  BY SubSeqFull
<1>. QED BY <1>6, <1>7

-----------------------------------------------------------------------------
(* The shape of a tree *)

Kinds == {"static", "root", "param", "catchAll"}

Node(m) ==
    /\ m \in [path : Seq(Tokens), indices : Seq(Tokens), wildChild : BOOLEAN, nType : Kinds,
              priority : {m.priority}, children : {m.children},
              handlers : {m.handlers}, fullPath : {m.fullPath}]
    /\ IsSeq(m.children)

Base(m) == m.nType \in {"static", "root"}
Param(m) == m.nType = "param"
Inner(m) == m.nType = "catchAll" /\ m.wildChild    \* the catch-all node without a path
Leaf(m) == m.nType = "catchAll" /\ ~m.wildChild    \* the one below it

(* What a node of each kind holds.                                         *)
Shape(m) ==
    /\ Base(m) => /\ m.path \in Seq(Plain)
                  /\ Len(m.children) = Len(m.indices) + (IF m.wildChild THEN 1 ELSE 0)
    /\ Param(m) => /\ \E t \in Params : m.path = <<t>>
                   /\ ~m.wildChild /\ Len(m.indices) <= Len(m.children) /\ Len(m.children) <= 1
    /\ Inner(m) => /\ m.path = <<>> /\ m.indices = <<>> /\ m.handlers = Nil
                   /\ Len(m.children) = 1
    /\ Leaf(m) => /\ \E c \in CatchAlls : m.path = <<Slash, c>>
                  /\ m.children = <<>> /\ m.handlers # Nil

(* What the child k of m may be.                                           *)
Fits(m, k, c) ==
    /\ Base(m) => IF m.wildChild /\ k = Len(m.children) THEN Param(c)
                  ELSE c.nType = "static" \/ (Inner(c) /\ m.indices[k] = Slash)
    /\ Param(m) => c.nType = "static"
    /\ Inner(m) => Leaf(c)

(* a is the path of the nodes above m, and A the routes that may be given. *)
Local(A, a, m) ==
    /\ Node(m) /\ Shape(m) /\ a \in Seq(Tokens)
    /\ m.handlers # Nil => /\ m.handlers \in A
                           /\ m.handlers = a \o m.path /\ m.fullPath = m.handlers

Below(G, a, m) ==
    \A k \in 1..Len(m.children) :
        Fits(m, k, m.children[k]) /\ <<a \o m.path, m.children[k]>> \in G

Bred(A, G) == \A a, m : <<a, m>> \in G => Local(A, a, m) /\ Below(G, a, m)

(* The tree at m has this shape throughout.                                *)
Good(A, a, m) == \E G : <<a, m>> \in G /\ Bred(A, G)

(* One level of it.                                                        *)
Open(A, a, m) ==
    /\ Local(A, a, m)
    /\ \A k \in 1..Len(m.children) :
          Fits(m, k, m.children[k]) /\ Good(A, a \o m.path, m.children[k])

(* A good node is itself in shape and its children are good.               *)
LEMMA GoodOpen ==
    ASSUME NEW A, NEW a, NEW m, Good(A, a, m)
    PROVE  Open(A, a, m)
<1>1. PICK G : <<a, m>> \in G /\ Bred(A, G)
  BY DEF Good
<1>2. Local(A, a, m) /\ Below(G, a, m)
  BY <1>1 DEF Bred
<1>3. ASSUME NEW k \in 1..Len(m.children)
      PROVE  Fits(m, k, m.children[k]) /\ Good(A, a \o m.path, m.children[k])
  BY <1>1, <1>2 DEF Below, Good
<1>. QED BY <1>2, <1>3 DEF Open

(* A node in shape whose children are good is good.                        *)
LEMMA GoodMake ==
    ASSUME NEW A, NEW a, NEW m, Open(A, a, m)
    PROVE  Good(A, a, m)
<1>. DEFINE K == 1..Len(m.children)
            of(k) == CHOOSE G : <<a \o m.path, m.children[k]>> \in G /\ Bred(A, G)
            G == {<<a, m>>} \cup UNION {of(k) : k \in K}
<1>1. ASSUME NEW k \in K PROVE <<a \o m.path, m.children[k]>> \in of(k) /\ Bred(A, of(k))
  <2>1. \E H : <<a \o m.path, m.children[k]>> \in H /\ Bred(A, H)
    BY DEF Open, Good
  <2>. QED BY <2>1
<1>. HIDE DEF of
<1>2. ASSUME NEW b, NEW t, <<b, t>> \in G PROVE Local(A, b, t) /\ Below(G, b, t)
  <2>1. CASE <<b, t>> = <<a, m>>
    <3>1. b = a /\ t = m
      BY <2>1
    <3>2. \A k \in K : <<a \o m.path, m.children[k]>> \in G
      BY <1>1
    <3>. QED BY <3>1, <3>2 DEF Open, Below
  <2>2. CASE \E k \in K : <<b, t>> \in of(k)
    <3>1. PICK k \in K : <<b, t>> \in of(k)
      BY <2>2
    <3>2. Local(A, b, t) /\ Below(of(k), b, t)
      BY <1>1, <3>1 DEF Bred
    <3>3. of(k) \subseteq G
      OBVIOUS
    <3>. HIDE DEF G
    <3>. QED BY <3>2, <3>3 DEF Below
  <2>. QED BY <1>2, <2>1, <2>2
<1>3. <<a, m>> \in G
  OBVIOUS
<1>. HIDE DEF G
<1>. QED BY <1>2, <1>3 DEF Good, Bred

(* More routes may be given than are.                                      *)
LEMMA GoodMore ==
    ASSUME NEW A, NEW B, A \subseteq B, NEW a, NEW m, Good(A, a, m)
    PROVE  Good(B, a, m)
<1>1. PICK G : <<a, m>> \in G /\ Bred(A, G)
  BY DEF Good
<1>2. Bred(B, G)
  BY <1>1 DEF Bred, Local
<1>. QED BY <1>1, <1>2 DEF Good

-----------------------------------------------------------------------------
(* Look-up *)

State(s) ==
    /\ s \in [node : {s.node}, path : {s.path}, params : {s.params},
              skipped : {s.skipped}, value : {s.value}]
    /\ IsSeq(s.skipped)

(* The search stands at s.node and has read what is above it.              *)
Stands(A, p, s) ==
    \E a, m :
        /\ Good(A, a, m)
        /\ s.node = m \/ (s.node = [m EXCEPT !.indices = <<>>] /\ Base(m) /\ m.wildChild)
        /\ Base(m) \/ (Inner(m) /\ s.path # <<>> /\ s.path[1] = Slash)
        /\ Reading(a, p) = At(s.path, s.params)

(* It may go back to a skipped node, with the parameters bound by then.    *)
Kept(A, p, params, e) ==
    \E a, m :
        /\ Good(A, a, m) /\ Base(m) /\ m.wildChild /\ e.node = [m EXCEPT !.indices = <<>>]
        /\ e.path \in Seq(Plain) /\ e.paramsCount \in 0..Len(params)
        /\ Reading(a, p) = At(e.path, SubSeq(params, 1, e.paramsCount))

Skips(A, p, s) ==
    /\ \A k \in 1..Len(s.skipped) : Kept(A, p, s.params, s.skipped[k])
    /\ \A j, k \in 1..Len(s.skipped) :
          j < k => s.skipped[j].paramsCount <= s.skipped[k].paramsCount

Answered(A, p, value) ==
    value.kind = "hit" =>
        /\ value.route \in A /\ value.full = value.route
        /\ Reading(value.route, p) = At(<<>>, value.params)

LookInv(A, p, s) ==
    /\ State(s) /\ s.path \in Seq(Plain) /\ IsSeq(s.params)
    /\ s.value.kind = "none" => Stands(A, p, s) /\ Skips(A, p, s)
    /\ Answered(A, p, s.value)

(* round is the search, node by node.                                      *)
Looks(round, root, path, skipped, capacity) ==
    /\ round[0] = [node |-> root, path |-> path, params |-> <<>>, skipped |-> skipped, value |-> Looking]
    /\ \A i \in 1..MaxRounds : round[i] = Visit(round[i - 1], capacity)
    /\ getValue(root, path, skipped, capacity) = round[MaxRounds].value

(* The recursive function in getValue is one that Looks describes.         *)
LEMMA LookRounds ==
    ASSUME RoutesAndPaths, NEW root, NEW path, NEW skipped, NEW capacity
    PROVE  \E round : Looks(round, root, path, skipped, capacity)
<1>. DEFINE start == [node |-> root, path |-> path, params |-> <<>>, skipped |-> skipped, value |-> Looking]
            m == MaxRounds
            fits(g, k) == g = [i \in 0..k |-> IF i = 0 THEN start ELSE Visit(g[i - 1], capacity)]
            T == {k \in 0..m : \E g : fits(g, k)}
<1>1. m \in Nat
  BY DEF RoutesAndPaths
<1>. HIDE DEF start, m
<1>2. 0 \in T
  <2>1. fits([i \in 0..0 |-> start], 0)
    OBVIOUS
  <2>2. 0 \in 0..m
    BY <1>1
  <2>. QED BY <2>1, <2>2
<1>3. ASSUME NEW k \in 1..m, k - 1 \in T PROVE k \in T
  <2>1. PICK g : fits(g, k - 1)
    BY <1>3
  <2>. DEFINE h == [i \in 0..k |-> IF i < k THEN g[i] ELSE Visit(g[k - 1], capacity)]
  <2>2. \A i \in 0 .. k - 1 : g[i] = IF i = 0 THEN start ELSE Visit(g[i - 1], capacity)
    BY <2>1
  <2>3. \A i \in 0..k : h[i] = IF i = 0 THEN start ELSE Visit(h[i - 1], capacity)
    BY <1>1, <2>2
  <2>4. h = [i \in 0..k |-> h[i]]
    OBVIOUS
  <2>. HIDE DEF h
  <2>5. fits(h, k)
    BY <2>3, <2>4
  <2>. QED BY <2>5
<1>4. m \in T
  <2>. HIDE DEF T
  <2>1. \A i \in 0..m : i \in T
    BY <1>1, <1>2, <1>3, CountUp
  <2>. QED BY <1>1, <2>1
<1>5. PICK g : fits(g, m)
  BY <1>4
<1>6. PICK round : fits(round, m) /\ getValue(root, path, skipped, capacity) = round[m].value
  BY <1>5 DEF getValue, start, m
<1>7. round[0] = start /\ \A i \in 1..m : round[i] = Visit(round[i - 1], capacity)
  BY <1>1, <1>6
<1>. QED BY <1>6, <1>7 DEF Looks, start, m

(* The skipped node to go back to is one of them.                          *)
LEMMA LatestFits ==
    ASSUME NEW skipped, IsSeq(skipped), NEW path
    PROVE  Latest(skipped, path) \in 0..Len(skipped)
<1>1. Len(skipped) \in Nat
  BY DEF IsSeq
<1>. DEFINE S == {0} \cup {k \in 1..Len(skipped) : IsSuffix(path, skipped[k].path)}
<1>2. S \in SUBSET (0..Len(skipped)) /\ S # {}
  BY <1>1
<1>3. Latest(skipped, path) = HighestOf(S)
  BY DEF Latest
<1>. HIDE DEF S
<1>. QED BY <1>1, <1>2, <1>3, Highest

(* The end of the search: only the answer is new.                          *)
LEMMA FoundInv ==
    ASSUME NEW A, NEW p, NEW s, LookInv(A, p, s), NEW value, value.kind # "none",
           Answered(A, p, value)
    PROVE  LookInv(A, p, Found(s, value))
<1>1. State(Found(s, value))
  BY DEF LookInv, State, Found
<1>2. Found(s, value).path = s.path /\ Found(s, value).value = value /\ Found(s, value).params = s.params
  BY DEF LookInv, State, Found
<1>. QED BY <1>1, <1>2 DEF LookInv

(* A miss and a panic promise no route.                                    *)
LEMMA MissAnswered ==
    ASSUME NEW A, NEW p, NEW tsr, NEW skipped
    PROVE  /\ Answered(A, p, Miss(tsr, skipped)) /\ Miss(tsr, skipped).kind # "none"
           /\ Answered(A, p, OutOfCapacity(skipped)) /\ OutOfCapacity(skipped).kind # "none"
BY DEF Answered, Miss, OutOfCapacity

(* Going back leaves the search where it was when the node was skipped.    *)
LEMMA GoBackInv ==
    ASSUME NEW A, NEW p, NEW s, LookInv(A, p, s), s.value.kind = "none", NEW path, NEW tsr
    PROVE  LookInv(A, p, GoBack(s, path, tsr))
<1>. DEFINE k == Latest(s.skipped, path)
<1>1. State(s) /\ Skips(A, p, s) /\ IsSeq(s.params) /\ k \in 0..Len(s.skipped)
  BY LatestFits DEF LookInv, State
<1>. HIDE DEF k
<1>2. CASE k = 0
  <2>1. GoBack(s, path, tsr) = Found(s, Miss(tsr, <<>>))
    BY <1>2 DEF GoBack, k
  <2>. QED BY <2>1, FoundInv, MissAnswered
<1>3. CASE k > 0
  <2>. DEFINE e == s.skipped[k]
              t == Resume(s, k)
  <2>1. GoBack(s, path, tsr) = t
    BY <1>3 DEF GoBack, k
  <2>2. PICK S : s.skipped \in Seq(S)
    BY <1>1 DEF State, IsSeq
  <2>3. Len(s.skipped) \in Nat /\ k \in 1..Len(s.skipped) /\ k - 1 \in 0..Len(s.skipped)
    BY <1>1, <1>3, <2>2
  <2>4. /\ t.node = e.node /\ t.path = e.path /\ t.params = SubSeq(s.params, 1, e.paramsCount)
        /\ t.skipped = SubSeq(s.skipped, 1, k - 1) /\ t.value = s.value
        /\ t \in [node : {t.node}, path : {t.path}, params : {t.params},
                  skipped : {t.skipped}, value : {t.value}]
    BY <1>1 DEF State, Resume, Truncated
  <2>5. /\ t.skipped \in Seq(S) /\ Len(t.skipped) = k - 1
        /\ \A j \in 1 .. k - 1 : t.skipped[j] = s.skipped[j]
    BY <2>2, <2>3, <2>4, SplitAt
  <2>6. PICK a, m : /\ Good(A, a, m) /\ Base(m) /\ m.wildChild /\ e.node = [m EXCEPT !.indices = <<>>]
                    /\ e.path \in Seq(Plain) /\ e.paramsCount \in 0..Len(s.params)
                    /\ Reading(a, p) = At(e.path, SubSeq(s.params, 1, e.paramsCount))
    BY <1>1, <2>3 DEF Skips, Kept
  <2>7. PICK P : s.params \in Seq(P)
    BY <1>1 DEF IsSeq
  <2>8. /\ t.params \in Seq(P) /\ Len(t.params) = e.paramsCount /\ e.paramsCount \in Nat
        /\ \A c \in 0..e.paramsCount : SubSeq(t.params, 1, c) = SubSeq(s.params, 1, c)
    <3>1. Len(s.params) \in Nat /\ e.paramsCount \in Nat /\ e.paramsCount <= Len(s.params)
      BY <2>6, <2>7
    <3>. HIDE DEF e, t
    <3>2. t.params \in Seq(P) /\ Len(t.params) = e.paramsCount
      BY <2>4, <2>6, <2>7, SplitAt
    <3>3. ASSUME NEW c \in 0..e.paramsCount PROVE SubSeq(t.params, 1, c) = SubSeq(s.params, 1, c)
      <4>1. CASE c = 0
        BY <4>1, SubSeqEmpty
      <4>2. CASE c # 0
        <5>1. /\ 1 \in 1..Len(s.params) /\ e.paramsCount \in 1..Len(s.params)
              /\ 1 \in 1 .. e.paramsCount - 1 + 1 /\ c \in 1 .. e.paramsCount - 1 + 1
              /\ 1 + 1 - 1 = 1 /\ 1 + c - 1 = c
          BY <3>1, <4>2
        <5>. QED BY <2>4, <2>7, <5>1, SubSeqOfSubSeq
      <4>. QED BY <4>1, <4>2
    <3>. QED BY <3>1, <3>2, <3>3
  <2>. HIDE DEF e, t
  <2>9. Stands(A, p, t)
    BY <2>4, <2>6 DEF Stands
  <2>10. ASSUME NEW j \in 1..Len(t.skipped) PROVE Kept(A, p, t.params, t.skipped[j])
    <3>1. j \in 1..Len(s.skipped) /\ j < k /\ t.skipped[j] = s.skipped[j]
      BY <2>3, <2>5
    <3>2. s.skipped[j].paramsCount <= e.paramsCount /\ Kept(A, p, s.params, s.skipped[j])
      BY <1>1, <2>3, <3>1 DEF Skips, e
    <3>. DEFINE d == s.skipped[j]
    <3>3. PICK b, n : /\ Good(A, b, n) /\ Base(n) /\ n.wildChild /\ d.node = [n EXCEPT !.indices = <<>>]
                      /\ d.path \in Seq(Plain) /\ d.paramsCount \in 0..Len(s.params)
                      /\ Reading(b, p) = At(d.path, SubSeq(s.params, 1, d.paramsCount))
      BY <3>2 DEF Kept
    <3>. HIDE DEF d
    <3>4. d.paramsCount \in 0..e.paramsCount
      BY <2>8, <3>2, <3>3 DEF d
    <3>5. d.paramsCount \in 0..Len(t.params) /\ SubSeq(t.params, 1, d.paramsCount) = SubSeq(s.params, 1, d.paramsCount)
      BY <2>8, <3>4
    <3>6. Kept(A, p, t.params, d)
      BY <3>3, <3>5 DEF Kept
    <3>. QED BY <3>1, <3>6 DEF d
  <2>11. \A i, j \in 1..Len(t.skipped) :
            i < j => t.skipped[i].paramsCount <= t.skipped[j].paramsCount
    <3>1. ASSUME NEW i \in 1..Len(t.skipped)
          PROVE  i \in 1..Len(s.skipped) /\ t.skipped[i] = s.skipped[i]
      BY <2>3, <2>5
    <3>2. \A i, j \in 1..Len(s.skipped) :
              i < j => s.skipped[i].paramsCount <= s.skipped[j].paramsCount
      BY <1>1 DEF Skips
    <3>. QED BY <3>1, <3>2
  <2>12. LookInv(A, p, t)
    <3>1. Skips(A, p, t)
      BY <2>10, <2>11 DEF Skips
    <3>2. State(t) /\ t.path \in Seq(Plain) /\ IsSeq(t.params)
      BY <2>4, <2>5, <2>6, <2>8 DEF State, IsSeq
    <3>3. Answered(A, p, t.value)
      BY <2>4 DEF LookInv
    <3>. QED BY <2>9, <3>1, <3>2, <3>3 DEF LookInv
  <2>. QED BY <2>1, <2>12
<1>. QED BY <1>1, <1>2, <1>3

(* The same node up to its indices.                                        *)
Same(n, m) ==
    /\ n.path = m.path /\ n.wildChild = m.wildChild /\ n.nType = m.nType
    /\ n.children = m.children /\ n.handlers = m.handlers /\ n.fullPath = m.fullPath

(* The nodes the search stands at: what is known of each.                  *)
LEMMA AtNode ==
    ASSUME RoutesAndPaths, NEW A, NEW p, NEW s, LookInv(A, p, s), s.value.kind = "none"
    PROVE  \E a, m :
             /\ Open(A, a, m) /\ a \in Seq(Tokens)
             /\ Same(s.node, m) /\ (s.node = m \/ s.node.indices = <<>>)
             /\ Base(m) \/ (Inner(m) /\ s.path # <<>> /\ s.path[1] = Slash)
             /\ Reading(a, p) = At(s.path, s.params)
<1>1. PICK a, m : /\ Good(A, a, m)
                  /\ s.node = m \/ (s.node = [m EXCEPT !.indices = <<>>] /\ Base(m) /\ m.wildChild)
                  /\ Base(m) \/ (Inner(m) /\ s.path # <<>> /\ s.path[1] = Slash)
                  /\ Reading(a, p) = At(s.path, s.params)
  BY DEF LookInv, Stands
<1>2. Open(A, a, m) /\ a \in Seq(Tokens) /\ Node(m)
  BY <1>1, GoodOpen DEF Open, Local
<1>3. Same(s.node, m) /\ (s.node = m \/ s.node.indices = <<>>)
  BY <1>1, <1>2 DEF Node, Same
<1>. QED BY <1>1, <1>2, <1>3

(* A search that goes down, with at most one more node skipped.            *)
LEMMA ToChildInv ==
    ASSUME RoutesAndPaths, NEW A, NEW p, NEW s, LookInv(A, p, s), s.value.kind = "none",
           NEW a, NEW m, Open(A, a, m), Base(m) \/ Inner(m), s.node = m,
           NEW rest \in Seq(Plain), rest # <<>>, Reading(a, p) = At(s.path, s.params),
           Reading(a \o m.path, p) = At(rest, s.params),
           NEW k \in 1..Len(m.indices), m.indices[k] = rest[1], NEW capacity
    PROVE  LookInv(A, p, ToChild(s, rest, k, capacity))
<1>. DEFINE c == m.children[k]
<1>1. Node(m) /\ Shape(m)
  BY DEF Open, Local
<1>2. Base(m) /\ k \in 1..Len(m.children) /\ (m.wildChild => k # Len(m.children))
  <2>1. ~Inner(m)
    BY <1>1 DEF Shape
  <2>2. Len(m.indices) \in Nat
    BY <1>1 DEF Node
  <2>3. Base(m)
    BY <2>1
  <2>4. Len(m.children) = Len(m.indices) + (IF m.wildChild THEN 1 ELSE 0)
    BY <1>1, <2>3 DEF Shape
  <2>5. CASE m.wildChild
    BY <2>2, <2>3, <2>4, <2>5
  <2>6. CASE ~m.wildChild
    BY <2>2, <2>3, <2>4, <2>6
  <2>. QED BY <2>5, <2>6
<1>3. Good(A, a \o m.path, c) /\ (c.nType = "static" \/ (Inner(c) /\ rest[1] = Slash))
  BY <1>2 DEF Open, Fits
<1>. DEFINE down == [s EXCEPT !.node = c, !.path = rest]
            entry == [path |-> s.path, node |-> [m EXCEPT !.indices = <<>>], paramsCount |-> Len(s.params)]
            deep == [down EXCEPT !.skipped = Append(@, entry)]
<1>. HIDE DEF c
<1>4. /\ State(s) /\ IsSeq(s.params) /\ s.path \in Seq(Plain) /\ Skips(A, p, s)
      /\ Answered(A, p, s.value)
  BY DEF LookInv
<1>5. Stands(A, p, [s EXCEPT !.node = c, !.path = rest])
  <2>1. /\ [s EXCEPT !.node = c, !.path = rest].node = c
        /\ [s EXCEPT !.node = c, !.path = rest].path = rest
        /\ [s EXCEPT !.node = c, !.path = rest].params = s.params
    BY <1>4 DEF State
  <2>2. Base(c) \/ Inner(c)
    BY <1>3 DEF Base
  <2>. QED BY <1>3, <2>1, <2>2 DEF Stands, Base
<1>6. CASE ~m.wildChild
  <2>1. ToChild(s, rest, k, capacity) = down
    BY <1>6 DEF ToChild, c
  <2>2. /\ down.path = rest /\ down.skipped = s.skipped /\ down.params = s.params
        /\ down.value = s.value /\ State(down)
    BY <1>4 DEF State
  <2>3. Skips(A, p, down)
    BY <1>4, <2>2 DEF Skips
  <2>4. LookInv(A, p, down)
    <3>. HIDE DEF down
    <3>1. Stands(A, p, down)
      BY <1>5 DEF down
    <3>. QED BY <1>4, <2>2, <2>3, <3>1 DEF LookInv
  <2>. QED BY <2>1, <2>4
<1>7. CASE m.wildChild /\ Len(s.skipped) = capacity
  <2>1. ToChild(s, rest, k, capacity) = Found(s, OutOfCapacity(s.skipped))
    BY <1>7 DEF ToChild
  <2>. QED BY <2>1, FoundInv, MissAnswered
<1>8. CASE m.wildChild /\ Len(s.skipped) # capacity
  <2>1. ToChild(s, rest, k, capacity) = deep
    BY <1>8 DEF ToChild, c
  <2>2. /\ deep.node = c /\ deep.path = rest /\ deep.skipped = Append(s.skipped, entry)
        /\ deep.params = s.params /\ deep.value = s.value
        /\ deep \in [node : {deep.node}, path : {deep.path}, params : {deep.params},
                     skipped : {deep.skipped}, value : {deep.value}]
    <3>. HIDE DEF entry
    <3>. QED BY <1>4 DEF State
  <2>3. PICK S : s.skipped \in Seq(S)
    BY <1>4 DEF State, IsSeq
  <2>. DEFINE B == S \cup {entry}
  <2>4. s.skipped \in Seq(B) /\ entry \in B
    BY <2>3, SeqMonotonic
  <2>. HIDE DEF B, deep
  <2>5. /\ deep.skipped \in Seq(B) /\ Len(deep.skipped) = Len(s.skipped) + 1 /\ Len(s.skipped) \in Nat
        /\ \A j \in 1..Len(s.skipped) : deep.skipped[j] = s.skipped[j]
        /\ deep.skipped[Len(s.skipped) + 1] = entry
    <3>. HIDE DEF entry
    <3>. QED BY <2>2, <2>4, AppendProperties
  <2>6. PICK P : s.params \in Seq(P)
    BY <1>4 DEF IsSeq
  <2>7. Kept(A, p, s.params, entry)
    <3>1. Good(A, a, m)
      BY GoodMake
    <3>2. Len(s.params) \in 0..Len(s.params) /\ SubSeq(s.params, 1, Len(s.params)) = s.params
      BY <2>6, SubSeqFull
    <3>3. /\ entry.path = s.path /\ entry.node = [m EXCEPT !.indices = <<>>]
          /\ entry.paramsCount = Len(s.params)
      OBVIOUS
    <3>. HIDE DEF entry
    <3>. QED BY <1>2, <1>4, <1>8, <3>1, <3>2, <3>3 DEF Kept
  <2>8. ASSUME NEW j \in 1..Len(s.skipped)
        PROVE  s.skipped[j].paramsCount <= entry.paramsCount
    <3>1. Kept(A, p, s.params, s.skipped[j])
      BY <1>4 DEF Skips
    <3>2. s.skipped[j].paramsCount \in 0..Len(s.params)
      BY <3>1 DEF Kept
    <3>3. entry.paramsCount = Len(s.params) /\ Len(s.params) \in Nat
      BY <2>6
    <3>. HIDE DEF entry
    <3>. QED BY <3>2, <3>3
  <2>9. Skips(A, p, deep)
    <3>. HIDE DEF entry
    <3>1. ASSUME NEW j \in 1..Len(deep.skipped)
          PROVE  \/ j \in 1..Len(s.skipped) /\ deep.skipped[j] = s.skipped[j]
                 \/ j = Len(s.skipped) + 1 /\ deep.skipped[j] = entry
      BY <2>5
    <3>2. \A j \in 1..Len(deep.skipped) : Kept(A, p, deep.params, deep.skipped[j])
      <4>1. \A j \in 1..Len(s.skipped) : Kept(A, p, s.params, s.skipped[j])
        BY <1>4 DEF Skips
      <4>. QED BY <2>2, <2>7, <3>1, <4>1
    <3>3. \A i, j \in 1..Len(deep.skipped) :
              i < j => deep.skipped[i].paramsCount <= deep.skipped[j].paramsCount
      <4>1. \A i, j \in 1..Len(s.skipped) :
                i < j => s.skipped[i].paramsCount <= s.skipped[j].paramsCount
        BY <1>4 DEF Skips
      <4>2. TAKE i, j \in 1..Len(deep.skipped)
      <4>3. HAVE i < j
      <4>4. i \in 1..Len(s.skipped) /\ deep.skipped[i] = s.skipped[i]
        BY <2>5, <3>1, <4>3
      <4>. QED BY <2>8, <3>1, <4>1, <4>3, <4>4
    <3>. QED BY <3>2, <3>3 DEF Skips
  <2>10. Stands(A, p, deep)
    <3>1. Base(c) \/ Inner(c)
      BY <1>3 DEF Base
    <3>. QED BY <1>3, <2>2, <3>1 DEF Stands, Base
  <2>11. State(deep) /\ IsSeq(deep.params)
    BY <1>4, <2>2, <2>5 DEF State, IsSeq
  <2>12. LookInv(A, p, deep)
    BY <1>4, <2>2, <2>9, <2>10, <2>11 DEF LookInv
  <2>. QED BY <2>1, <2>12
<1>. QED BY <1>6, <1>7, <1>8

(* A parameter takes a segment of the path, which binds it.                *)
LEMMA ReadParam ==
    ASSUME RoutesAndPaths, NEW b \in Seq(Tokens), NEW t \in Params, NEW p,
           NEW rest \in Seq(Plain), rest # <<>>, NEW params, Reading(b, p) = At(rest, params)
    PROVE  Reading(b \o <<t>>, p) =
               At(From(rest, SegmentEnd(rest) + 1),
                  Append(params, [key |-> t, value |-> SubSeq(rest, 1, SegmentEnd(rest))]))
<1>1. t \in Tokens /\ t \notin CatchAlls /\ t \notin Plain
  BY DEF RoutesAndPaths, Tokens, Wildcards
<1>2. Reading(b \o <<t>>, p) = Read(At(rest, params), t)
  <2>1. Append(b, t) = b \o <<t>>
    BY <1>1, AppendIsConcat
  <2>2. Reading(Append(b, t), p) = Read(Reading(b, p), t)
    BY <1>1, ReadingAppend
  <2>. QED BY <2>1, <2>2
<1>. DEFINE m == At(rest, params)
            value == SubSeq(rest, 1, SegmentEnd(rest))
            left == From(rest, SegmentEnd(rest) + 1)
<1>3. m.rest = rest /\ m.params = params
  BY DEF At
<1>. HIDE DEF m
<1>4. Read(m, t) = [m EXCEPT !.rest = left, !.params = Append(params, [key |-> t, value |-> value])]
  <2>1. Read(m, t) = [m EXCEPT !.rest = From(m.rest, SegmentEnd(m.rest) + 1),
                               !.params = Append(m.params, [key |-> t, value |-> SubSeq(m.rest, 1, SegmentEnd(m.rest))])]
    BY <1>1, <1>3 DEF Read
  <2>. QED BY <1>3, <2>1
<1>. HIDE DEF value, left
<1>5. Read(m, t) = At(left, Append(params, [key |-> t, value |-> value]))
  BY <1>4 DEF m, At
<1>. QED BY <1>2, <1>5 DEF m, value, left

(* A catch-all takes what is left, and the slash before it.                *)
LEMMA ReadCatchAll ==
    ASSUME RoutesAndPaths, NEW b \in Seq(Tokens), NEW t \in CatchAlls, NEW p,
           NEW rest \in Seq(Plain), rest # <<>>, rest[1] = Slash, NEW params,
           Reading(b, p) = At(rest, params)
    PROVE  Reading(b \o <<Slash, t>>, p) = At(<<>>, Append(params, [key |-> t, value |-> rest]))
<1>1. Slash \in Tokens /\ t \in Tokens /\ Slash \in Plain /\ Slash \notin Wildcards
  BY DEF RoutesAndPaths, Tokens, Wildcards, Plain
<1>2. Append(b, Slash) \in Seq(Tokens) /\ b \o <<Slash, t>> = Append(Append(b, Slash), t)
  <2>1. <<Slash>> \in Seq(Tokens) /\ <<t>> \in Seq(Tokens) /\ Append(b, Slash) \in Seq(Tokens)
    BY <1>1
  <2>2. <<Slash, t>> = <<Slash>> \o <<t>>
    OBVIOUS
  <2>3. b \o <<Slash, t>> = (b \o <<Slash>>) \o <<t>>
    BY <2>1, <2>2, ConcatAssociative
  <2>. QED BY <1>1, <2>1, <2>3, AppendIsConcat
<1>3. Reading(Append(b, Slash), p) = At(Tail(rest), params)
  <2>1. Reading(Append(b, Slash), p) = Read(At(rest, params), Slash)
    BY <1>1, ReadingAppend
  <2>2. Slash \notin CatchAlls /\ Slash \notin Params
    BY <1>1 DEF Wildcards
  <2>. QED BY <1>1, <2>1, <2>2 DEF Read, At
<1>4. rest = <<Slash>> \o Tail(rest)
  <2>1. 1 \in 1..Len(rest) /\ Len(rest) \in 1..Len(rest)
    BY EmptySeq
  <2>2. SubSeq(rest, 1, Len(rest)) = <<rest[1]>> \o SubSeq(rest, 2, Len(rest))
    BY <2>1, SubSeqRecursiveFirst
  <2>. QED BY <2>2, SubSeqFull, TailIsSubSeq
<1>. DEFINE m == At(Tail(rest), params)
<1>5. Reading(Append(Append(b, Slash), t), p) = Read(m, t)
  BY ZenonT(60), <1>1, <1>2, <1>3, ReadingAppend
<1>6. m.rest = Tail(rest) /\ m.params = params
  BY DEF At
<1>. HIDE DEF m
<1>7. Read(m, t) = [m EXCEPT !.rest = <<>>, !.params = Append(params, [key |-> t, value |-> rest])]
  <2>1. Read(m, t) = [m EXCEPT !.rest = <<>>,
                               !.params = Append(m.params, [key |-> t, value |-> <<Slash>> \o m.rest])]
    <3>1. t \notin Params /\ t \notin Plain
      BY DEF RoutesAndPaths, Wildcards
    <3>. QED BY <3>1 DEF Read
  <2>. QED BY <1>4, <1>6, <2>1
<1>8. Read(m, t) = At(<<>>, Append(params, [key |-> t, value |-> rest]))
  BY <1>7 DEF m, At
<1>. QED BY <1>2, <1>5, <1>8

(* One more parameter is bound: what is kept for skipped nodes stays.      *)
LEMMA KeptAppend ==
    ASSUME NEW A, NEW p, NEW params, IsSeq(params), NEW x, NEW e, Kept(A, p, params, e)
    PROVE  Kept(A, p, Append(params, x), e)
<1>1. PICK P : params \in Seq(P)
  BY DEF IsSeq
<1>. DEFINE Q == P \cup {x}
<1>2. params \in Seq(Q) /\ x \in Q
  BY <1>1, SeqMonotonic
<1>. HIDE DEF Q
<1>. DEFINE more == Append(params, x)
<1>3. /\ more \in Seq(Q) /\ Len(more) = Len(params) + 1 /\ Len(params) \in Nat
      /\ more = params \o <<x>> /\ <<x>> \in Seq(Q)
  BY <1>2, AppendProperties, AppendIsConcat
<1>. HIDE DEF more
<1>4. PICK a, m : /\ Good(A, a, m) /\ Base(m) /\ m.wildChild /\ e.node = [m EXCEPT !.indices = <<>>]
                  /\ e.path \in Seq(Plain) /\ e.paramsCount \in 0..Len(params)
                  /\ Reading(a, p) = At(e.path, SubSeq(params, 1, e.paramsCount))
  BY DEF Kept
<1>5. SubSeq(more, 1, e.paramsCount) = SubSeq(params, 1, e.paramsCount)
  <2>1. CASE e.paramsCount = 0
    BY <2>1, SubSeqEmpty
  <2>2. CASE e.paramsCount # 0
    <3>1. 1 \in 1..Len(params) /\ e.paramsCount \in 1..Len(params)
      BY <1>3, <1>4, <2>2
    <3>. QED BY <1>2, <1>3, <3>1, SubSeqOfConcat1
  <2>. QED BY <2>1, <2>2
<1>6. e.paramsCount \in 0..Len(more)
  BY <1>3, <1>4
<1>7. Kept(A, p, more, e)
  BY <1>4, <1>5, <1>6 DEF Kept
<1>. QED BY <1>7 DEF more

(* Into the wildcard: the answer, or the node behind the parameter.        *)
LEMMA ToWildcardInv ==
    ASSUME RoutesAndPaths, NEW A, NEW p, NEW s, LookInv(A, p, s), s.value.kind = "none",
           NEW a, NEW m, Open(A, a, m), m.wildChild, Base(m) \/ Inner(m),
           Same(s.node, m),
           NEW rest \in Seq(Plain), rest # <<>>, Inner(m) => rest[1] = Slash,
           Reading(a \o m.path, p) = At(rest, s.params)
    PROVE  LookInv(A, p, ToWildcard(s, rest))
<1>. DEFINE k == Len(m.children)
            w == m.children[k]
            b == a \o m.path
            end == SegmentEnd(rest)
<1>1. Local(A, a, m) /\ Node(m) /\ Shape(m) /\ a \in Seq(Tokens) /\ b \in Seq(Tokens)
  <2>1. Local(A, a, m) /\ Node(m) /\ Shape(m) /\ a \in Seq(Tokens)
    BY DEF Open, Local
  <2>2. m.path \in Seq(Tokens)
    BY <2>1 DEF Node
  <2>. QED BY <2>1, <2>2, ConcatProperties
<1>2. s.node.children = m.children /\ Last(s.node.children) = w
  BY DEF Same, Last
<1>3. k \in 1..Len(m.children)
  <2>1. Len(m.indices) \in Nat
    BY <1>1 DEF Node
  <2>2. CASE Base(m)
    <3>1. Len(m.children) = Len(m.indices) + 1
      BY <1>1, <2>2 DEF Shape
    <3>. QED BY <2>1, <3>1
  <2>3. CASE Inner(m)
    <3>1. Len(m.children) = 1
      BY <1>1, <2>3 DEF Shape
    <3>. QED BY <3>1
  <2>. QED BY <2>2, <2>3
<1>4. Good(A, b, w) /\ (Base(m) => Param(w)) /\ (Inner(m) => Leaf(w))
  BY <1>3 DEF Open, Fits
<1>5. end \in 0..Len(rest)
  BY SegmentEndFits
<1>. HIDE DEF k, w, b, end
<1>6. Open(A, b, w)
  BY <1>4, GoodOpen
<1>7. Local(A, b, w) /\ Shape(w) /\ Node(w)
  BY <1>6 DEF Open, Local
<1>8. State(s) /\ IsSeq(s.params) /\ Skips(A, p, s) /\ Answered(A, p, s.value)
  BY DEF LookInv
<1>9. CASE Leaf(w)
  <2>1. PICK c \in CatchAlls : w.path = <<Slash, c>>
    BY <1>7, <1>9 DEF Shape
  <2>2. w.nType = "catchAll" /\ w.handlers # Nil /\ w.path[Len(w.path)] = c
    BY <1>7, <1>9, <2>1 DEF Leaf, Shape
  <2>. DEFINE value == Hit(w, Append(s.params, [key |-> c, value |-> rest]), s.skipped)
  <2>3. ToWildcard(s, rest) = Found(s, value)
    BY <1>2, <2>2 DEF ToWildcard
  <2>4. Inner(m)
    BY <1>4, <2>2 DEF Param
  <2>5. Reading(b \o <<Slash, c>>, p) = At(<<>>, Append(s.params, [key |-> c, value |-> rest]))
    <3>1. Reading(b, p) = At(rest, s.params)
      BY DEF b
    <3>. QED BY <1>1, <2>4, <3>1, ReadCatchAll
  <2>6. w.handlers \in A /\ w.handlers = b \o <<Slash, c>> /\ w.fullPath = w.handlers
    BY <1>7, <2>1, <2>2 DEF Local
  <2>7. Answered(A, p, value) /\ value.kind # "none"
    BY <2>5, <2>6 DEF Answered, Hit
  <2>. HIDE DEF value
  <2>. QED BY <2>3, <2>7, FoundInv
<1>10. CASE Param(w)
  <2>1. PICK t \in Params : w.path = <<t>>
    BY <1>7, <1>10 DEF Shape
  <2>2. w.nType = "param" /\ w.nType # "catchAll" /\ w.path[Len(w.path)] = t
    BY <1>10, <2>1 DEF Param
  <2>. DEFINE new == [key |-> t, value |-> SubSeq(rest, 1, end)]
              more == Append(s.params, new)
  <2>3. Reading(b \o <<t>>, p) = At(From(rest, end + 1), more)
    <3>1. Reading(b, p) = At(rest, s.params)
      BY DEF b
    <3>. QED BY <1>1, <3>1, ReadParam DEF end
  <2>. HIDE DEF new
  <2>. DEFINE deep == [s EXCEPT !.node = w.children[1], !.path = From(rest, end + 1), !.params = more]
  <2>4. \/ \E tsr : ToWildcard(s, rest) = Found(s, Miss(tsr, s.skipped))
        \/ ToWildcard(s, rest) = Found(s, Hit(w, more, s.skipped)) /\ ~(end < Len(rest)) /\ w.handlers # Nil
        \/ ToWildcard(s, rest) = deep /\ end < Len(rest) /\ w.children # <<>>
    BY <1>2, <2>2 DEF ToWildcard, end, new
  <2>5. CASE \E tsr : ToWildcard(s, rest) = Found(s, Miss(tsr, s.skipped))
    BY <2>5, FoundInv, MissAnswered
  <2>6. CASE ToWildcard(s, rest) = Found(s, Hit(w, more, s.skipped)) /\ ~(end < Len(rest)) /\ w.handlers # Nil
    <3>1. From(rest, end + 1) = <<>>
      <4>1. end + 1 \in Int /\ Len(rest) \in Int /\ Len(rest) < end + 1
        BY <1>5, <2>6
      <4>. QED BY <4>1, SubSeqEmpty DEF From
    <3>2. w.handlers \in A /\ w.handlers = b \o <<t>> /\ w.fullPath = w.handlers
      BY <1>7, <2>1, <2>6 DEF Local
    <3>. DEFINE value == Hit(w, more, s.skipped)
    <3>3. Answered(A, p, value) /\ value.kind # "none"
      BY <2>3, <3>1, <3>2 DEF Answered, Hit
    <3>. HIDE DEF value, more
    <3>. QED BY <2>6, <3>3, FoundInv DEF value
  <2>7. CASE ToWildcard(s, rest) = deep /\ end < Len(rest) /\ w.children # <<>>
    <3>. DEFINE c == w.children[1]
    <3>1. 1 \in 1..Len(w.children)
      <4>1. IsSeq(w.children)
        BY <1>7 DEF Node
      <4>2. w.children # <<>> => Len(w.children) > 0 /\ Len(w.children) \in Nat
        BY <4>1, EmptySeq DEF IsSeq
      <4>. QED BY <2>7, <4>2
    <3>2. Good(A, b \o <<t>>, c) /\ c.nType = "static"
      BY <1>6, <1>10, <2>1, <3>1 DEF Open, Fits
    <3>. HIDE DEF c, more
    <3>3. /\ deep.node = c /\ deep.path = From(rest, end + 1) /\ deep.params = more
          /\ deep.skipped = s.skipped /\ deep.value = s.value /\ State(deep)
      BY <1>8 DEF State, c
    <3>4. From(rest, end + 1) \in Seq(Plain)
      <4>1. end + 1 \in 1 .. Len(rest) + 1
        BY <1>5
      <4>. QED BY <4>1, FromType
    <3>. HIDE DEF deep
    <3>5. Stands(A, p, deep)
      BY <2>3, <3>2, <3>3 DEF Stands, Base
    <3>6. Skips(A, p, deep)
      <4>1. ASSUME NEW j \in 1..Len(deep.skipped) PROVE Kept(A, p, deep.params, deep.skipped[j])
        <5>1. Kept(A, p, s.params, s.skipped[j])
          BY <1>8, <3>3 DEF Skips
        <5>. QED BY <1>8, <3>3, <5>1, KeptAppend DEF more
      <4>. QED BY <1>8, <3>3, <4>1 DEF Skips
    <3>7. IsSeq(deep.params)
      <4>1. PICK P : s.params \in Seq(P)
        BY <1>8 DEF IsSeq
      <4>2. s.params \in Seq(P \cup {new}) /\ new \in P \cup {new}
        BY <4>1, SeqMonotonic
      <4>3. more \in Seq(P \cup {new})
        BY <4>2, AppendProperties DEF more
      <4>. QED BY <3>3, <4>3 DEF IsSeq
    <3>8. LookInv(A, p, deep)
      BY <1>8, <3>3, <3>4, <3>5, <3>6, <3>7 DEF LookInv
    <3>. QED BY <2>7, <3>8
  <2>. HIDE DEF more, deep
  <2>. QED BY <2>4, <2>5, <2>6, <2>7
<1>. QED BY <1>4, <1>9, <1>10

(* The rest of the path behind the node's own, read as the node's path is. *)
LEMMA Behind ==
    ASSUME RoutesAndPaths, NEW A, NEW a, NEW m, Open(A, a, m), Base(m) \/ Inner(m),
           NEW p, NEW path \in Seq(Plain), NEW params, Reading(a, p) = At(path, params),
           Len(m.path) <= Len(path), SubSeq(m.path, 1, Len(m.path)) = SubSeq(path, 1, Len(m.path))
    PROVE  /\ Reading(a \o m.path, p) = At(From(path, Len(m.path) + 1), params)
           /\ From(path, Len(m.path) + 1) \in Seq(Plain) /\ m.path \in Seq(Plain)
           /\ Len(m.path) < Len(path) => From(path, Len(m.path) + 1) # <<>>
<1>1. m.path \in Seq(Plain) /\ a \in Seq(Tokens)
  <2>1. Local(A, a, m) /\ Shape(m)
    BY DEF Open, Local
  <2>. QED BY <2>1, EmptySeq DEF Shape, Local
<1>2. Len(m.path) \in Nat /\ Len(path) \in Nat /\ Len(m.path) + 1 \in 1 .. Len(path) + 1
  BY <1>1
<1>3. Reading(a \o m.path, p) = At(From(path, Len(m.path) + 1), params)
  BY <1>1, ReadPlain
<1>4. From(path, Len(m.path) + 1) \in Seq(Plain)
  BY <1>2, FromType
<1>5. Len(m.path) < Len(path) => From(path, Len(m.path) + 1) # <<>>
  <2>1. Len(m.path) < Len(path) => Len(m.path) + 1 \in 1..Len(path)
    BY <1>2
  <2>. QED BY <2>1, FromTail
<1>. QED BY <1>1, <1>3, <1>4, <1>5

(* Going through a node to one of its children, to its wildcard, or back   *)
(* keeps the invariant of the search (tree.go:468-633).                    *)
LEMMA ThroughInv ==
    ASSUME RoutesAndPaths, NEW A, NEW p, NEW s, LookInv(A, p, s), s.value.kind = "none",
           Len(s.path) > Len(s.node.path), IsPrefix(s.node.path, s.path), NEW capacity
    PROVE  LookInv(A, p, Through(s, capacity))
<1>1. PICK a, m : /\ Open(A, a, m) /\ a \in Seq(Tokens)
                  /\ Same(s.node, m) /\ (s.node = m \/ s.node.indices = <<>>)
                  /\ Base(m) \/ (Inner(m) /\ s.path # <<>> /\ s.path[1] = Slash)
                  /\ Reading(a, p) = At(s.path, s.params)
  BY AtNode
<1>. DEFINE n == s.node
            rest == From(s.path, Len(n.path) + 1)
            same == {k \in 1..Len(n.indices) : n.indices[k] = rest[1]}
<1>2. s.path \in Seq(Plain) /\ Len(s.path) \in Nat
  BY DEF LookInv
<1>3. n.path = m.path /\ Node(m) /\ Len(m.path) \in Nat /\ Len(m.path) < Len(s.path)
  <2>1. n.path = m.path /\ Node(m)
    BY <1>1 DEF Same, Open, Local
  <2>. QED BY <2>1 DEF Node
<1>4. Reading(a \o m.path, p) = At(rest, s.params) /\ rest \in Seq(Plain) /\ rest # <<>>
  <2>1. Len(m.path) <= Len(s.path) /\ SubSeq(m.path, 1, Len(m.path)) = SubSeq(s.path, 1, Len(m.path))
    BY <1>2, <1>3 DEF IsPrefix
  <2>2. /\ Reading(a \o m.path, p) = At(From(s.path, Len(m.path) + 1), s.params)
        /\ From(s.path, Len(m.path) + 1) \in Seq(Plain)
        /\ From(s.path, Len(m.path) + 1) # <<>>
    BY <1>1, <1>2, <1>3, <2>1, Behind
  <2>. QED BY <1>3, <2>2
<1>5. Inner(m) => rest[1] = Slash
  <2>1. SUFFICES ASSUME Inner(m) PROVE rest[1] = Slash
    OBVIOUS
  <2>2. m.path = <<>> /\ Len(m.path) = 0
    <3>1. Shape(m)
      BY <1>1 DEF Open, Local
    <3>. QED BY <2>1, <3>1 DEF Shape
  <2>3. rest = s.path
    BY <1>2, <1>3, <2>2, SubSeqFull DEF From
  <2>. QED BY <1>1, <2>1, <2>3 DEF Base, Inner
<1>. HIDE DEF rest
<1>6. CASE same # {}
  <2>. DEFINE k == LowestOf(same)
  <2>1. s.node = m
    <3>1. ASSUME n.indices = <<>> PROVE FALSE
      BY <1>6, <3>1
    <3>. QED BY <1>1, <3>1
  <2>2. k \in same
    <3>1. same \in SUBSET Nat
      OBVIOUS
    <3>. HIDE DEF same
    <3>. QED BY <1>6, <3>1, Lowest
  <2>3. Through(s, capacity) = ToChild(s, rest, k, capacity)
    BY <1>6 DEF Through, rest
  <2>4. k \in 1..Len(m.indices) /\ m.indices[k] = rest[1]
    BY <2>1, <2>2
  <2>. HIDE DEF k, same
  <2>. QED BY <1>1, <1>3, <1>4, <2>1, <2>3, <2>4, ToChildInv
<1>7. CASE same = {} /\ n.wildChild
  <2>1. Through(s, capacity) = ToWildcard(s, rest)
    BY <1>7 DEF Through, rest
  <2>2. m.wildChild
    BY <1>1, <1>7 DEF Same
  <2>. HIDE DEF same
  <2>. QED BY <1>1, <1>3, <1>4, <1>5, <2>1, <2>2, ToWildcardInv
<1>8. CASE same = {} /\ ~n.wildChild
  <2>1. \/ Through(s, capacity) = Found(s, Miss(n.handlers # Nil, s.skipped))
        \/ Through(s, capacity) = GoBack(s, rest, FALSE)
    BY <1>8 DEF Through, rest
  <2>. HIDE DEF same
  <2>. QED BY <2>1, FoundInv, MissAnswered, GoBackInv
<1>. QED BY <1>6, <1>7, <1>8

(* So does ending at a node whose path is all that is left                 *)
(* (tree.go:633-680).                                                      *)
LEMMA HereInv ==
    ASSUME RoutesAndPaths, NEW A, NEW p, NEW s, LookInv(A, p, s), s.value.kind = "none",
           s.path = s.node.path
    PROVE  LookInv(A, p, Here(s))
<1>1. PICK a, m : /\ Open(A, a, m) /\ a \in Seq(Tokens)
                  /\ Same(s.node, m) /\ (s.node = m \/ s.node.indices = <<>>)
                  /\ Base(m) \/ (Inner(m) /\ s.path # <<>> /\ s.path[1] = Slash)
                  /\ Reading(a, p) = At(s.path, s.params)
  BY AtNode
<1>2. \/ s.node.handlers # Nil /\ Here(s) = Found(s, Hit(s.node, s.params, s.skipped))
      \/ \E tsr : Here(s) = Found(s, Miss(tsr, s.skipped))
      \/ \E tsr : Here(s) = GoBack(s, s.path, tsr)
  BY DEF Here
<1>3. CASE s.node.handlers # Nil /\ Here(s) = Found(s, Hit(s.node, s.params, s.skipped))
  <2>1. s.path = m.path /\ s.path \in Seq(Plain) /\ m.handlers = s.node.handlers /\ m.fullPath = s.node.fullPath
    BY <1>1 DEF Same, LookInv
  <2>2. m.handlers \in A /\ m.handlers = a \o m.path /\ m.fullPath = m.handlers
    BY <1>1, <1>3, <2>1 DEF Open, Local
  <2>3. Reading(a \o m.path, p) = At(From(s.path, Len(s.path) + 1), s.params)
    <3>1. Len(s.path) \in Nat
      BY <2>1
    <3>. QED BY <1>1, <2>1, <3>1, ReadPlain
  <2>4. From(s.path, Len(s.path) + 1) = <<>>
    BY <2>1, SubSeqEmpty DEF From
  <2>. DEFINE value == Hit(s.node, s.params, s.skipped)
  <2>5. Answered(A, p, value) /\ value.kind # "none"
    BY <2>1, <2>2, <2>3, <2>4 DEF Answered, Hit
  <2>. HIDE DEF value
  <2>. QED BY <1>3, <2>5, FoundInv DEF value
<1>4. CASE \E tsr : Here(s) = Found(s, Miss(tsr, s.skipped))
  BY <1>4, FoundInv, MissAnswered
<1>5. CASE \E tsr : Here(s) = GoBack(s, s.path, tsr)
  BY <1>5, GoBackInv
<1>. QED BY <1>2, <1>3, <1>4, <1>5

(* And so does every round of the search (tree.go:466-709).                *)
LEMMA VisitInv ==
    ASSUME RoutesAndPaths, NEW A, NEW p, NEW s, LookInv(A, p, s), NEW capacity
    PROVE  LookInv(A, p, Visit(s, capacity))
<1>1. CASE s.value.kind # "none"
  BY <1>1 DEF Visit
<1>2. CASE s.value.kind = "none"
  <2>1. \/ Visit(s, capacity) = Through(s, capacity) /\ Len(s.path) > Len(s.node.path) /\ IsPrefix(s.node.path, s.path)
        \/ Visit(s, capacity) = Here(s) /\ s.path = s.node.path
        \/ Visit(s, capacity) = Found(s, Miss(TRUE, s.skipped))
        \/ Visit(s, capacity) = GoBack(s, s.path, FALSE)
    BY <1>2 DEF Visit
  <2>. QED BY <1>2, <2>1, ThroughInv, HereInv, FoundInv, MissAnswered, GoBackInv
<1>. QED BY <1>1, <1>2

(* The root of a tree, where nothing has been read.                        *)
GoodTree(A, t) == Good(A, <<>>, t) /\ Base(t)

(* Whatever the tree's other routes, what is found is a route of the tree   *)
(* that matches the path, with the values it binds (tree.go:463-710).       *)
THEOREM LookUpSound ==
    ASSUME RoutesAndPaths, NEW A, NEW t, GoodTree(A, t), NEW p \in Seq(Plain), NEW capacity
    PROVE  Answered(A, p, getValue(t, p, <<>>, capacity))
<1>1. PICK round : Looks(round, t, p, <<>>, capacity)
  BY LookRounds
<1>. DEFINE T == {i \in 0..MaxRounds : LookInv(A, p, round[i])}
<1>2. MaxRounds \in Nat
  BY DEF RoutesAndPaths
<1>3. LookInv(A, p, round[0])
  <2>. DEFINE s == [node |-> t, path |-> p, params |-> <<>>, skipped |-> <<>>, value |-> Looking]
  <2>1. round[0] = s
    BY <1>1 DEF Looks
  <2>2. s.node = t /\ s.path = p /\ s.params = <<>> /\ s.skipped = <<>> /\ s.value = Looking
    OBVIOUS
  <2>3. s \in [node : {s.node}, path : {s.path}, params : {s.params}, skipped : {s.skipped}, value : {s.value}]
    OBVIOUS
  <2>4. <<>> \in Seq({}) /\ Len(<<>>) = 0
    BY EmptySeq
  <2>. HIDE DEF s
  <2>5. State(s) /\ IsSeq(s.params)
    BY <2>2, <2>3, <2>4 DEF State, IsSeq
  <2>6. Stands(A, p, s)
    BY <2>2, ReadingNothing DEF Stands, GoodTree
  <2>7. Skips(A, p, s)
    BY <2>2, <2>4 DEF Skips
  <2>8. Answered(A, p, s.value)
    BY <2>2 DEF Answered, Looking
  <2>. QED BY <2>1, <2>2, <2>5, <2>6, <2>7, <2>8 DEF LookInv
<1>4. \A i \in 1..MaxRounds : i - 1 \in T => i \in T
  <2>1. TAKE i \in 1..MaxRounds
  <2>2. HAVE i - 1 \in T
  <2>3. round[i] = Visit(round[i - 1], capacity)
    BY <1>1, <2>1 DEF Looks
  <2>4. LookInv(A, p, round[i])
    BY <2>2, <2>3, VisitInv
  <2>. QED BY <1>2, <2>1, <2>4
<1>5. LookInv(A, p, round[MaxRounds])
  <2>1. 0 \in T
    BY <1>2, <1>3
  <2>2. \A i \in 0..MaxRounds : i \in T
    <3>. HIDE DEF T
    <3>. QED BY <1>2, <1>4, <2>1, CountUp
  <2>. QED BY <1>2, <2>2
<1>. QED BY <1>1, <1>5 DEF Looks, LookInv

-----------------------------------------------------------------------------
(* Nodes *)

(* As the parent of m sees it, t is no other kind of node.                 *)
Like(t, m) == t.nType = m.nType /\ (m.nType = "catchAll" => t.wildChild = m.wildChild)

(* A node's children are a sequence, and so is what is made of them.       *)
LEMMA NodeFields ==
    ASSUME NEW m, Node(m)
    PROVE  /\ m.path \in Seq(Tokens) /\ m.indices \in Seq(Tokens) /\ m.wildChild \in BOOLEAN
           /\ m.nType \in Kinds /\ IsSeq(m.children)
           /\ Len(m.path) \in Nat /\ Len(m.indices) \in Nat /\ Len(m.children) \in Nat
BY DEF Node, IsSeq

(* Which kinds there are.                                                  *)
LEMMA KindOf ==
    ASSUME NEW m, Node(m)
    PROVE  Base(m) \/ Param(m) \/ Inner(m) \/ Leaf(m)
BY DEF Node, Kinds, Base, Param, Inner, Leaf

(* Neither the priority nor whether it is the root matters to the shape.   *)
LEMMA GoodDress ==
    ASSUME NEW A, NEW a, NEW m, Good(A, a, m), NEW n, Node(n),
           n.path = m.path, n.indices = m.indices, n.wildChild = m.wildChild,
           n.children = m.children, n.handlers = m.handlers, n.fullPath = m.fullPath,
           n.nType = m.nType \/ (Base(n) /\ Base(m))
    PROVE  Good(A, a, n)
<1>1. Open(A, a, m) /\ Local(A, a, m) /\ Shape(m)
  BY GoodOpen DEF Open, Local
<1>2. /\ Base(n) <=> Base(m)
      /\ Param(n) <=> Param(m)
      /\ Inner(n) <=> Inner(m)
      /\ Leaf(n) <=> Leaf(m)
  BY DEF Base, Param, Inner, Leaf
<1>3. Shape(n)
  BY <1>1, <1>2 DEF Shape
<1>4. Local(A, a, n)
  BY <1>1, <1>3 DEF Local
<1>5. ASSUME NEW k \in 1..Len(n.children)
      PROVE  Fits(n, k, n.children[k]) /\ Good(A, a \o n.path, n.children[k])
  <2>1. Fits(m, k, m.children[k]) /\ Good(A, a \o m.path, m.children[k])
    BY <1>1 DEF Open
  <2>2. Fits(n, k, m.children[k])
    BY <1>2, <2>1 DEF Fits
  <2>. QED BY <2>1, <2>2
<1>. QED BY <1>4, <1>5, GoodMake DEF Open

(* A higher priority changes nothing else.                                 *)
LEMMA GoodBumped ==
    ASSUME NEW A, NEW a, NEW m, Good(A, a, m)
    PROVE  /\ Good(A, a, Bumped(m)) /\ Like(Bumped(m), m) /\ Bumped(m).path = m.path
           /\ Bumped(m).children = m.children /\ Bumped(m).indices = m.indices
           /\ Bumped(m).handlers = m.handlers /\ Bumped(m).wildChild = m.wildChild
<1>1. Node(m)
  BY GoodOpen DEF Open, Local
<1>. DEFINE n == Bumped(m)
<1>2. /\ n.path = m.path /\ n.indices = m.indices /\ n.wildChild = m.wildChild /\ n.nType = m.nType
      /\ n.children = m.children /\ n.handlers = m.handlers /\ n.fullPath = m.fullPath
      /\ n \in [path : Seq(Tokens), indices : Seq(Tokens), wildChild : BOOLEAN, nType : Kinds,
                priority : {n.priority}, children : {n.children},
                handlers : {n.handlers}, fullPath : {n.fullPath}]
  BY <1>1 DEF Node, Bumped
<1>. HIDE DEF n
<1>3. Node(n)
  BY <1>1, <1>2 DEF Node
<1>4. Good(A, a, n)
  BY <1>2, <1>3, GoodDress
<1>. QED BY <1>2, <1>4 DEF n, Like

(* One child for another.                                                  *)
WithChild(n, k, t) == [n EXCEPT !.children[k] = t]

(* What a node keeps when one of its children is replaced.                 *)
LEMMA PutChild ==
    ASSUME NEW n, Node(n), NEW k \in 1..Len(n.children), NEW t, NEW m, m = WithChild(n, k, t)
    PROVE  /\ Node(m) /\ m.path = n.path /\ m.indices = n.indices /\ m.wildChild = n.wildChild
           /\ m.nType = n.nType /\ m.handlers = n.handlers /\ m.fullPath = n.fullPath
           /\ Len(m.children) = Len(n.children) /\ m.children # <<>>
           /\ \A j \in 1..Len(n.children) : m.children[j] = IF j = k THEN t ELSE n.children[j]
<1>. DEFINE cs == [n.children EXCEPT ![k] = t]
<1>1. m = [n EXCEPT !.children = cs]
  BY DEF WithChild
<1>2. PICK S : n.children \in Seq(S)
  BY DEF Node, IsSeq
<1>3. n.children \in Seq(S \cup {t}) /\ t \in S \cup {t}
  BY <1>2, SeqMonotonic
<1>4. /\ cs \in Seq(S \cup {t}) /\ Len(cs) = Len(n.children)
      /\ \A j \in 1..Len(n.children) : cs[j] = IF j = k THEN t ELSE n.children[j]
  BY <1>3, ExceptSeq
<1>. HIDE DEF cs
<1>5. /\ m.path = n.path /\ m.indices = n.indices /\ m.wildChild = n.wildChild
      /\ m.nType = n.nType /\ m.handlers = n.handlers /\ m.fullPath = n.fullPath
      /\ m.children = cs
      /\ m \in [path : Seq(Tokens), indices : Seq(Tokens), wildChild : BOOLEAN, nType : Kinds,
                priority : {m.priority}, children : {m.children},
                handlers : {m.handlers}, fullPath : {m.fullPath}]
  BY <1>1 DEF Node
<1>6. IsSeq(m.children)
  BY <1>4, <1>5 DEF IsSeq
<1>7. Node(m)
  BY <1>5, <1>6 DEF Node
<1>8. m.children # <<>>
  BY <1>2, <1>4, <1>5, EmptySeq
<1>. QED BY <1>4, <1>5, <1>7, <1>8

(* A child of the same kind keeps the shape.                               *)
LEMMA GoodChild ==
    ASSUME NEW A, NEW a, NEW n, Good(A, a, n), NEW k \in 1..Len(n.children), NEW t,
           Like(t, n.children[k]), Good(A, a \o n.path, t), NEW m, m = WithChild(n, k, t)
    PROVE  Good(A, a, m) /\ Like(m, n)
<1>1. Open(A, a, n) /\ Local(A, a, n) /\ Shape(n) /\ Node(n)
  BY GoodOpen DEF Open, Local
<1>2. /\ Node(m) /\ m.path = n.path /\ m.indices = n.indices /\ m.wildChild = n.wildChild
      /\ m.nType = n.nType /\ m.handlers = n.handlers /\ m.fullPath = n.fullPath
      /\ Len(m.children) = Len(n.children)
      /\ \A j \in 1..Len(n.children) : m.children[j] = IF j = k THEN t ELSE n.children[j]
  BY <1>1, PutChild
<1>3. /\ Base(m) <=> Base(n)
      /\ Param(m) <=> Param(n)
      /\ Inner(m) <=> Inner(n)
      /\ Leaf(m) <=> Leaf(n)
  BY <1>2 DEF Base, Param, Inner, Leaf
<1>4. ~Leaf(n)
  <2>1. Leaf(n) => n.children = <<>>
    BY <1>1 DEF Shape
  <2>. QED BY <2>1, EmptySeq
<1>5. Shape(m)
  BY <1>1, <1>2, <1>3, <1>4 DEF Shape
<1>6. ASSUME NEW j \in 1..Len(m.children)
      PROVE  Fits(m, j, m.children[j]) /\ Good(A, a \o m.path, m.children[j])
  <2>1. j \in 1..Len(n.children)
    BY <1>2
  <2>2. Fits(n, j, n.children[j]) /\ Good(A, a \o n.path, n.children[j])
    BY <1>1, <2>1 DEF Open
  <2>3. CASE j = k
    <3>1. m.children[j] = t
      BY <1>2, <2>1, <2>3
    <3>2. /\ Param(n.children[k]) <=> Param(t)
          /\ Inner(n.children[k]) <=> Inner(t)
          /\ Leaf(n.children[k]) <=> Leaf(t)
          /\ t.nType = n.children[k].nType
      BY DEF Like, Param, Inner, Leaf
    <3>3. Fits(n, j, t)
      BY <2>2, <2>3, <3>2 DEF Fits
    <3>4. Fits(m, j, t)
      BY <1>2, <1>3, <3>3 DEF Fits
    <3>. QED BY <1>2, <3>1, <3>4
  <2>4. CASE j # k
    <3>1. m.children[j] = n.children[j]
      BY <1>2, <2>1, <2>4
    <3>2. Fits(m, j, n.children[j])
      BY <1>2, <1>3, <2>2 DEF Fits
    <3>. QED BY <1>2, <2>2, <3>1, <3>2
  <2>. QED BY <2>3, <2>4
<1>7. Local(A, a, m)
  BY <1>1, <1>2, <1>5 DEF Local
<1>8. Good(A, a, m)
  BY <1>6, <1>7, GoodMake DEF Open
<1>. QED BY <1>2, <1>8 DEF Like

-----------------------------------------------------------------------------
(* The whole tree around a node *)

(* top puts the nodes above back on, one after the other.                  *)
Tops(top, n, up) ==
    /\ top[0] = n /\ Root(n, up) = top[Len(up)]
    /\ \A i \in 1..Len(up) :
          top[i] = WithChild(up[Len(up) - i + 1].node, up[Len(up) - i + 1].child, top[i - 1])

(* The recursive function in Root is one that Tops describes.              *)
LEMMA RootRounds ==
    ASSUME NEW n, NEW up, IsSeq(up)
    PROVE  \E top : Tops(top, n, up)
<1>. DEFINE m == Len(up)
            on(i, t) == WithChild(up[m - i + 1].node, up[m - i + 1].child, t)
            fits(g, k) == g = [i \in 0..k |-> IF i = 0 THEN n ELSE on(i, g[i - 1])]
            T == {k \in 0..m : \E g : fits(g, k)}
<1>1. m \in Nat
  BY DEF IsSeq
<1>. HIDE DEF on, m
<1>2. 0 \in T
  <2>1. fits([i \in 0..0 |-> n], 0)
    OBVIOUS
  <2>2. 0 \in 0..m
    BY <1>1
  <2>. QED BY <2>1, <2>2
<1>3. ASSUME NEW k \in 1..m, k - 1 \in T PROVE k \in T
  <2>1. PICK g : fits(g, k - 1)
    BY <1>3
  <2>. DEFINE h == [i \in 0..k |-> IF i < k THEN g[i] ELSE on(k, g[k - 1])]
  <2>2. \A i \in 0 .. k - 1 : g[i] = IF i = 0 THEN n ELSE on(i, g[i - 1])
    BY <2>1
  <2>3. \A i \in 0..k : h[i] = IF i = 0 THEN n ELSE on(i, h[i - 1])
    BY <1>1, <2>2
  <2>4. h = [i \in 0..k |-> h[i]]
    OBVIOUS
  <2>. HIDE DEF h
  <2>5. fits(h, k)
    BY <2>3, <2>4
  <2>. QED BY <2>5
<1>4. m \in T
  <2>. HIDE DEF T
  <2>1. \A i \in 0..m : i \in T
    BY <1>1, <1>2, <1>3, CountUp
  <2>. QED BY <1>1, <2>1
<1>5. PICK g : fits(g, m)
  BY <1>4
<1>6. PICK top : fits(top, m) /\ Root(n, up) = top[m]
  BY <1>5 DEF Root, on, m, WithChild
<1>7. top[0] = n /\ \A i \in 1..m : top[i] = on(i, top[i - 1])
  BY <1>1, <1>6
<1>. QED BY <1>6, <1>7 DEF Tops, on, m

(* Nothing above: the node is the root.                                    *)
LEMMA RootHere ==
    ASSUME NEW n
    PROVE  Root(n, <<>>) = n
<1>1. IsSeq(<<>>) /\ Len(<<>>) = 0
  BY EmptySeq DEF IsSeq
<1>. QED BY <1>1, RootRounds DEF Tops

(* One node more above: it takes the lower one as its child.               *)
LEMMA RootAppend ==
    ASSUME NEW t, NEW up, IsSeq(up), NEW e
    PROVE  /\ Root(t, Append(up, e)) = Root(WithChild(e.node, e.child, t), up)
           /\ IsSeq(Append(up, e))
<1>1. PICK S : up \in Seq(S)
  BY DEF IsSeq
<1>. DEFINE Q == S \cup {e}
            more == Append(up, e)
            n == WithChild(e.node, e.child, t)
<1>2. up \in Seq(Q) /\ e \in Q
  BY <1>1, SeqMonotonic
<1>. HIDE DEF Q
<1>3. /\ more \in Seq(Q) /\ Len(more) = Len(up) + 1 /\ Len(up) \in Nat
      /\ \A j \in 1..Len(up) : more[j] = up[j]
      /\ more[Len(up) + 1] = e
  BY <1>2, AppendProperties
<1>. HIDE DEF more, n
<1>4. IsSeq(more)
  BY <1>3 DEF IsSeq
<1>5. PICK f : Tops(f, n, up)
  BY RootRounds
<1>6. PICK g : Tops(g, t, more)
  BY <1>4, RootRounds
<1>. DEFINE T == {i \in 0..Len(up) : g[i + 1] = f[i]}
<1>7. 0 \in T
  <2>1. 1 \in 1..Len(more) /\ Len(more) - 1 + 1 = Len(up) + 1 /\ 1 - 1 = 0 /\ 0 \in 0..Len(up) /\ 0 + 1 = 1
    BY <1>3
  <2>2. g[1] = WithChild(more[Len(more) - 1 + 1].node, more[Len(more) - 1 + 1].child, g[1 - 1])
    BY <1>6, <2>1 DEF Tops
  <2>3. g[1] = n
    BY <1>3, <1>6, <2>1, <2>2 DEF Tops, n
  <2>. QED BY <1>5, <2>1, <2>3 DEF Tops
<1>8. ASSUME NEW i \in 1..Len(up), i - 1 \in T PROVE i \in T
  <2>1. /\ i + 1 \in 1..Len(more) /\ Len(more) - (i + 1) + 1 = Len(up) - i + 1
        /\ Len(up) - i + 1 \in 1..Len(up) /\ i + 1 - 1 = i /\ i - 1 + 1 = i /\ i \in 0..Len(up)
    BY <1>3
  <2>2. g[i + 1] = WithChild(more[Len(more) - (i + 1) + 1].node, more[Len(more) - (i + 1) + 1].child, g[i + 1 - 1])
    BY <1>6, <2>1 DEF Tops
  <2>3. g[i + 1] = WithChild(up[Len(up) - i + 1].node, up[Len(up) - i + 1].child, g[i])
    BY <1>3, <2>1, <2>2
  <2>4. f[i] = WithChild(up[Len(up) - i + 1].node, up[Len(up) - i + 1].child, f[i - 1])
    BY <1>5 DEF Tops
  <2>5. g[i] = f[i - 1]
    BY <1>8, <2>1
  <2>. QED BY <2>1, <2>3, <2>4, <2>5
<1>9. g[Len(up) + 1] = f[Len(up)]
  <2>1. \A i \in 0..Len(up) : i \in T
    <3>. HIDE DEF T
    <3>. QED BY <1>3, <1>7, <1>8, CountUp
  <2>. QED BY <1>3, <2>1
<1>10. Root(t, more) = Root(n, up)
  BY <1>3, <1>5, <1>6, <1>9 DEF Tops
<1>. QED BY <1>4, <1>10 DEF more, n

-----------------------------------------------------------------------------
(* The steps of a registration, each of which keeps the shape *)

(* A node with nothing in it yet.                                          *)
Fresh(m) ==
    /\ Node(m) /\ Base(m) /\ m.path = <<>> /\ m.indices = <<>> /\ m.children = <<>>
    /\ ~m.wildChild /\ m.handlers = Nil

(* A node with nothing in it is good below any path and for any routes.    *)
LEMMA GoodFresh ==
    ASSUME NEW A, NEW a \in Seq(Tokens), NEW m, Fresh(m)
    PROVE  Good(A, a, m)
<1>1. Shape(m)
  BY EmptySeq DEF Fresh, Shape, Base, Param, Inner, Leaf
<1>2. Local(A, a, m)
  BY <1>1 DEF Local, Fresh
<1>3. \A k \in 1..Len(m.children) : FALSE
  BY EmptySeq DEF Fresh
<1>. QED BY <1>2, <1>3, GoodMake DEF Open

(* A new node is fresh, also with a first use counted.                     *)
LEMMA NewFresh ==
    ASSUME NEW full
    PROVE  /\ Fresh([NewNode EXCEPT !.fullPath = full])
           /\ Fresh([NewNode EXCEPT !.priority = 1, !.fullPath = full])
           /\ [NewNode EXCEPT !.fullPath = full].nType = "static"
           /\ [NewNode EXCEPT !.priority = 1, !.fullPath = full].nType = "static"
<1>1. <<>> \in Seq(Tokens) /\ <<>> \in Seq({})
  BY EmptySeq
<1>. QED BY <1>1 DEF Fresh, Node, Base, Kinds, NewNode, IsSeq, Nil

(* It stays fresh when its priority is raised.                             *)
LEMMA BumpedFresh ==
    ASSUME NEW m, Fresh(m)
    PROVE  Fresh(Bumped(m)) /\ Bumped(m).nType = m.nType
<1>. DEFINE n == Bumped(m)
<1>1. Node(m)
  BY DEF Fresh
<1>2. /\ n.path = m.path /\ n.indices = m.indices /\ n.wildChild = m.wildChild /\ n.nType = m.nType
      /\ n.children = m.children /\ n.handlers = m.handlers /\ n.fullPath = m.fullPath
      /\ n \in [path : Seq(Tokens), indices : Seq(Tokens), wildChild : BOOLEAN, nType : Kinds,
                priority : {n.priority}, children : {n.children},
                handlers : {n.handlers}, fullPath : {n.fullPath}]
  BY <1>1 DEF Node, Bumped
<1>. HIDE DEF n
<1>3. Fresh(n)
  BY <1>1, <1>2 DEF Fresh, Node, Base
<1>. QED BY <1>2, <1>3 DEF n

(* Where the element at j comes from.                                      *)
Origin(j, k, pos) == IF j < pos THEN j ELSE IF j = pos THEN k ELSE IF j <= k THEN j - 1 ELSE j

(* Where the elements come from when one of them moves to the front.       *)
LEMMA MovedFits ==
    ASSUME NEW S, NEW s \in Seq(S), NEW k \in 1..Len(s), NEW pos \in 1..k
    PROVE  /\ Moved(s, k, pos) \in Seq(S) /\ Len(Moved(s, k, pos)) = Len(s)
           /\ \A j \in 1..Len(s) : /\ Origin(j, k, pos) \in 1..Len(s)
                                   /\ Moved(s, k, pos)[j] = s[Origin(j, k, pos)]
<1>. DEFINE a == SubSeq(s, 1, pos - 1)
            b == <<s[k]>>
            c == SubSeq(s, pos, k - 1)
            d == SubSeq(s, k + 1, Len(s))
            m == Len(s)
<1>1. m \in Nat /\ k \in 1..m /\ pos \in 1..k
  OBVIOUS
<1>2. /\ a \in Seq(S) /\ Len(a) = pos - 1
      /\ \A j \in 1 .. pos - 1 : a[j] = s[j]
  <2>1. pos - 1 \in 0..Len(s)
    BY <1>1
  <2>. QED BY <2>1, SplitAt
<1>3. b \in Seq(S) /\ Len(b) = 1 /\ b[1] = s[k]
  BY ElementOfSeq
<1>4. /\ c \in Seq(S) /\ Len(c) = k - pos
      /\ \A j \in 1 .. k - pos : c[j] = s[pos + j - 1]
  <2>1. pos \in Int /\ k - 1 \in Int /\ \A j \in pos .. k - 1 : s[j] \in S
    BY <1>1, ElementOfSeq
  <2>2. /\ c \in Seq(S) /\ Len(c) = IF pos <= k - 1 THEN k - 1 - pos + 1 ELSE 0
        /\ \A j \in 1 .. k - 1 - pos + 1 : c[j] = s[pos + j - 1]
    BY <2>1, SubSeqProperties
  <2>. HIDE DEF c
  <2>. QED BY <1>1, <2>2
<1>5. /\ d \in Seq(S) /\ Len(d) = m - k
      /\ \A j \in 1 .. m - k : d[j] = s[k + j]
  <2>1. k + 1 \in Int /\ m \in Int /\ \A j \in k + 1 .. m : s[j] \in S
    BY <1>1, ElementOfSeq
  <2>2. /\ d \in Seq(S) /\ Len(d) = IF k + 1 <= m THEN m - (k + 1) + 1 ELSE 0
        /\ \A j \in 1 .. m - (k + 1) + 1 : d[j] = s[k + 1 + j - 1]
    BY <2>1, SubSeqProperties
  <2>. HIDE DEF d, m
  <2>. QED BY <1>1, <2>2
<1>6. Moved(s, k, pos) = ((a \o b) \o c) \o d
  BY DEF Moved, From
<1>. HIDE DEF a, b, c, d, m
<1>7. /\ a \o b \in Seq(S) /\ Len(a \o b) = pos
      /\ \A j \in 1..pos : (a \o b)[j] = IF j < pos THEN s[j] ELSE s[k]
  <2>1. /\ a \o b \in Seq(S) /\ Len(a \o b) = Len(a) + Len(b)
        /\ \A j \in 1 .. Len(a) + Len(b) :
              (a \o b)[j] = IF j <= Len(a) THEN a[j] ELSE b[j - Len(a)]
    BY <1>2, <1>3, ConcatProperties
  <2>2. Len(a) = pos - 1 /\ Len(a) + Len(b) = pos
    BY <1>1, <1>2, <1>3
  <2>3. ASSUME NEW j \in 1..pos PROVE (a \o b)[j] = IF j < pos THEN s[j] ELSE s[k]
    <3>1. CASE j < pos
      <4>1. j <= pos - 1 /\ j \in 1 .. pos - 1
        BY <1>1, <3>1
      <4>. QED BY <1>2, <2>1, <2>2, <3>1, <4>1
    <3>2. CASE j = pos
      <4>1. ~(j <= pos - 1) /\ j - (pos - 1) = 1
        BY <1>1, <3>2
      <4>. QED BY <1>3, <2>1, <2>2, <3>2, <4>1
    <3>3. j < pos \/ j = pos
      BY <1>1
    <3>. QED BY <3>1, <3>2, <3>3
  <2>. QED BY <2>1, <2>2, <2>3
<1>. DEFINE ab == a \o b
<1>. HIDE DEF ab
<1>8. /\ ab \o c \in Seq(S) /\ Len(ab \o c) = k
      /\ \A j \in 1..k : (ab \o c)[j] = IF j <= pos THEN ab[j] ELSE c[j - pos]
  <2>0. ab \in Seq(S) /\ Len(ab) = pos
    BY <1>7 DEF ab
  <2>1. /\ ab \o c \in Seq(S) /\ Len(ab \o c) = Len(ab) + Len(c)
        /\ \A j \in 1 .. Len(ab) + Len(c) :
              (ab \o c)[j] = IF j <= Len(ab) THEN ab[j] ELSE c[j - Len(ab)]
    BY <1>4, <2>0, ConcatProperties
  <2>2. Len(ab) = pos /\ Len(ab) + Len(c) = k
    BY <1>1, <1>4, <2>0
  <2>. QED BY <2>1, <2>2
<1>. DEFINE abc == ab \o c
<1>. HIDE DEF abc
<1>9. /\ abc \o d \in Seq(S) /\ Len(abc \o d) = m
      /\ \A j \in 1..m : (abc \o d)[j] = IF j <= k THEN abc[j] ELSE d[j - k]
  <2>0. abc \in Seq(S) /\ Len(abc) = k
    BY <1>8 DEF abc
  <2>1. /\ abc \o d \in Seq(S) /\ Len(abc \o d) = Len(abc) + Len(d)
        /\ \A j \in 1 .. Len(abc) + Len(d) :
              (abc \o d)[j] = IF j <= Len(abc) THEN abc[j] ELSE d[j - Len(abc)]
    BY <1>5, <2>0, ConcatProperties
  <2>2. Len(abc) = k /\ Len(abc) + Len(d) = m
    BY <1>1, <1>5, <2>0
  <2>. QED BY <2>1, <2>2
<1>10. ASSUME NEW j \in 1..m
       PROVE  Origin(j, k, pos) \in 1..m /\ (abc \o d)[j] = s[Origin(j, k, pos)]
  <2>1. CASE j < pos
    <3>1. (abc \o d)[j] = s[j]
      BY <1>1, <1>7, <1>8, <1>9, <2>1 DEF ab, abc
    <3>. QED BY <1>1, <2>1, <3>1 DEF Origin
  <2>2. CASE j = pos
    <3>1. (abc \o d)[j] = s[k]
      BY <1>1, <1>7, <1>8, <1>9, <2>2 DEF ab, abc
    <3>. QED BY <1>1, <2>2, <3>1 DEF Origin
  <2>3. CASE pos < j /\ j <= k
    <3>1. j - pos \in 1 .. k - pos /\ pos + (j - pos) - 1 = j - 1
      BY <1>1, <2>3
    <3>2. (abc \o d)[j] = c[j - pos]
      BY <1>1, <1>8, <1>9, <2>3 DEF abc
    <3>3. (abc \o d)[j] = s[j - 1]
      BY <1>4, <3>1, <3>2
    <3>. QED BY <1>1, <2>3, <3>3 DEF Origin
  <2>4. CASE k < j
    <3>1. j - k \in 1 .. m - k /\ k + (j - k) = j
      BY <1>1, <2>4
    <3>2. (abc \o d)[j] = d[j - k]
      BY <1>1, <1>9, <2>4
    <3>3. (abc \o d)[j] = s[j]
      BY <1>5, <3>1, <3>2
    <3>. QED BY <1>1, <2>4, <3>3 DEF Origin
  <2>5. j < pos \/ j = pos \/ (pos < j /\ j <= k) \/ k < j
    BY <1>1
  <2>. QED BY <2>1, <2>2, <2>3, <2>4, <2>5
<1>. QED BY <1>6, <1>9, <1>10 DEF m, ab, abc

(* The children move together with the indices.                            *)
Shuffled(n, k, pos) ==
    [n EXCEPT !.children = Moved(n.children, k, pos), !.indices = Moved(n.indices, k, pos)]

(* A node whose children and indices moved together is as good as before.  *)
LEMMA GoodMoved ==
    ASSUME NEW A, NEW a, NEW n, Good(A, a, n), Base(n) \/ Param(n),
           NEW k \in 1..Len(n.indices), NEW pos \in 1..k, NEW m, m = Shuffled(n, k, pos)
    PROVE  /\ Good(A, a, m) /\ Like(m, n) /\ m.path = n.path
           /\ Len(m.children) = Len(n.children) /\ pos \in 1..Len(m.children) /\ k \in 1..Len(n.children)
           /\ m.children[pos] = n.children[k]
<1>1. Open(A, a, n) /\ Local(A, a, n) /\ Shape(n) /\ Node(n)
  BY GoodOpen DEF Open, Local
<1>2. Len(n.indices) \in Nat /\ Len(n.children) \in Nat /\ n.indices \in Seq(Tokens) /\ n.wildChild \in BOOLEAN
  BY <1>1, NodeFields
<1>3. /\ Len(n.indices) <= Len(n.children) /\ k \in 1..Len(n.children)
      /\ Base(n) /\ n.wildChild => Len(n.children) = Len(n.indices) + 1
  <2>1. CASE Base(n)
    <3>1. Len(n.children) = Len(n.indices) + (IF n.wildChild THEN 1 ELSE 0)
      BY <1>1, <2>1 DEF Shape
    <3>2. CASE n.wildChild
      BY <1>2, <3>1, <3>2
    <3>3. CASE ~n.wildChild
      BY <1>2, <3>1, <3>3
    <3>. QED BY <3>2, <3>3
  <2>2. CASE Param(n)
    <3>1. Len(n.indices) <= Len(n.children) /\ ~n.wildChild
      BY <1>1, <2>2 DEF Shape
    <3>. QED BY <1>2, <3>1
  <2>. QED BY <2>1, <2>2
<1>. DEFINE cs == Moved(n.children, k, pos)
            ix == Moved(n.indices, k, pos)
<1>4. PICK S : n.children \in Seq(S)
  BY <1>1 DEF Node, IsSeq
<1>5. /\ cs \in Seq(S) /\ Len(cs) = Len(n.children)
      /\ \A j \in 1..Len(n.children) :
            Origin(j, k, pos) \in 1..Len(n.children) /\ cs[j] = n.children[Origin(j, k, pos)]
  BY <1>3, <1>4, MovedFits
<1>6. /\ ix \in Seq(Tokens) /\ Len(ix) = Len(n.indices)
      /\ \A j \in 1..Len(n.indices) :
            Origin(j, k, pos) \in 1..Len(n.indices) /\ ix[j] = n.indices[Origin(j, k, pos)]
  BY <1>2, MovedFits
<1>. HIDE DEF cs, ix
<1>7. m = [n EXCEPT !.children = cs, !.indices = ix]
  BY DEF cs, ix, Shuffled
<1>8. /\ m.path = n.path /\ m.indices = ix /\ m.wildChild = n.wildChild
      /\ m.nType = n.nType /\ m.handlers = n.handlers /\ m.fullPath = n.fullPath /\ m.children = cs
      /\ m \in [path : Seq(Tokens), indices : Seq(Tokens), wildChild : BOOLEAN, nType : Kinds,
                priority : {m.priority}, children : {m.children},
                handlers : {m.handlers}, fullPath : {m.fullPath}]
  BY <1>1, <1>6, <1>7 DEF Node
<1>9. Node(m)
  BY <1>5, <1>8 DEF Node, IsSeq
<1>10. /\ Base(m) <=> Base(n)
       /\ Param(m) <=> Param(n)
       /\ Inner(m) <=> Inner(n)
       /\ Leaf(m) <=> Leaf(n)
       /\ ~Inner(n) /\ ~Leaf(n)
  BY <1>8 DEF Base, Param, Inner, Leaf
<1>11. Shape(m)
  BY ZenonT(60), <1>1, <1>5, <1>6, <1>8, <1>10 DEF Shape
<1>12. ASSUME NEW j \in 1..Len(m.children)
       PROVE  Fits(m, j, m.children[j]) /\ Good(A, a \o m.path, m.children[j])
  <2>. DEFINE i == Origin(j, k, pos)
  <2>1. i \in 1..Len(n.children) /\ m.children[j] = n.children[i] /\ j \in 1..Len(n.children)
    BY <1>5, <1>8
  <2>2. Fits(n, i, n.children[i]) /\ Good(A, a \o n.path, n.children[i])
    BY <1>1, <2>1 DEF Open
  <2>3. CASE Param(n)
    <3>1. ~Base(m) /\ ~Inner(m) /\ ~Base(n)
      BY <1>10, <2>3 DEF Base, Param
    <3>. HIDE DEF i
    <3>2. Fits(m, j, n.children[i])
      BY <2>2, <2>3, <3>1 DEF Fits
    <3>. QED BY <1>8, <2>1, <2>2, <3>2
  <2>4. CASE Base(n) /\ n.wildChild /\ j = Len(n.children)
    <3>1. i = j
      BY <1>2, <1>3, <2>4 DEF Origin
    <3>2. Param(n.children[i])
      BY <2>2, <2>4, <3>1 DEF Fits
    <3>. HIDE DEF i
    <3>3. Fits(m, j, n.children[i])
      BY <1>5, <1>8, <1>10, <2>4, <3>2 DEF Fits, Param, Base
    <3>. QED BY <1>8, <2>1, <2>2, <3>3
  <2>5. CASE Base(n) /\ ~(n.wildChild /\ j = Len(n.children))
    <3>1. j \in 1..Len(n.indices)
      <4>1. Len(n.children) = Len(n.indices) + (IF n.wildChild THEN 1 ELSE 0)
        BY <1>1, <2>5 DEF Shape
      <4>2. CASE n.wildChild
        BY <1>2, <2>1, <2>5, <4>1, <4>2
      <4>3. CASE ~n.wildChild
        BY <1>2, <2>1, <4>1, <4>3
      <4>. QED BY <4>2, <4>3
    <3>2. i \in 1..Len(n.indices) /\ m.indices[j] = n.indices[i]
      BY <1>6, <1>8, <3>1
    <3>3. ~(n.wildChild /\ i = Len(n.children))
      <4>. HIDE DEF i
      <4>. QED BY <1>2, <1>3, <2>5, <3>2
    <3>. HIDE DEF i
    <3>4. n.children[i].nType = "static" \/ (Inner(n.children[i]) /\ n.indices[i] = Slash)
      BY <2>2, <2>5, <3>3 DEF Fits
    <3>5. ~(m.wildChild /\ j = Len(m.children)) /\ ~Param(m) /\ ~Inner(m)
      BY <1>5, <1>8, <1>10, <2>5 DEF Base, Param
    <3>6. Fits(m, j, n.children[i])
      BY <3>2, <3>4, <3>5 DEF Fits
    <3>. QED BY <1>8, <2>1, <2>2, <3>6
  <2>. QED BY <2>3, <2>4, <2>5
<1>13. Local(A, a, m)
  BY <1>1, <1>8, <1>9, <1>11 DEF Local
<1>14. Good(A, a, m)
  BY <1>12, <1>13, GoodMake DEF Open
<1>15. pos \in 1..Len(m.children) /\ m.children[pos] = n.children[k]
  <2>1. pos \in 1..Len(n.children) /\ Origin(pos, k, pos) = k
    BY <1>2, <1>3 DEF Origin
  <2>. QED BY <1>5, <1>8, <2>1
<1>. QED BY <1>3, <1>5, <1>8, <1>14, <1>15 DEF Like

(* incrementChildPrio loses no child, and tells where the one it moved is  *)
(* (tree.go:152-175).                                                      *)
LEMMA Incremented ==
    ASSUME NEW A, NEW a, NEW n, Good(A, a, n), Base(n) \/ Param(n), NEW k \in 1..Len(n.indices)
    PROVE  LET m == incrementChildPrio(n, k) IN
           /\ Good(A, a, m) /\ Like(m, n) /\ m.path = n.path
           /\ NewPosition(n, k) \in 1..Len(m.children) /\ k \in 1..Len(n.children)
           /\ m.children[NewPosition(n, k)] = Bumped(n.children[k])
<1>1. Open(A, a, n) /\ Local(A, a, n) /\ Shape(n) /\ Node(n)
  BY GoodOpen DEF Open, Local
<1>2. Len(n.indices) \in Nat /\ Len(n.children) \in Nat /\ n.wildChild \in BOOLEAN
  BY <1>1, NodeFields
<1>3. k \in 1..Len(n.children)
  <2>1. Len(n.indices) <= Len(n.children)
    <3>1. CASE Base(n) /\ n.wildChild
      <4>1. Len(n.children) = Len(n.indices) + 1
        BY <1>1, <3>1 DEF Shape
      <4>. QED BY <1>2, <4>1
    <3>2. CASE Base(n) /\ ~n.wildChild
      <4>1. Len(n.children) = Len(n.indices) + 0
        BY <1>1, <3>2 DEF Shape
      <4>. QED BY <1>2, <4>1
    <3>3. CASE Param(n)
      BY <1>1, <3>3 DEF Shape
    <3>. QED BY <3>1, <3>2, <3>3
  <2>. QED BY <1>2, <2>1
<1>. DEFINE pos == NewPosition(n, k)
            m == incrementChildPrio(n, k)
<1>4. pos \in 1..k
  <2>. DEFINE S == {0} \cup {j \in 1 .. k - 1 : n.children[j].priority > n.children[k].priority}
  <2>1. S \in SUBSET (0 .. k - 1) /\ S # {} /\ k - 1 \in Nat
    BY <1>2
  <2>2. pos = 1 + HighestOf(S)
    BY DEF NewPosition
  <2>. HIDE DEF S, pos
  <2>3. HighestOf(S) \in 0 .. k - 1
    BY <2>1, Highest
  <2>. QED BY <1>2, <2>2, <2>3
<1>. DEFINE t == Bumped(n.children[k])
            n1 == WithChild(n, k, t)
<1>5. Good(A, a, n1) /\ Like(n1, n)
  <2>1. Good(A, a \o n.path, n.children[k])
    BY <1>1, <1>3 DEF Open
  <2>2. Good(A, a \o n.path, t) /\ Like(t, n.children[k])
    BY <2>1, GoodBumped
  <2>. HIDE DEF t
  <2>. QED BY <1>3, <2>2, GoodChild
<1>. HIDE DEF t
<1>6. /\ n1.path = n.path /\ n1.indices = n.indices /\ n1.nType = n.nType
      /\ Len(n1.children) = Len(n.children) /\ n1.children[k] = t
  BY <1>1, <1>3, PutChild
<1>7. m = Shuffled(n1, k, pos)
  <2>. DEFINE cs == [n.children EXCEPT ![k] = t]
  <2>1. n1 = [n EXCEPT !.children = cs]
    BY DEF WithChild
  <2>2. n1.children = cs /\ n1.indices = n.indices
    BY <1>1, <2>1 DEF Node
  <2>3. m = [n EXCEPT !.children = Moved(cs, k, pos), !.indices = Moved(n.indices, k, pos)]
    BY DEF incrementChildPrio, t
  <2>. DEFINE x == Moved(cs, k, pos)
              y == Moved(n.indices, k, pos)
  <2>. HIDE DEF cs, n1, m, x, y
  <2>4. [n EXCEPT !.children = x, !.indices = y] = [n1 EXCEPT !.children = x, !.indices = y]
    BY <1>1, <2>1 DEF Node
  <2>. QED BY <2>2, <2>3, <2>4 DEF x, y, Shuffled
<1>8. Base(n1) \/ Param(n1)
  BY <1>6 DEF Base, Param
<1>. HIDE DEF n1, m, pos
<1>9. /\ Good(A, a, m) /\ Like(m, n1) /\ m.path = n1.path
      /\ pos \in 1..Len(m.children) /\ m.children[pos] = n1.children[k]
  <2>1. k \in 1..Len(n1.indices) /\ Good(A, a, n1)
    BY <1>5, <1>6
  <2>. QED BY <1>4, <1>7, <1>8, <2>1, GoodMoved
<1>10. Like(m, n)
  BY <1>5, <1>9 DEF Like
<1>. QED BY <1>3, <1>6, <1>9, <1>10 DEF m, pos, t

(* A new child comes before the wildcard.                                  *)
Room(n, i) == i \in Nat /\ Len(n.children) = i + (IF n.wildChild THEN 1 ELSE 0)

AddedTo(m, n, i, child) ==
    /\ Node(m) /\ m.path = n.path /\ m.indices = n.indices /\ m.wildChild = n.wildChild
    /\ m.nType = n.nType /\ m.handlers = n.handlers /\ m.fullPath = n.fullPath
    /\ Len(m.children) = Len(n.children) + 1 /\ m.children[i + 1] = child
    /\ \A j \in 1..i : m.children[j] = n.children[j]
    /\ n.wildChild => m.children[i + 2] = n.children[i + 1]

(* addChild puts the child before the wildcard, if there is one            *)
(* (tree.go:80-87).                                                        *)
LEMMA Added ==
    ASSUME NEW n, Node(n), NEW i, Room(n, i), NEW child
    PROVE  AddedTo(addChild(n, child), n, i, child)
<1>. DEFINE m == addChild(n, child)
<1>0. i \in Nat /\ Len(n.children) = i + (IF n.wildChild THEN 1 ELSE 0)
  BY DEF Room
<1>1. PICK S : n.children \in Seq(S)
  BY DEF Node, IsSeq
<1>. DEFINE Q == S \cup {child}
            cs == n.children
            ds == m.children
<1>2. cs \in Seq(Q) /\ child \in Q /\ n.wildChild \in BOOLEAN /\ Len(cs) \in Nat
  BY <1>1, SeqMonotonic DEF Node
<1>. HIDE DEF m
<1>. HIDE DEF Q
<1>3. CASE n.wildChild
  <2>1. Len(cs) = i + 1 /\ cs # <<>>
    BY <1>0, <1>2, <1>3, EmptySeq
  <2>. DEFINE f == SubSeq(cs, 1, i)
              l == <<child, cs[i + 1]>>
  <2>2. /\ f \in Seq(Q) /\ Len(f) = i
        /\ \A j \in 1..i : f[j] = cs[j]
    <3>1. i \in 0..Len(cs)
      BY <1>0, <2>1
    <3>. QED BY <1>2, <3>1, SplitAt
  <2>3. l \in Seq(Q) /\ Len(l) = 2 /\ l[1] = child /\ l[2] = cs[i + 1]
    <3>1. cs[i + 1] \in Q
      BY <1>0, <1>2, <2>1, ElementOfSeq
    <3>. QED BY <1>2, <3>1
  <2>4. m = [n EXCEPT !.children = f \o l]
    <3>1. Front(cs) = f /\ Last(cs) = cs[i + 1]
      BY <1>0, <2>1 DEF Front, Last
    <3>. QED BY <1>3, <2>1, <3>1 DEF addChild, m
  <2>. HIDE DEF f, l
  <2>5. /\ f \o l \in Seq(Q) /\ Len(f \o l) = i + 2
        /\ \A j \in 1 .. i + 2 : (f \o l)[j] = IF j <= i THEN f[j] ELSE l[j - i]
    <3>1. /\ f \o l \in Seq(Q) /\ Len(f \o l) = Len(f) + Len(l)
          /\ \A j \in 1 .. Len(f) + Len(l) : (f \o l)[j] = IF j <= Len(f) THEN f[j] ELSE l[j - Len(f)]
      <4>1. f \in Seq(Q) /\ l \in Seq(Q)
        BY <2>2, <2>3
      <4>. HIDE <1>3
      <4>. QED BY ONLY <4>1, ConcatProperties
    <3>2. Len(f) = i /\ Len(f) + Len(l) = i + 2
      BY <1>0, <2>2, <2>3
    <3>. QED BY <3>1, <3>2
  <2>6. \A j \in 1..i : (f \o l)[j] = cs[j]
    BY <1>0, <2>2, <2>5
  <2>7. (f \o l)[i + 1] = child /\ (f \o l)[i + 2] = cs[i + 1]
    BY <1>0, <2>3, <2>5
  <2>. DEFINE new == f \o l
  <2>. HIDE DEF new
  <2>8. /\ m.path = n.path /\ m.indices = n.indices /\ m.wildChild = n.wildChild
        /\ m.nType = n.nType /\ m.handlers = n.handlers /\ m.fullPath = n.fullPath /\ m.children = new
        /\ m \in [path : Seq(Tokens), indices : Seq(Tokens), wildChild : BOOLEAN, nType : Kinds,
                  priority : {m.priority}, children : {m.children},
                  handlers : {m.handlers}, fullPath : {m.fullPath}]
    BY <2>4 DEF Node, new
  <2>9. Node(m)
    BY <2>5, <2>8 DEF Node, IsSeq, new
  <2>10. Len(new) = Len(cs) + 1
    BY <1>0, <2>1, <2>5 DEF new
  <2>11. AddedTo(m, n, i, child)
    BY <2>6, <2>7, <2>8, <2>9, <2>10 DEF new, AddedTo
  <2>. QED BY <2>11 DEF m
<1>4. CASE ~n.wildChild
  <2>. DEFINE new == Append(cs, child)
  <2>1. Len(cs) = i /\ m = [n EXCEPT !.children = new]
    BY <1>0, <1>2, <1>4 DEF addChild, m
  <2>2. /\ new \in Seq(Q) /\ Len(new) = Len(cs) + 1 /\ new[i + 1] = child
        /\ \A j \in 1..i : new[j] = cs[j]
    BY <1>2, <2>1, AppendProperties
  <2>. HIDE DEF new
  <2>3. /\ m.path = n.path /\ m.indices = n.indices /\ m.wildChild = n.wildChild
        /\ m.nType = n.nType /\ m.handlers = n.handlers /\ m.fullPath = n.fullPath /\ m.children = new
        /\ m \in [path : Seq(Tokens), indices : Seq(Tokens), wildChild : BOOLEAN, nType : Kinds,
                  priority : {m.priority}, children : {m.children},
                  handlers : {m.handlers}, fullPath : {m.fullPath}]
    BY <2>1 DEF Node
  <2>4. Node(m)
    BY <2>2, <2>3 DEF Node, IsSeq
  <2>5. AddedTo(m, n, i, child)
    BY <1>4, <2>2, <2>3, <2>4 DEF AddedTo
  <2>. QED BY <2>5 DEF m
<1>. QED BY <1>2, <1>3, <1>4

(* A new child behind a token that has none.                               *)
WithIndex(n, x) == [n EXCEPT !.indices = Append(@, x)]

(* A node with a new child behind a new token is good (tree.go:246-253).   *)
LEMMA Widened ==
    ASSUME NEW A, NEW a, NEW n, Good(A, a, n), Base(n) \/ (Param(n) /\ n.children = <<>>),
           NEW x \in Tokens, NEW child, child.nType = "static", Good(A, a \o n.path, child),
           NEW m, m = addChild(WithIndex(n, x), child)
    PROVE  /\ Good(A, a, m) /\ Like(m, n) /\ m.path = n.path
           /\ Len(m.indices) \in 1..Len(m.indices) /\ m.children[Len(m.indices)] = child
<1>1. Open(A, a, n) /\ Local(A, a, n) /\ Shape(n) /\ Node(n)
  BY GoodOpen DEF Open, Local
<1>. DEFINE ix == Append(n.indices, x)
            n1 == [n EXCEPT !.indices = ix]
            i == Len(n.indices)
<1>2. /\ ix \in Seq(Tokens) /\ Len(ix) = i + 1 /\ i \in Nat /\ n.wildChild \in BOOLEAN
      /\ \A j \in 1..i : ix[j] = n.indices[j]
  BY <1>1, NodeFields, AppendProperties
<1>. HIDE DEF ix
<1>3. /\ n1.path = n.path /\ n1.indices = ix /\ n1.wildChild = n.wildChild
      /\ n1.nType = n.nType /\ n1.handlers = n.handlers /\ n1.fullPath = n.fullPath /\ n1.children = n.children
      /\ n1 \in [path : Seq(Tokens), indices : Seq(Tokens), wildChild : BOOLEAN, nType : Kinds,
                 priority : {n1.priority}, children : {n1.children},
                 handlers : {n1.handlers}, fullPath : {n1.fullPath}]
  BY <1>1, <1>2 DEF Node
<1>4. Node(n1) /\ m = addChild(n1, child)
  BY <1>1, <1>3 DEF Node, ix, WithIndex
<1>. HIDE DEF n1
<1>5. Len(n.children) = i + (IF n.wildChild THEN 1 ELSE 0)
  <2>1. CASE Base(n)
    BY <1>1, <2>1 DEF Shape
  <2>2. CASE Param(n) /\ n.children = <<>>
    <3>1. Len(n.children) = 0 /\ ~n.wildChild /\ i <= Len(n.children)
      BY <1>1, <2>2, EmptySeq DEF Shape
    <3>. QED BY <1>2, <3>1
  <2>. QED BY <2>1, <2>2
<1>. HIDE DEF i
<1>6. /\ Node(m) /\ m.path = n.path /\ m.indices = ix /\ m.wildChild = n.wildChild
      /\ m.nType = n.nType /\ m.handlers = n.handlers /\ m.fullPath = n.fullPath
      /\ Len(m.children) = Len(n.children) + 1 /\ m.children[i + 1] = child
      /\ \A j \in 1..i : m.children[j] = n.children[j]
      /\ n.wildChild => m.children[i + 2] = n.children[i + 1]
  <2>1. Room(n1, i)
    BY <1>2, <1>3, <1>5 DEF Room
  <2>2. AddedTo(m, n1, i, child)
    BY <1>4, <2>1, Added
  <2>3. /\ Node(m) /\ m.path = n1.path /\ m.indices = n1.indices /\ m.wildChild = n1.wildChild
        /\ m.nType = n1.nType /\ m.handlers = n1.handlers /\ m.fullPath = n1.fullPath
        /\ Len(m.children) = Len(n1.children) + 1 /\ m.children[i + 1] = child
        /\ \A j \in 1..i : m.children[j] = n1.children[j]
        /\ n1.wildChild => m.children[i + 2] = n1.children[i + 1]
    BY <2>2 DEF AddedTo
  <2>. QED BY <1>3, <2>3
<1>7. /\ Base(m) <=> Base(n)
      /\ Param(m) <=> Param(n)
      /\ ~Inner(m) /\ ~Leaf(m)
  BY <1>6 DEF Base, Param, Inner, Leaf
<1>8. Shape(m)
  <2>1. Base(m) => Len(m.children) = Len(m.indices) + (IF m.wildChild THEN 1 ELSE 0)
    <3>0. Len(m.indices) = i + 1
      BY <1>2, <1>6
    <3>1. CASE n.wildChild
      <4>1. Len(m.children) = i + 2
        BY <1>2, <1>5, <1>6, <3>1
      <4>. QED BY <1>2, <1>6, <3>0, <3>1, <4>1
    <3>2. CASE ~n.wildChild
      <4>1. Len(m.children) = i + 1
        BY <1>2, <1>5, <1>6, <3>2
      <4>. QED BY <1>2, <1>6, <3>0, <3>2, <4>1
    <3>. QED BY <3>1, <3>2
  <2>2. Param(m) => ~m.wildChild /\ Len(m.indices) <= Len(m.children) /\ Len(m.children) <= 1
    <3>1. SUFFICES ASSUME Param(m) PROVE ~m.wildChild /\ Len(m.indices) <= Len(m.children) /\ Len(m.children) <= 1
      OBVIOUS
    <3>2. n.children = <<>> /\ Len(n.children) = 0 /\ ~n.wildChild
      BY <1>1, <1>7, <3>1, EmptySeq DEF Shape, Base, Param
    <3>. QED BY <1>2, <1>5, <1>6, <3>2
  <2>. QED BY <1>1, <1>6, <1>7, <2>1, <2>2 DEF Shape
<1>9. ASSUME NEW j \in 1..Len(m.children)
      PROVE  Fits(m, j, m.children[j]) /\ Good(A, a \o m.path, m.children[j])
  <2>1. \/ j \in 1..i
        \/ j = i + 1
        \/ j = i + 2 /\ n.wildChild /\ j = Len(m.children)
    <3>1. CASE n.wildChild
      BY <1>2, <1>5, <1>6, <3>1
    <3>2. CASE ~n.wildChild
      BY <1>2, <1>5, <1>6, <3>2
    <3>. QED BY <3>1, <3>2
  <2>2. CASE j = i + 1
    <3>1. m.children[j] = child
      BY <1>6, <2>2
    <3>2. ~(m.wildChild /\ j = Len(m.children))
      BY <1>2, <1>5, <1>6, <2>2
    <3>3. Fits(m, j, child)
      BY <1>7, <3>2 DEF Fits
    <3>. QED BY <1>6, <3>1, <3>3
  <2>3. CASE j \in 1..i
    <3>1. m.children[j] = n.children[j] /\ m.indices[j] = n.indices[j]
      BY <1>2, <1>6, <2>3
    <3>2. j \in 1..Len(n.children) /\ ~(n.wildChild /\ j = Len(n.children)) /\ ~(m.wildChild /\ j = Len(m.children))
      <4>1. CASE n.wildChild
        BY <1>2, <1>5, <1>6, <2>3, <4>1
      <4>2. CASE ~n.wildChild
        BY <1>2, <1>5, <1>6, <2>3, <4>2
      <4>. QED BY <4>1, <4>2
    <3>3. Fits(n, j, n.children[j]) /\ Good(A, a \o n.path, n.children[j])
      BY <1>1, <3>2 DEF Open
    <3>4. Fits(m, j, n.children[j])
      BY <1>7, <3>1, <3>2, <3>3 DEF Fits
    <3>. QED BY <1>6, <3>1, <3>3, <3>4
  <2>4. CASE j = i + 2 /\ n.wildChild /\ j = Len(m.children)
    <3>1. m.children[j] = n.children[i + 1] /\ i + 1 \in 1..Len(n.children) /\ i + 1 = Len(n.children)
      BY <1>2, <1>5, <1>6, <2>4
    <3>2. Fits(n, i + 1, n.children[i + 1]) /\ Good(A, a \o n.path, n.children[i + 1])
      BY <1>1, <3>1 DEF Open
    <3>3. Base(n)
      BY <1>1, <2>4 DEF Shape
    <3>4. Param(n.children[i + 1])
      BY <2>4, <3>1, <3>2, <3>3 DEF Fits
    <3>5. Fits(m, j, n.children[i + 1])
      BY <1>6, <1>7, <2>4, <3>3, <3>4 DEF Fits, Base, Param
    <3>. QED BY <1>6, <3>1, <3>2, <3>5
  <2>. QED BY <2>1, <2>2, <2>3, <2>4
<1>10. Local(A, a, m)
  BY <1>1, <1>6, <1>8 DEF Local
<1>11. Good(A, a, m)
  BY <1>9, <1>10, GoodMake DEF Open
<1>. QED BY <1>2, <1>6, <1>11 DEF Like

(* A path without a wildcard is plain.                                     *)
LEMMA PlainSeq ==
    ASSUME NEW p \in Seq(Tokens), \A j \in 1..Len(p) : p[j] \in Plain
    PROVE  p \in Seq(Plain)
<1>1. p = [j \in 1..Len(p) |-> p[j]] /\ Len(p) \in Nat
  OBVIOUS
<1>2. [j \in 1..Len(p) |-> p[j]] \in [1..Len(p) -> Plain]
  OBVIOUS
<1>. QED BY <1>1, <1>2, SeqDef

(* longestCommonPrefix counts tokens that both paths begin with            *)
(* (tree.go:70-77).                                                        *)
LEMMA CommonPrefix ==
    ASSUME NEW a \in Seq(Tokens), NEW b \in Seq(Tokens)
    PROVE  LET i == longestCommonPrefix(a, b) IN
           /\ i \in 0..Len(a) /\ i <= Len(b) /\ SubSeq(a, 1, i) = SubSeq(b, 1, i)
           /\ a # <<>> /\ b # <<>> /\ a[1] = b[1] => i >= 1
<1>. DEFINE S == {i \in 0..Len(a) : i <= Len(b) /\ SubSeq(a, 1, i) = SubSeq(b, 1, i)}
<1>1. Len(a) \in Nat /\ Len(b) \in Nat
  OBVIOUS
<1>2. 0 \in S
  <2>1. SubSeq(a, 1, 0) = <<>> /\ SubSeq(b, 1, 0) = <<>>
    BY SubSeqEmpty
  <2>2. 0 \in 0..Len(a) /\ 0 <= Len(b)
    BY <1>1
  <2>. QED BY <2>1, <2>2
<1>3. longestCommonPrefix(a, b) = HighestOf(S)
  BY DEF longestCommonPrefix
<1>4. S \in SUBSET (0..Len(a))
  OBVIOUS
<1>5. ASSUME a # <<>>, b # <<>>, a[1] = b[1] PROVE 1 \in S
  <2>1. Len(a) >= 1 /\ Len(b) >= 1 /\ 1 \in 0..Len(a) /\ 1 \in 0..Len(b)
    BY <1>1, <1>5, EmptySeq
  <2>2. /\ Len(SubSeq(a, 1, 1)) = 1 /\ SubSeq(a, 1, 1)[1] = a[1] /\ SubSeq(a, 1, 1) \in Seq(Tokens)
        /\ Len(SubSeq(b, 1, 1)) = 1 /\ SubSeq(b, 1, 1)[1] = b[1] /\ SubSeq(b, 1, 1) \in Seq(Tokens)
    BY <2>1, SplitAt
  <2>3. SubSeq(a, 1, 1) = SubSeq(b, 1, 1)
    BY <1>5, <2>2, SeqEqual
  <2>. QED BY <2>1, <2>3
<1>6. HighestOf(S) \in S /\ \A y \in S : HighestOf(S) >= y
  <2>. HIDE DEF S
  <2>. QED BY <1>1, <1>2, <1>4, Highest
<1>7. /\ HighestOf(S) \in 0..Len(a) /\ HighestOf(S) <= Len(b)
      /\ SubSeq(a, 1, HighestOf(S)) = SubSeq(b, 1, HighestOf(S))
  BY <1>6
<1>. HIDE DEF S
<1>. QED BY <1>3, <1>5, <1>6, <1>7

(* A split node stands for the same routes.                                *)
LEMMA GoodSplit ==
    ASSUME NEW A, NEW a, NEW n, Good(A, a, n), NEW i \in 0..Len(n.path),
           Base(n) \/ i = Len(n.path), NEW full, NEW at, NEW m, m = Split(n, i, full, at)
    PROVE  /\ Good(A, a, m) /\ Like(m, n) /\ m.path = SubSeq(n.path, 1, i)
           /\ i = Len(n.path) => m = n
           /\ i # Len(n.path) => Base(m) /\ ~m.wildChild
<1>1. Open(A, a, n) /\ Local(A, a, n) /\ Shape(n) /\ Node(n) /\ n.path \in Seq(Tokens)
  BY GoodOpen, NodeFields DEF Open, Local
<1>2. CASE i = Len(n.path)
  <2>1. m = n
    BY <1>2 DEF Split
  <2>2. SubSeq(n.path, 1, i) = n.path
    BY <1>1, <1>2, SubSeqFull
  <2>. QED BY <1>2, <2>1, <2>2 DEF Like
<1>3. CASE i # Len(n.path)
  <2>. DEFINE u == SubSeq(n.path, 1, i)
              v == From(n.path, i + 1)
              c == [n EXCEPT !.path = v, !.nType = "static", !.priority = @ - 1]
  <2>1. Base(n) /\ n.path \in Seq(Plain) /\ Len(n.path) \in Nat /\ i + 1 \in 1..Len(n.path)
    <3>1. Base(n) /\ n.path \in Seq(Plain)
      BY <1>1, <1>3 DEF Shape
    <3>2. Len(n.path) \in Nat
      BY <1>1
    <3>. QED BY <1>3, <3>1, <3>2
  <2>2. /\ u \in Seq(Plain) /\ v \in Seq(Plain) /\ n.path = u \o v /\ n.path[i + 1] \in Plain
    <3>1. i + 1 \in 1 .. Len(n.path) + 1
      BY <2>1
    <3>. QED BY <2>1, <3>1, SplitAt, FromType, ElementOfSeq
  <2>. HIDE DEF u, v
  <2>3. u \in Seq(Tokens) /\ v \in Seq(Tokens) /\ a \in Seq(Tokens) /\ <<n.path[i + 1]>> \in Seq(Tokens)
    <3>1. n.path[i + 1] \in Tokens
      BY <2>2 DEF Tokens
    <3>2. u \in Seq(Tokens) /\ v \in Seq(Tokens)
      BY <2>2, SeqMonotonic DEF Tokens
    <3>. QED BY <1>1, <3>1, <3>2 DEF Local
  <2>4. a \o u \in Seq(Tokens) /\ (a \o u) \o v = a \o n.path
    BY SMTT(60), <2>2, <2>3, ConcatAssociative, ConcatProperties
  <2>5. /\ c.path = v /\ c.indices = n.indices /\ c.wildChild = n.wildChild /\ c.nType = "static"
        /\ c.children = n.children /\ c.handlers = n.handlers /\ c.fullPath = n.fullPath
        /\ c \in [path : Seq(Tokens), indices : Seq(Tokens), wildChild : BOOLEAN, nType : Kinds,
                  priority : {c.priority}, children : {c.children},
                  handlers : {c.handlers}, fullPath : {c.fullPath}]
    BY <1>1, <2>3 DEF Node, Kinds
  <2>6. m = [n EXCEPT !.path = u, !.indices = <<n.path[i + 1]>>, !.wildChild = FALSE,
                      !.handlers = Nil, !.fullPath = SubSeq(full, 1, at + i), !.children = <<c>>]
    BY <1>3 DEF Split, u, v
  <2>. HIDE DEF c
  <2>7. Node(c) /\ Base(c) /\ ~Param(c) /\ ~Inner(c) /\ ~Leaf(c)
    BY <1>1, <2>5 DEF Node, Base, Param, Inner, Leaf
  <2>8. Shape(c)
    BY <1>1, <2>1, <2>2, <2>5, <2>7 DEF Shape
  <2>9. Local(A, a \o u, c)
    BY <1>1, <2>4, <2>5, <2>7, <2>8 DEF Local
  <2>10. Good(A, a \o u, c)
    <3>1. ASSUME NEW k \in 1..Len(c.children)
          PROVE  Fits(c, k, c.children[k]) /\ Good(A, (a \o u) \o c.path, c.children[k])
      <4>1. Fits(n, k, n.children[k]) /\ Good(A, a \o n.path, n.children[k])
        BY <1>1, <2>5 DEF Open
      <4>2. Fits(c, k, n.children[k])
        BY <2>1, <2>5, <2>7, <4>1 DEF Fits
      <4>. QED BY <2>4, <2>5, <4>1, <4>2
    <3>. QED BY <2>9, <3>1, GoodMake DEF Open
  <2>11. /\ m.path = u /\ m.indices = <<n.path[i + 1]>> /\ m.wildChild = FALSE /\ m.nType = n.nType
         /\ m.handlers = Nil /\ m.children = <<c>>
         /\ m \in [path : Seq(Tokens), indices : Seq(Tokens), wildChild : BOOLEAN, nType : Kinds,
                   priority : {m.priority}, children : {m.children},
                   handlers : {m.handlers}, fullPath : {m.fullPath}]
    BY <1>1, <2>3, <2>6 DEF Node
  <2>12. IsSeq(m.children) /\ Len(m.children) = 1 /\ m.children[1] = c /\ Len(m.indices) = 1
    <3>1. <<c>> \in Seq({c}) /\ Len(<<c>>) = 1 /\ <<c>>[1] = c
      OBVIOUS
    <3>. QED BY <2>11, <3>1 DEF IsSeq
  <2>13. Node(m) /\ Base(m) /\ ~Param(m) /\ ~Inner(m) /\ ~Leaf(m)
    BY <2>1, <2>11, <2>12 DEF Node, Base, Param, Inner, Leaf
  <2>14. Shape(m)
    BY <2>2, <2>11, <2>12, <2>13 DEF Shape
  <2>15. Local(A, a, m)
    BY <2>3, <2>11, <2>13, <2>14 DEF Local
  <2>16. ASSUME NEW k \in 1..Len(m.children)
         PROVE  Fits(m, k, m.children[k]) /\ Good(A, a \o m.path, m.children[k])
    <3>1. k = 1
      BY <2>12
    <3>2. Fits(m, k, c)
      BY <2>5, <2>11, <2>13 DEF Fits
    <3>. QED BY <2>10, <2>11, <2>12, <3>1, <3>2
  <2>17. Good(A, a, m)
    BY <2>15, <2>16, GoodMake DEF Open
  <2>. QED BY <1>3, <2>1, <2>11, <2>13, <2>17 DEF Like, Base, u
<1>. QED BY <1>2, <1>3

(* A parameter below a node that has no wildcard yet.                      *)
WithPath(n, q) == [n EXCEPT !.path = q]
WithWild(n) == [n EXCEPT !.wildChild = TRUE]

(* A node that is given a wildcard child, and with it a shorter path, is   *)
(* good (tree.go:355-370).                                                 *)
LEMMA WithParam ==
    ASSUME NEW A, NEW a, NEW n, Good(A, a, n), Base(n), ~n.wildChild, NEW q \in Seq(Plain),
           q = n.path \/ (n.children = <<>> /\ n.handlers = Nil),
           NEW c, Good(A, a \o q, c), Param(c), NEW m, m = WithWild(addChild(WithPath(n, q), c))
    PROVE  /\ Good(A, a, m) /\ Like(m, n) /\ m.path = q
           /\ Len(n.children) + 1 \in 1..Len(m.children) /\ m.children[Len(n.children) + 1] = c
<1>1. Open(A, a, n) /\ Local(A, a, n) /\ Shape(n) /\ Node(n)
  BY GoodOpen DEF Open, Local
<1>2. q \in Seq(Tokens) /\ Len(n.children) \in Nat /\ Len(n.indices) \in Nat
  BY <1>1, SeqMonotonic, NodeFields DEF Tokens
<1>. DEFINE n1 == WithPath(n, q)
            m1 == addChild(n1, c)
<1>3. /\ n1.path = q /\ n1.indices = n.indices /\ n1.wildChild = n.wildChild /\ n1.nType = n.nType
      /\ n1.children = n.children /\ n1.handlers = n.handlers /\ n1.fullPath = n.fullPath
      /\ n1 \in [path : Seq(Tokens), indices : Seq(Tokens), wildChild : BOOLEAN, nType : Kinds,
                 priority : {n1.priority}, children : {n1.children},
                 handlers : {n1.handlers}, fullPath : {n1.fullPath}]
  BY <1>1, <1>2 DEF Node, WithPath
<1>. HIDE DEF n1
<1>4. Node(n1)
  BY <1>1, <1>3 DEF Node
<1>5. AddedTo(m1, n1, Len(n.children), c)
  <2>1. Room(n1, Len(n.children))
    BY <1>2, <1>3 DEF Room
  <2>. QED BY <1>4, <2>1, Added
<1>. HIDE DEF m1
<1>6. m = WithWild(m1)
  BY DEF m1, n1
<1>7. Node(m1)
  BY <1>5 DEF AddedTo
<1>8. /\ m.path = m1.path /\ m.indices = m1.indices /\ m.wildChild = TRUE /\ m.nType = m1.nType
      /\ m.children = m1.children /\ m.handlers = m1.handlers /\ m.fullPath = m1.fullPath
      /\ m \in [path : Seq(Tokens), indices : Seq(Tokens), wildChild : BOOLEAN, nType : Kinds,
                priority : {m.priority}, children : {m.children},
                handlers : {m.handlers}, fullPath : {m.fullPath}]
  BY <1>6, <1>7 DEF Node, WithWild
<1>9. Node(m)
  BY <1>7, <1>8 DEF Node
<1>10. /\ m.path = q /\ m.indices = n.indices /\ m.nType = n.nType
       /\ m.handlers = n.handlers /\ m.fullPath = n.fullPath
       /\ Len(m.children) = Len(n.children) + 1 /\ m.children[Len(n.children) + 1] = c
       /\ \A j \in 1..Len(n.children) : m.children[j] = n.children[j]
  BY <1>3, <1>5, <1>8 DEF AddedTo
<1>11. Base(m) /\ ~Param(m) /\ ~Inner(m) /\ ~Leaf(m)
  BY <1>10 DEF Base, Param, Inner, Leaf
<1>12. Len(n.children) = Len(n.indices)
  BY <1>1, <1>2 DEF Shape
<1>13. Shape(m)
  BY <1>2, <1>8, <1>10, <1>11, <1>12 DEF Shape
<1>14. Local(A, a, m)
  BY <1>1, <1>9, <1>10, <1>13 DEF Local
<1>15. ASSUME NEW j \in 1..Len(m.children)
       PROVE  Fits(m, j, m.children[j]) /\ Good(A, a \o m.path, m.children[j])
  <2>1. j \in 1..Len(n.children) \/ j = Len(n.children) + 1
    BY <1>2, <1>10
  <2>2. CASE j = Len(n.children) + 1
    <3>1. Fits(m, j, c)
      BY <1>8, <1>10, <1>11, <2>2 DEF Fits
    <3>. QED BY <1>10, <2>2, <3>1
  <2>3. CASE j \in 1..Len(n.children)
    <3>1. q = n.path
      BY <2>3, EmptySeq
    <3>2. Fits(n, j, n.children[j]) /\ Good(A, a \o n.path, n.children[j])
      BY <1>1, <2>3 DEF Open
    <3>3. j # Len(m.children)
      BY <1>2, <1>10, <2>3
    <3>4. Fits(m, j, n.children[j])
      BY <1>10, <1>11, <3>2, <3>3 DEF Fits
    <3>. QED BY <1>10, <2>3, <3>1, <3>2, <3>4
  <2>. QED BY <2>1, <2>2, <2>3
<1>16. Good(A, a, m)
  BY <1>14, <1>15, GoodMake DEF Open
<1>17. Len(n.children) + 1 \in 1..Len(m.children)
  BY <1>2, <1>10
<1>. QED BY <1>10, <1>11, <1>16, <1>17 DEF Like, Base

-----------------------------------------------------------------------------
(* Registration *)

Typed(r, s) ==
    /\ s \in [node : {s.node}, path : {s.path}, full : {r}, at : {s.at}, up : {s.up}, fate : {s.fate}]
    /\ s.path \in Seq(Tokens) /\ IsSeq(s.up)

(* The tree around n: with any node of its kind in its place it is good,    *)
(* for the routes given so far and for these with r.                        *)
Around(A, r, b, n, up) ==
    \A B \in {A, A \cup {r}} :
        \A t : Good(B, b, t) /\ Like(t, n) => GoodTree(B, Root(t, up))

(* Where a round of the registration of r stands, below the path b.         *)
Ready(A, r, b, s) ==
    /\ Around(A, r, b, s.node, s.up)
    /\ Good(IF s.fate = "done" THEN A \cup {r} ELSE A, b, s.node)
    /\ s.fate \in {"walk", "insert"} => r = b \o s.path /\ s.path # <<>>
    /\ s.fate = "insert" => Fresh(s.node)
    /\ s.fate = "walk" => /\ ~Leaf(s.node)
                          /\ Param(s.node) => /\ s.path[1] = s.node.path[1]
                                              /\ Len(s.path) > 1 => s.path[2] = Slash

Placing(A, r, s) == Typed(r, s) /\ \E b : Ready(A, r, b, s)

(* The tree around a node is the tree around any node of its kind.         *)
LEMMA AroundLike ==
    ASSUME NEW A, NEW r, NEW b, NEW n, NEW up, Around(A, r, b, n, up), NEW m, Like(m, n)
    PROVE  Around(A, r, b, m, up)
<1>1. \A t : Like(t, m) => Like(t, n)
  BY DEF Like
<1>. QED BY <1>1 DEF Around

(* One node further down.                                                  *)
LEMMA DownFits ==
    ASSUME NEW A, NEW r, NEW s, Typed(r, s), NEW b, Around(A, r, b, s.node, s.up),
           NEW n, Good(A, b, n), Like(n, s.node), NEW k \in 1..Len(n.children),
           NEW path \in Seq(Tokens), NEW at, NEW fate, NEW d, d = Down(s, n, k, path, at, fate)
    PROVE  /\ Typed(r, d) /\ d.node = n.children[k] /\ d.path = path /\ d.fate = fate
           /\ Around(A, r, b \o n.path, d.node, d.up) /\ Good(A, b \o n.path, d.node)
<1>. DEFINE e == [node |-> n, child |-> k]
            more == Append(s.up, e)
<1>1. IsSeq(s.up) /\ IsSeq(more)
  BY RootAppend DEF Typed
<1>2. e.node = n /\ e.child = k
  OBVIOUS
<1>3. d = [s EXCEPT !.node = n.children[k], !.path = path, !.at = at, !.fate = fate, !.up = more]
  BY DEF Down
<1>. HIDE DEF more, e
<1>4. /\ d.node = n.children[k] /\ d.path = path /\ d.fate = fate /\ d.up = more
      /\ d \in [node : {d.node}, path : {d.path}, full : {r}, at : {d.at}, up : {d.up}, fate : {d.fate}]
  BY <1>3 DEF Typed
<1>5. Typed(r, d)
  BY <1>1, <1>4 DEF Typed
<1>6. Good(A, b \o n.path, d.node)
  BY <1>4, GoodOpen DEF Open
<1>7. ASSUME NEW B \in {A, A \cup {r}}, NEW t, Good(B, b \o n.path, t), Like(t, n.children[k])
      PROVE  GoodTree(B, Root(t, more))
  <2>. DEFINE m == WithChild(n, k, t)
  <2>1. Good(B, b, n)
    BY GoodMore
  <2>2. Good(B, b, m) /\ Like(m, n)
    BY <1>7, <2>1, GoodChild
  <2>3. Like(m, s.node)
    BY <2>2 DEF Like
  <2>4. Root(t, more) = Root(m, s.up)
    BY <1>1, <1>2, RootAppend DEF more
  <2>. HIDE DEF m
  <2>. QED BY <2>2, <2>3, <2>4 DEF Around
<1>. QED BY <1>4, <1>5, <1>6, <1>7 DEF Around

(* Where a registration ends, done or in a panic, the tree can be put      *)
(* together again.                                                         *)
LEMMA EndFits ==
    ASSUME NEW A, NEW r, NEW s, Typed(r, s), NEW b, Around(A, r, b, s.node, s.up),
           NEW n, Like(n, s.node), NEW fate \in {"done", "panic"},
           Good(IF fate = "done" THEN A \cup {r} ELSE A, b, n)
    PROVE  Placing(A, r, End(s, n, fate))
<1>. DEFINE d == End(s, n, fate)
<1>1. /\ d.node = n /\ d.path = s.path /\ d.up = s.up /\ d.fate = fate
      /\ d \in [node : {d.node}, path : {d.path}, full : {r}, at : {d.at}, up : {d.up}, fate : {d.fate}]
  BY DEF Typed, End
<1>. HIDE DEF d
<1>2. Typed(r, d)
  BY <1>1 DEF Typed
<1>3. Around(A, r, b, d.node, d.up)
  BY <1>1, AroundLike
<1>4. Good(IF d.fate = "done" THEN A \cup {r} ELSE A, b, d.node)
  BY <1>1
<1>5. Ready(A, r, b, d)
  BY <1>1, <1>3, <1>4 DEF Ready
<1>. QED BY <1>2, <1>5 DEF Placing, d

(* A parameter's node, at the end of its route or above a fresh node.      *)
LEMMA GoodParam ==
    ASSUME NEW A, NEW a \in Seq(Tokens), NEW t \in Params, NEW c, Node(c), Param(c),
           c.path = <<t>>, c.indices = <<>>, c.wildChild = FALSE,
           c.children = <<>> \/ \E f : Fresh(f) /\ f.nType = "static" /\ c.children = <<f>>,
           c.handlers # Nil => c.handlers \in A /\ c.handlers = a \o <<t>> /\ c.fullPath = c.handlers
    PROVE  Good(A, a, c)
<1>1. ~Base(c) /\ ~Inner(c) /\ ~Leaf(c)
  BY DEF Param, Base, Inner, Leaf
<1>2. Len(<<>>) = 0 /\ \A f : Len(<<f>>) = 1 /\ <<f>>[1] = f
  OBVIOUS
<1>3. Shape(c)
  <2>1. Len(c.indices) = 0 /\ Len(c.children) \in {0, 1}
    BY <1>2
  <2>2. ASSUME NEW x, NEW y, x = 0, y \in {0, 1} PROVE x <= y /\ y <= 1
    BY ONLY <2>2
  <2>3. Len(c.indices) <= Len(c.children) /\ Len(c.children) <= 1
    BY <2>1, <2>2
  <2>. QED BY <1>1, <2>3 DEF Shape
<1>4. Local(A, a, c)
  BY <1>3 DEF Local
<1>5. a \o c.path \in Seq(Tokens)
  BY ConcatProperties, NodeFields
<1>6. ASSUME NEW k \in 1..Len(c.children)
      PROVE  Fits(c, k, c.children[k]) /\ Good(A, a \o c.path, c.children[k])
  <2>1. c.children # <<>>
    BY <1>2
  <2>2. PICK f : Fresh(f) /\ f.nType = "static" /\ c.children = <<f>>
    BY <2>1
  <2>3. k = 1 /\ c.children[k] = f
    BY <1>2, <2>2
  <2>4. Good(A, a \o c.path, f)
    BY <1>5, <2>2, GoodFresh
  <2>5. Fits(c, k, f)
    BY <1>1, <2>2 DEF Fits
  <2>. QED BY <2>3, <2>4, <2>5
<1>. QED BY <1>4, <1>6, GoodMake DEF Open


(* A parameter goes below the node, and what is behind it below that.      *)
LEMMA ParamPlaced ==
    ASSUME RoutesAndPaths, NEW A, NEW r \in Seq(Tokens), NEW s, Typed(r, s), NEW b \in Seq(Tokens),
           Around(A, r, b, s.node, s.up), Good(A, b, s.node), Base(s.node), ~s.node.wildChild,
           r = (b \o s.node.path) \o s.path, NEW i \in 1..Len(s.path), s.path[i] \in Params,
           \A j \in 1 .. i - 1 : s.path[j] \in Plain, Fresh(s.node) \/ i = 1
    PROVE  Placing(A, r, insertParam(s, i))
<1>. DEFINE n == s.node
            t == s.path[i]
            u == SubSeq(s.path, 1, i - 1)
            q == IF i > 1 THEN u ELSE n.path
            rest == From(s.path, i + 1)
            f == [NewNode EXCEPT !.priority = 1, !.fullPath = s.full]
            child == [NewNode EXCEPT !.nType = "param", !.path = <<t>>, !.fullPath = s.full, !.priority = 1]
            leaf == [child EXCEPT !.handlers = s.full]
            inner == [child EXCEPT !.children = <<f>>]
            with(c) == WithWild(addChild(WithPath(n, q), c))
            d1 == Down(s, with(inner), Len(n.children) + 1, rest, s.at, "insert")
            d2 == Down(d1, inner, 1, rest, s.at, "insert")
<1>1. insertParam(s, i) = IF rest = <<>> THEN End(s, with(leaf), "done") ELSE d2
  BY DEF insertParam, WithPath, WithWild
<1>2. /\ s.full = r /\ s.path \in Seq(Tokens) /\ Len(s.path) \in Nat /\ t \in Tokens /\ <<t>> \in Seq(Tokens)
      /\ i - 1 \in 0..Len(s.path) /\ i + 1 \in 1 .. Len(s.path) + 1 /\ i \in 1 .. Len(s.path) + 1
  <2>1. s.full = r /\ s.path \in Seq(Tokens)
    BY DEF Typed
  <2>2. Len(s.path) \in Nat /\ t \in Tokens
    BY <2>1, ElementOfSeq
  <2>. QED BY <2>1, <2>2
<1>3. n.path \in Seq(Plain)
  BY GoodOpen DEF Open, Local, Shape
<1>4. u \in Seq(Plain) /\ u \in Seq(Tokens) /\ s.path = u \o From(s.path, i)
  <2>1. /\ u \in Seq(Tokens) /\ Len(u) = i - 1 /\ \A j \in 1 .. i - 1 : u[j] = s.path[j]
        /\ s.path = u \o From(s.path, i - 1 + 1)
    BY <1>2, SplitAt
  <2>2. u \in Seq(Plain)
    BY <2>1, PlainSeq
  <2>3. i - 1 + 1 = i
    OBVIOUS
  <2>. QED BY <2>1, <2>2, <2>3
<1>5. rest \in Seq(Tokens) /\ From(s.path, i) \in Seq(Tokens) /\ From(s.path, i) = <<t>> \o rest
  <2>1. rest \in Seq(Tokens) /\ From(s.path, i) \in Seq(Tokens)
    BY <1>2, FromType
  <2>2. From(s.path, i) = <<t>> \o rest
    BY <1>2, SubSeqRecursiveFirst DEF From
  <2>. QED BY <2>1, <2>2
<1>. HIDE DEF u, rest, t
<1>6. /\ q \in Seq(Plain) /\ q \in Seq(Tokens) /\ b \o q \in Seq(Tokens)
      /\ q = n.path \/ (n.children = <<>> /\ n.handlers = Nil)
      /\ r = (b \o q) \o (<<t>> \o rest)
  <2>1. n.path \in Seq(Tokens)
    BY <1>3, SeqMonotonic DEF Tokens
  <2>2. CASE i = 1
    <3>1. q = n.path /\ From(s.path, 1) = s.path
      BY <1>2, <2>2, SubSeqFull DEF From
    <3>. QED BY <1>3, <1>5, <2>1, <2>2, <3>1, ConcatProperties
  <2>3. CASE i # 1
    <3>1. q = u /\ Fresh(n)
      BY <2>3
    <3>2. n.path = <<>> /\ n.children = <<>> /\ n.handlers = Nil
      BY <3>1 DEF Fresh
    <3>3. r = b \o (u \o From(s.path, i))
      BY <1>4, <3>2, ConcatEmptySeq
    <3>4. b \o u \in Seq(Tokens)
      BY <1>4, ConcatProperties
    <3>5. b \in Seq(Tokens) /\ u \in Seq(Tokens) /\ From(s.path, i) \in Seq(Tokens)
      BY <1>4, <1>5
    <3>6. (b \o u) \o From(s.path, i) = b \o (u \o From(s.path, i))
      BY ONLY SMTT(60), <3>5, ConcatAssociative
    <3>. QED BY <1>4, <1>5, <3>1, <3>2, <3>3, <3>4, <3>6
  <2>. QED BY <2>2, <2>3
<1>. HIDE DEF q
<1>7. <<>> \in Seq(Tokens) /\ IsSeq(<<>>) /\ IsSeq(<<f>>)
  <2>1. <<>> \in Seq(Tokens) /\ <<f>> \in Seq({f})
    OBVIOUS
  <2>. QED BY <2>1 DEF IsSeq
<1>8. Fresh(f) /\ f.nType = "static"
  BY NewFresh
<1>. HIDE DEF f
<1>9. CASE rest = <<>>
  <2>1. /\ leaf.path = <<t>> /\ leaf.indices = <<>> /\ leaf.wildChild = FALSE /\ leaf.nType = "param"
        /\ leaf.children = <<>> /\ leaf.handlers = r /\ leaf.fullPath = r
        /\ leaf \in [path : Seq(Tokens), indices : Seq(Tokens), wildChild : BOOLEAN, nType : Kinds,
                     priority : {leaf.priority}, children : {leaf.children},
                     handlers : {leaf.handlers}, fullPath : {leaf.fullPath}]
    BY <1>2, <1>7 DEF NewNode, Kinds
  <2>. HIDE DEF leaf
  <2>2. Node(leaf) /\ Param(leaf)
    BY <1>7, <2>1 DEF Node, Param
  <2>3. r = (b \o q) \o <<t>>
    BY <1>2, <1>6, <1>9, ConcatEmptySeq
  <2>4. Good(A \cup {r}, b \o q, leaf)
    <3>1. t \in Params
      BY DEF t
    <3>. QED BY <1>6, <2>1, <2>2, <2>3, <3>1, GoodParam
  <2>5. Good(A \cup {r}, b, n)
    BY GoodMore
  <2>6. Good(A \cup {r}, b, with(leaf)) /\ Like(with(leaf), n)
    BY <1>6, <2>2, <2>4, <2>5, WithParam
  <2>. HIDE DEF with
  <2>7. Placing(A, r, End(s, with(leaf), "done"))
    BY <2>6, EndFits
  <2>. QED BY <1>1, <1>9, <2>7
<1>10. CASE rest # <<>>
  <2>1. /\ inner.path = <<t>> /\ inner.indices = <<>> /\ inner.wildChild = FALSE /\ inner.nType = "param"
        /\ inner.children = <<f>> /\ inner.handlers = Nil
        /\ inner \in [path : Seq(Tokens), indices : Seq(Tokens), wildChild : BOOLEAN, nType : Kinds,
                      priority : {inner.priority}, children : {inner.children},
                      handlers : {inner.handlers}, fullPath : {inner.fullPath}]
    BY <1>2, <1>7 DEF NewNode, Kinds
  <2>. HIDE DEF inner
  <2>2. Node(inner) /\ Param(inner)
    BY <1>7, <2>1 DEF Node, Param
  <2>3. Good(A, b \o q, inner)
    <3>1. t \in Params
      BY DEF t
    <3>. QED BY <1>6, <1>8, <2>1, <2>2, <3>1, GoodParam
  <2>. DEFINE m == with(inner)
              k == Len(n.children) + 1
  <2>4. /\ Good(A, b, m) /\ Like(m, n) /\ m.path = q
        /\ k \in 1..Len(m.children) /\ m.children[k] = inner
    BY <1>6, <2>2, <2>3, WithParam
  <2>. HIDE DEF m, k, with
  <2>5. /\ Typed(r, d1) /\ d1.node = inner
        /\ Around(A, r, b \o q, d1.node, d1.up)
    <3>1. d1 = Down(s, m, k, rest, s.at, "insert")
      BY DEF m, k
    <3>. HIDE DEF d1
    <3>2. /\ Typed(r, s) /\ Around(A, r, b, s.node, s.up) /\ Good(A, b, m) /\ Like(m, s.node)
          /\ k \in 1..Len(m.children) /\ rest \in Seq(Tokens)
      BY <1>5, <2>4
    <3>3. /\ Typed(r, d1) /\ d1.node = m.children[k]
          /\ Around(A, r, b \o m.path, d1.node, d1.up)
      BY ONLY <3>1, <3>2, DownFits
    <3>. QED BY <2>4, <3>3
  <2>6. Like(inner, d1.node) /\ Len(inner.children) = 1 /\ 1 \in 1..Len(inner.children) /\ inner.children[1] = f
    BY <2>1, <2>5 DEF Like
  <2>. HIDE DEF d1
  <2>7. /\ Typed(r, d2) /\ d2.node = f /\ d2.path = rest /\ d2.fate = "insert"
        /\ Around(A, r, (b \o q) \o inner.path, d2.node, d2.up)
        /\ Good(A, (b \o q) \o inner.path, d2.node)
    <3>1. d2 = Down(d1, inner, 1, rest, s.at, "insert")
      OBVIOUS
    <3>. HIDE DEF d2
    <3>2. /\ Typed(r, d1) /\ Around(A, r, b \o q, d1.node, d1.up) /\ Good(A, b \o q, inner)
          /\ Like(inner, d1.node) /\ 1 \in 1..Len(inner.children) /\ rest \in Seq(Tokens)
      BY <1>5, <2>3, <2>5, <2>6
    <3>3. /\ Typed(r, d2) /\ d2.node = inner.children[1] /\ d2.path = rest /\ d2.fate = "insert"
          /\ Around(A, r, (b \o q) \o inner.path, d2.node, d2.up)
          /\ Good(A, (b \o q) \o inner.path, d2.node)
      BY ONLY <3>1, <3>2, DownFits
    <3>. QED BY <2>6, <3>3
  <2>8. r = ((b \o q) \o <<t>>) \o rest
    <3>1. b \o q \in Seq(Tokens) /\ <<t>> \in Seq(Tokens) /\ rest \in Seq(Tokens)
      BY <1>2, <1>5, <1>6
    <3>. QED BY SMTT(60), <1>6, <3>1, ConcatAssociative
  <2>. HIDE DEF d2
  <2>9. Ready(A, r, (b \o q) \o inner.path, d2)
    BY <1>8, <1>10, <2>1, <2>7, <2>8 DEF Ready
  <2>. QED BY <1>1, <1>10, <2>7, <2>9 DEF Placing
<1>. QED BY <1>9, <1>10


(* A catch-all goes below the node as two nodes, the first without a path. *)
LEMMA CatchAllPlaced ==
    ASSUME RoutesAndPaths, NEW A, NEW r \in Seq(Tokens), NEW s, Typed(r, s), NEW b \in Seq(Tokens),
           Around(A, r, b, s.node, s.up), Fresh(s.node), r = (b \o s.node.path) \o s.path, r # <<>>,
           NEW i \in 2..Len(s.path), i = Len(s.path), s.path[i] \in CatchAlls, s.path[i - 1] = Slash,
           \A j \in 1 .. i - 1 : s.path[j] \in Plain
    PROVE  Placing(A, r, insertCatchAll(s, i))
<1>. DEFINE u == SubSeq(s.path, 1, i - 2)
            v == From(s.path, i - 1)
            leaf == [NewNode EXCEPT !.path = v, !.nType = "catchAll",
                                    !.handlers = s.full, !.priority = 1, !.fullPath = s.full]
            inner == [NewNode EXCEPT !.wildChild = TRUE, !.nType = "catchAll", !.priority = 1,
                                     !.fullPath = s.full, !.children = <<leaf>>]
            n1 == WithPath(s.node, u)
            m1 == addChild(n1, inner)
            m == [m1 EXCEPT !.indices = <<Slash>>]
            B == A \cup {r}
<1>1. insertCatchAll(s, i) = End(s, m, "done")
  BY DEF insertCatchAll, WithPath
<1>2. /\ s.full = r /\ s.path \in Seq(Tokens) /\ Len(s.path) \in Nat /\ i - 2 \in 0..Len(s.path)
      /\ i - 2 + 1 = i - 1 /\ i - 1 \in 1..Len(s.path) /\ i - 1 \in 1 .. Len(s.path) + 1
      /\ Len(s.path) - (i - 1) + 1 = 2
  <2>1. s.full = r /\ s.path \in Seq(Tokens)
    BY DEF Typed
  <2>2. Len(s.path) \in Nat
    BY <2>1
  <2>. QED BY <2>1, <2>2
<1>3. u \in Seq(Plain) /\ u \in Seq(Tokens) /\ s.path = u \o v /\ v \in Seq(Tokens)
  <2>1. /\ u \in Seq(Tokens) /\ Len(u) = i - 2 /\ \A j \in 1 .. i - 2 : u[j] = s.path[j]
        /\ s.path = u \o v /\ v \in Seq(Tokens)
    <3>1. /\ u \in Seq(Tokens) /\ Len(u) = i - 2 /\ \A j \in 1 .. i - 2 : u[j] = s.path[j]
          /\ s.path = u \o From(s.path, i - 2 + 1)
      BY <1>2, SplitAt
    <3>2. v \in Seq(Tokens)
      BY <1>2, FromType
    <3>. QED BY <1>2, <3>1, <3>2
  <2>2. \A j \in 1 .. i - 2 : j \in 1 .. i - 1
    OBVIOUS
  <2>3. u \in Seq(Plain)
    BY <2>1, <2>2, PlainSeq
  <2>. QED BY <2>1, <2>3
<1>4. v = <<Slash, s.path[i]>>
  <2>1. Len(v) = 2 /\ \A j \in 1..2 : v[j] = s.path[i - 1 + j - 1]
    BY ZenonT(60), <1>2, FromType
  <2>2. 1 \in 1..2 /\ 2 \in 1..2 /\ i - 1 + 1 - 1 = i - 1 /\ i - 1 + 2 - 1 = i
    OBVIOUS
  <2>3. v[1] = s.path[i - 1 + 1 - 1] /\ v[2] = s.path[i - 1 + 2 - 1]
    <3>. HIDE DEF v
    <3>. QED BY ONLY <2>1, <2>2
  <2>4. v[1] = Slash /\ v[2] = s.path[i]
    BY <2>2, <2>3
  <2>. HIDE DEF v
  <2>. QED BY <1>3, <2>1, <2>4
<1>. HIDE DEF u, v
<1>5. /\ s.node.path = <<>> /\ s.node.children = <<>> /\ s.node.indices = <<>> /\ ~s.node.wildChild
      /\ s.node.handlers = Nil /\ Base(s.node) /\ Node(s.node)
  BY DEF Fresh
<1>6. /\ b \o u \in Seq(Tokens) /\ (b \o u) \o <<>> = b \o u /\ b \o u = b \o u
      /\ r = (b \o u) \o v
  <2>1. b \in Seq(Tokens) /\ u \in Seq(Tokens) /\ v \in Seq(Tokens)
    BY <1>3
  <2>2. b \o u \in Seq(Tokens) /\ (b \o u) \o v = b \o (u \o v)
    BY ONLY <2>1, ConcatAssociative, ConcatProperties
  <2>3. r = b \o s.path
    BY <1>5, ConcatEmptySeq
  <2>. QED BY <1>3, <2>2, <2>3, ConcatEmptySeq
<1>7. <<>> \in Seq(Tokens) /\ <<Slash>> \in Seq(Tokens) /\ IsSeq(<<>>) /\ IsSeq(<<leaf>>)
  <2>1. <<>> \in Seq(Tokens) /\ <<leaf>> \in Seq({leaf})
    OBVIOUS
  <2>2. Slash \in Tokens
    BY DEF Tokens, Plain
  <2>3. <<Slash>> \in Seq(Tokens)
    BY <2>2
  <2>. QED BY <2>1, <2>3 DEF IsSeq
<1>8. Good(B, b \o u, leaf) /\ Leaf(leaf)
  <2>1. /\ leaf.path = v /\ leaf.indices = <<>> /\ leaf.wildChild = FALSE /\ leaf.nType = "catchAll"
        /\ leaf.children = <<>> /\ leaf.handlers = r /\ leaf.fullPath = r
        /\ leaf \in [path : Seq(Tokens), indices : Seq(Tokens), wildChild : BOOLEAN, nType : Kinds,
                     priority : {leaf.priority}, children : {leaf.children},
                     handlers : {leaf.handlers}, fullPath : {leaf.fullPath}]
    BY <1>2, <1>3, <1>7 DEF NewNode, Kinds
  <2>. HIDE DEF leaf
  <2>2. Node(leaf) /\ Leaf(leaf) /\ ~Base(leaf) /\ ~Param(leaf) /\ ~Inner(leaf)
    BY <1>7, <2>1 DEF Node, Leaf, Base, Param, Inner
  <2>3. Shape(leaf)
    BY <1>4, <2>1, <2>2 DEF Shape, Nil
  <2>4. Local(B, b \o u, leaf)
    BY <1>6, <2>1, <2>2, <2>3 DEF Local
  <2>5. \A k \in 1..Len(leaf.children) : FALSE
    BY <2>1
  <2>. QED BY <2>2, <2>4, <2>5, GoodMake DEF Open
<1>. HIDE DEF leaf
<1>9. Good(B, b \o u, inner) /\ Inner(inner)
  <2>1. /\ inner.path = <<>> /\ inner.indices = <<>> /\ inner.wildChild = TRUE /\ inner.nType = "catchAll"
        /\ inner.children = <<leaf>> /\ inner.handlers = Nil
        /\ inner \in [path : Seq(Tokens), indices : Seq(Tokens), wildChild : BOOLEAN, nType : Kinds,
                      priority : {inner.priority}, children : {inner.children},
                      handlers : {inner.handlers}, fullPath : {inner.fullPath}]
    BY <1>7 DEF NewNode, Kinds
  <2>. HIDE DEF inner
  <2>2. Node(inner) /\ Inner(inner) /\ ~Base(inner) /\ ~Param(inner) /\ ~Leaf(inner)
    BY <1>7, <2>1 DEF Node, Leaf, Base, Param, Inner
  <2>3. Len(inner.children) = 1 /\ inner.children[1] = leaf
    BY <2>1
  <2>4. Shape(inner)
    BY <2>1, <2>2, <2>3 DEF Shape
  <2>5. Local(B, b \o u, inner)
    BY <1>6, <2>1, <2>2, <2>4 DEF Local
  <2>6. ASSUME NEW k \in 1..Len(inner.children)
        PROVE  Fits(inner, k, inner.children[k]) /\ Good(B, (b \o u) \o inner.path, inner.children[k])
    <3>1. k = 1
      BY <2>3
    <3>2. Fits(inner, k, leaf)
      BY <1>8, <2>2 DEF Fits
    <3>. QED BY <1>6, <1>8, <2>1, <2>3, <3>1, <3>2
  <2>. QED BY <2>2, <2>5, <2>6, GoodMake DEF Open
<1>. HIDE DEF inner
<1>10. /\ Node(n1) /\ n1.path = u /\ n1.wildChild = s.node.wildChild /\ n1.nType = s.node.nType
       /\ n1.children = s.node.children /\ n1.handlers = s.node.handlers
  <2>1. /\ n1.path = u /\ n1.indices = s.node.indices /\ n1.wildChild = s.node.wildChild
        /\ n1.nType = s.node.nType /\ n1.children = s.node.children /\ n1.handlers = s.node.handlers
        /\ n1 \in [path : Seq(Tokens), indices : Seq(Tokens), wildChild : BOOLEAN, nType : Kinds,
                   priority : {n1.priority}, children : {n1.children},
                   handlers : {n1.handlers}, fullPath : {n1.fullPath}]
    BY <1>3, <1>5 DEF Node, WithPath
  <2>. HIDE DEF n1
  <2>. QED BY <1>5, <2>1 DEF Node
<1>. HIDE DEF n1
<1>11. AddedTo(m1, n1, 0, inner)
  <2>1. Room(n1, 0)
    BY <1>5, <1>10 DEF Room
  <2>. QED BY <1>10, <2>1, Added
<1>. HIDE DEF m1
<1>12. /\ Node(m1) /\ m1.path = u /\ ~m1.wildChild /\ m1.nType = s.node.nType /\ m1.handlers = Nil
       /\ Len(m1.children) = 1 /\ m1.children[1] = inner
  <2>1. Len(n1.children) = 0
    BY <1>5, <1>10
  <2>. QED BY <1>5, <1>10, <1>11, <2>1 DEF AddedTo
<1>13. /\ m.path = u /\ m.indices = <<Slash>> /\ m.wildChild = m1.wildChild /\ m.nType = s.node.nType
       /\ m.children = m1.children /\ m.handlers = Nil
       /\ m \in [path : Seq(Tokens), indices : Seq(Tokens), wildChild : BOOLEAN, nType : Kinds,
                 priority : {m.priority}, children : {m.children},
                 handlers : {m.handlers}, fullPath : {m.fullPath}]
  BY <1>3, <1>7, <1>12 DEF Node
<1>. HIDE DEF m
<1>14. Node(m) /\ Base(m) /\ ~Param(m) /\ ~Inner(m) /\ ~Leaf(m)
  BY <1>5, <1>12, <1>13 DEF Node, Leaf, Base, Param, Inner
<1>15. Len(m.indices) = 1 /\ m.indices[1] = Slash /\ Len(m.children) = 1 /\ m.children[1] = inner /\ ~m.wildChild
  BY <1>12, <1>13
<1>16. Shape(m)
  BY <1>3, <1>13, <1>14, <1>15 DEF Shape
<1>17. Local(B, b, m)
  BY <1>13, <1>14, <1>16 DEF Local
<1>18. ASSUME NEW k \in 1..Len(m.children)
       PROVE  Fits(m, k, m.children[k]) /\ Good(B, b \o m.path, m.children[k])
  <2>1. k = 1
    BY <1>15
  <2>2. Fits(m, k, inner)
    BY <1>9, <1>14, <1>15, <2>1 DEF Fits
  <2>. QED BY <1>9, <1>13, <1>15, <2>1, <2>2
<1>19. Good(B, b, m)
  BY <1>17, <1>18, GoodMake DEF Open
<1>20. Like(m, s.node)
  BY <1>5, <1>13 DEF Like, Base
<1>21. Placing(A, r, End(s, m, "done"))
  BY <1>19, <1>20, EndFits
<1>. QED BY <1>1, <1>21


(* Whatever insertChild does with a path, the tree keeps its shape.        *)
LEMMA ChildPlaced ==
    ASSUME RoutesAndPaths, NEW A, NEW r \in Seq(Tokens), NEW s, Typed(r, s), NEW b \in Seq(Tokens),
           Around(A, r, b, s.node, s.up), Good(A, b, s.node), Base(s.node), ~s.node.wildChild,
           r = (b \o s.node.path) \o s.path, r # <<>>, s.path # <<>>,
           Fresh(s.node) \/ s.path[1] \in Wildcards
    PROVE  Placing(A, r, insertChild(s))
<1>. DEFINE n == s.node
            path == s.path
            S == {k \in 1..Len(path) : path[k] \in Wildcards} \cup {Len(path) + 1}
            i == LowestOf(S)
            rest == From(path, i + 1)
            whole == [n EXCEPT !.path = path, !.handlers = s.full, !.fullPath = s.full]
<1>1. path \in Seq(Tokens) /\ Len(path) \in Nat /\ Len(path) >= 1 /\ s.full = r
  <2>1. path \in Seq(Tokens) /\ s.full = r
    BY DEF Typed
  <2>. QED BY <2>1, EmptySeq
<1>2. /\ i \in 1 .. Len(path) + 1
      /\ i # Len(path) + 1 => i \in 1..Len(path) /\ path[i] \in Wildcards
      /\ \A j \in 1 .. i - 1 : path[j] \notin Wildcards
  <2>1. S \in SUBSET Nat /\ S # {}
    BY <1>1
  <2>2. i \in S /\ \A y \in S : i <= y
    <3>. HIDE DEF S
    <3>. QED BY <2>1, Lowest
  <2>. HIDE DEF i
  <2>3. i \in 1 .. Len(path) + 1 /\ (i # Len(path) + 1 => i \in 1..Len(path) /\ path[i] \in Wildcards)
    BY <1>1, <2>2
  <2>4. ASSUME NEW j \in 1 .. i - 1, path[j] \in Wildcards PROVE FALSE
    <3>1. j \in 1..Len(path) /\ ~(i <= j)
      BY <1>1, <2>3
    <3>2. j \in S
      BY <2>4, <3>1
    <3>. QED BY <2>2, <3>1, <3>2
  <2>. QED BY <2>3, <2>4
<1>5. i \in 1 .. Len(path) + 1 /\ Len(path) \in Nat
  <2>. HIDE DEF i, path
  <2>. QED BY ONLY <1>1, <1>2
<1>. DEFINE above == rest # <<>> /\ rest[1] \in Wildcards
            misplaced == \/ rest # <<>>
                         \/ n.path # <<>> /\ Last(n.path) = Slash
                         \/ i = 1 \/ path[i - 1] # Slash
<1>4. insertChild(s) = IF i > Len(path) THEN End(s, whole, "done")
                       ELSE IF above THEN End(s, n, "panic")
                       ELSE IF path[i] \in Params THEN insertParam(s, i)
                       ELSE IF misplaced THEN End(s, n, "panic")
                       ELSE insertCatchAll(s, i)
  BY DEF insertChild
<1>. HIDE DEF i
<1>3. \A j \in 1 .. i - 1 : path[j] \in Plain
  <2>1. ASSUME NEW j \in 1 .. i - 1 PROVE path[j] \in Plain
    <3>1. j \in 1..Len(path)
      <4>. HIDE DEF path
      <4>. QED BY ONLY <1>5, j \in 1 .. i - 1
    <3>2. path[j] \in Tokens /\ path[j] \notin Wildcards
      BY <1>1, <1>2, <3>1, ElementOfSeq
    <3>. QED BY <3>2 DEF Tokens
  <2>. QED BY <2>1
<1>10. \/ i > Len(path) /\ insertChild(s) = End(s, whole, "done")
       \/ i <= Len(path) /\ insertChild(s) = End(s, n, "panic")
       \/ i <= Len(path) /\ path[i] \in Params /\ insertChild(s) = insertParam(s, i)
       \/ /\ i <= Len(path) /\ path[i] \notin Params /\ rest = <<>> /\ i # 1 /\ path[i - 1] = Slash
          /\ insertChild(s) = insertCatchAll(s, i)
  <2>1. i > Len(path) \/ (i <= Len(path) /\ ~(i > Len(path)))
    <3>. HIDE DEF path
    <3>. QED BY ONLY <1>5
  <2>2. ~misplaced => rest = <<>> /\ i # 1 /\ path[i - 1] = Slash
    OBVIOUS
  <2>. HIDE DEF misplaced, above, whole, rest
  <2>. QED BY <1>4, <2>1, <2>2
<1>11. Fresh(n) \/ i = 1
  <2>1. CASE path[1] \in Wildcards
    <3>2. i = 1 \/ 1 \in 1 .. i - 1
      <4>. HIDE DEF path
      <4>. QED BY ONLY <1>5
    <3>. QED BY <1>2, <2>1, <3>2
  <2>. QED BY <2>1
<1>6. CASE i > Len(path) /\ insertChild(s) = End(s, whole, "done")
  <2>1. i = Len(path) + 1 /\ i - 1 = Len(path)
    <3>. HIDE DEF path
    <3>. QED BY ONLY <1>5, <1>6
  <2>2. path \in Seq(Plain)
    BY <1>1, <1>3, <2>1, PlainSeq
  <2>3. Fresh(n)
    BY <1>1, <1>11, <2>1
  <2>4. /\ Node(n) /\ n.path = <<>> /\ n.indices = <<>> /\ n.children = <<>> /\ ~n.wildChild
        /\ n.handlers = Nil /\ Base(n)
    BY <2>3 DEF Fresh
  <2>5. /\ whole.path = path /\ whole.indices = n.indices /\ whole.wildChild = n.wildChild
        /\ whole.nType = n.nType /\ whole.children = n.children
        /\ whole.handlers = r /\ whole.fullPath = r
        /\ whole \in [path : Seq(Tokens), indices : Seq(Tokens), wildChild : BOOLEAN, nType : Kinds,
                      priority : {whole.priority}, children : {whole.children},
                      handlers : {whole.handlers}, fullPath : {whole.fullPath}]
    BY <1>1, <2>4 DEF Node
  <2>. HIDE DEF whole
  <2>6. Node(whole) /\ Base(whole) /\ ~Param(whole) /\ ~Inner(whole) /\ ~Leaf(whole)
    BY <2>4, <2>5 DEF Node, Base, Param, Inner, Leaf
  <2>7. Len(whole.children) = 0 /\ Len(whole.indices) = 0
    BY <2>4, <2>5
  <2>8. Shape(whole)
    <3>1. Len(whole.children) = Len(whole.indices) + (IF whole.wildChild THEN 1 ELSE 0)
      BY <2>4, <2>5, <2>7
    <3>. QED BY <2>2, <2>5, <2>6, <3>1 DEF Shape
  <2>9. r = b \o whole.path
    BY <2>4, <2>5, ConcatEmptySeq
  <2>10. Local(A \cup {r}, b, whole)
    BY <2>5, <2>6, <2>8, <2>9 DEF Local
  <2>11. \A k \in 1..Len(whole.children) : FALSE
    BY <2>7
  <2>12. Good(A \cup {r}, b, whole)
    BY <2>10, <2>11, GoodMake DEF Open
  <2>13. Like(whole, n)
    BY <2>4, <2>5 DEF Like, Base
  <2>14. Placing(A, r, End(s, whole, "done"))
    BY <2>12, <2>13, EndFits
  <2>. QED BY <1>6, <2>14
<1>7. CASE i <= Len(path) /\ insertChild(s) = End(s, n, "panic")
  <2>1. Like(n, s.node)
    BY DEF Like
  <2>2. Placing(A, r, End(s, n, "panic"))
    BY <2>1, EndFits
  <2>. QED BY <1>7, <2>2
<1>8. CASE i <= Len(path) /\ path[i] \in Params /\ insertChild(s) = insertParam(s, i)
  <2>1. i \in 1..Len(path)
    <3>. HIDE DEF path
    <3>. QED BY ONLY <1>5, <1>8
  <2>. QED BY <1>3, <1>11, <1>8, <2>1, ParamPlaced
<1>9. CASE /\ i <= Len(path) /\ path[i] \notin Params /\ rest = <<>> /\ i # 1 /\ path[i - 1] = Slash
           /\ insertChild(s) = insertCatchAll(s, i)
  <2>1. i \in 2..Len(path) /\ i + 1 \in 1 .. Len(path) + 1 /\ path[i] \in CatchAlls
    <3>2. i \in 2..Len(path) /\ i + 1 \in 1 .. Len(path) + 1 /\ i # Len(path) + 1
      <4>. HIDE DEF path
      <4>. QED BY ONLY <1>5, <1>9
    <3>. QED BY <1>2, <1>9, <3>2 DEF Wildcards
  <2>2. Len(path) - (i + 1) + 1 = 0
    <3>1. Len(rest) = Len(path) - (i + 1) + 1
      BY <1>1, <2>1, FromType
    <3>. QED BY <1>9, <3>1
  <2>3. i = Len(path)
    BY <1>1, <2>1, <2>2
  <2>4. Fresh(n)
    BY <1>11, <1>9
  <2>. QED BY <1>3, <1>9, <2>1, <2>3, <2>4, CatchAllPlaced
<1>. QED BY <1>10, <1>6, <1>7, <1>8, <1>9


(* Using a child counts for its priority.                                  *)
LEMMA BumpedChild ==
    ASSUME NEW A, NEW a, NEW n, Good(A, a, n), NEW k \in 1..Len(n.children),
           NEW m, m = WithChild(n, k, Bumped(n.children[k]))
    PROVE  /\ Good(A, a, m) /\ Like(m, n) /\ m.path = n.path
           /\ k \in 1..Len(m.children) /\ m.children[k] = Bumped(n.children[k])
<1>. DEFINE t == Bumped(n.children[k])
<1>1. Node(n) /\ Good(A, a \o n.path, n.children[k])
  BY GoodOpen DEF Open, Local
<1>2. Good(A, a \o n.path, t) /\ Like(t, n.children[k])
  BY <1>1, GoodBumped
<1>3. m = WithChild(n, k, t)
  OBVIOUS
<1>. HIDE DEF t
<1>4. Good(A, a, m) /\ Like(m, n)
  BY <1>2, <1>3, GoodChild
<1>5. /\ m.path = n.path /\ Len(m.children) = Len(n.children)
      /\ \A j \in 1..Len(n.children) : m.children[j] = IF j = k THEN t ELSE n.children[j]
  BY <1>1, <1>3, PutChild
<1>. QED BY <1>4, <1>5 DEF t

(* The next round goes on below.                                           *)
LEMMA DownPlaced ==
    ASSUME NEW A, NEW r, NEW s, Typed(r, s), NEW b, Around(A, r, b, s.node, s.up),
           NEW n, Good(A, b, n), Like(n, s.node), NEW k \in 1..Len(n.children),
           NEW path \in Seq(Tokens), path # <<>>, r = (b \o n.path) \o path,
           NEW at, NEW fate \in {"walk", "insert"}, fate = "insert" => Fresh(n.children[k]),
           fate = "walk" => /\ ~Leaf(n.children[k])
                            /\ Param(n.children[k]) => /\ path[1] = n.children[k].path[1]
                                                       /\ Len(path) > 1 => path[2] = Slash
    PROVE  Placing(A, r, Down(s, n, k, path, at, fate))
<1>. DEFINE d == Down(s, n, k, path, at, fate)
<1>1. d = Down(s, n, k, path, at, fate)
  OBVIOUS
<1>. HIDE DEF d
<1>2. /\ Typed(r, d) /\ d.node = n.children[k] /\ d.path = path /\ d.fate = fate
      /\ Around(A, r, b \o n.path, d.node, d.up) /\ Good(A, b \o n.path, d.node)
  BY <1>1, DownFits
<1>3. Ready(A, r, b \o n.path, d)
  BY <1>2 DEF Ready
<1>. QED BY <1>1, <1>2, <1>3 DEF Placing

(* The path goes on below n, or the registration ends here.                *)
LEMMA DescendPlaced ==
    ASSUME RoutesAndPaths, NEW A, NEW r \in Seq(Tokens), r # <<>>, NEW s, Typed(r, s), NEW b \in Seq(Tokens),
           Around(A, r, b, s.node, s.up), NEW n, Good(A, b, n), Like(n, s.node), ~Leaf(n),
           NEW path \in Seq(Tokens), path # <<>>, r = (b \o n.path) \o path,
           Param(n) => path[1] = Slash
    PROVE  Placing(A, r, Descend(s, n, path))
<1>. DEFINE below == s.at + Len(n.path)
            same == {k \in 1..Len(n.indices) : n.indices[k] = path[1]}
            k == LowestOf(same)
            f == [NewNode EXCEPT !.fullPath = s.full]
            wide == addChild(WithIndex(n, path[1]), f)
            new == Len(wide.indices)
            last == Len(n.children)
            w == n.children[last]
            wild == WithChild(n, last, Bumped(w))
            only == WithChild(n, 1, Bumped(n.children[1]))
            down == Down(s, only, 1, path, below, "walk")
            follow == Down(s, incrementChildPrio(n, k), NewPosition(n, k), path, below, "walk")
            add == Down(s, incrementChildPrio(wide, new), NewPosition(wide, new), path, s.at, "insert")
            here == insertChild([s EXCEPT !.node = n, !.path = path])
            enter == Down(s, wild, last, path, s.at, "walk")
            give == End(s, wild, "panic")
            fits == /\ w.nType # "catchAll" /\ path[1] = w.path[1]
                    /\ Len(path) > 1 => path[2] = Slash
<1>1. Descend(s, n, path) =
        IF n.nType = "param" /\ path[1] = Slash /\ Len(n.children) = 1 THEN down
        ELSE IF same # {} THEN follow
        ELSE IF path[1] \notin Wildcards /\ n.nType # "catchAll" THEN add
        ELSE IF ~n.wildChild THEN here
        ELSE IF fits THEN enter
        ELSE give
  BY DEF Descend, WithChild, WithIndex
<1>2. Open(A, b, n) /\ Node(n) /\ Shape(n) /\ n.path \in Seq(Tokens) /\ path[1] \in Tokens
  <2>1. Len(path) >= 1 /\ Len(path) \in Nat
    BY EmptySeq
  <2>2. 1 \in 1..Len(path)
    BY <2>1
  <2>. QED BY <2>2, GoodOpen, NodeFields, ElementOfSeq DEF Open, Local
<1>3. Base(n) \/ Param(n) \/ Inner(n)
  BY <1>2, KindOf
<1>4. Len(n.indices) \in Nat /\ Len(n.children) \in Nat /\ n.wildChild \in BOOLEAN
  BY <1>2, NodeFields
<1>5. ASSUME n.nType = "param", path[1] = Slash, Len(n.children) = 1
      PROVE  Placing(A, r, down)
  <2>1. 1 \in 1..Len(n.children) /\ Param(n)
    BY <1>5 DEF Param
  <2>2. /\ Good(A, b, only) /\ Like(only, n) /\ only.path = n.path
        /\ 1 \in 1..Len(only.children) /\ only.children[1] = Bumped(n.children[1])
    BY <2>1, BumpedChild
  <2>3. n.children[1].nType = "static" /\ Bumped(n.children[1]).nType = "static"
    <3>1. Fits(n, 1, n.children[1]) /\ Good(A, b \o n.path, n.children[1])
      BY <1>2, <2>1 DEF Open
    <3>2. n.children[1].nType = "static"
      BY <2>1, <3>1 DEF Fits
    <3>3. Like(Bumped(n.children[1]), n.children[1])
      BY <3>1, GoodBumped
    <3>. QED BY <3>2, <3>3 DEF Like
  <2>. HIDE DEF only
  <2>4. ~Leaf(only.children[1]) /\ ~Param(only.children[1])
    BY <2>2, <2>3 DEF Leaf, Param
  <2>5. Like(only, s.node)
    BY <2>2 DEF Like
  <2>. QED BY <2>2, <2>4, <2>5, DownPlaced
<1>6. ASSUME same # {} PROVE Placing(A, r, follow)
  <2>1. k \in same
    <3>1. same \in SUBSET Nat
      OBVIOUS
    <3>. HIDE DEF same
    <3>. QED BY <1>6, <3>1, Lowest
  <2>. HIDE DEF k
  <2>2. k \in 1..Len(n.indices)
    BY <2>1
  <2>3. Base(n) \/ Param(n)
    <3>1. Inner(n) => Len(n.indices) = 0
      BY <1>2 DEF Shape
    <3>. QED BY <1>3, <2>2, <3>1
  <2>. DEFINE m == incrementChildPrio(n, k)
              pos == NewPosition(n, k)
  <2>4. /\ Good(A, b, m) /\ Like(m, n) /\ m.path = n.path
        /\ pos \in 1..Len(m.children) /\ k \in 1..Len(n.children)
        /\ m.children[pos] = Bumped(n.children[k])
    BY <2>2, <2>3, Incremented
  <2>. HIDE DEF m, pos
  <2>5. Fits(n, k, n.children[k]) /\ Good(A, b \o n.path, n.children[k])
    BY <1>2, <2>4 DEF Open
  <2>6. ~(Base(n) /\ n.wildChild /\ k = Len(n.children))
    <3>1. SUFFICES ASSUME Base(n), n.wildChild, k = Len(n.children) PROVE FALSE
      OBVIOUS
    <3>2. Len(n.children) = Len(n.indices) + 1
      BY <1>2, <3>1 DEF Shape
    <3>. QED BY ONLY <1>4, <2>2, <3>1, <3>2
  <2>7. ~Leaf(n.children[k]) /\ ~Param(n.children[k])
    BY <2>3, <2>5, <2>6 DEF Fits, Leaf, Param, Inner
  <2>8. ~Leaf(m.children[pos]) /\ ~Param(m.children[pos])
    <3>1. Like(Bumped(n.children[k]), n.children[k])
      BY <2>5, GoodBumped
    <3>. QED BY <2>4, <2>7, <3>1 DEF Like, Leaf, Param
  <2>9. Like(m, s.node)
    BY <2>4 DEF Like
  <2>10. Placing(A, r, Down(s, m, pos, path, below, "walk"))
    BY <2>4, <2>8, <2>9, DownPlaced
  <2>. QED BY <2>10 DEF m, pos
<1>7. ASSUME ~(n.nType = "param" /\ path[1] = Slash /\ Len(n.children) = 1), n.nType # "catchAll"
      PROVE  Placing(A, r, add)
  <2>1. Base(n) \/ (Param(n) /\ n.children = <<>>)
    <3>1. CASE Param(n)
      <4>1. Len(n.children) <= 1 /\ Len(n.children) # 1
        BY <1>2, <1>7, <3>1 DEF Shape, Param
      <4>2. Len(n.children) = 0
        <5>1. ASSUME NEW x \in Nat, x <= 1, x # 1 PROVE x = 0
          BY ONLY <5>1
        <5>. QED BY <1>4, <4>1, <5>1
      <4>3. IsSeq(n.children)
        BY <1>2, NodeFields
      <4>. QED BY <3>1, <4>2, <4>3, EmptySeq DEF IsSeq
    <3>. QED BY <1>3, <1>7, <3>1 DEF Inner
  <2>2. Fresh(f) /\ f.nType = "static"
    BY NewFresh
  <2>. HIDE DEF f
  <2>3. b \o n.path \in Seq(Tokens)
    BY <1>2, ConcatProperties
  <2>4. Good(A, b \o n.path, f)
    BY <2>2, <2>3, GoodFresh
  <2>5. /\ Good(A, b, wide) /\ Like(wide, n) /\ wide.path = n.path
        /\ new \in 1..Len(wide.indices) /\ wide.children[new] = f
    BY <1>2, <2>1, <2>2, <2>4, Widened
  <2>. HIDE DEF wide, new
  <2>6. Base(wide) \/ Param(wide)
    BY <2>1, <2>5 DEF Like, Base, Param
  <2>. DEFINE m == incrementChildPrio(wide, new)
              pos == NewPosition(wide, new)
  <2>7. /\ Good(A, b, m) /\ Like(m, wide) /\ m.path = wide.path
        /\ pos \in 1..Len(m.children) /\ m.children[pos] = Bumped(wide.children[new])
    BY <2>5, <2>6, Incremented
  <2>. HIDE DEF m, pos
  <2>8. Fresh(m.children[pos])
    BY <2>2, <2>5, <2>7, BumpedFresh
  <2>9. Like(m, s.node)
    BY <2>5, <2>7 DEF Like
  <2>10. r = (b \o m.path) \o path
    BY <2>5, <2>7
  <2>11. Placing(A, r, Down(s, m, pos, path, s.at, "insert"))
    BY <2>7, <2>8, <2>9, <2>10, DownPlaced
  <2>. QED BY <2>11 DEF m, pos
<1>8. ASSUME path[1] \in Wildcards \/ n.nType = "catchAll", ~n.wildChild PROVE Placing(A, r, here)
  <2>1. path[1] \in Wildcards /\ Base(n)
    <3>1. n.nType # "catchAll"
      BY <1>8 DEF Leaf
    <3>2. path[1] # Slash
      BY <1>8, <3>1 DEF RoutesAndPaths, Plain
    <3>. QED BY <1>3, <1>8, <3>1, <3>2 DEF Inner
  <2>. DEFINE d == [s EXCEPT !.node = n, !.path = path]
  <2>2. /\ d.node = n /\ d.path = path /\ d.up = s.up
        /\ d \in [node : {d.node}, path : {d.path}, full : {r}, at : {d.at}, up : {d.up}, fate : {d.fate}]
    BY DEF Typed
  <2>. HIDE DEF d
  <2>3. Typed(r, d)
    BY <2>2 DEF Typed
  <2>4. Around(A, r, b, d.node, d.up)
    BY <2>2, AroundLike
  <2>5. Placing(A, r, insertChild(d))
    BY <1>8, <2>1, <2>2, <2>3, <2>4, ChildPlaced
  <2>. QED BY <2>5 DEF d
<1>9. ASSUME n.wildChild
      PROVE  Placing(A, r, give) /\ (fits => Placing(A, r, enter))
  <2>1. last \in 1..Len(n.children) /\ (Base(n) \/ Inner(n))
    <3>1. Base(n) \/ Inner(n)
      BY <1>2, <1>3, <1>9 DEF Shape
    <3>2. Base(n) => Len(n.children) = Len(n.indices) + 1
      BY <1>2, <1>9 DEF Shape
    <3>3. Inner(n) => Len(n.children) = 1
      BY <1>2 DEF Shape
    <3>4. Len(n.children) \in 1..Len(n.children)
      <4>1. ASSUME NEW x \in Nat, NEW y \in Nat, x = y + 1 \/ x = 1 PROVE x \in 1..x
        BY ONLY <4>1
      <4>2. Len(n.children) = Len(n.indices) + 1 \/ Len(n.children) = 1
        BY <3>1, <3>2, <3>3
      <4>. QED BY <1>4, <4>1, <4>2
    <3>. QED BY <3>1, <3>4
  <2>2. Fits(n, last, w) /\ Good(A, b \o n.path, w)
    BY <1>2, <2>1 DEF Open
  <2>. HIDE DEF last
  <2>4. Like(Bumped(w), w) /\ Bumped(w).path = w.path
    <3>. HIDE DEF w
    <3>. QED BY <2>2, GoodBumped
  <2>3. /\ Good(A, b, wild) /\ Like(wild, n) /\ wild.path = n.path
        /\ last \in 1..Len(wild.children) /\ wild.children[last] = Bumped(w)
    BY <2>1, BumpedChild
  <2>. HIDE DEF wild
  <2>5. Like(wild, s.node)
    BY <2>3 DEF Like
  <2>6. Placing(A, r, give)
    BY <2>3, <2>5, EndFits
  <2>7. ASSUME fits PROVE Placing(A, r, enter)
    <3>1. ~Leaf(w)
      BY <2>7 DEF Leaf
    <3>2. ~Leaf(wild.children[last]) /\ wild.children[last].path = w.path
      BY <2>3, <2>4, <3>1 DEF Like, Leaf
    <3>. QED BY <2>3, <2>5, <2>7, <3>2, DownPlaced
  <2>. QED BY <2>6, <2>7
<1>. HIDE DEF down, follow, add, here, enter, give, fits, same
<1>. QED BY <1>1, <1>5, <1>6, <1>7, <1>8, <1>9


(* The end of a route at a node that is there.                             *)
LEMMA EndHere ==
    ASSUME NEW A, NEW r, NEW a, NEW n, Good(A, a, n), Base(n) \/ Param(n), r = a \o n.path,
           NEW m, m = [n EXCEPT !.handlers = r, !.fullPath = r]
    PROVE  Good(A \cup {r}, a, m) /\ Like(m, n)
<1>1. Good(A \cup {r}, a, n)
  BY GoodMore
<1>2. Open(A \cup {r}, a, n) /\ Local(A \cup {r}, a, n) /\ Shape(n) /\ Node(n)
  BY <1>1, GoodOpen DEF Open, Local
<1>3. /\ m.path = n.path /\ m.indices = n.indices /\ m.wildChild = n.wildChild /\ m.nType = n.nType
      /\ m.children = n.children /\ m.handlers = r /\ m.fullPath = r
      /\ m \in [path : Seq(Tokens), indices : Seq(Tokens), wildChild : BOOLEAN, nType : Kinds,
                priority : {m.priority}, children : {m.children},
                handlers : {m.handlers}, fullPath : {m.fullPath}]
  BY <1>2 DEF Node
<1>4. Node(m)
  BY <1>2, <1>3 DEF Node
<1>5. /\ Base(m) <=> Base(n)
      /\ Param(m) <=> Param(n)
      /\ ~Inner(m) /\ ~Leaf(m) /\ ~Inner(n)
  BY <1>3 DEF Base, Param, Inner, Leaf
<1>6. Shape(m)
  BY <1>2, <1>3, <1>5 DEF Shape
<1>7. Local(A \cup {r}, a, m)
  BY <1>2, <1>3, <1>4, <1>6 DEF Local
<1>8. ASSUME NEW k \in 1..Len(m.children)
      PROVE  Fits(m, k, m.children[k]) /\ Good(A \cup {r}, a \o m.path, m.children[k])
  <2>1. Fits(n, k, n.children[k]) /\ Good(A \cup {r}, a \o n.path, n.children[k])
    BY <1>2, <1>3 DEF Open
  <2>2. Fits(m, k, n.children[k])
    BY <1>3, <1>5, <2>1 DEF Fits
  <2>. QED BY <1>3, <2>1, <2>2
<1>9. Good(A \cup {r}, a, m)
  BY <1>7, <1>8, GoodMake DEF Open
<1>. QED BY <1>3, <1>9 DEF Like

(* A round of the walk down the tree.                                      *)
LEMMA WalkPlaced ==
    ASSUME RoutesAndPaths, NEW A, NEW r \in Seq(Tokens), r # <<>>, NEW s, Placing(A, r, s), s.fate = "walk"
    PROVE  Placing(A, r, Walk(s))
<1>1. PICK b : Ready(A, r, b, s)
  BY DEF Placing
<1>. DEFINE top == s.node
            i == longestCommonPrefix(s.path, top.path)
            n == Split(top, i, s.full, s.at)
            rest == From(s.path, i + 1)
            whole == [n EXCEPT !.handlers = s.full, !.fullPath = s.full]
<1>2. Walk(s) = IF rest # <<>> THEN Descend(s, n, rest)
                ELSE IF n.handlers # Nil THEN End(s, n, "panic")
                ELSE End(s, whole, "done")
  BY DEF Walk
<1>3. /\ Typed(r, s) /\ s.full = r /\ s.path \in Seq(Tokens) /\ Len(s.path) \in Nat
      /\ Around(A, r, b, s.node, s.up) /\ Good(A, b, top) /\ r = b \o s.path /\ s.path # <<>> /\ ~Leaf(top)
      /\ Param(top) => s.path[1] = top.path[1]
      /\ Param(top) /\ Len(s.path) > 1 => s.path[2] = Slash
  <2>1. Typed(r, s) /\ s.full = r /\ s.path \in Seq(Tokens)
    BY DEF Placing, Typed
  <2>2. Len(s.path) \in Nat
    BY <2>1
  <2>. QED BY <1>1, <2>1, <2>2 DEF Ready
<1>4. /\ Open(A, b, top) /\ Node(top) /\ Shape(top) /\ b \in Seq(Tokens)
      /\ top.path \in Seq(Tokens) /\ Len(top.path) \in Nat
  BY <1>3, GoodOpen, NodeFields DEF Open, Local
<1>5. /\ i \in 0..Len(s.path) /\ i <= Len(top.path)
      /\ SubSeq(s.path, 1, i) = SubSeq(top.path, 1, i)
      /\ s.path # <<>> /\ top.path # <<>> /\ s.path[1] = top.path[1] => i >= 1
  BY <1>3, <1>4, CommonPrefix
<1>. HIDE DEF i
<1>6. Param(top) => i = 1 /\ Len(top.path) = 1
  <2>1. SUFFICES ASSUME Param(top) PROVE i = 1 /\ Len(top.path) = 1
    OBVIOUS
  <2>2. PICK t \in Params : top.path = <<t>>
    BY <1>4, <2>1 DEF Shape
  <2>3. Len(top.path) = 1 /\ top.path # <<>>
    BY <2>2
  <2>4. i >= 1 /\ i <= 1 /\ i \in Nat
    BY <1>3, <1>5, <2>1, <2>3
  <2>. QED BY <2>3, <2>4
<1>7. Inner(top) => i = 0 /\ Len(top.path) = 0
  <2>1. Inner(top) => Len(top.path) = 0
    BY <1>4, EmptySeq DEF Shape
  <2>2. i \in Nat
    BY <1>3, <1>5
  <2>. QED BY <1>5, <2>1, <2>2
<1>8. Base(top) \/ i = Len(top.path)
  BY <1>3, <1>4, <1>6, <1>7, KindOf
<1>9. i \in 0..Len(top.path) /\ i + 1 \in 1 .. Len(s.path) + 1
  <2>1. \A x, y, z \in Nat : x \in 0..y /\ x <= z => x \in 0..z /\ x + 1 \in 1 .. y + 1
    OBVIOUS
  <2>2. i \in Nat
    BY <1>3, <1>5
  <2>. QED BY <1>3, <1>4, <1>5, <2>1, <2>2
<1>10. Good(A, b, n) /\ Like(n, top) /\ n.path = SubSeq(top.path, 1, i)
  BY <1>3, <1>8, <1>9, GoodSplit
<1>. HIDE DEF n
<1>11. ~Leaf(n) /\ (Param(n) => Param(top)) /\ (Inner(n) => Inner(top)) /\ Like(n, s.node) /\ Node(n)
  <2>1. Node(n)
    BY <1>10, GoodOpen DEF Open, Local
  <2>. QED BY <1>3, <1>10, <2>1 DEF Like, Leaf, Param, Inner
<1>12. rest \in Seq(Tokens) /\ s.path = n.path \o rest /\ n.path \in Seq(Tokens)
  <2>1. s.path = SubSeq(s.path, 1, i) \o rest /\ SubSeq(s.path, 1, i) \in Seq(Tokens)
    BY <1>3, <1>5, SplitAt
  <2>2. rest \in Seq(Tokens)
    BY <1>3, <1>9, FromType
  <2>. QED BY <1>5, <1>10, <2>1, <2>2
<1>13. r = (b \o n.path) \o rest
  <2>1. b \in Seq(Tokens) /\ n.path \in Seq(Tokens) /\ rest \in Seq(Tokens)
    BY <1>4, <1>12
  <2>. HIDE DEF rest
  <2>2. (b \o n.path) \o rest = b \o (n.path \o rest)
    <3>1. \A c, d, e \in Seq(Tokens) : (c \o d) \o e = c \o (d \o e)
      BY SMTT(60), ConcatAssociative
    <3>. QED BY ZenonT(60), <2>1, <3>1
  <2>. QED BY <1>3, <1>12, <2>2
<1>14. CASE rest # <<>>
  <2>1. ASSUME Param(n) PROVE rest[1] = Slash
    <3>1. Param(top) /\ i = 1
      BY <1>6, <1>11, <2>1
    <3>2. Len(rest) = Len(s.path) - (i + 1) + 1 /\ \A j \in 1 .. Len(s.path) - (i + 1) + 1 : rest[j] = s.path[i + 1 + j - 1]
      BY <1>3, <1>9, FromType
    <3>3. Len(rest) >= 1
      BY <1>12, <1>14, EmptySeq
    <3>4. Len(s.path) > 1 /\ 1 \in 1 .. Len(s.path) - (i + 1) + 1 /\ i + 1 + 1 - 1 = 2
      <4>1. \A x \in Nat : \A y : y = x - (1 + 1) + 1 /\ y >= 1 => x > 1 /\ 1 \in 1 .. x - (1 + 1) + 1 /\ 1 + 1 + 1 - 1 = 2
        OBVIOUS
      <4>. HIDE DEF rest
      <4>. QED BY <1>3, <3>1, <3>2, <3>3, <4>1
    <3>5. rest[1] = s.path[i + 1 + 1 - 1]
      BY <3>2, <3>4
    <3>. QED BY <1>3, <3>1, <3>4, <3>5
  <2>. HIDE DEF rest
  <2>2. Placing(A, r, Descend(s, n, rest))
    BY <1>3, <1>4, <1>10, <1>11, <1>12, <1>13, <1>14, <2>1, DescendPlaced
  <2>. QED BY <1>2, <1>14, <2>2
<1>15. CASE rest = <<>>
  <2>. HIDE DEF rest
  <2>1. Placing(A, r, End(s, n, "panic"))
    BY <1>3, <1>10, <1>11, EndFits
  <2>2. r = b \o n.path
    <3>1. b \o n.path \in Seq(Tokens)
      BY <1>4, <1>12, ConcatProperties
    <3>. QED BY <1>13, <1>15, <3>1, ConcatEmptySeq
  <2>3. Base(n) \/ Param(n)
    <3>1. ~Inner(top)
      <4>1. SUFFICES ASSUME Inner(top) PROVE FALSE
        OBVIOUS
      <4>2. n.path = SubSeq(top.path, 1, 0) /\ SubSeq(top.path, 1, 0) = <<>>
        BY <1>7, <1>10, <4>1, SubSeqEmpty
      <4>. QED BY <1>3, <1>12, <1>15, <4>2, ConcatEmptySeq
    <3>. QED BY <1>11, <3>1, KindOf
  <2>4. whole = [n EXCEPT !.handlers = r, !.fullPath = r]
    BY <1>3
  <2>. HIDE DEF whole
  <2>5. Good(A \cup {r}, b, whole) /\ Like(whole, n)
    BY <1>10, <2>2, <2>3, <2>4, EndHere
  <2>6. Like(whole, s.node)
    BY <1>11, <2>5 DEF Like
  <2>7. Placing(A, r, End(s, whole, "done"))
    BY <1>3, <2>5, <2>6, EndFits
  <2>. QED BY <1>2, <1>15, <2>1, <2>7
<1>. QED BY <1>14, <1>15

(* Every round of a registration keeps its place in the tree.              *)
LEMMA RoundPlaced ==
    ASSUME RoutesAndPaths, NEW A, NEW r \in Seq(Tokens), r # <<>>, NEW s, Placing(A, r, s)
    PROVE  Placing(A, r, Placed(s))
<1>1. CASE s.fate = "walk"
  <2>1. Placed(s) = Walk(s)
    BY <1>1 DEF Placed
  <2>. QED BY <1>1, <2>1, WalkPlaced
<1>2. CASE s.fate = "insert"
  <2>1. Placed(s) = insertChild(s)
    BY <1>2 DEF Placed
  <2>2. PICK b : Ready(A, r, b, s)
    BY DEF Placing
  <2>3. /\ Typed(r, s) /\ Around(A, r, b, s.node, s.up) /\ Good(A, b, s.node)
        /\ r = b \o s.path /\ s.path # <<>> /\ Fresh(s.node)
    BY <1>2, <2>2 DEF Ready, Placing
  <2>4. /\ Base(s.node) /\ ~s.node.wildChild /\ s.node.path = <<>> /\ b \in Seq(Tokens)
    BY <2>3, GoodOpen DEF Fresh, Open, Local
  <2>5. r = (b \o s.node.path) \o s.path
    BY <2>3, <2>4, ConcatEmptySeq
  <2>. QED BY <2>1, <2>3, <2>4, <2>5, ChildPlaced
<1>3. CASE s.fate # "walk" /\ s.fate # "insert"
  <2>1. Placed(s) = s
    BY <1>3 DEF Placed
  <2>. QED BY <2>1
<1>. QED BY <1>1, <1>2, <1>3


(* round is the registration of path in the tree at root, round by round.  *)
Adds(round, root, path) ==
    LET n     == Bumped(root)
        empty == n.path = <<>> /\ n.children = <<>>
        end   == round[MaxRounds]
        whole == Root(end.node, end.up)
    IN
    /\ round[0] = [node |-> n, path |-> path, full |-> path, at |-> 0, up |-> <<>>,
                   fate |-> IF empty THEN "insert" ELSE "walk"]
    /\ \A i \in 1..MaxRounds : round[i] = Placed(round[i - 1])
    /\ addRoute(root, path) =
          [node  |-> IF empty /\ end.fate = "done" THEN [whole EXCEPT !.nType = "root"] ELSE whole,
           panic |-> end.fate = "panic"]

(* The recursive function in addRoute is one that Adds describes.          *)
LEMMA AddRounds ==
    ASSUME RoutesAndPaths, NEW root, NEW path
    PROVE  \E round : Adds(round, root, path)
<1>. DEFINE n == Bumped(root)
            empty == n.path = <<>> /\ n.children = <<>>
            start == [node |-> n, path |-> path, full |-> path, at |-> 0, up |-> <<>>,
                      fate |-> IF empty THEN "insert" ELSE "walk"]
            m == MaxRounds
            fits(g, k) == g = [i \in 0..k |-> IF i = 0 THEN start ELSE Placed(g[i - 1])]
            T == {k \in 0..m : \E g : fits(g, k)}
            result(g) ==
                [node  |-> IF empty /\ g[m].fate = "done"
                           THEN [Root(g[m].node, g[m].up) EXCEPT !.nType = "root"]
                           ELSE Root(g[m].node, g[m].up),
                 panic |-> g[m].fate = "panic"]
<1>1. m \in Nat
  BY DEF RoutesAndPaths
<1>. HIDE DEF start, m
<1>2. 0 \in T
  <2>1. fits([i \in 0..0 |-> start], 0)
    OBVIOUS
  <2>2. 0 \in 0..m
    BY <1>1
  <2>. QED BY <2>1, <2>2
<1>3. ASSUME NEW k \in 1..m, k - 1 \in T PROVE k \in T
  <2>1. PICK g : fits(g, k - 1)
    BY <1>3
  <2>. DEFINE h == [i \in 0..k |-> IF i < k THEN g[i] ELSE Placed(g[k - 1])]
  <2>2. \A i \in 0 .. k - 1 : g[i] = IF i = 0 THEN start ELSE Placed(g[i - 1])
    BY <2>1
  <2>3. \A i \in 0..k : h[i] = IF i = 0 THEN start ELSE Placed(h[i - 1])
    BY <1>1, <2>2
  <2>4. h = [i \in 0..k |-> h[i]]
    OBVIOUS
  <2>. HIDE DEF h
  <2>5. fits(h, k)
    BY <2>3, <2>4
  <2>. QED BY <2>5
<1>4. m \in T
  <2>. HIDE DEF T
  <2>1. \A i \in 0..m : i \in T
    BY <1>1, <1>2, <1>3, CountUp
  <2>. QED BY <1>1, <2>1
<1>5. PICK g : fits(g, m)
  BY <1>4
<1>6. PICK round : fits(round, m) /\ addRoute(root, path) = result(round)
  BY <1>5 DEF addRoute, start, m
<1>7. round[0] = start /\ \A i \in 1..m : round[i] = Placed(round[i - 1])
  <2>. HIDE DEF result
  <2>. QED BY <1>1, <1>6
<1>. QED BY <1>6, <1>7 DEF Adds, start, m

(* A registration, whether it panics or not, leaves a tree of the shape     *)
(* that look-up needs, with no route in it but those that were given: a     *)
(* half-done insertion is nowhere to be found (tree.go:135-438).            *)
THEOREM AddRouteGood ==
    ASSUME RoutesAndPaths, NEW A, NEW t, GoodTree(A, t), NEW r \in Seq(Tokens), r # <<>>
    PROVE  LET result == addRoute(t, r) IN
           GoodTree(IF result.panic THEN A ELSE A \cup {r}, result.node)
<1>1. PICK round : Adds(round, t, r)
  BY AddRounds
<1>. DEFINE n == Bumped(t)
            empty == n.path = <<>> /\ n.children = <<>>
            start == [node |-> n, path |-> r, full |-> r, at |-> 0, up |-> <<>>,
                      fate |-> IF empty THEN "insert" ELSE "walk"]
            T == {i \in 0..MaxRounds : Placing(A, r, round[i])}
<1>2. MaxRounds \in Nat
  BY DEF RoutesAndPaths
<1>3. Good(A, <<>>, n) /\ Base(n)
  <2>1. Good(A, <<>>, n) /\ Like(n, t)
    BY GoodBumped DEF GoodTree
  <2>. QED BY <2>1 DEF GoodTree, Like, Base
<1>4. Open(A, <<>>, n) /\ Node(n) /\ Shape(n) /\ n.path \in Seq(Tokens) /\ ~Leaf(n) /\ ~Param(n)
  BY <1>3, GoodOpen, NodeFields DEF Open, Local, Base, Leaf, Param
<1>5. <<>> \o r = r
  BY ConcatEmptySeq
<1>. HIDE DEF n
<1>6. Placing(A, r, round[0])
  <2>1. round[0] = start
    BY <1>1 DEF Adds, n
  <2>2. /\ start.node = n /\ start.path = r /\ start.up = <<>>
        /\ start.fate = IF empty THEN "insert" ELSE "walk"
        /\ start \in [node : {start.node}, path : {start.path}, full : {r}, at : {start.at},
                      up : {start.up}, fate : {start.fate}]
    OBVIOUS
  <2>. HIDE DEF start
  <2>3. Typed(r, start)
    <3>1. <<>> \in Seq({})
      OBVIOUS
    <3>. QED BY <2>2, <3>1 DEF Typed, IsSeq
  <2>4. Around(A, r, <<>>, n, <<>>)
    <3>1. \A u : Like(u, n) => Base(u)
      BY <1>3 DEF Like, Base
    <3>. QED BY <3>1, RootHere DEF Around, GoodTree
  <2>5. empty => Fresh(n)
    <3>1. SUFFICES ASSUME n.path = <<>>, n.children = <<>> PROVE Fresh(n)
      OBVIOUS
    <3>2. Len(n.children) = Len(n.indices) + (IF n.wildChild THEN 1 ELSE 0) /\ Len(n.children) = 0
      BY <1>3, <1>4, <3>1, EmptySeq DEF Shape
    <3>3. Len(n.indices) \in Nat /\ n.wildChild \in BOOLEAN /\ n.indices \in Seq(Tokens)
      BY <1>4, NodeFields
    <3>4. ~n.wildChild /\ Len(n.indices) = 0
      <4>1. CASE n.wildChild
        BY <3>2, <3>3, <4>1
      <4>2. CASE ~n.wildChild
        BY <3>2, <3>3, <4>2
      <4>. QED BY <4>1, <4>2
    <3>5. n.indices = <<>>
      BY <3>3, <3>4, EmptySeq
    <3>6. n.handlers = Nil
      <4>1. n.handlers # Nil => n.handlers = <<>> \o <<>>
        BY <1>4, <3>1 DEF Open, Local
      <4>2. <<>> \o <<>> = <<>>
        BY EmptySeq, ConcatEmptySeq
      <4>. QED BY <4>1, <4>2 DEF Nil
    <3>. QED BY <1>3, <1>4, <3>1, <3>4, <3>5, <3>6 DEF Fresh
  <2>6. Ready(A, r, <<>>, start)
    <3>. HIDE DEF empty
    <3>. QED BY <1>3, <1>4, <1>5, <2>2, <2>4, <2>5 DEF Ready
  <2>. QED BY <2>1, <2>3, <2>6 DEF Placing
<1>7. \A i \in 1..MaxRounds : i - 1 \in T => i \in T
  <2>1. TAKE i \in 1..MaxRounds
  <2>2. HAVE i - 1 \in T
  <2>3. round[i] = Placed(round[i - 1])
    BY <1>1, <2>1 DEF Adds
  <2>4. Placing(A, r, round[i])
    BY <2>2, <2>3, RoundPlaced
  <2>. QED BY <1>2, <2>1, <2>4
<1>8. Placing(A, r, round[MaxRounds])
  <2>1. 0 \in T
    BY <1>2, <1>6
  <2>2. \A i \in 0..MaxRounds : i \in T
    <3>. HIDE DEF T
    <3>. QED BY <1>2, <1>7, <2>1, CountUp
  <2>. QED BY <1>2, <2>2
<1>. DEFINE end == round[MaxRounds]
            whole == Root(end.node, end.up)
            B == IF end.fate = "panic" THEN A ELSE A \cup {r}
<1>9. GoodTree(B, whole)
  <2>1. PICK b : Ready(A, r, b, end)
    BY <1>8 DEF Placing
  <2>. HIDE DEF end
  <2>2. Good(B, b, end.node)
    <3>1. CASE end.fate = "done"
      BY <2>1, <3>1 DEF Ready
    <3>2. CASE end.fate # "done"
      <4>1. Good(A, b, end.node)
        BY <2>1, <3>2 DEF Ready
      <4>2. Good(A \cup {r}, b, end.node)
        BY <4>1, GoodMore
      <4>. QED BY <4>1, <4>2
    <3>. QED BY <3>1, <3>2
  <2>3. Around(A, r, b, end.node, end.up) /\ Like(end.node, end.node) /\ B \in {A, A \cup {r}}
    BY <2>1 DEF Ready, Like
  <2>. HIDE DEF B
  <2>. QED BY <2>2, <2>3 DEF Around
<1>. DEFINE root == [whole EXCEPT !.nType = "root"]
<1>10. GoodTree(B, root)
  <2>. HIDE DEF B, whole
  <2>1. Good(B, <<>>, whole) /\ Base(whole) /\ Node(whole)
    BY <1>9, GoodOpen DEF GoodTree, Open, Local
  <2>2. /\ root.path = whole.path /\ root.indices = whole.indices /\ root.wildChild = whole.wildChild
        /\ root.nType = "root" /\ root.children = whole.children
        /\ root.handlers = whole.handlers /\ root.fullPath = whole.fullPath
        /\ root \in [path : Seq(Tokens), indices : Seq(Tokens), wildChild : BOOLEAN, nType : Kinds,
                     priority : {root.priority}, children : {root.children},
                     handlers : {root.handlers}, fullPath : {root.fullPath}]
    BY <2>1 DEF Node, Kinds
  <2>. HIDE DEF root
  <2>3. Node(root) /\ Base(root)
    BY <2>1, <2>2 DEF Node, Base
  <2>4. Good(B, <<>>, root)
    BY <2>1, <2>2, <2>3, GoodDress
  <2>. QED BY <2>3, <2>4 DEF GoodTree
<1>11. addRoute(t, r) = [node  |-> IF empty /\ end.fate = "done" THEN root ELSE whole,
                         panic |-> end.fate = "panic"]
  BY <1>1 DEF Adds, n
<1>. HIDE DEF root, whole, empty, end
<1>12. addRoute(t, r).panic = (end.fate = "panic") /\ addRoute(t, r).node \in {root, whole}
  BY <1>11
<1>. QED BY <1>9, <1>10, <1>12

-----------------------------------------------------------------------------
(* Two searches side by side: one with nothing skipped before and as much   *)
(* room as it likes, and one over the slice that another look-up has left   *)

(* They are at the same node with the same path left.                      *)
Parallel(s, t) ==
    /\ State(s) /\ State(t) /\ s.value.kind = "none" /\ t.value.kind = "none"
    /\ s.node = t.node /\ s.path = t.path /\ s.params = t.params

(* What a round can make of a search: it ends, or it goes down.            *)
Ended(s, d, kind) == \E value : d = Found(s, value) /\ value.kind = kind /\ value.skipped = s.skipped
Going(s, node, path, params) == [s EXCEPT !.node = node, !.path = path, !.params = params]

(* Both do the same, up to their room c1 and c2 for one more skipped node.  *)
Agree(s, d, c1, t, e, c2) ==
    \/ \E kind \in {"hit", "miss"} : Ended(s, d, kind) /\ Ended(t, e, kind)
    \/ \E path, tsr : d = GoBack(s, path, tsr) /\ e = GoBack(t, path, tsr)
    \/ \E node, path, params : d = Going(s, node, path, params) /\ e = Going(t, node, path, params)
    \/ s.node.wildChild /\ \E rest, k : d = ToChild(s, rest, k, c1) /\ e = ToChild(t, rest, k, c2)

(* Two searches side by side may end in the same way.                      *)
LEMMA Ending ==
    ASSUME NEW s, NEW t, NEW n, NEW params, NEW tsr, NEW c1, NEW c2
    PROVE  /\ Agree(s, Found(s, Miss(tsr, s.skipped)), c1, t, Found(t, Miss(tsr, t.skipped)), c2)
           /\ Agree(s, Found(s, Hit(n, params, s.skipped)), c1, t, Found(t, Hit(n, params, t.skipped)), c2)
<1>1. \A u : /\ Ended(u, Found(u, Miss(tsr, u.skipped)), "miss")
             /\ Ended(u, Found(u, Hit(n, params, u.skipped)), "hit")
  <2>1. ASSUME NEW u PROVE /\ Miss(tsr, u.skipped).kind = "miss" /\ Miss(tsr, u.skipped).skipped = u.skipped
                           /\ Hit(n, params, u.skipped).kind = "hit" /\ Hit(n, params, u.skipped).skipped = u.skipped
    BY DEF Miss, Hit
  <2>. QED BY <2>1 DEF Ended
<1>. QED BY <1>1 DEF Agree

(* They agree when they go to a child.                                     *)
LEMMA ToChildAgree ==
    ASSUME NEW s, NEW t, Parallel(s, t), NEW rest, NEW k, NEW c1, NEW c2
    PROVE  Agree(s, ToChild(s, rest, k, c1), c1, t, ToChild(t, rest, k, c2), c2)
<1>1. CASE ~s.node.wildChild
  <2>. DEFINE n == s.node.children[k]
  <2>1. ASSUME NEW u, u \in {s, t}, NEW c PROVE ToChild(u, rest, k, c) = Going(u, n, rest, s.params)
    <3>1. ToChild(u, rest, k, c) = [u EXCEPT !.node = n, !.path = rest]
      BY <1>1, <2>1 DEF ToChild, Parallel
    <3>2. State(u) /\ u.params = s.params
      BY <2>1 DEF Parallel
    <3>. HIDE DEF n
    <3>3. [u EXCEPT !.node = n, !.path = rest] = Going(u, n, rest, s.params)
      BY <3>2 DEF Going, State
    <3>. QED BY <3>1, <3>3
  <2>. HIDE DEF n
  <2>. QED BY <2>1 DEF Agree
<1>2. CASE s.node.wildChild
  BY <1>2 DEF Agree
<1>. QED BY <1>1, <1>2

(* They agree when they go to a wildcard child or end in one.              *)
LEMMA ToWildcardAgree ==
    ASSUME NEW s, NEW t, Parallel(s, t), NEW rest, NEW c1, NEW c2
    PROVE  Agree(s, ToWildcard(s, rest), c1, t, ToWildcard(t, rest), c2)
<1>. DEFINE w == Last(s.node.children)
            end == SegmentEnd(rest)
            bound == Append(s.params, [key   |-> w.path[Len(w.path)],
                                       value |-> IF w.nType = "param" THEN SubSeq(rest, 1, end) ELSE rest])
            exact == Len(rest) = end + 1
            alone == Len(w.children) = 1 /\ LET c == w.children[1] IN
                           \/ c.path = <<Slash>> /\ c.handlers # Nil
                           \/ c.path = <<>> /\ c.indices = <<Slash>>
            next(u) ==
                IF w.nType = "catchAll" THEN Found(u, Hit(w, bound, u.skipped))
                ELSE IF end < Len(rest)
                THEN IF w.children # <<>>
                     THEN Going(u, w.children[1], From(rest, end + 1), bound)
                     ELSE Found(u, Miss(exact, u.skipped))
                ELSE IF w.handlers # Nil THEN Found(u, Hit(w, bound, u.skipped))
                ELSE Found(u, Miss(alone, u.skipped))
<1>1. ToWildcard(s, rest) = next(s)
  BY Zenon DEF ToWildcard, Going
<1>2. ToWildcard(t, rest) = next(t)
  <2>1. t.node = s.node /\ t.params = s.params
    BY DEF Parallel
  <2>. QED BY <2>1, Zenon DEF ToWildcard, Going
<1>. HIDE DEF w, end, bound, exact, alone
<1>3. Agree(s, next(s), c1, t, next(t), c2)
  <2>1. CASE w.nType = "catchAll"
    <3>1. next(s) = Found(s, Hit(w, bound, s.skipped)) /\ next(t) = Found(t, Hit(w, bound, t.skipped))
      BY <2>1
    <3>. HIDE DEF next
    <3>. QED BY <3>1, Ending
  <2>2. CASE w.nType # "catchAll" /\ end < Len(rest) /\ w.children # <<>>
    <3>1. /\ next(s) = Going(s, w.children[1], From(rest, end + 1), bound)
          /\ next(t) = Going(t, w.children[1], From(rest, end + 1), bound)
      BY <2>2
    <3>. HIDE DEF next
    <3>. QED BY <3>1 DEF Agree
  <2>3. CASE w.nType # "catchAll" /\ end < Len(rest) /\ ~(w.children # <<>>)
    <3>1. /\ next(s) = Found(s, Miss(exact, s.skipped))
          /\ next(t) = Found(t, Miss(exact, t.skipped))
      BY <2>3
    <3>. HIDE DEF next
    <3>. QED BY <3>1, Ending
  <2>4. CASE w.nType # "catchAll" /\ ~(end < Len(rest)) /\ w.handlers # Nil
    <3>1. next(s) = Found(s, Hit(w, bound, s.skipped)) /\ next(t) = Found(t, Hit(w, bound, t.skipped))
      BY <2>4
    <3>. HIDE DEF next
    <3>. QED BY <3>1, Ending
  <2>5. CASE w.nType # "catchAll" /\ ~(end < Len(rest)) /\ ~(w.handlers # Nil)
    <3>1. /\ next(s) = Found(s, Miss(alone, s.skipped))
          /\ next(t) = Found(t, Miss(alone, t.skipped))
      BY <2>5
    <3>. HIDE DEF next
    <3>. QED BY <3>1, Ending
  <2>. QED BY <2>1, <2>2, <2>3, <2>4, <2>5
<1>. QED BY <1>1, <1>2, <1>3

(* They agree when the node's path is not yet all that is left, unless one *)
(* of them has no room for what it skips.                                  *)
LEMMA ThroughAgree ==
    ASSUME NEW s, NEW t, Parallel(s, t), NEW c1, NEW c2
    PROVE  Agree(s, Through(s, c1), c1, t, Through(t, c2), c2)
<1>. DEFINE n == s.node
            rest == From(s.path, Len(n.path) + 1)
            same == {k \in 1..Len(n.indices) : n.indices[k] = rest[1]}
            given == n.handlers # Nil
            no == FALSE
            next(u, c) ==
                IF same # {} THEN ToChild(u, rest, LowestOf(same), c)
                ELSE IF n.wildChild THEN ToWildcard(u, rest)
                ELSE IF rest = <<Slash>> THEN Found(u, Miss(given, u.skipped))
                ELSE GoBack(u, rest, no)
<1>1. Through(s, c1) = next(s, c1)
  BY Zenon DEF Through
<1>2. Through(t, c2) = next(t, c2)
  <2>1. t.node = s.node /\ t.path = s.path
    BY DEF Parallel
  <2>. QED BY <2>1, Zenon DEF Through
<1>. HIDE DEF rest, same, given, no
<1>3. CASE same # {}
  <2>1. next(s, c1) = ToChild(s, rest, LowestOf(same), c1) /\ next(t, c2) = ToChild(t, rest, LowestOf(same), c2)
    BY <1>3
  <2>. HIDE DEF next
  <2>. QED BY <1>1, <1>2, <2>1, ToChildAgree
<1>4. CASE ~(same # {}) /\ n.wildChild
  <2>1. next(s, c1) = ToWildcard(s, rest) /\ next(t, c2) = ToWildcard(t, rest)
    BY <1>4
  <2>. HIDE DEF next
  <2>. QED BY <1>1, <1>2, <2>1, ToWildcardAgree
<1>5. CASE ~(same # {}) /\ ~n.wildChild /\ rest = <<Slash>>
  <2>1. /\ next(s, c1) = Found(s, Miss(given, s.skipped))
        /\ next(t, c2) = Found(t, Miss(given, t.skipped))
    BY <1>5
  <2>. HIDE DEF next
  <2>. QED BY <1>1, <1>2, <2>1, Ending
<1>6. CASE ~(same # {}) /\ ~n.wildChild /\ rest # <<Slash>>
  <2>1. next(s, c1) = GoBack(s, rest, no) /\ next(t, c2) = GoBack(t, rest, no)
    BY <1>6
  <2>. HIDE DEF next
  <2>. QED BY <1>1, <1>2, <2>1 DEF Agree
<1>. QED BY <1>3, <1>4, <1>5, <1>6

(* They agree at a node whose path is all that is left.                    *)
LEMMA HereAgree ==
    ASSUME NEW s, NEW t, Parallel(s, t), NEW c1, NEW c2
    PROVE  Agree(s, Here(s), c1, t, Here(t), c2)
<1>. DEFINE n == s.node
            below == {n.children[k] : k \in {j \in 1..Len(n.indices) : n.indices[j] = Slash}}
            tsr == \/ s.path = <<Slash>> /\ n.nType # "root" /\ (n.wildChild \/ n.nType = "static")
                   \/ \E c \in below : \/ Len(c.path) = 1 /\ c.handlers # Nil
                                       \/ c.nType = "catchAll" /\ c.children[1].handlers # Nil
            next(u) ==
                IF n.handlers # Nil THEN Found(u, Hit(n, s.params, u.skipped))
                ELSE IF s.path = <<Slash>> THEN Found(u, Miss(tsr, u.skipped))
                ELSE GoBack(u, s.path, tsr)
<1>1. Here(s) = next(s)
  BY Zenon DEF Here
<1>2. Here(t) = next(t)
  <2>1. t.node = s.node /\ t.path = s.path /\ t.params = s.params
    BY DEF Parallel
  <2>. QED BY <2>1, SMTT(60) DEF Here
<1>. HIDE DEF tsr
<1>3. CASE n.handlers # Nil
  <2>1. next(s) = Found(s, Hit(n, s.params, s.skipped)) /\ next(t) = Found(t, Hit(n, s.params, t.skipped))
    BY <1>3
  <2>. HIDE DEF next
  <2>. QED BY <1>1, <1>2, <2>1, Ending
<1>4. CASE ~(n.handlers # Nil) /\ s.path = <<Slash>>
  <2>1. next(s) = Found(s, Miss(tsr, s.skipped)) /\ next(t) = Found(t, Miss(tsr, t.skipped))
    BY <1>4
  <2>. HIDE DEF next
  <2>. QED BY <1>1, <1>2, <2>1, Ending
<1>5. CASE ~(n.handlers # Nil) /\ s.path # <<Slash>>
  <2>1. next(s) = GoBack(s, s.path, tsr) /\ next(t) = GoBack(t, s.path, tsr)
    BY <1>5
  <2>. HIDE DEF next
  <2>. QED BY <1>1, <1>2, <2>1 DEF Agree
<1>. QED BY <1>3, <1>4, <1>5

(* They agree in every round that starts at the same node.                 *)
LEMMA VisitAgree ==
    ASSUME NEW s, NEW t, Parallel(s, t), NEW c1, NEW c2
    PROVE  Agree(s, Visit(s, c1), c1, t, Visit(t, c2), c2)
<1>. DEFINE long == Len(s.path) > Len(s.node.path) /\ IsPrefix(s.node.path, s.path)
            yes == TRUE
            no == FALSE
            short == s.path = <<Slash>> \/ LacksSlash(s.node, s.path)
            next(u, c) ==
                IF long THEN Through(u, c)
                ELSE IF s.path = s.node.path THEN Here(u)
                ELSE IF short THEN Found(u, Miss(yes, u.skipped))
                ELSE GoBack(u, s.path, no)
<1>1. Visit(s, c1) = next(s, c1)
  <2>1. ~(s.value.kind # "none")
    BY DEF Parallel
  <2>. QED BY <2>1, Zenon DEF Visit
<1>2. Visit(t, c2) = next(t, c2)
  <2>1. t.node = s.node /\ t.path = s.path /\ ~(t.value.kind # "none")
    BY DEF Parallel
  <2>. QED BY <2>1, Zenon DEF Visit
<1>. HIDE DEF long, short, yes, no
<1>3. CASE long
  <2>1. next(s, c1) = Through(s, c1) /\ next(t, c2) = Through(t, c2)
    BY <1>3
  <2>. HIDE DEF next
  <2>. QED BY <1>1, <1>2, <2>1, ThroughAgree
<1>4. CASE ~long /\ s.path = s.node.path
  <2>1. next(s, c1) = Here(s) /\ next(t, c2) = Here(t)
    BY <1>4
  <2>. HIDE DEF next
  <2>. QED BY <1>1, <1>2, <2>1, HereAgree
<1>5. CASE ~long /\ s.path # s.node.path /\ short
  <2>1. next(s, c1) = Found(s, Miss(yes, s.skipped)) /\ next(t, c2) = Found(t, Miss(yes, t.skipped))
    BY <1>5
  <2>. HIDE DEF next
  <2>. QED BY <1>1, <1>2, <2>1, Ending
<1>6. CASE ~long /\ s.path # s.node.path /\ ~short
  <2>1. next(s, c1) = GoBack(s, s.path, no) /\ next(t, c2) = GoBack(t, s.path, no)
    BY <1>6
  <2>. HIDE DEF next
  <2>. QED BY <1>1, <1>2, <2>1 DEF Agree
<1>. QED BY <1>3, <1>4, <1>5, <1>6
(* The nodes a look-up leaves skipped are a sequence, whatever the tree.   *)
Structured(s) == State(s) /\ IsSeq(s.value.skipped)

(* Ending a search keeps what it skipped.                                  *)
LEMMA FoundFields ==
    ASSUME NEW s, State(s), NEW value
    PROVE  State(Found(s, value)) /\ Found(s, value).value = value /\ Found(s, value).skipped = s.skipped
<1>. DEFINE d == Found(s, value)
<1>1. /\ d.value = value /\ d.skipped = s.skipped
      /\ d \in [node : {d.node}, path : {d.path}, params : {d.params},
                skipped : {d.skipped}, value : {d.value}]
  BY DEF State, Found
<1>. HIDE DEF d
<1>2. State(d)
  BY <1>1 DEF State
<1>. QED BY <1>1, <1>2 DEF d

(* Going on to another node keeps what was skipped.                        *)
LEMMA GoingFields ==
    ASSUME NEW s, State(s), NEW node, NEW path, NEW params
    PROVE  LET d == Going(s, node, path, params) IN
           /\ State(d) /\ d.node = node /\ d.path = path /\ d.params = params
           /\ d.skipped = s.skipped /\ d.value = s.value
<1>. DEFINE d == Going(s, node, path, params)
<1>1. /\ d.node = node /\ d.path = path /\ d.params = params /\ d.skipped = s.skipped
      /\ d.value = s.value
      /\ d \in [node : {d.node}, path : {d.path}, params : {d.params},
                skipped : {d.skipped}, value : {d.value}]
  BY DEF State, Going
<1>. HIDE DEF d
<1>2. State(d)
  BY <1>1 DEF State
<1>. QED BY <1>1, <1>2 DEF d

(* Going back to a skipped node drops it and what was skipped after it     *)
(* (tree.go:504-516).                                                      *)
LEMMA ResumeFields ==
    ASSUME NEW s, State(s), NEW k \in 1..Len(s.skipped)
    PROVE  LET d == Resume(s, k) IN
           /\ State(d) /\ d.node = s.skipped[k].node /\ d.path = s.skipped[k].path
           /\ d.params = Truncated(s.params, s.skipped[k])
           /\ d.skipped = SubSeq(s.skipped, 1, k - 1) /\ d.value = s.value
<1>. DEFINE d == Resume(s, k)
<1>1. /\ d.node = s.skipped[k].node /\ d.path = s.skipped[k].path
      /\ d.params = Truncated(s.params, s.skipped[k])
      /\ d.skipped = SubSeq(s.skipped, 1, k - 1) /\ d.value = s.value
      /\ d \in [node : {d.node}, path : {d.path}, params : {d.params},
                skipped : {d.skipped}, value : {d.value}]
  BY DEF State, Resume
<1>2. PICK S : s.skipped \in Seq(S)
  BY DEF State, IsSeq
<1>3. k - 1 \in 0..Len(s.skipped)
  BY <1>2
<1>4. SubSeq(s.skipped, 1, k - 1) \in Seq(S)
  BY <1>2, <1>3, SplitAt
<1>. HIDE DEF d
<1>5. State(d)
  BY <1>1, <1>4 DEF State, IsSeq
<1>. QED BY <1>1, <1>5 DEF d

(* Where the search stands, and what is bound, goes on the slice.          *)
Skipping(s) == [path |-> s.path, node |-> [s.node EXCEPT !.indices = <<>>], paramsCount |-> Len(s.params)]

Full(s, capacity) == Len(s.skipped) = capacity

(* Going past a wildcard skips the node that has it (tree.go:478-493).     *)
LEMMA PushFields ==
    ASSUME NEW s, State(s), s.node.wildChild, NEW rest, NEW k, NEW capacity, ~Full(s, capacity)
    PROVE  LET d == ToChild(s, rest, k, capacity) IN
           /\ State(d) /\ d.node = s.node.children[k] /\ d.path = rest /\ d.params = s.params
           /\ d.skipped = Append(s.skipped, Skipping(s)) /\ d.value = s.value
<1>. DEFINE c == s.node.children[k]
            more == Append(s.skipped, Skipping(s))
            d == [s EXCEPT !.node = c, !.path = rest, !.skipped = more]
<1>1. ToChild(s, rest, k, capacity) = d
  <2>. DEFINE down == [s EXCEPT !.node = c, !.path = rest]
              new == Skipping(s)
  <2>1. ToChild(s, rest, k, capacity) = [down EXCEPT !.skipped = Append(@, new)]
    BY DEF ToChild, Skipping, Full
  <2>. HIDE DEF c, new
  <2>2. [down EXCEPT !.skipped = Append(@, new)] = [s EXCEPT !.node = c, !.path = rest, !.skipped = Append(s.skipped, new)]
    BY DEF State
  <2>. QED BY <2>1, <2>2 DEF new, c
<1>2. IsSeq(s.skipped)
  BY DEF State
<1>. HIDE DEF c
<1>3. IsSeq(more)
  BY <1>2, RootAppend
<1>. HIDE DEF more
<1>4. /\ d.node = c /\ d.path = rest /\ d.params = s.params /\ d.skipped = more /\ d.value = s.value
      /\ d \in [node : {d.node}, path : {d.path}, params : {d.params},
                skipped : {d.skipped}, value : {d.value}]
  BY DEF State
<1>. HIDE DEF d
<1>5. State(d)
  BY <1>3, <1>4 DEF State
<1>. QED BY <1>1, <1>4, <1>5 DEF c, more

(* A look-up that goes nowhere leaves the slice as it was.                 *)
LEMMA NoSkipped ==
    /\ IsSeq(<<>>) /\ \A tsr : Miss(tsr, <<>>).skipped = <<>> /\ Miss(tsr, <<>>).kind = "miss"
    /\ \A left : OutOfCapacity(left).skipped = left /\ OutOfCapacity(left).kind = "panic"
<1>1. <<>> \in Seq({})
  OBVIOUS
<1>. QED BY <1>1 DEF IsSeq, Miss, OutOfCapacity

(* Going back leaves a search as getValue holds it.                        *)
LEMMA GoBackStructured ==
    ASSUME NEW s, Structured(s), NEW path, NEW tsr
    PROVE  Structured(GoBack(s, path, tsr))
<1>. DEFINE k == Latest(s.skipped, path)
<1>1. State(s) /\ k \in 0..Len(s.skipped) /\ Len(s.skipped) \in Nat
  BY LatestFits DEF Structured, State, IsSeq
<1>. HIDE DEF k
<1>2. CASE k = 0
  <2>1. GoBack(s, path, tsr) = Found(s, Miss(tsr, <<>>))
    BY <1>2 DEF GoBack, k
  <2>. QED BY <1>1, <2>1, FoundFields, NoSkipped DEF Structured
<1>3. CASE k # 0
  <2>1. GoBack(s, path, tsr) = Resume(s, k) /\ k \in 1..Len(s.skipped)
    BY <1>1, <1>3 DEF GoBack, k
  <2>2. State(Resume(s, k)) /\ Resume(s, k).value = s.value
    BY <1>1, <2>1, ResumeFields
  <2>. QED BY <2>1, <2>2 DEF Structured
<1>. QED BY <1>2, <1>3

(* So does every round.                                                    *)
LEMMA VisitStructured ==
    ASSUME NEW s, Structured(s), NEW capacity
    PROVE  Structured(Visit(s, capacity))
<1>1. CASE s.value.kind # "none"
  BY <1>1 DEF Visit
<1>2. CASE s.value.kind = "none"
  <2>. DEFINE d == Visit(s, capacity)
  <2>0. State(s) /\ IsSeq(s.skipped)
    BY DEF Structured, State
  <2>1. Agree(s, d, capacity, s, d, capacity)
    <3>1. Parallel(s, s)
      BY <1>2, <2>0 DEF Parallel
    <3>. QED BY <3>1, VisitAgree
  <2>. HIDE DEF d
  <2>2. CASE \E kind : Ended(s, d, kind)
    <3>1. PICK value : d = Found(s, value) /\ value.skipped = s.skipped
      BY <2>2 DEF Ended
    <3>. QED BY <2>0, <3>1, FoundFields DEF Structured, d
  <2>3. CASE \E path, tsr : d = GoBack(s, path, tsr)
    BY <2>3, GoBackStructured DEF d
  <2>4. CASE \E node, path, params : d = Going(s, node, path, params)
    <3>1. PICK node, path, params : d = Going(s, node, path, params)
      BY <2>4
    <3>2. State(d) /\ d.value = s.value
      BY <2>0, <3>1, GoingFields
    <3>. QED BY <3>2 DEF Structured, d
  <2>5. CASE s.node.wildChild /\ \E rest, k, c : d = ToChild(s, rest, k, c)
    <3>1. PICK rest, k, c : d = ToChild(s, rest, k, c)
      BY <2>5
    <3>2. CASE Full(s, c)
      <4>1. d = Found(s, OutOfCapacity(s.skipped))
        BY <2>5, <3>1, <3>2 DEF ToChild, Full
      <4>. QED BY <2>0, <4>1, FoundFields, NoSkipped DEF Structured, d
    <3>3. CASE ~Full(s, c)
      <4>1. State(d) /\ d.value = s.value
        BY <2>0, <2>5, <3>1, <3>3, PushFields
      <4>. QED BY <4>1 DEF Structured, d
    <3>. QED BY <3>2, <3>3
  <2>. QED BY <2>1, <2>2, <2>3, <2>4, <2>5 DEF Agree
<1>. QED BY <1>1, <1>2

(* Going back, over more skipped nodes than its own, a search takes the     *)
(* same one as long as one of its own will do.                             *)
Over(left, own) == left \o own

(* What a search skipped itself lies behind what was there before, so it   *)
(* goes back to its own nodes first.                                       *)
LEMMA LatestBehind ==
    ASSUME NEW left, IsSeq(left), NEW own, IsSeq(own), NEW path, NEW k, k = Latest(own, path), k # 0
    PROVE  /\ k \in 1..Len(own) /\ Latest(Over(left, own), path) = Len(left) + k
           /\ Len(left) + k \in 1..Len(Over(left, own)) /\ (Over(left, own))[Len(left) + k] = own[k]
           /\ SubSeq(Over(left, own), 1, Len(left) + k - 1) = Over(left, SubSeq(own, 1, k - 1))
<1>1. PICK S : left \in Seq(S) /\ own \in Seq(S)
  <2>1. PICK P, Q : left \in Seq(P) /\ own \in Seq(Q)
    BY DEF IsSeq
  <2>2. left \in Seq(P \cup Q) /\ own \in Seq(P \cup Q)
    BY <2>1, SeqMonotonic
  <2>. QED BY <2>2
<1>. DEFINE all == left \o own
            a == Len(left)
            b == Len(own)
            fits(s) == {0} \cup {j \in 1..Len(s) : IsSuffix(path, s[j].path)}
<1>2. k \in 0..b /\ k # 0 /\ a \in Nat /\ b \in Nat
  BY <1>1, LatestFits DEF IsSeq
<1>3. /\ all \in Seq(S) /\ Len(all) = a + b
      /\ \A j \in 1..a : all[j] = left[j]
      /\ \A j \in 1..b : all[a + j] = own[j]
  <2>1. \A i \in 1 .. a + b : all[i] = IF i <= a THEN left[i] ELSE own[i - a]
    BY <1>1, ConcatProperties
  <2>2. \A j \in 1..b : a + j \in 1 .. a + b /\ ~(a + j <= a) /\ a + j - a = j
    BY <1>2
  <2>. QED BY <1>1, <1>2, <2>1, <2>2, ConcatProperties
<1>. HIDE DEF all, a, b
<1>4. k \in fits(own) /\ \A j \in fits(own) : k >= j
  <2>1. fits(own) \in SUBSET (0..b) /\ fits(own) # {} /\ k = HighestOf(fits(own))
    BY <1>2 DEF Latest, b
  <2>. QED BY <1>2, <2>1, Highest
<1>5. k \in 1..b /\ IsSuffix(path, own[k].path)
  BY <1>2, <1>4 DEF b
<1>6. a + k \in fits(all) /\ \A j \in fits(all) : a + k >= j
  <2>1. a + k \in 1 .. a + b /\ all[a + k] = own[k]
    BY <1>2, <1>3, <1>5
  <2>2. a + k \in fits(all)
    BY <1>3, <1>5, <2>1
  <2>3. ASSUME NEW j \in fits(all), ~(a + k >= j) PROVE FALSE
    <3>1. j \in 1 .. a + b /\ IsSuffix(path, all[j].path)
      BY <1>2, <1>3, <1>5, <2>3
    <3>2. j - a \in 1..b /\ a + (j - a) = j /\ ~(k >= j - a)
      BY <1>2, <1>5, <2>3, <3>1
    <3>3. j - a \in fits(own)
      BY <1>3, <3>1, <3>2 DEF b
    <3>. QED BY <1>4, <3>2, <3>3
  <2>. QED BY <2>2, <2>3
<1>7. Latest(all, path) = a + k
  <2>1. fits(all) \in SUBSET (0 .. a + b) /\ a + b \in Nat
    BY <1>2, <1>3
  <2>. HIDE DEF fits
  <2>2. HighestOf(fits(all)) \in fits(all) /\ \A j \in fits(all) : HighestOf(fits(all)) >= j
    BY <1>6, <2>1, Highest
  <2>3. HighestOf(fits(all)) \in Int /\ a + k \in Int
    BY <1>6, <2>1, <2>2
  <2>4. HighestOf(fits(all)) >= a + k /\ a + k >= HighestOf(fits(all))
    BY <1>6, <2>2
  <2>5. HighestOf(fits(all)) = a + k
    BY <2>3, <2>4
  <2>. QED BY <2>5 DEF Latest, fits
<1>8. SubSeq(all, 1, a + k - 1) = left \o SubSeq(own, 1, k - 1)
  <2>. DEFINE low == SubSeq(own, 1, k - 1)
              cut == SubSeq(all, 1, a + k - 1)
              sum == left \o low
  <2>1. k - 1 \in 0..b /\ a + k - 1 \in 0 .. a + b /\ a + (k - 1) = a + k - 1
    BY <1>2, <1>5
  <2>2. /\ low \in Seq(S) /\ Len(low) = k - 1
        /\ \A j \in 1 .. k - 1 : low[j] = own[j]
    BY <1>1, <2>1, SplitAt DEF b
  <2>3. /\ cut \in Seq(S) /\ Len(cut) = a + k - 1
        /\ \A j \in 1 .. a + k - 1 : cut[j] = all[j]
    BY <1>3, <2>1, SplitAt
  <2>4. /\ sum \in Seq(S) /\ Len(sum) = a + (k - 1)
        /\ \A j \in 1 .. a + (k - 1) : sum[j] = IF j <= a THEN left[j] ELSE low[j - a]
    <3>. HIDE DEF low
    <3>1. /\ sum \in Seq(S) /\ Len(sum) = Len(left) + Len(low)
          /\ \A j \in 1 .. Len(left) + Len(low) : sum[j] = IF j <= Len(left) THEN left[j] ELSE low[j - Len(left)]
      BY <1>1, <2>2, ConcatProperties
    <3>. HIDE DEF sum
    <3>. QED BY <2>2, <3>1 DEF a
  <2>5. \A j \in 1 .. a + b : all[j] = IF j <= a THEN left[j] ELSE own[j - a]
    BY <1>1, ConcatProperties DEF all, a, b
  <2>. HIDE DEF low, cut, sum
  <2>6. ASSUME NEW j \in 1 .. a + k - 1 PROVE cut[j] = sum[j]
    <3>1. j \in 1 .. a + (k - 1) /\ j \in 1 .. a + b /\ (~(j <= a) => j - a \in 1 .. k - 1)
      BY <1>2, <1>5, <2>1
    <3>2. cut[j] = IF j <= a THEN left[j] ELSE own[j - a]
      BY <2>3, <2>5, <3>1
    <3>3. sum[j] = IF j <= a THEN left[j] ELSE low[j - a]
      BY <2>4, <3>1
    <3>. QED BY <2>2, <3>1, <3>2, <3>3
  <2>7. Len(cut) = Len(sum)
    BY <2>1, <2>3, <2>4
  <2>8. cut = sum
    BY <2>3, <2>4, <2>6, <2>7, SeqEqual
  <2>. QED BY <2>8 DEF cut, sum, low
<1>9. a + k \in 1..Len(all) /\ all[a + k] = own[k]
  BY <1>2, <1>3, <1>5
<1>10. Over(left, own) = all /\ Over(left, SubSeq(own, 1, k - 1)) = left \o SubSeq(own, 1, k - 1)
  BY DEF Over, all
<1>. QED BY <1>5, <1>7, <1>8, <1>9, <1>10 DEF a, b


(* s searches over what is left of another look-up, t for itself alone: s   *)
(* finds what t finds, as long as it has room, and without anything left    *)
(* nothing else.                                                           *)
Beside(left, s, t) == Parallel(s, t) /\ s.skipped = Over(left, t.skipped)

Prefixed(left, s, t) ==
    \/ s.value.kind = "panic"
    \/ s.value.kind = "hit" /\ t.value.kind = "hit"
    \/ t.value.kind = "miss" /\ (left = <<>> => s.value.kind = "miss")
    \/ Beside(left, s, t)

(* Two searches that differ in what was skipped before them go back to the *)
(* same node, until one of them has none of its own left.                  *)
LEMMA GoBackBeside ==
    ASSUME NEW left, IsSeq(left), NEW s, NEW t, Beside(left, s, t), NEW path, NEW tsr
    PROVE  Prefixed(left, GoBack(s, path, tsr), GoBack(t, path, tsr))
<1>. DEFINE k == Latest(t.skipped, path)
            j == Latest(s.skipped, path)
<1>1. /\ State(s) /\ State(t) /\ IsSeq(t.skipped) /\ IsSeq(s.skipped) /\ s.skipped = Over(left, t.skipped)
      /\ s.value.kind = "none" /\ t.value.kind = "none" /\ s.params = t.params
  BY DEF Beside, Parallel, State
<1>2. \A u : /\ Latest(u.skipped, path) = 0 => GoBack(u, path, tsr) = Found(u, Miss(tsr, <<>>))
             /\ Latest(u.skipped, path) > 0 => GoBack(u, path, tsr) = Resume(u, Latest(u.skipped, path))
  BY DEF GoBack
<1>3. CASE k = 0
  <2>1. GoBack(t, path, tsr).value.kind = "miss"
    BY <1>1, <1>2, <1>3, FoundFields, NoSkipped
  <2>2. left = <<>> => GoBack(s, path, tsr).value.kind = "miss"
    <3>1. left = <<>> => s.skipped = t.skipped
      <4>1. PICK S : t.skipped \in Seq(S)
        BY <1>1 DEF IsSeq
      <4>. QED BY <1>1, <4>1, ConcatEmptySeq DEF Over
    <3>. QED BY <1>1, <1>2, <1>3, <3>1, FoundFields, NoSkipped
  <2>. QED BY <2>1, <2>2 DEF Prefixed
<1>4. CASE k # 0
  <2>0. k = Latest(t.skipped, path) /\ j = Latest(s.skipped, path)
    OBVIOUS
  <2>. HIDE DEF k, j
  <2>1. /\ k \in 1..Len(t.skipped) /\ j = Len(left) + k
        /\ j \in 1..Len(s.skipped) /\ s.skipped[j] = t.skipped[k]
        /\ SubSeq(s.skipped, 1, j - 1) = Over(left, SubSeq(t.skipped, 1, k - 1))
    <3>. DEFINE own == t.skipped
    <3>1. IsSeq(own) /\ k = Latest(own, path) /\ j = Latest(Over(left, own), path) /\ s.skipped = Over(left, own)
      BY <1>1, <2>0
    <3>. HIDE DEF own
    <3>2. /\ k \in 1..Len(own) /\ Latest(Over(left, own), path) = Len(left) + k
          /\ Len(left) + k \in 1..Len(Over(left, own)) /\ (Over(left, own))[Len(left) + k] = own[k]
          /\ SubSeq(Over(left, own), 1, Len(left) + k - 1) = Over(left, SubSeq(own, 1, k - 1))
      BY <1>4, <3>1, LatestBehind
    <3>3. j = Len(left) + k
      BY <3>1, <3>2, Zenon
    <3>4. j \in 1..Len(s.skipped) /\ s.skipped[j] = own[k] /\ SubSeq(s.skipped, 1, j - 1) = Over(left, SubSeq(own, 1, k - 1))
      BY <3>1, <3>2, <3>3
    <3>. QED BY <3>2, <3>3, <3>4, Zenon DEF own
  <2>2. k > 0 /\ j > 0
    BY <2>1
  <2>3. GoBack(s, path, tsr) = Resume(s, j) /\ GoBack(t, path, tsr) = Resume(t, k)
    BY <1>2, <2>2 DEF k, j
  <2>. DEFINE e == Resume(s, j)
              d == Resume(t, k)
  <2>4. /\ State(e) /\ e.node = s.skipped[j].node /\ e.path = s.skipped[j].path
        /\ e.params = Truncated(s.params, s.skipped[j])
        /\ e.skipped = SubSeq(s.skipped, 1, j - 1) /\ e.value = s.value
    BY <1>1, <2>1, ResumeFields
  <2>5. /\ State(d) /\ d.node = t.skipped[k].node /\ d.path = t.skipped[k].path
        /\ d.params = Truncated(t.params, t.skipped[k])
        /\ d.skipped = SubSeq(t.skipped, 1, k - 1) /\ d.value = t.value
    BY <1>1, <2>1, ResumeFields
  <2>. HIDE DEF e, d
  <2>6. Beside(left, e, d)
    BY <1>1, <2>1, <2>4, <2>5 DEF Beside, Parallel
  <2>. QED BY <2>3, <2>6 DEF Prefixed, e, d
<1>. QED BY <1>3, <1>4

(* They skip the same node, unless the one with a bound has no room for    *)
(* it.                                                                     *)
LEMMA PushBeside ==
    ASSUME NEW left, IsSeq(left), NEW s, NEW t, Beside(left, s, t), s.node.wildChild,
           NEW rest, NEW k, NEW capacity
    PROVE  Prefixed(left, ToChild(s, rest, k, capacity), ToChild(t, rest, k, Unlimited))
<1>1. /\ State(s) /\ State(t) /\ IsSeq(t.skipped) /\ s.skipped = Over(left, t.skipped)
      /\ s.value.kind = "none" /\ t.value.kind = "none"
      /\ s.params = t.params /\ s.path = t.path /\ s.node = t.node
  BY DEF Beside, Parallel, State
<1>2. CASE Full(s, capacity)
  <2>1. ToChild(s, rest, k, capacity) = Found(s, OutOfCapacity(s.skipped))
    BY <1>2 DEF ToChild, Full
  <2>2. ToChild(s, rest, k, capacity).value.kind = "panic"
    BY <1>1, <2>1, FoundFields, NoSkipped
  <2>. QED BY <2>2 DEF Prefixed
<1>3. CASE ~Full(s, capacity)
  <2>1. ~Full(t, Unlimited)
    <3>1. Len(t.skipped) \in Nat
      BY <1>1 DEF IsSeq
    <3>. QED BY <3>1 DEF Unlimited, Full
  <2>. DEFINE d == ToChild(s, rest, k, capacity)
              e == ToChild(t, rest, k, Unlimited)
              new == Skipping(s)
  <2>2. Skipping(t) = new /\ Skipping(s) = new
    BY <1>1 DEF Skipping
  <2>. HIDE DEF new
  <2>3. /\ State(d) /\ d.node = s.node.children[k] /\ d.path = rest /\ d.params = s.params
        /\ d.skipped = Append(s.skipped, new) /\ d.value = s.value
    <3>1. State(s)
      BY <1>1
    <3>2. /\ State(d) /\ d.node = s.node.children[k] /\ d.path = rest /\ d.params = s.params
          /\ d.skipped = Append(s.skipped, Skipping(s)) /\ d.value = s.value
      BY <1>3, <3>1, PushFields
    <3>. HIDE DEF d
    <3>. QED BY <2>2, <3>2
  <2>4. /\ State(e) /\ e.node = t.node.children[k] /\ e.path = rest /\ e.params = t.params
        /\ e.skipped = Append(t.skipped, new) /\ e.value = t.value
    BY <1>1, <2>1, <2>2, PushFields
  <2>. HIDE DEF d, e
  <2>5. Append(left \o t.skipped, new) = left \o Append(t.skipped, new)
    <3>1. PICK P, Q : left \in Seq(P) /\ t.skipped \in Seq(Q)
      BY <1>1 DEF IsSeq
    <3>. DEFINE R == P \cup Q \cup {new}
    <3>2. left \in Seq(R) /\ t.skipped \in Seq(R) /\ new \in R
      BY <3>1, SeqMonotonic
    <3>. HIDE DEF R
    <3>3. <<new>> \in Seq(R) /\ \A x \in Seq(R) : Append(x, new) = x \o <<new>>
      BY <3>2, AppendIsConcat
    <3>4. \A x, y, z \in Seq(R) : (x \o y) \o z = x \o (y \o z)
      BY ConcatAssociative
    <3>5. left \o t.skipped \in Seq(R)
      BY <3>2, ConcatProperties
    <3>6. Append(left \o t.skipped, new) = (left \o t.skipped) \o <<new>>
      BY <3>3, <3>5, Zenon
    <3>7. Append(t.skipped, new) = t.skipped \o <<new>>
      BY <3>2, <3>3, Zenon
    <3>8. (left \o t.skipped) \o <<new>> = left \o (t.skipped \o <<new>>)
      BY <3>2, <3>3, <3>4, Zenon
    <3>. QED BY <3>6, <3>7, <3>8, Zenon
  <2>6. d.skipped = Over(left, e.skipped)
    BY <1>1, <2>3, <2>4, <2>5 DEF Over
  <2>7. Beside(left, d, e)
    BY <1>1, <2>3, <2>4, <2>6 DEF Beside, Parallel
  <2>. QED BY <2>7 DEF Prefixed, d, e
<1>. QED BY <1>2, <1>3

(* They stay side by side in every round.                                  *)
LEMMA VisitPrefixed ==
    ASSUME NEW left, IsSeq(left), NEW s, NEW t, State(s), State(t), Prefixed(left, s, t), NEW capacity
    PROVE  Prefixed(left, Visit(s, capacity), Visit(t, Unlimited))
<1>0. \A u, c : u.value.kind # "none" => Visit(u, c) = u
  BY DEF Visit
<1>1. CASE s.value.kind = "panic"
  BY <1>0, <1>1 DEF Prefixed
<1>2. CASE s.value.kind = "hit" /\ t.value.kind = "hit"
  BY <1>0, <1>2 DEF Prefixed
<1>3. CASE t.value.kind = "miss" /\ (left = <<>> => s.value.kind = "miss")
  <2>1. Visit(t, Unlimited) = t /\ (left = <<>> => Visit(s, capacity) = s)
    BY <1>0, <1>3
  <2>. QED BY <1>3, <2>1 DEF Prefixed
<1>4. CASE Beside(left, s, t)
  <2>. DEFINE d == Visit(s, capacity)
              e == Visit(t, Unlimited)
  <2>1. Agree(s, d, capacity, t, e, Unlimited)
    BY <1>4, VisitAgree DEF Beside
  <2>. HIDE DEF d, e
  <2>2. CASE \E kind \in {"hit", "miss"} : Ended(s, d, kind) /\ Ended(t, e, kind)
    <3>1. PICK kind \in {"hit", "miss"} : Ended(s, d, kind) /\ Ended(t, e, kind)
      BY <2>2
    <3>2. d.value.kind = kind /\ e.value.kind = kind
      BY <3>1, FoundFields DEF Ended
    <3>. QED BY <3>2 DEF Prefixed, d, e
  <2>3. CASE \E path, tsr : d = GoBack(s, path, tsr) /\ e = GoBack(t, path, tsr)
    BY <1>4, <2>3, GoBackBeside DEF d, e
  <2>4. CASE \E node, path, params : d = Going(s, node, path, params) /\ e = Going(t, node, path, params)
    <3>1. PICK node, path, params : d = Going(s, node, path, params) /\ e = Going(t, node, path, params)
      BY <2>4
    <3>2. /\ State(d) /\ d.node = node /\ d.path = path /\ d.params = params
          /\ d.skipped = s.skipped /\ d.value = s.value
      BY <3>1, GoingFields
    <3>3. /\ State(e) /\ e.node = node /\ e.path = path /\ e.params = params
          /\ e.skipped = t.skipped /\ e.value = t.value
      BY <3>1, GoingFields
    <3>4. Beside(left, d, e)
      BY <1>4, <3>2, <3>3 DEF Beside, Parallel
    <3>. QED BY <3>4 DEF Prefixed, d, e
  <2>5. CASE s.node.wildChild /\ \E rest, k : d = ToChild(s, rest, k, capacity) /\ e = ToChild(t, rest, k, Unlimited)
    BY <1>4, <2>5, PushBeside DEF d, e
  <2>. QED BY <2>1, <2>2, <2>3, <2>4, <2>5 DEF Agree
<1>. QED BY <1>1, <1>2, <1>3, <1>4 DEF Prefixed

(* They start side by side.                                                *)
LEMMA StartsPrefixed ==
    ASSUME NEW left, IsSeq(left), NEW root, NEW path, NEW s, NEW t,
           s = [node |-> root, path |-> path, params |-> <<>>, skipped |-> left, value |-> Looking],
           t = [node |-> root, path |-> path, params |-> <<>>, skipped |-> <<>>, value |-> Looking]
    PROVE  Structured(s) /\ Structured(t) /\ Prefixed(left, s, t)
<1>1. /\ s \in [node : {s.node}, path : {s.path}, params : {s.params}, skipped : {s.skipped}, value : {s.value}]
      /\ t \in [node : {t.node}, path : {t.path}, params : {t.params}, skipped : {t.skipped}, value : {t.value}]
  OBVIOUS
<1>2. /\ s.node = t.node /\ s.path = t.path /\ s.params = t.params /\ s.skipped = left /\ t.skipped = <<>>
      /\ s.value = Looking /\ t.value = Looking
  OBVIOUS
<1>3. IsSeq(<<>>) /\ Looking.skipped = <<>> /\ Looking.kind = "none"
  BY NoSkipped DEF Looking
<1>4. Structured(s) /\ Structured(t)
  BY <1>1, <1>2, <1>3 DEF Structured, State
<1>5. left = Over(left, <<>>)
  <2>1. PICK S : left \in Seq(S)
    BY DEF IsSeq
  <2>. QED BY <2>1, ConcatEmptySeq DEF Over
<1>6. Beside(left, s, t)
  BY <1>2, <1>3, <1>4, <1>5 DEF Beside, Parallel, Structured
<1>. QED BY <1>4, <1>6 DEF Prefixed

(* A look-up over what others have left in the slice of skipped nodes finds *)
(* a route if one on its own does, unless it runs out of room; with nothing *)
(* left it finds one only then (tree.go:463-710).                           *)
THEOREM LookUpOverLeft ==
    ASSUME RoutesAndPaths, NEW left, IsSeq(left), NEW t, NEW path, NEW capacity
    PROVE  LET v == getValue(t, path, left, capacity)
               u == getValue(t, path, <<>>, Unlimited)
           IN /\ IsSeq(v.skipped)
              /\ v.kind # "panic" /\ u.kind = "hit" => v.kind = "hit"
              /\ v.kind # "panic" /\ left = <<>> => (v.kind = "hit") = (u.kind = "hit")
<1>1. PICK f : Looks(f, t, path, left, capacity)
  BY LookRounds
<1>2. PICK g : Looks(g, t, path, <<>>, Unlimited)
  BY LookRounds
<1>. DEFINE T == {i \in 0..MaxRounds : Structured(f[i]) /\ Structured(g[i]) /\ Prefixed(left, f[i], g[i])}
<1>3. MaxRounds \in Nat
  BY DEF RoutesAndPaths
<1>4. 0 \in T
  <2>1. /\ f[0] = [node |-> t, path |-> path, params |-> <<>>, skipped |-> left, value |-> Looking]
        /\ g[0] = [node |-> t, path |-> path, params |-> <<>>, skipped |-> <<>>, value |-> Looking]
    BY <1>1, <1>2 DEF Looks
  <2>2. Structured(f[0]) /\ Structured(g[0]) /\ Prefixed(left, f[0], g[0])
    BY <2>1, StartsPrefixed
  <2>. QED BY <1>3, <2>2
<1>5. \A i \in 1..MaxRounds : i - 1 \in T => i \in T
  <2>1. TAKE i \in 1..MaxRounds
  <2>2. HAVE i - 1 \in T
  <2>3. f[i] = Visit(f[i - 1], capacity) /\ g[i] = Visit(g[i - 1], Unlimited)
    BY <1>1, <1>2, <2>1 DEF Looks
  <2>4. Structured(f[i - 1]) /\ Structured(g[i - 1]) /\ Prefixed(left, f[i - 1], g[i - 1])
    BY <2>2
  <2>5. Structured(f[i]) /\ Structured(g[i])
    BY <2>3, <2>4, VisitStructured
  <2>6. Prefixed(left, f[i], g[i])
    BY <2>3, <2>4, VisitPrefixed DEF Structured
  <2>. QED BY <1>3, <2>1, <2>5, <2>6
<1>6. MaxRounds \in T
  <2>1. \A i \in 0..MaxRounds : i \in T
    <3>. HIDE DEF T
    <3>. QED BY <1>3, <1>4, <1>5, CountUp
  <2>. QED BY <1>3, <2>1
<1>. DEFINE d == f[MaxRounds]
            e == g[MaxRounds]
<1>7. getValue(t, path, left, capacity) = d.value /\ getValue(t, path, <<>>, Unlimited) = e.value
  BY <1>1, <1>2 DEF Looks
<1>8. IsSeq(d.value.skipped) /\ Prefixed(left, d, e)
  BY <1>6 DEF Structured
<1>. HIDE DEF d, e
<1>9. /\ d.value.kind # "panic" /\ e.value.kind = "hit" => d.value.kind = "hit"
      /\ d.value.kind # "panic" /\ left = <<>> => (d.value.kind = "hit") = (e.value.kind = "hit")
  BY <1>8 DEF Prefixed, Beside, Parallel
<1>. QED BY <1>7, <1>8, <1>9

-----------------------------------------------------------------------------
(* The tree *)

TreeInv == GoodTree(accepted, tree)

(* The empty tree is good for any routes.                                  *)
LEMMA EmptyGood ==
    ASSUME NEW A
    PROVE  GoodTree(A, EmptyTree)
<1>1. Fresh(EmptyTree)
  BY NewFresh DEF EmptyTree
<1>2. <<>> \in Seq(Tokens)
  BY EmptySeq
<1>3. Good(A, <<>>, EmptyTree)
  BY <1>1, <1>2, GoodFresh
<1>. QED BY <1>1, <1>3 DEF GoodTree, Fresh

(* The tree keeps its shape, and holds only routes whose registration       *)
(* returned, whatever other registrations panicked half-way.                *)
THEOREM TreeGood == Spec => []TreeInv
<1>1. Init => TreeInv
  BY EmptyGood DEF Init, TreeInv
<1>2. TreeInv /\ [Next]_vars => TreeInv'
  <2>1. SUFFICES ASSUME TreeInv, [Next]_vars PROVE TreeInv'
    OBVIOUS
  <2>2. CASE Register
    <3>1. PICK r \in Routes :
            /\ tree' = addRoute(tree, r).node
            /\ accepted' = accepted \cup (IF addRoute(tree, r).panic THEN {} ELSE {r})
      BY <2>2 DEF Register
    <3>2. RoutesAndPaths /\ r \in Seq(Tokens) /\ r # <<>>
      BY RoutesAssumption DEF RoutesAssumption, RoutesAndPaths
    <3>. DEFINE result == addRoute(tree, r)
    <3>3. GoodTree(IF result.panic THEN accepted ELSE accepted \cup {r}, result.node)
      BY <2>1, <3>2, AddRouteGood DEF TreeInv
    <3>4. accepted' = IF result.panic THEN accepted ELSE accepted \cup {r}
      BY <3>1
    <3>. QED BY <3>1, <3>3, <3>4 DEF TreeInv
  <2>3. CASE UNCHANGED vars
    BY <2>1, <2>3 DEF vars, TreeInv
  <2>. QED BY <2>1, <2>2, <2>3 DEF Next
<1>. QED BY <1>1, <1>2, PTL DEF Spec

(* What a look-up answers is a registered route that matches the path, with *)
(* the values the route binds (tree.go:463-710).                            *)
THEOREM TreeSound == Spec => []Sound
<1>1. TreeInv => Sound
  <2>1. SUFFICES ASSUME TreeInv, NEW p \in Paths, Answer(p).kind = "hit"
                 PROVE  /\ Answer(p).route \in accepted /\ Answer(p).full = Answer(p).route
                        /\ Matches(Answer(p).route, p) /\ Answer(p).params = Bindings(Answer(p).route, p)
    BY DEF Sound
  <2>2. RoutesAndPaths /\ p \in Seq(Plain)
    BY RoutesAssumption DEF RoutesAssumption, RoutesAndPaths
  <2>3. Answered(accepted, p, Answer(p))
    BY <2>1, <2>2, LookUpSound DEF TreeInv, Answer, LookUp
  <2>4. /\ Answer(p).route \in accepted /\ Answer(p).full = Answer(p).route
        /\ Reading(Answer(p).route, p) = At(<<>>, Answer(p).params)
    BY <2>1, <2>3 DEF Answered
  <2>. QED BY <2>4 DEF Matches, Bindings, At
<1>. QED BY <1>1, TreeGood, PTL

=============================================================================
