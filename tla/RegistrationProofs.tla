------------------------- MODULE RegistrationProofs -------------------------
(***************************************************************************)
(* For every abortIndex, every set of handlers, lists and paths and every  *)
(* sequence of configuration calls: the chains that requests are given are *)
(* shorter than abortIndex, and lists of handlers behave as values.  The   *)
(* chains for unmatched requests are what they should be, and RouterGroup  *)
(* implements Registration, although its lists are slices that grow in     *)
(* place and are written to by the program.                                *)
(***************************************************************************)
EXTENDS RouterGroup, SequenceTheorems, TLAPS

-----------------------------------------------------------------------------
(* Slices stay in range, and chains short *)

(* Arrays are added and never get shorter or longer.                        *)
Grown(h, i) ==
    /\ i \in Seq(Seq(Cells))
    /\ Len(h) <= Len(i)
    /\ \A a \in DOMAIN h : Len(i[a]) = Len(h[a])

(* A slice stays within its array.                                          *)
LEMMA StaysWithin ==
    ASSUME NEW h \in Seq(Seq(Cells)), NEW i, Grown(h, i), NEW s, Within(h, s)
    PROVE  Within(i, s)
<1>1. s.arr # 0 => s.arr \in DOMAIN i /\ Len(i[s.arr]) = Len(h[s.arr])
  BY DEF Within, Grown
<1>. QED BY <1>1 DEF Within, Cap

(* A heap that has grown twice has grown.                                  *)
LEMMA GrownTwice ==
    ASSUME NEW h \in Seq(Seq(Cells)), NEW i, NEW j, Grown(h, i), Grown(i, j)
    PROVE  Grown(h, j)
<1>1. i \in Seq(Seq(Cells)) /\ DOMAIN h \subseteq DOMAIN i
  BY DEF Grown
<1>. QED BY <1>1 DEF Grown

(* One that stays has grown by nothing.                                    *)
LEMMA NotGrown ==
    ASSUME NEW h \in Seq(Seq(Cells))
    PROVE  Grown(h, h)
BY DEF Grown

(* A slice has as many elements as its length says.                         *)
LEMMA ElementsLen ==
    ASSUME NEW h \in Seq(Seq(Cells)), NEW s, Within(h, s)
    PROVE  Elements(h, s) \in Seq(Cells) /\ Len(Elements(h, s)) = s.len
<1>1. CASE s.len = 0
  BY <1>1 DEF Elements
<1>2. CASE s.len # 0
  <2>1. s.arr \in DOMAIN h /\ s.len \in Nat /\ s.len <= Len(h[s.arr])
    BY <1>2 DEF Within, Cap
  <2>2. h[s.arr] \in Seq(Cells)
    BY <2>1
  <2>3. SubSeq(h[s.arr], 1, s.len) \in Seq(Cells) /\ Len(SubSeq(h[s.arr], 1, s.len)) = s.len
    BY <2>1, <2>2
  <2>. QED BY <1>2, <2>3 DEF Elements
<1>. QED BY <1>1, <1>2

(* make and copy: a new array, all of which is the slice.                   *)
LEMMA MadeWithin ==
    ASSUME NEW h \in Seq(Seq(Cells)), NEW list \in Seq(Cells)
    PROVE  LET m == Made(h, list) IN
           Grown(h, m.heap) /\ Within(m.heap, m.slice) /\ m.slice.len = Len(list)
<1>. DEFINE i == Append(h, list)
            s == [arr |-> Len(h) + 1, len |-> Len(list)]
<1>1. i \in Seq(Seq(Cells)) /\ Len(i) = Len(h) + 1 /\ i[Len(h) + 1] = list
  OBVIOUS
<1>2. \A a \in DOMAIN h : i[a] = h[a]
  OBVIOUS
<1>3. Grown(h, i)
  BY <1>1, <1>2 DEF Grown
<1>4. Within(i, s)
  BY <1>1 DEF Within, Cap
<1>. QED BY <1>3, <1>4 DEF Made

(* append: within the spare cells, or in a new array.                       *)
LEMMA AppendedWithin ==
    ASSUME NEW h \in Seq(Seq(Cells)), NEW s, Within(h, s), NEW list \in Seq(Cells), NEW extra \in Nat
    PROVE  LET m == Appended(h, s, list, extra) IN
           Grown(h, m.heap) /\ Within(m.heap, m.slice) /\ m.slice.len = s.len + Len(list)
<1>. DEFINE n == s.len + Len(list)
            m == Appended(h, s, list, extra)
<1>0. s.len \in Nat /\ s.arr \in Nat /\ n \in Nat /\ s = [arr |-> s.arr, len |-> s.len]
  BY DEF Within
<1>1. CASE n <= Cap(h, s) /\ n = 0
  <2>1. m = [heap |-> h, slice |-> [s EXCEPT !.len = n]]
    BY <1>1 DEF Appended
  <2>2. Within(h, [s EXCEPT !.len = n])
    BY <1>0, <1>1 DEF Within, Cap
  <2>. QED BY <1>0, <2>1, <2>2, NotGrown
<1>2. CASE n <= Cap(h, s) /\ n # 0
  <2>. DEFINE cells == [k \in 1..Len(h[s.arr]) |->
                          IF k \in s.len + 1 .. n THEN list[k - s.len] ELSE h[s.arr][k]]
              i == [h EXCEPT ![s.arr] = cells]
  <2>1. s.arr \in DOMAIN h /\ n <= Len(h[s.arr]) /\ h[s.arr] \in Seq(Cells)
    BY <1>0, <1>2 DEF Within, Cap
  <2>2. m = [heap |-> i, slice |-> [s EXCEPT !.len = n]]
    BY <1>2, <2>1 DEF Appended
  <2>3. cells \in Seq(Cells) /\ Len(cells) = Len(h[s.arr])
    <3>. DEFINE old == h[s.arr]
    <3>1. old \in Seq(Cells) /\ Len(old) \in Nat
      BY <2>1
    <3>2. \A k \in 1..Len(old) : (IF k \in s.len + 1 .. n THEN list[k - s.len] ELSE old[k]) \in Cells
      <4>. HIDE DEF old
      <4>. QED BY <1>0, <3>1
    <3>. HIDE DEF old
    <3>3. [k \in 1..Len(old) |-> IF k \in s.len + 1 .. n THEN list[k - s.len] ELSE old[k]] \in Seq(Cells)
      BY <3>1, <3>2
    <3>4. Len([k \in 1..Len(old) |-> IF k \in s.len + 1 .. n THEN list[k - s.len] ELSE old[k]]) = Len(old)
      BY <3>1
    <3>. QED BY <3>3, <3>4 DEF old
  <2>4. Grown(h, i)
    <3>. HIDE DEF cells
    <3>1. i \in Seq(Seq(Cells)) /\ Len(i) = Len(h)
      BY <2>1, <2>3
    <3>2. \A a \in DOMAIN h : Len(i[a]) = Len(h[a])
      BY <2>1, <2>3
    <3>. QED BY <3>1, <3>2 DEF Grown
  <2>5. Within(i, [s EXCEPT !.len = n])
    <3>. HIDE DEF cells
    <3>1. s.arr \in DOMAIN i /\ Len(i[s.arr]) = Len(h[s.arr])
      BY <2>1, <2>3
    <3>. HIDE DEF i
    <3>2. [s EXCEPT !.len = n] = [arr |-> s.arr, len |-> n]
      BY <1>0
    <3>3. s.arr # 0 /\ n \in Nat /\ s.arr \in Nat
      BY <1>0, <1>2 DEF Cap
    <3>. QED BY <2>1, <3>1, <3>2, <3>3 DEF Within, Cap
  <2>. QED BY <1>0, <2>2, <2>4, <2>5
<1>3. CASE ~(n <= Cap(h, s))
  <2>. DEFINE new == Elements(h, s) \o list \o [k \in 1..extra |-> Nil]
  <2>1. [k \in 1..extra |-> Nil] \in Seq(Cells) /\ Len([k \in 1..extra |-> Nil]) = extra
    BY DEF Cells
  <2>2. Elements(h, s) \o list \in Seq(Cells) /\ Len(Elements(h, s) \o list) = n
    <3>1. Elements(h, s) \in Seq(Cells) /\ Len(Elements(h, s)) = s.len
      BY ElementsLen, Zenon
    <3>. QED BY <3>1, ConcatProperties
  <2>3. new \in Seq(Cells) /\ Len(new) = n + extra
    <3>. DEFINE e == Elements(h, s) \o list
                z == [k \in 1..extra |-> Nil]
    <3>1. e \in Seq(Cells) /\ z \in Seq(Cells) /\ Len(e) = n /\ Len(z) = extra
      BY <2>1, <2>2
    <3>. HIDE DEF e, z
    <3>2. e \o z \in Seq(Cells) /\ Len(e \o z) = n + extra
      BY <3>1, ConcatProperties
    <3>. QED BY <3>2 DEF e, z
  <2>4. m = [heap |-> Append(h, new), slice |-> [arr |-> Len(h) + 1, len |-> n]]
    BY <1>3 DEF Appended
  <2>. HIDE DEF new
  <2>5. Append(h, new) \in Seq(Seq(Cells)) /\ Len(Append(h, new)) = Len(h) + 1
        /\ Append(h, new)[Len(h) + 1] = new
    BY <2>3
  <2>6. \A a \in DOMAIN h : Append(h, new)[a] = h[a]
    BY <2>3
  <2>7. Grown(h, Append(h, new))
    BY <2>5, <2>6 DEF Grown
  <2>8. Within(Append(h, new), [arr |-> Len(h) + 1, len |-> n])
    BY <1>0, <2>3, <2>5 DEF Within, Cap
  <2>. QED BY <2>4, <2>7, <2>8
<1>. QED BY <1>1, <1>2, <1>3

(* combineHandlers: a chain with an array of its own.                       *)
LEMMA CombinedWithin ==
    ASSUME NEW h \in Seq(Seq(Cells)), NEW s, Within(h, s), NEW list \in Seq(Cells)
    PROVE  LET m == combineHandlers(h, s, list) IN
           Grown(h, m.heap) /\ Within(m.heap, m.slice) /\ m.slice.len = s.len + Len(list)
<1>1. Elements(h, s) \o list \in Seq(Cells) /\ Len(Elements(h, s) \o list) = s.len + Len(list)
  <2>1. Elements(h, s) \in Seq(Cells) /\ Len(Elements(h, s)) = s.len
    BY ElementsLen, Zenon
  <2>. QED BY ZenonT(60), <2>1, ConcatProperties
<1>. QED BY <1>1, MadeWithin DEF combineHandlers

-----------------------------------------------------------------------------

Inv == SlicesWithin /\ ChainsFit

(* A caller's list can be stored in an array.                              *)
LEMMA ListsOfCells == Lists \subseteq Seq(Cells)
<1>1. Lists \subseteq Seq(HandlerFuncs)
  BY GroupsAssumption
<1>. QED BY <1>1, SeqMonotonic DEF Cells

(* What is not assigned stays within its array.                             *)
LEMMA Kept ==
    ASSUME SlicesWithin, Grown(heap, heap')
    PROVE  /\ heap' \in Seq(Seq(Cells))
           /\ \A g \in DOMAIN groups : Within(heap', groups[g].handlers)
           /\ \A k \in Keys : Within(heap', routes[k])
           /\ \A s \in {noRoute, noMethod, allNoRoute, allNoMethod} : Within(heap', s)
<1>1. heap \in Seq(Seq(Cells)) /\ heap' \in Seq(Seq(Cells))
  BY DEF SlicesWithin, Grown
<1>2. \A s : Within(heap, s) => Within(heap', s)
  BY <1>1, StaysWithin
<1>. QED BY <1>1, <1>2 DEF SlicesWithin

(* New(): there is no chain yet.                                            *)
LEMMA GroupInit == Init => Inv
<1>. SUFFICES ASSUME Init PROVE Inv
  OBVIOUS
<1>1. Within(heap, NoSlice)
  BY DEF Init, Within, NoSlice, Cap
<1>2. heap \in Seq(Seq(Cells)) /\ failed \in BOOLEAN
  <2>1. heap \in Seq(Seq(Cells))
    BY EmptySeq DEF Init
  <2>2. failed \in BOOLEAN
    BY DEF Init
  <2>. QED BY <2>1, <2>2
<1>3. NoSlice \in [arr : Nat, len : Nat] /\ NoSlice.len = 0
  BY DEF NoSlice
<1>4. groups \in Seq([handlers : [arr : Nat, len : Nat], base : Seq(Segments)]) /\ groups # <<>>
  <2>. DEFINE root == [handlers |-> NoSlice, base |-> <<>>]
  <2>1. root \in [handlers : [arr : Nat, len : Nat], base : Seq(Segments)]
    BY <1>3
  <2>2. groups = <<root>>
    BY DEF Init
  <2>. HIDE DEF root
  <2>. QED BY <2>1, <2>2
<1>5. \A g \in DOMAIN groups : groups[g].handlers = NoSlice
  BY DEF Init
<1>6. routes \in [Keys -> [arr : Nat, len : Nat]] /\ \A k \in Keys : routes[k] = NoSlice
  BY <1>3 DEF Init
<1>7. \A s \in {noRoute, noMethod, allNoRoute, allNoMethod} : s = NoSlice
  BY DEF Init
<1>8. SlicesWithin
  BY <1>1, <1>2, <1>4, <1>5, <1>6, <1>7 DEF SlicesWithin
<1>9. ChainsFit
  BY <1>3, <1>6, <1>7, GroupsAssumption DEF ChainsFit
<1>. QED BY <1>8, <1>9 DEF Inv

(* A group whose list got longer, in a heap that grew.                      *)
LEMMA Lengthened ==
    ASSUME SlicesWithin, NEW g \in DOMAIN groups, NEW s, Within(heap', s), Grown(heap, heap'),
           groups' = [groups EXCEPT ![g].handlers = s]
    PROVE  /\ groups' \in Seq([handlers : [arr : Nat, len : Nat], base : Seq(Segments)])
           /\ groups' # <<>>
           /\ \A f \in DOMAIN groups' : Within(heap', groups'[f].handlers)
<1>. DEFINE R == [handlers : [arr : Nat, len : Nat], base : Seq(Segments)]
            new == [handlers |-> s, base |-> groups[g].base]
<1>1. groups \in Seq(R) /\ groups # <<>>
  BY DEF SlicesWithin
<1>2. s \in [arr : Nat, len : Nat]
  BY DEF Within
<1>3. groups[g] \in R
  <2>. HIDE DEF R
  <2>. QED BY <1>1
<1>4. new \in R /\ new.handlers = s /\ groups' = [groups EXCEPT ![g] = new]
  <2>1. groups[g] = [handlers |-> groups[g].handlers, base |-> groups[g].base]
        /\ groups[g].base \in Seq(Segments)
    BY <1>3
  <2>2. [groups[g] EXCEPT !.handlers = s] = new
    BY <2>1
  <2>. QED BY <1>2, <2>1, <2>2
<1>. HIDE DEF R, new
<1>5. groups' \in Seq(R) /\ groups' # <<>> /\ DOMAIN groups' = DOMAIN groups
  BY <1>1, <1>4
<1>6. \A f \in DOMAIN groups : groups'[f] = IF f = g THEN new ELSE groups[f]
  BY <1>1, <1>4
<1>7. \A f \in DOMAIN groups : Within(heap', groups[f].handlers)
  BY Kept
<1>. QED BY <1>4, <1>5, <1>6, <1>7 DEF R

(* RouterGroup.Use                                                          *)
LEMMA UseInv ==
    ASSUME Inv, NEW g \in DOMAIN groups, NEW list \in Lists, Use(g, list)
    PROVE  Inv'
<1>. PICK extra \in 0..Spare :
        /\ heap' = Appended(heap, groups[g].handlers, list, extra).heap
        /\ groups' = [groups EXCEPT ![g].handlers =
                         Appended(heap, groups[g].handlers, list, extra).slice]
  BY DEF Use
<1>. DEFINE s == Appended(heap, groups[g].handlers, list, extra).slice
<1>1. heap \in Seq(Seq(Cells)) /\ Within(heap, groups[g].handlers) /\ list \in Seq(Cells) /\ extra \in Nat
  BY ListsOfCells, GroupsAssumption DEF Inv, SlicesWithin
<1>2. Grown(heap, heap') /\ Within(heap', s)
  BY <1>1, AppendedWithin
<1>3. /\ groups' \in Seq([handlers : [arr : Nat, len : Nat], base : Seq(Segments)])
      /\ groups' # <<>>
      /\ \A f \in DOMAIN groups' : Within(heap', groups'[f].handlers)
  <2>. HIDE DEF s
  <2>1. groups' = [groups EXCEPT ![g].handlers = s]
    BY DEF s
  <2>. QED BY <1>2, <2>1, Lengthened DEF Inv
<1>4. UNCHANGED <<routes, noRoute, noMethod, allNoRoute, allNoMethod, failed>>
  BY DEF Use
<1>5. SlicesWithin'
  BY <1>2, <1>3, <1>4, Kept DEF Inv, SlicesWithin
<1>6. ChainsFit'
  BY <1>4 DEF Inv, ChainsFit
<1>. QED BY <1>5, <1>6 DEF Inv

(* RouterGroup.Group: the new group starts with a chain of its own.         *)
LEMMA GroupInv ==
    ASSUME Inv, NEW g \in DOMAIN groups, NEW seg \in Segments, NEW list \in Lists, Group(g, seg, list)
    PROVE  Inv'
<1>. DEFINE R == [handlers : [arr : Nat, len : Nat], base : Seq(Segments)]
            m == combineHandlers(heap, groups[g].handlers, list)
            new == [handlers |-> m.slice, base |-> Append(groups[g].base, seg)]
<1>1. heap' = m.heap /\ groups' = Append(groups, new)
  BY DEF Group
<1>2. UNCHANGED <<routes, noRoute, noMethod, allNoRoute, allNoMethod, failed>>
  BY DEF Group
<1>3. heap \in Seq(Seq(Cells)) /\ Within(heap, groups[g].handlers) /\ list \in Seq(Cells)
  BY ListsOfCells DEF Inv, SlicesWithin
<1>4. Grown(heap, heap') /\ Within(heap', m.slice)
  BY <1>1, <1>3, CombinedWithin
<1>5. groups \in Seq(R)
  BY DEF Inv, SlicesWithin
<1>6. groups[g] \in R
  <2>. HIDE DEF R
  <2>. QED BY <1>5
<1>7. Append(groups[g].base, seg) \in Seq(Segments)
  BY <1>6
<1>8. m.slice \in [arr : Nat, len : Nat]
  BY <1>4 DEF Within
<1>9. new \in R /\ new.handlers = m.slice
  <2>. HIDE DEF m
  <2>. QED BY <1>7, <1>8
<1>. HIDE DEF R, m, new
<1>10. groups' \in Seq(R) /\ groups' # <<>> /\ DOMAIN groups' = 1 .. Len(groups) + 1
  BY <1>1, <1>5, <1>9, AppendProperties
<1>11. \A f \in DOMAIN groups' : groups'[f] = IF f = Len(groups) + 1 THEN new ELSE groups[f]
  BY <1>1, <1>5, <1>9, <1>10
<1>12. \A f \in DOMAIN groups' : Within(heap', groups'[f].handlers)
  BY <1>4, <1>5, <1>9, <1>10, <1>11, Kept DEF Inv
<1>13. SlicesWithin'
  BY <1>2, <1>4, <1>10, <1>12, Kept DEF Inv, SlicesWithin, R
<1>14. ChainsFit'
  BY <1>2 DEF Inv, ChainsFit
<1>. QED BY <1>13, <1>14 DEF Inv

(* RouterGroup.handle: the assertion of combineHandlers bounds the chain.   *)
LEMMA HandleInv ==
    ASSUME Inv, NEW g \in DOMAIN groups, NEW method \in Methods, NEW seg \in Segments,
           NEW list \in Lists, Handle(g, method, seg, list)
    PROVE  Inv'
<1>. DEFINE m == combineHandlers(heap, groups[g].handlers, list)
            key == <<method, Append(groups[g].base, seg)>>
<1>1. /\ key \in Keys /\ Fits(groups[g].handlers, Len(list))
      /\ heap' = m.heap /\ routes' = [routes EXCEPT ![key] = m.slice]
  BY DEF Handle
<1>2. UNCHANGED <<groups, noRoute, noMethod, allNoRoute, allNoMethod, failed>>
  BY DEF Handle
<1>3. heap \in Seq(Seq(Cells)) /\ Within(heap, groups[g].handlers) /\ list \in Seq(Cells)
  BY ListsOfCells DEF Inv, SlicesWithin
<1>4. /\ Grown(heap, heap') /\ Within(heap', m.slice)
      /\ m.slice.len = groups[g].handlers.len + Len(list)
  BY <1>1, <1>3, CombinedWithin
<1>5. m.slice \in [arr : Nat, len : Nat] /\ m.slice.len < AbortIndex
  BY <1>1, <1>4 DEF Within, Fits
<1>. HIDE DEF m, key
<1>6. routes' \in [Keys -> [arr : Nat, len : Nat]]
  BY <1>1, <1>5 DEF Inv, SlicesWithin
<1>7. \A k \in Keys : routes'[k] = IF k = key THEN m.slice ELSE routes[k]
  BY <1>1 DEF Inv, SlicesWithin
<1>8. \A k \in Keys : Within(heap', routes'[k]) /\ routes'[k].len < AbortIndex
  BY <1>4, <1>5, <1>7, Kept DEF Inv, ChainsFit
<1>9. SlicesWithin'
  BY <1>2, <1>4, <1>6, <1>8, Kept DEF Inv, SlicesWithin
<1>10. ChainsFit'
  BY <1>2, <1>8 DEF Inv, ChainsFit
<1>. QED BY <1>9, <1>10 DEF Inv

(* The chain that rebuild404Handlers or rebuild405Handlers makes.           *)
LEMMA Rebuilt ==
    ASSUME NEW h \in Seq(Seq(Cells)), NEW s, Within(h, s), NEW list \in Seq(Cells), Fits(s, Len(list))
    PROVE  LET m == combineHandlers(h, s, list) IN
           Grown(h, m.heap) /\ Within(m.heap, m.slice) /\ m.slice.len < AbortIndex
BY CombinedWithin DEF Fits

(* NoRoute and NoMethod: the engine keeps the list and makes a chain of it, *)
(* unless that chain is too long.                                           *)
LEMMA NoMatchInv ==
    ASSUME Inv, NEW list \in Lists, NoRoute(list) \/ NoMethod(list)
    PROVE  Inv'
<1>. DEFINE given == Made(heap, list)
            m == combineHandlers(given.heap, groups[1].handlers, list)
            fits == Fits(groups[1].handlers, Len(list))
<1>1. heap \in Seq(Seq(Cells)) /\ list \in Seq(Cells) /\ Within(heap, groups[1].handlers)
  BY ListsOfCells DEF Inv, SlicesWithin
<1>2. Grown(heap, given.heap) /\ Within(given.heap, given.slice) /\ given.slice.len = Len(list)
  BY <1>1, MadeWithin
<1>3. given.heap \in Seq(Seq(Cells)) /\ Within(given.heap, groups[1].handlers)
  <2>. HIDE DEF given
  <2>1. given.heap \in Seq(Seq(Cells))
    BY <1>2 DEF Grown
  <2>. QED BY <1>1, <1>2, <2>1, StaysWithin
<1>4. fits => Grown(given.heap, m.heap) /\ Within(m.heap, m.slice) /\ m.slice.len < AbortIndex
  BY <1>1, <1>3, Rebuilt
<1>5. fits => Len(list) < AbortIndex
  BY <1>1, GroupsAssumption DEF Fits, Within
<1>6. fits => Grown(heap, m.heap) /\ Within(m.heap, given.slice)
  BY <1>1, <1>2, <1>3, <1>4, GrownTwice, StaysWithin
<1>7. UNCHANGED <<groups, routes>>
  BY DEF NoRoute, NoMethod
<1>8. \/ fits /\ heap' = m.heap /\ failed' = failed
      \/ ~fits /\ heap' = given.heap /\ failed' = TRUE
  BY DEF NoRoute, NoMethod
<1>9. /\ noRoute' \in {noRoute, given.slice} /\ noMethod' \in {noMethod, given.slice}
      /\ allNoRoute' = allNoRoute \/ (fits /\ allNoRoute' = m.slice)
      /\ allNoMethod' = allNoMethod \/ (fits /\ allNoMethod' = m.slice)
  BY DEF NoRoute, NoMethod
<1>. HIDE DEF given, m, fits
<1>10. Grown(heap, heap') /\ Within(heap', given.slice) /\ (fits => Within(heap', m.slice))
  BY <1>2, <1>4, <1>6, <1>8
<1>11. \A s \in {noRoute', noMethod', allNoRoute', allNoMethod'} : Within(heap', s)
  BY <1>9, <1>10, Kept DEF Inv
<1>12. failed' \in BOOLEAN
  BY <1>8 DEF Inv, SlicesWithin
<1>13. SlicesWithin'
  BY <1>7, <1>10, <1>11, <1>12, Kept DEF Inv, SlicesWithin
<1>14. \A s \in {allNoRoute', allNoMethod'} : s.len < AbortIndex
  BY <1>4, <1>9 DEF Inv, ChainsFit
<1>15. ~failed' => noRoute'.len < AbortIndex
  BY <1>2, <1>5, <1>8, <1>9 DEF Inv, ChainsFit
<1>16. ChainsFit'
  BY <1>7, <1>14, <1>15 DEF Inv, ChainsFit
<1>. QED BY <1>13, <1>16 DEF Inv

(* Engine.Use: a chain is rebuilt only if it is short enough.               *)
LEMMA EngineUseInv ==
    ASSUME Inv, NEW list \in Lists, EngineUse(list)
    PROVE  Inv'
<1>. PICK extra \in 0..Spare :
       LET used  == Appended(heap, groups[1].handlers, list, extra)
           for404 == combineHandlers(used.heap, used.slice, Elements(used.heap, noRoute))
           for405 == combineHandlers(for404.heap, used.slice, Elements(used.heap, noMethod))
       IN /\ groups' = [groups EXCEPT ![1].handlers = used.slice]
          /\ \/ /\ heap' = used.heap /\ failed' = TRUE
                /\ UNCHANGED <<allNoRoute, allNoMethod>>
             \/ /\ Fits(used.slice, noRoute.len)
                /\ heap' = for404.heap /\ allNoRoute' = for404.slice /\ failed' = TRUE
                /\ UNCHANGED allNoMethod
             \/ /\ Fits(used.slice, noRoute.len) /\ Fits(used.slice, noMethod.len)
                /\ heap' = for405.heap
                /\ allNoRoute' = for404.slice /\ allNoMethod' = for405.slice
                /\ UNCHANGED failed
          /\ UNCHANGED <<routes, noRoute, noMethod>>
  BY DEF EngineUse
<1>. DEFINE used == Appended(heap, groups[1].handlers, list, extra)
            for404 == combineHandlers(used.heap, used.slice, Elements(used.heap, noRoute))
            for405 == combineHandlers(for404.heap, used.slice, Elements(used.heap, noMethod))
            fits404 == Fits(used.slice, noRoute.len)
            fits405 == Fits(used.slice, noMethod.len)
<1>1. /\ groups' = [groups EXCEPT ![1].handlers = used.slice]
      /\ UNCHANGED <<routes, noRoute, noMethod>>
      /\ \/ heap' = used.heap /\ failed' = TRUE /\ UNCHANGED <<allNoRoute, allNoMethod>>
         \/ /\ fits404 /\ heap' = for404.heap /\ allNoRoute' = for404.slice
            /\ failed' = TRUE /\ UNCHANGED allNoMethod
         \/ /\ fits404 /\ fits405 /\ heap' = for405.heap
            /\ allNoRoute' = for404.slice /\ allNoMethod' = for405.slice /\ UNCHANGED failed
  OBVIOUS
<1>2. /\ heap \in Seq(Seq(Cells)) /\ list \in Seq(Cells) /\ extra \in Nat
      /\ 1 \in DOMAIN groups /\ Within(heap, groups[1].handlers)
      /\ Within(heap, noRoute) /\ Within(heap, noMethod)
  BY SMTT(60), ListsOfCells, GroupsAssumption DEF Inv, SlicesWithin
<1>3. Grown(heap, used.heap) /\ Within(used.heap, used.slice)
  BY <1>2, AppendedWithin
<1>4. used.heap \in Seq(Seq(Cells)) /\ Within(used.heap, noRoute) /\ Within(used.heap, noMethod)
  <2>. HIDE DEF used
  <2>1. used.heap \in Seq(Seq(Cells))
    BY <1>3 DEF Grown
  <2>. QED BY <1>2, <1>3, <2>1, StaysWithin
<1>5. /\ Elements(used.heap, noRoute) \in Seq(Cells) /\ Len(Elements(used.heap, noRoute)) = noRoute.len
      /\ Elements(used.heap, noMethod) \in Seq(Cells) /\ Len(Elements(used.heap, noMethod)) = noMethod.len
  <2>. HIDE DEF used
  <2>. QED BY <1>4, ElementsLen, Zenon
<1>6. fits404 => /\ Grown(used.heap, for404.heap) /\ Within(for404.heap, for404.slice)
                 /\ for404.slice.len < AbortIndex
  <2>. HIDE DEF used
  <2>. QED BY <1>3, <1>4, <1>5, Rebuilt
<1>7. fits404 => /\ for404.heap \in Seq(Seq(Cells)) /\ Within(for404.heap, used.slice)
  <2>. HIDE DEF used, for404
  <2>1. fits404 => for404.heap \in Seq(Seq(Cells))
    BY <1>6 DEF Grown
  <2>. QED BY <1>3, <1>4, <1>6, <2>1, StaysWithin
<1>8. fits404 /\ fits405 => /\ Grown(for404.heap, for405.heap) /\ Within(for405.heap, for405.slice)
                            /\ for405.slice.len < AbortIndex
  <2>. HIDE DEF used, for404
  <2>. QED BY <1>5, <1>7, Rebuilt
<1>. HIDE DEF used, for404, for405, fits404, fits405
<1>9. fits404 => Grown(heap, for404.heap)
  BY <1>2, <1>3, <1>6, GrownTwice
<1>10. fits404 /\ fits405 => /\ Grown(heap, for405.heap) /\ Within(for405.heap, for404.slice)
                             /\ Within(for405.heap, used.slice)
  BY <1>2, <1>6, <1>7, <1>8, <1>9, GrownTwice, StaysWithin
<1>11. Grown(heap, heap') /\ Within(heap', used.slice)
  BY <1>1, <1>3, <1>7, <1>9, <1>10
<1>12. \A s \in {noRoute', noMethod', allNoRoute', allNoMethod'} : Within(heap', s)
  BY <1>1, <1>6, <1>8, <1>10, <1>11, Kept DEF Inv
<1>13. failed' \in BOOLEAN /\ (~failed' => ~failed)
  BY <1>1 DEF Inv, SlicesWithin
<1>14. /\ groups' \in Seq([handlers : [arr : Nat, len : Nat], base : Seq(Segments)])
       /\ groups' # <<>>
       /\ \A f \in DOMAIN groups' : Within(heap', groups'[f].handlers)
  BY <1>1, <1>2, <1>11, Lengthened DEF Inv
<1>15. SlicesWithin'
  BY <1>1, <1>11, <1>12, <1>13, <1>14, Kept DEF Inv, SlicesWithin
<1>16. \A s \in {allNoRoute', allNoMethod'} : s.len < AbortIndex
  BY <1>1, <1>6, <1>8 DEF Inv, ChainsFit
<1>17. ChainsFit'
  BY <1>1, <1>13, <1>16 DEF Inv, ChainsFit
<1>. QED BY <1>15, <1>17 DEF Inv

(* A list the program writes to keeps its length.                           *)
LEMMA ReuseInv ==
    ASSUME Inv, Reuse
    PROVE  Inv'
<1>. PICK s \in {noRoute, noMethod}, f \in HandlerFuncs :
        \E i \in 1..s.len : heap' = [heap EXCEPT ![s.arr][i] = f]
  BY DEF Reuse
<1>. PICK i \in 1..s.len : heap' = [heap EXCEPT ![s.arr][i] = f]
  OBVIOUS
<1>1. heap \in Seq(Seq(Cells)) /\ Within(heap, s)
  BY DEF Inv, SlicesWithin
<1>2. s.arr \in DOMAIN heap /\ s.len <= Len(heap[s.arr])
  BY <1>1 DEF Within, Cap
<1>. DEFINE new == [heap[s.arr] EXCEPT ![i] = f]
<1>3. new \in Seq(Cells) /\ Len(new) = Len(heap[s.arr])
  <2>. DEFINE old == heap[s.arr]
  <2>1. old \in Seq(Cells) /\ f \in Cells /\ i \in 1..Len(old)
    BY <1>1, <1>2 DEF Cells, Within
  <2>. HIDE DEF old
  <2>2. [old EXCEPT ![i] = f] \in Seq(Cells) /\ Len([old EXCEPT ![i] = f]) = Len(old)
    BY <2>1, ExceptSeq
  <2>. QED BY <2>2 DEF old
<1>4. heap' = [heap EXCEPT ![s.arr] = new]
  OBVIOUS
<1>. HIDE DEF new
<1>5. Grown(heap, heap')
  <2>1. heap' \in Seq(Seq(Cells)) /\ Len(heap') = Len(heap)
    <3>1. s.arr \in 1..Len(heap)
      BY <1>1, <1>2
    <3>. DEFINE S == Seq(Cells)
    <3>2. heap \in Seq(S) /\ new \in S
      BY <1>1, <1>3
    <3>. HIDE DEF S
    <3>3. heap' \in Seq(S) /\ Len(heap') = Len(heap)
      BY <1>4, <3>1, <3>2, ExceptSeq
    <3>. QED BY <3>3 DEF S
  <2>2. \A a \in DOMAIN heap : Len(heap'[a]) = Len(heap[a])
    BY <1>1, <1>2, <1>3, <1>4
  <2>. QED BY <2>1, <2>2 DEF Grown
<1>6. UNCHANGED <<groups, routes, noRoute, noMethod, allNoRoute, allNoMethod, failed>>
  BY DEF Reuse
<1>7. SlicesWithin'
  BY <1>5, <1>6, Kept DEF Inv, SlicesWithin
<1>8. ChainsFit'
  BY <1>6 DEF Inv, ChainsFit
<1>. QED BY <1>7, <1>8 DEF Inv

-----------------------------------------------------------------------------

(* Every call keeps the invariant.                                          *)
LEMMA GroupStep == Inv /\ [Next]_gvars => Inv'
<1>. SUFFICES ASSUME Inv, [Next]_gvars PROVE Inv'
  OBVIOUS
<1>1. 1..Len(groups) = DOMAIN groups
  BY DEF Inv, SlicesWithin
<1>2. ASSUME NEW list \in Lists, EngineUse(list) \/ NoRoute(list) \/ NoMethod(list) PROVE Inv'
  BY <1>2, EngineUseInv, NoMatchInv
<1>3. ASSUME NEW g \in DOMAIN groups, NEW list \in Lists, Use(g, list) PROVE Inv'
  BY <1>3, UseInv
<1>4. ASSUME NEW g \in DOMAIN groups, NEW list \in Lists, NEW seg \in Segments, Group(g, seg, list)
      PROVE Inv'
  BY <1>4, GroupInv
<1>5. ASSUME NEW g \in DOMAIN groups, NEW list \in Lists, NEW method \in Methods, NEW seg \in Segments,
             Handle(g, method, seg, list)
      PROVE Inv'
  BY <1>5, HandleInv
<1>6. CASE Reuse
  BY <1>6, ReuseInv
<1>7. CASE UNCHANGED gvars
  BY <1>7 DEF gvars, Inv, SlicesWithin, ChainsFit, Within, Cap
<1>. QED BY <1>1, <1>2, <1>3, <1>4, <1>5, <1>6, <1>7 DEF Next

(* Whatever is called, and whatever panic the program recovers from: every  *)
(* slice lies within its array.                                             *)
THEOREM SlicesInRange == Spec => []SlicesWithin
<1>1. Spec => []Inv
  BY GroupInit, GroupStep, PTL DEF Spec
<1>2. Inv => SlicesWithin
  BY DEF Inv
<1>. QED BY <1>1, <1>2, PTL

(* ... and every chain that Context.Next may be given is shorter than       *)
(* abortIndex, which HandlerChain assumes of its chains                     *)
(* (routergroup.go:252-265).                                                *)
THEOREM ChainsShort == Spec => []ChainsFit
<1>1. Spec => []Inv
  BY GroupInit, GroupStep, PTL DEF Spec
<1>2. Inv => ChainsFit
  BY DEF Inv
<1>. QED BY <1>1, <1>2, PTL

-----------------------------------------------------------------------------
(* Lists are values *)


Heaps == Seq(Seq(Cells))

(* What a slice within its array reads, cell by cell.                      *)
LEMMA ElementsAt ==
    ASSUME NEW h \in Heaps, NEW s, Within(h, s)
    PROVE  /\ Elements(h, s) \in Seq(Cells) /\ Len(Elements(h, s)) = s.len /\ s.len \in Nat
           /\ \A n \in 1 .. s.len : Elements(h, s)[n] = h[s.arr][n]
           /\ s.len > 0 => s.arr \in DOMAIN h /\ s.len <= Len(h[s.arr]) /\ h[s.arr] \in Seq(Cells)
<1>1. Elements(h, s) \in Seq(Cells) /\ Len(Elements(h, s)) = s.len
  BY ElementsLen, Zenon DEF Heaps
<1>2. s.len \in Nat /\ (s.len > 0 => s.arr \in DOMAIN h /\ s.len <= Len(h[s.arr]))
  BY DEF Within, Cap
<1>3. s.len > 0 => h[s.arr] \in Seq(Cells)
  BY <1>2 DEF Heaps
<1>4. \A n \in 1 .. s.len : Elements(h, s)[n] = h[s.arr][n]
  BY <1>2, <1>3 DEF Elements
<1>. QED BY <1>1, <1>2, <1>3, <1>4

(* Two heaps with the same cells under a slice.                             *)
LEMMA SameCells ==
    ASSUME NEW h \in Heaps, NEW i \in Heaps, NEW s, Within(h, s), Within(i, s),
           \A n \in 1 .. s.len : i[s.arr][n] = h[s.arr][n]
    PROVE  Elements(i, s) = Elements(h, s)
<1>. DEFINE e == Elements(h, s)
            f == Elements(i, s)
<1>1. /\ e \in Seq(Cells) /\ Len(e) = s.len /\ \A n \in 1 .. s.len : e[n] = h[s.arr][n]
      /\ f \in Seq(Cells) /\ Len(f) = s.len /\ \A n \in 1 .. s.len : f[n] = i[s.arr][n]
  BY ElementsAt
<1>. HIDE DEF e, f
<1>2. f = e
  BY <1>1, SeqEqual
<1>. QED BY <1>2 DEF e, f

(* A new array leaves the old ones alone.                                   *)
LEMMA NewArray ==
    ASSUME NEW h \in Heaps, NEW cells \in Seq(Cells), NEW n \in 0 .. Len(cells)
    PROVE  LET i == Append(h, cells)
               s == [arr |-> Len(h) + 1, len |-> n] IN
           /\ i \in Heaps /\ Elements(i, s) = SubSeq(cells, 1, n)
           /\ \A t : Within(h, t) => Elements(i, t) = Elements(h, t)
<1>. DEFINE i == Append(h, cells)
            s == [arr |-> Len(h) + 1, len |-> n]
<1>1. i \in Heaps /\ i[Len(h) + 1] = cells /\ (\A a \in DOMAIN h : i[a] = h[a]) /\ Len(i) = Len(h) + 1
  BY DEF Heaps
<1>2. Elements(i, s) = SubSeq(cells, 1, n)
  BY <1>1, SubSeqEmpty DEF Elements
<1>3. Grown(h, i)
  BY <1>1 DEF Grown, Heaps
<1>. HIDE DEF i
<1>4. ASSUME NEW t, Within(h, t) PROVE Elements(i, t) = Elements(h, t)
  <2>1. Within(i, t)
    BY <1>3, <1>4, StaysWithin DEF Heaps
  <2>2. \A k \in 1 .. t.len : i[t.arr][k] = h[t.arr][k]
    BY <1>1, <1>4, ElementsAt
  <2>. QED BY <1>1, <1>4, <2>1, <2>2, SameCells
<1>. QED BY <1>1, <1>2, <1>4 DEF i

(* make and copy give an array of its own, and change no other.            *)
LEMMA MadeElements ==
    ASSUME NEW h \in Heaps, NEW list \in Seq(Cells)
    PROVE  LET m == Made(h, list) IN
           /\ m.heap \in Heaps /\ Elements(m.heap, m.slice) = list /\ m.slice.arr = Len(h) + 1
           /\ \A t : Within(h, t) => Elements(m.heap, t) = Elements(h, t)
<1>1. SubSeq(list, 1, Len(list)) = list /\ Len(list) \in 0 .. Len(list)
  BY SubSeqFull
<1>. QED BY <1>1, NewArray DEF Made

(* append adds to its slice, and changes none that is apart from it.       *)
LEMMA AppendedElements ==
    ASSUME NEW h \in Heaps, NEW s, Within(h, s), NEW list \in Seq(Cells), NEW extra \in Nat
    PROVE  LET m == Appended(h, s, list, extra) IN
           /\ m.heap \in Heaps /\ Elements(m.heap, m.slice) = Elements(h, s) \o list
           /\ m.slice.arr \in {s.arr, Len(h) + 1}
           /\ \A t : Within(h, t) /\ Disjoint(s, t) => Elements(m.heap, t) = Elements(h, t)
<1>. DEFINE n == s.len + Len(list)
            m == Appended(h, s, list, extra)
            e == Elements(h, s)
<1>0. /\ s.len \in Nat /\ s.arr \in Nat /\ n \in Nat /\ s = [arr |-> s.arr, len |-> s.len]
      /\ Len(list) \in Nat
  BY DEF Within
<1>1. /\ Grown(h, m.heap) /\ Within(m.heap, m.slice) /\ m.slice.len = n
      /\ m.heap \in Heaps
  <2>1. Grown(h, m.heap) /\ Within(m.heap, m.slice) /\ m.slice.len = n
    BY AppendedWithin DEF Heaps
  <2>. HIDE DEF m
  <2>. QED BY <2>1 DEF Grown, Heaps
<1>2. e \in Seq(Cells) /\ Len(e) = s.len /\ \A k \in 1 .. s.len : e[k] = h[s.arr][k]
  BY ElementsAt
<1>3. /\ e \o list \in Seq(Cells) /\ Len(e \o list) = n
      /\ \A k \in 1 .. n : (e \o list)[k] = IF k <= s.len THEN e[k] ELSE list[k - s.len]
  <2>. DEFINE g == e \o list
  <2>. HIDE DEF e
  <2>1. /\ g \in Seq(Cells) /\ Len(g) = Len(e) + Len(list)
        /\ \A k \in 1 .. Len(e) + Len(list) : g[k] = IF k <= Len(e) THEN e[k] ELSE list[k - Len(e)]
    BY <1>2, ConcatProperties
  <2>. HIDE DEF g
  <2>2. /\ g \in Seq(Cells) /\ Len(g) = n
        /\ \A k \in 1 .. n : g[k] = IF k <= s.len THEN e[k] ELSE list[k - s.len]
    BY <1>2, <2>1
  <2>. QED BY <2>2 DEF g
<1>4. CASE n <= Cap(h, s) /\ n = 0
  <2>1. m.heap = h /\ m.slice.arr = s.arr
    BY <1>0, <1>4 DEF Appended
  <2>2. Elements(m.heap, m.slice) = <<>>
    <3>. HIDE DEF m
    <3>. QED BY <1>1, <1>4 DEF Elements
  <2>3. e \o list = <<>>
    <3>. HIDE DEF e
    <3>. QED BY <1>3, <1>4, EmptySeq
  <2>. QED BY <1>1, <2>1, <2>2, <2>3
<1>5. CASE n <= Cap(h, s) /\ n # 0
  <2>. DEFINE cells == [k \in 1..Len(h[s.arr]) |->
                          IF k \in s.len + 1 .. n THEN list[k - s.len] ELSE h[s.arr][k]]
  <2>1. s.arr \in DOMAIN h /\ n <= Len(h[s.arr]) /\ h[s.arr] \in Seq(Cells) /\ Len(h[s.arr]) \in Nat
    BY <1>0, <1>5 DEF Within, Cap, Heaps
  <2>2. m = [heap |-> [h EXCEPT ![s.arr] = cells], slice |-> [s EXCEPT !.len = n]]
    BY <1>5, <2>1 DEF Appended
  <2>3. m.slice.arr = s.arr
    BY <1>0, <2>2
  <2>4. m.heap = [h EXCEPT ![s.arr] = cells]
    BY <2>2
  <2>. HIDE DEF m
  <2>5. \A k \in 1 .. n : m.heap[s.arr][k] = IF k <= s.len THEN h[s.arr][k] ELSE list[k - s.len]
    <3>. TAKE k \in 1 .. n
    <3>1. m.heap[s.arr] = cells
      <4>. HIDE DEF cells
      <4>. QED BY <2>1, <2>4
    <3>2. k \in 1 .. Len(h[s.arr])
      BY <1>0, <2>1
    <3>. QED BY <1>0, <3>1, <3>2
  <2>6. Elements(m.heap, m.slice) = e \o list
    <3>. DEFINE f == Elements(m.heap, m.slice)
                g == e \o list
    <3>1. f \in Seq(Cells) /\ Len(f) = n /\ \A k \in 1 .. n : f[k] = m.heap[s.arr][k]
      BY SMTT(60), <1>1, <2>3, ElementsAt
    <3>2. \A k \in 1 .. n : f[k] = g[k]
      <4>. TAKE k \in 1 .. n
      <4>1. k <= s.len => k \in 1 .. s.len
        BY <1>0
      <4>2. g[k] = IF k <= s.len THEN h[s.arr][k] ELSE list[k - s.len]
        BY <1>2, <1>3, <4>1
      <4>. HIDE DEF f, g
      <4>. QED BY <2>5, <3>1, <4>2
    <3>3. g \in Seq(Cells) /\ Len(g) = n
      BY <1>3
    <3>. HIDE DEF f, g
    <3>4. f = g
      BY <3>1, <3>2, <3>3, SeqEqual
    <3>. QED BY <3>4 DEF f, g
  <2>7. ASSUME NEW t, Within(h, t), Disjoint(s, t) PROVE Elements(m.heap, t) = Elements(h, t)
    <3>1. Within(m.heap, t)
      BY <1>1, <2>7, StaysWithin DEF Heaps
    <3>2. t.len > 0 => t.arr \in DOMAIN h /\ t.arr # s.arr
      BY <2>1, <2>7, ElementsAt DEF Disjoint, Heaps
    <3>3. \A k \in 1 .. t.len : m.heap[t.arr][k] = h[t.arr][k]
      <4>. HIDE DEF cells
      <4>. TAKE k \in 1 .. t.len
      <4>1. t.len > 0
        BY <2>7 DEF Within
      <4>. QED BY <2>4, <3>2, <4>1
    <3>. QED BY <1>1, <2>7, <3>1, <3>3, SameCells
  <2>8. \A t : Within(h, t) /\ Disjoint(s, t) => Elements(m.heap, t) = Elements(h, t)
    BY <2>7
  <2>9. /\ m.heap \in Heaps /\ Elements(m.heap, m.slice) = Elements(h, s) \o list
        /\ m.slice.arr \in {s.arr, Len(h) + 1}
    BY <1>1, <2>3, <2>6
  <2>. QED BY <2>8, <2>9 DEF m
<1>6. CASE ~(n <= Cap(h, s))
  <2>. DEFINE z == [k \in 1..extra |-> Nil]
              new == e \o list \o z
  <2>1. z \in Seq(Cells) /\ Len(z) = extra
    BY DEF Cells
  <2>2. new \in Seq(Cells) /\ Len(new) = n + extra /\ SubSeq(new, 1, n) = e \o list
    <3>. DEFINE g == e \o list
    <3>1. g \in Seq(Cells) /\ Len(g) = n
      BY <1>3
    <3>. HIDE DEF g, z, n
    <3>0. g \o z \in Seq(Cells) /\ Len(g \o z) = Len(g) + Len(z)
      BY <2>1, <3>1, ConcatProperties
    <3>2. g \o z \in Seq(Cells) /\ Len(g \o z) = n + extra /\ n \in Nat
      BY <1>0, <2>1, <3>0, <3>1
    <3>3. CASE n = 0
      <4>1. g = <<>> /\ SubSeq(g \o z, 1, n) = <<>>
        BY <3>1, <3>3, SubSeqEmpty, EmptySeq
      <4>. QED BY <3>2, <4>1 DEF g
    <3>4. CASE n # 0
      <4>1. n \in 1 .. Len(g) /\ 1 \in 1 .. Len(g)
        BY <3>1, <3>2, <3>4
      <4>2. SubSeq(g \o z, 1, n) = SubSeq(g, 1, n)
        BY <2>1, <3>1, <4>1, SubSeqOfConcat1
      <4>3. SubSeq(g, 1, n) = g
        BY <3>1, SubSeqFull
      <4>. QED BY <3>2, <4>2, <4>3 DEF g
    <3>. QED BY <3>3, <3>4
  <2>3. m = [heap |-> Append(h, new), slice |-> [arr |-> Len(h) + 1, len |-> n]]
    BY <1>6 DEF Appended
  <2>4. n \in 0 .. Len(new)
    BY <1>0, <2>2
  <2>5. m.heap = Append(h, new) /\ m.slice = [arr |-> Len(h) + 1, len |-> n] /\ m.slice.arr = Len(h) + 1
    BY <2>3
  <2>. HIDE DEF new, m, n
  <2>6. /\ Elements(m.heap, m.slice) = SubSeq(new, 1, n)
        /\ \A t : Within(h, t) => Elements(m.heap, t) = Elements(h, t)
    BY <2>2, <2>4, <2>5, NewArray
  <2>7. m.slice.arr \in {s.arr, Len(h) + 1}
    BY <2>5
  <2>. QED BY <1>1, <2>2, <2>6, <2>7 DEF m, n
<1>. QED BY <1>4, <1>5, <1>6

(* combineHandlers adds to a copy, and changes no slice.                   *)
LEMMA CombinedElements ==
    ASSUME NEW h \in Heaps, NEW s, Within(h, s), NEW list \in Seq(Cells)
    PROVE  LET m == combineHandlers(h, s, list) IN
           /\ m.heap \in Heaps /\ Elements(m.heap, m.slice) = Elements(h, s) \o list
           /\ m.slice.arr = Len(h) + 1
           /\ \A t : Within(h, t) => Elements(m.heap, t) = Elements(h, t)
<1>1. Elements(h, s) \o list \in Seq(Cells)
  <2>1. Elements(h, s) \in Seq(Cells)
    BY ElementsAt
  <2>. QED BY <2>1, ConcatProperties
<1>. QED BY <1>1, MadeElements DEF combineHandlers

-----------------------------------------------------------------------------
(* What every step may rely on. *)

Good == Inv /\ ArraysApart

(* The parts of the invariant that the steps below use.                    *)
LEMMA Facts ==
    ASSUME Inv
    PROVE  /\ heap \in Heaps /\ Len(heap) \in Nat
           /\ groups \in Seq([handlers : [arr : Nat, len : Nat], base : Seq(Segments)])
           /\ 1 \in DOMAIN groups /\ DOMAIN groups = 1 .. Len(groups) /\ Len(groups) \in Nat
           /\ \A g \in DOMAIN groups : Within(heap, groups[g].handlers)
           /\ \A t \in Chains \cup {noRoute, noMethod} : Within(heap, t)
BY DEF Inv, SlicesWithin, Heaps, Chains

(* A new array is apart from every slice there was.                        *)
LEMMA FreshApart ==
    ASSUME NEW h \in Heaps, NEW s, s.arr = Len(h) + 1, NEW t, Within(h, t)
    PROVE  Disjoint(s, t) /\ Disjoint(t, s)
<1>1. Len(h) \in Nat /\ (t.arr # 0 => t.arr \in 1 .. Len(h))
  BY DEF Within, Heaps
<1>. QED BY <1>1 DEF Disjoint

(* An append to the list of a group: nobody else's list changes, and nobody *)
(* else has the array afterwards.                                           *)
LEMMA AppendTo ==
    ASSUME Good, NEW g \in DOMAIN groups, NEW list \in Seq(Cells), NEW extra \in Nat
    PROVE  LET m == Appended(heap, groups[g].handlers, list, extra) IN
           /\ m.heap \in Heaps /\ Grown(heap, m.heap) /\ Within(m.heap, m.slice)
           /\ Elements(m.heap, m.slice) = Read(groups[g].handlers) \o list
           /\ \A f \in DOMAIN groups \ {g} :
                 /\ Elements(m.heap, groups[f].handlers) = Read(groups[f].handlers)
                 /\ Disjoint(m.slice, groups[f].handlers)
           /\ \A t \in Chains \cup {noRoute, noMethod} :
                 Elements(m.heap, t) = Read(t) /\ Disjoint(m.slice, t)
<1>. DEFINE s == groups[g].handlers
            m == Appended(heap, s, list, extra)
<1>1. heap \in Heaps /\ Within(heap, s)
  BY Facts DEF Good
<1>2. /\ m.heap \in Heaps /\ Elements(m.heap, m.slice) = Elements(heap, s) \o list
      /\ m.slice.arr \in {s.arr, Len(heap) + 1}
      /\ \A t : Within(heap, t) /\ Disjoint(s, t) => Elements(m.heap, t) = Elements(heap, t)
  <2>. HIDE DEF s
  <2>. QED BY <1>1, AppendedElements
<1>3. Grown(heap, m.heap) /\ Within(m.heap, m.slice)
  <2>. HIDE DEF s
  <2>. QED BY <1>1, AppendedWithin DEF Heaps
<1>. HIDE DEF m
<1>4. \A t : Within(heap, t) /\ Disjoint(s, t) => Disjoint(m.slice, t)
  <2>. SUFFICES ASSUME NEW t, Within(heap, t), Disjoint(s, t) PROVE Disjoint(m.slice, t)
    OBVIOUS
  <2>1. CASE m.slice.arr = s.arr
    BY <2>1 DEF Disjoint
  <2>2. CASE m.slice.arr = Len(heap) + 1
    BY <1>1, <2>2, FreshApart
  <2>. QED BY <1>2, <2>1, <2>2
<1>5. \A f \in DOMAIN groups \ {g} : Within(heap, groups[f].handlers) /\ Disjoint(s, groups[f].handlers)
  BY Facts DEF Good, ArraysApart
<1>6. \A t \in Chains \cup {noRoute, noMethod} : Within(heap, t) /\ Disjoint(s, t)
  BY Facts DEF Good, ArraysApart
<1>. QED BY <1>2, <1>3, <1>4, <1>5, <1>6 DEF m, Read

-----------------------------------------------------------------------------
(* The abstract variables *)

(* What NoRoute and NoMethod were given, from the two slices.              *)
LEMMA GivenIs ==
    ASSUME NEW a, NEW b, Elements(heap', noRoute') = a, Elements(heap', noMethod') = b
    PROVE  Given' = [c \in {404, 405} |-> IF c = 404 THEN a ELSE b]
BY DEF Given, Read

(* The chains for 404 and 405, from the two slices.                        *)
LEMMA MissIs ==
    ASSUME NEW a, NEW b, Elements(heap', allNoRoute') = a, Elements(heap', allNoMethod') = b
    PROVE  Miss' = [c \in {404, 405} |-> IF c = 404 THEN a ELSE b]
BY DEF Miss, Read

(* They stay if neither slice reads otherwise.                             *)
LEMMA GivenKept ==
    ASSUME Elements(heap', noRoute') = Read(noRoute), Elements(heap', noMethod') = Read(noMethod)
    PROVE  Given' = Given
BY DEF Given, Read

(* So do the chains for 404 and 405.                                       *)
LEMMA MissKept ==
    ASSUME Elements(heap', allNoRoute') = Read(allNoRoute),
           Elements(heap', allNoMethod') = Read(allNoMethod)
    PROVE  Miss' = Miss
BY DEF Miss, Read

(* And those of the routes.                                                *)
LEMMA TableKept ==
    ASSUME UNCHANGED routes, \A k \in Keys : Elements(heap', routes[k]) = Read(routes[k])
    PROVE  Table' = Table
BY DEF Table, Read

(* One group's list is another one.                                         *)
LEMMA MiddlewareSet ==
    ASSUME Inv, NEW g \in DOMAIN groups, NEW s, NEW list, groups' = [groups EXCEPT ![g].handlers = s],
           Elements(heap', s) = list,
           \A f \in DOMAIN groups \ {g} : Elements(heap', groups[f].handlers) = Read(groups[f].handlers)
    PROVE  /\ Middleware' = [Middleware EXCEPT ![g] = list]
           /\ Base' = Base
<1>. DEFINE n == Len(groups)
<1>1. DOMAIN groups = 1 .. n /\ Len(groups') = n
  BY Facts
<1>2. \A f \in 1 .. n : groups'[f].handlers = IF f = g THEN s ELSE groups[f].handlers
  BY Facts, <1>1
<1>3. \A f \in 1 .. n : groups'[f].base = groups[f].base
  BY Facts, <1>1
<1>. HIDE DEF n
<1>4. Middleware = [f \in 1 .. n |-> Read(groups[f].handlers)]
  BY DEF Middleware, n
<1>5. Middleware' = [f \in 1 .. n |-> Elements(heap', groups'[f].handlers)]
  BY <1>1 DEF Middleware, Read
<1>6. \A f \in 1 .. n : Elements(heap', groups'[f].handlers) = IF f = g THEN list ELSE Read(groups[f].handlers)
  BY <1>1, <1>2
<1>7. Base' = Base
  BY <1>1, <1>3 DEF Base, n
<1>. QED BY <1>1, <1>4, <1>5, <1>6, <1>7

-----------------------------------------------------------------------------
(* Use *)

(* The arrays are still apart when one group has another slice, if that one *)
(* and the new chains are apart from the rest.                              *)
LEMMA UseApart ==
    ASSUME Good, NEW g \in DOMAIN groups, NEW s, groups' = [groups EXCEPT ![g].handlers = s],
           \A f \in DOMAIN groups \ {g} : Disjoint(s, groups[f].handlers),
           \A t \in Chains' \cup {noRoute', noMethod'} :
              /\ Disjoint(s, t)
              /\ \A f \in DOMAIN groups \ {g} : Disjoint(groups[f].handlers, t),
           \A t \in Chains' : Disjoint(noRoute', t) /\ Disjoint(noMethod', t),
           Disjoint(noRoute', noMethod')
    PROVE  ArraysApart'
<1>1. DOMAIN groups' = DOMAIN groups
      /\ \A f \in DOMAIN groups : groups'[f].handlers = IF f = g THEN s ELSE groups[f].handlers
  <2>1. groups \in Seq([handlers : [arr : Nat, len : Nat], base : Seq(Segments)])
    BY Facts DEF Good
  <2>. QED BY <2>1
<1>2. \A e, f \in DOMAIN groups : e # f => Disjoint(groups[e].handlers, groups[f].handlers)
  BY DEF Good, ArraysApart
<1>3. \A e, f \in DOMAIN groups : e # f => Disjoint(groups'[e].handlers, groups'[f].handlers)
  BY <1>1, <1>2 DEF Disjoint
<1>4. \A f \in DOMAIN groups : \A t \in Chains' \cup {noRoute', noMethod'} : Disjoint(groups'[f].handlers, t)
  BY <1>1
<1>. QED BY <1>1, <1>3, <1>4 DEF ArraysApart

(* Use appends to the middleware of its group, and to no other list.       *)
LEMMA UseStep ==
    ASSUME Good, NEW g \in DOMAIN groups, NEW list \in Lists, Use(g, list)
    PROVE  ArraysApart' /\ Abstract!Use(g, list)
<1>. PICK extra \in 0..Spare :
        /\ heap' = Appended(heap, groups[g].handlers, list, extra).heap
        /\ groups' = [groups EXCEPT ![g].handlers =
                         Appended(heap, groups[g].handlers, list, extra).slice]
  BY DEF Use
<1>. DEFINE m == Appended(heap, groups[g].handlers, list, extra)
            s == m.slice
<1>1. list \in Seq(Cells) /\ extra \in Nat
  BY ListsOfCells, GroupsAssumption
<1>2. /\ Elements(m.heap, s) = Read(groups[g].handlers) \o list
      /\ \A f \in DOMAIN groups \ {g} :
            /\ Elements(m.heap, groups[f].handlers) = Read(groups[f].handlers)
            /\ Disjoint(s, groups[f].handlers)
      /\ \A t \in Chains \cup {noRoute, noMethod} :
            Elements(m.heap, t) = Read(t) /\ Disjoint(s, t)
  BY <1>1, AppendTo
<1>3. heap' = m.heap /\ groups' = [groups EXCEPT ![g].handlers = s]
  OBVIOUS
<1>. HIDE DEF m, s
<1>4. UNCHANGED <<routes, noRoute, noMethod, allNoRoute, allNoMethod>> /\ g # 1
  BY DEF Use
<1>5. Chains' = Chains
  BY <1>4 DEF Chains
<1>6. ArraysApart'
  <2>1. \A t \in Chains \cup {noRoute, noMethod} :
           /\ Disjoint(s, t)
           /\ \A f \in DOMAIN groups \ {g} : Disjoint(groups[f].handlers, t)
    BY <1>2 DEF Good, ArraysApart
  <2>2. (\A t \in Chains : Disjoint(noRoute, t) /\ Disjoint(noMethod, t)) /\ Disjoint(noRoute, noMethod)
    BY DEF Good, ArraysApart
  <2>. QED BY ZenonT(60), <1>2, <1>3, <1>4, <1>5, <2>1, <2>2, UseApart
<1>7. Table' = Table /\ Given' = Given /\ Miss' = Miss
  BY <1>2, <1>3, <1>4, TableKept, GivenKept, MissKept DEF Chains
<1>8. /\ Middleware' = [Middleware EXCEPT ![g] = Read(groups[g].handlers) \o list]
      /\ Base' = Base
  <2>. DEFINE a == Read(groups[g].handlers) \o list
  <2>1. Elements(heap', s) = a
    BY <1>2, <1>3
  <2>2. \A f \in DOMAIN groups \ {g} : Elements(heap', groups[f].handlers) = Read(groups[f].handlers)
    BY <1>2, <1>3
  <2>. HIDE DEF a
  <2>3. Middleware' = [Middleware EXCEPT ![g] = a] /\ Base' = Base
    BY ZenonT(120), <1>3, <2>1, <2>2, MiddlewareSet DEF Good
  <2>. QED BY <2>3 DEF a
<1>9. Middleware[g] = Read(groups[g].handlers)
  BY Facts DEF Good, Middleware
<1>. QED BY <1>4, <1>6, <1>7, <1>8, <1>9 DEF Abstract!Use

-----------------------------------------------------------------------------
(* Group, Handle *)

(* A chain that is made of a group's list is in a new array.                *)
LEMMA MakeChain ==
    ASSUME Good, NEW g \in DOMAIN groups, NEW list \in Seq(Cells)
    PROVE  LET m == combineHandlers(heap, groups[g].handlers, list) IN
           /\ Elements(m.heap, m.slice) = Middleware[g] \o list
           /\ \A f \in DOMAIN groups :
                 /\ Elements(m.heap, groups[f].handlers) = Read(groups[f].handlers)
                 /\ Disjoint(m.slice, groups[f].handlers) /\ Disjoint(groups[f].handlers, m.slice)
           /\ \A t \in Chains \cup {noRoute, noMethod} :
                 Elements(m.heap, t) = Read(t) /\ Disjoint(m.slice, t) /\ Disjoint(t, m.slice)
<1>. DEFINE m == combineHandlers(heap, groups[g].handlers, list)
<1>1. heap \in Heaps /\ Within(heap, groups[g].handlers)
  BY Facts DEF Good
<1>2. /\ Elements(m.heap, m.slice) = Elements(heap, groups[g].handlers) \o list
      /\ m.slice.arr = Len(heap) + 1
      /\ \A t : Within(heap, t) => Elements(m.heap, t) = Elements(heap, t)
  BY <1>1, CombinedElements
<1>. HIDE DEF m
<1>3. \A t : Within(heap, t) => Disjoint(m.slice, t) /\ Disjoint(t, m.slice)
  BY <1>1, <1>2, FreshApart
<1>4. Middleware[g] = Elements(heap, groups[g].handlers)
  BY Facts DEF Good, Middleware, Read
<1>5. \A f \in DOMAIN groups : Within(heap, groups[f].handlers)
  BY Facts DEF Good
<1>6. \A t \in Chains \cup {noRoute, noMethod} : Within(heap, t)
  BY Facts DEF Good
<1>. QED BY <1>2, <1>3, <1>4, <1>5, <1>6 DEF m, Read

(* The length of a slice is that of the list it holds.                     *)
LEMMA Fitting ==
    ASSUME Inv, NEW g \in DOMAIN groups, NEW list
    PROVE  Fits(groups[g].handlers, Len(list)) <=> Abstract!Fits(Middleware[g], list)
<1>1. heap \in Seq(Seq(Cells)) /\ Within(heap, groups[g].handlers)
  BY Facts DEF Heaps
<1>2. Len(Elements(heap, groups[g].handlers)) = groups[g].handlers.len
  BY <1>1, ElementsLen, Zenon
<1>3. Middleware[g] = Elements(heap, groups[g].handlers)
  BY Facts DEF Middleware, Read
<1>. QED BY <1>2, <1>3 DEF Fits, Abstract!Fits

(* A sequence with one more element, as a function.                        *)
LEMMA AppendIs ==
    ASSUME NEW n \in Nat, NEW s, s = [f \in 1 .. n |-> s[f]], NEW a
    PROVE  Append(s, a) = [f \in 1 .. n + 1 |-> IF f = n + 1 THEN a ELSE s[f]]
<1>. DEFINE S == {s[f] : f \in 1 .. n} \cup {a}
<1>1. s \in Seq(S) /\ Len(s) = n /\ a \in S
  OBVIOUS
<1>. HIDE DEF S
<1>2. /\ Append(s, a) \in Seq(S) /\ Len(Append(s, a)) = n + 1 /\ Append(s, a)[n + 1] = a
      /\ \A f \in 1 .. n : Append(s, a)[f] = s[f]
  BY <1>1, AppendProperties
<1>. QED BY <1>2

(* A new group has a list of its own.                                      *)
LEMMA NewGroupStep ==
    ASSUME Good, NEW g \in DOMAIN groups, NEW seg \in Segments, NEW list \in Lists, Group(g, seg, list)
    PROVE  ArraysApart' /\ Abstract!Group(g, seg, list)
<1>. DEFINE m == combineHandlers(heap, groups[g].handlers, list)
            s == m.slice
            new == [handlers |-> s, base |-> Append(groups[g].base, seg)]
            n == Len(groups)
<1>1. heap' = m.heap /\ groups' = Append(groups, new) /\ Fits(groups[g].handlers, Len(list))
      /\ UNCHANGED <<routes, noRoute, noMethod, allNoRoute, allNoMethod>>
  BY DEF Group
<1>2. list \in Seq(Cells)
  BY ListsOfCells
<1>3. /\ Elements(heap', s) = Middleware[g] \o list
      /\ \A f \in DOMAIN groups :
            /\ Elements(heap', groups[f].handlers) = Read(groups[f].handlers)
            /\ Disjoint(s, groups[f].handlers) /\ Disjoint(groups[f].handlers, s)
      /\ \A t \in Chains \cup {noRoute, noMethod} :
            Elements(heap', t) = Read(t) /\ Disjoint(s, t) /\ Disjoint(t, s)
  BY <1>1, <1>2, MakeChain
<1>4. new.handlers = s /\ new.base = Append(groups[g].base, seg)
  <2>. HIDE DEF s
  <2>. QED OBVIOUS
<1>. HIDE DEF m, s, new
<1>5. /\ DOMAIN groups = 1 .. n /\ n \in Nat
      /\ DOMAIN groups' = 1 .. n + 1 /\ Len(groups') = n + 1
      /\ groups'[n + 1] = new /\ \A f \in 1 .. n : groups'[f] = groups[f]
  <2>1. groups \in Seq([handlers : [arr : Nat, len : Nat], base : Seq(Segments)])
    BY Facts DEF Good
  <2>. QED BY <1>1, <2>1
<1>6. Chains' = Chains
  BY <1>1 DEF Chains
<1>. HIDE DEF n
<1>7. ArraysApart'
  <2>1. \A e, f \in 1 .. n : e # f => Disjoint(groups'[e].handlers, groups'[f].handlers)
    BY <1>5 DEF Good, ArraysApart
  <2>2. \A f \in 1 .. n : /\ Disjoint(groups'[n + 1].handlers, groups'[f].handlers)
                          /\ Disjoint(groups'[f].handlers, groups'[n + 1].handlers)
    BY <1>3, <1>4, <1>5
  <2>3. \A f \in 1 .. n + 1 : f \in 1 .. n \/ f = n + 1
    BY <1>5
  <2>4. \A f \in 1 .. n + 1 : \A t \in Chains \cup {noRoute, noMethod} : Disjoint(groups'[f].handlers, t)
    BY <1>3, <1>4, <1>5, <2>3 DEF Good, ArraysApart
  <2>5. (\A t \in Chains : Disjoint(noRoute, t) /\ Disjoint(noMethod, t)) /\ Disjoint(noRoute, noMethod)
    BY DEF Good, ArraysApart
  <2>6. \A e, f \in 1 .. n + 1 : e # f => Disjoint(groups'[e].handlers, groups'[f].handlers)
    BY <2>1, <2>2, <2>3
  <2>. QED BY <1>1, <1>5, <1>6, <2>4, <2>5, <2>6 DEF ArraysApart
<1>8. Table' = Table /\ Given' = Given /\ Miss' = Miss
  BY <1>1, <1>3, TableKept, GivenKept, MissKept DEF Chains
<1>9. Middleware' = Append(Middleware, Middleware[g] \o list)
  <2>. DEFINE a == Middleware[g] \o list
  <2>1. Middleware = [f \in 1 .. n |-> Read(groups[f].handlers)] /\ Len(Middleware) = n
    BY <1>5 DEF Middleware, n
  <2>2. Middleware' = [f \in 1 .. n + 1 |-> Elements(heap', groups'[f].handlers)]
    BY <1>5 DEF Middleware, Read
  <2>3. \A f \in 1 .. n + 1 : Elements(heap', groups'[f].handlers) = IF f = n + 1 THEN a ELSE Middleware[f]
    <3>. HIDE DEF a
    <3>1. Elements(heap', groups'[n + 1].handlers) = a
      BY <1>3, <1>4, <1>5 DEF a
    <3>2. \A f \in 1 .. n : Elements(heap', groups'[f].handlers) = Middleware[f] /\ f # n + 1
      BY SMTT(60), <1>3, <1>5, <2>1
    <3>. QED BY <1>5, <3>1, <3>2
  <2>. HIDE DEF a
  <2>4. Append(Middleware, a) = [f \in 1 .. n + 1 |-> IF f = n + 1 THEN a ELSE Middleware[f]]
    BY <1>5, <2>1, AppendIs
  <2>5. Middleware' = Append(Middleware, a)
    BY <2>2, <2>3, <2>4
  <2>. QED BY <2>5 DEF a
<1>10. Base' = Append(Base, Append(Base[g], seg))
  <2>. DEFINE a == Append(Base[g], seg)
  <2>1. Base = [f \in 1 .. n |-> groups[f].base] /\ Len(Base) = n
    BY <1>5 DEF Base, n
  <2>2. Base' = [f \in 1 .. n + 1 |-> groups'[f].base]
    BY <1>5 DEF Base
  <2>3. \A f \in 1 .. n + 1 : groups'[f].base = IF f = n + 1 THEN a ELSE Base[f]
    <3>1. groups'[n + 1].base = a
      BY <1>4, <1>5, <2>1
    <3>. HIDE DEF a
    <3>2. \A f \in 1 .. n : groups'[f].base = Base[f] /\ f # n + 1
      BY <1>5, <2>1
    <3>. QED BY <1>5, <3>1, <3>2
  <2>. HIDE DEF a
  <2>4. Append(Base, a) = [f \in 1 .. n + 1 |-> IF f = n + 1 THEN a ELSE Base[f]]
    BY <1>5, <2>1, AppendIs
  <2>5. Base' = Append(Base, a)
    BY <2>2, <2>3, <2>4
  <2>. QED BY <2>5 DEF a
<1>11. Abstract!Fits(Middleware[g], list)
  BY <1>1, Fitting DEF Good
<1>. QED BY <1>7, <1>8, <1>9, <1>10, <1>11 DEF Abstract!Group

(* A slice in an array that none of the lists has.                          *)
New(s) ==
    /\ \A f \in DOMAIN groups : Disjoint(s, groups[f].handlers) /\ Disjoint(groups[f].handlers, s)
    /\ \A t \in Chains \cup {noRoute, noMethod} : Disjoint(s, t) /\ Disjoint(t, s)

(* Lists that get new arrays remain apart.                                 *)
LEMMA OwnArrays ==
    ASSUME Good, UNCHANGED groups, NEW a, NEW c, New(a), New(c), Disjoint(a, c),
           Chains' \subseteq Chains \cup {c},
           \/ noRoute' = noRoute /\ noMethod' = noMethod
           \/ noRoute' = a /\ noMethod' = noMethod
           \/ noRoute' = noRoute /\ noMethod' = a
    PROVE  ArraysApart'
<1>1. \A g, f \in DOMAIN groups : g # f => Disjoint(groups[g].handlers, groups[f].handlers)
  BY DEF Good, ArraysApart
<1>2. \A g \in DOMAIN groups : \A t \in Chains' \cup {noRoute', noMethod'} : Disjoint(groups[g].handlers, t)
  BY DEF Good, ArraysApart, New
<1>3. \A t \in Chains' : Disjoint(noRoute', t) /\ Disjoint(noMethod', t)
  BY DEF Good, ArraysApart, New
<1>4. Disjoint(noRoute', noMethod')
  BY DEF Good, ArraysApart, New
<1>. QED BY <1>1, <1>2, <1>3, <1>4 DEF ArraysApart

(* The empty slice shares nothing.                                         *)
LEMMA NoSliceNew == New(NoSlice) /\ \A c : Disjoint(NoSlice, c)
BY DEF New, NoSlice, Disjoint

(* A route gets a chain of its own.                                        *)
LEMMA HandleStep ==
    ASSUME Good, NEW g \in DOMAIN groups, NEW method \in Methods, NEW seg \in Segments,
           NEW list \in Lists, Handle(g, method, seg, list)
    PROVE  ArraysApart' /\ Abstract!Handle(g, method, seg, list)
<1>. DEFINE m == combineHandlers(heap, groups[g].handlers, list)
            s == m.slice
            key == <<method, Append(groups[g].base, seg)>>
            a == Middleware[g] \o list
<1>1. /\ key \in Keys /\ Fits(groups[g].handlers, Len(list)) /\ routes[key] = NoSlice
      /\ heap' = m.heap /\ routes' = [routes EXCEPT ![key] = s]
      /\ UNCHANGED <<groups, noRoute, noMethod, allNoRoute, allNoMethod>>
  BY DEF Handle
<1>2. list \in Seq(Cells)
  BY ListsOfCells
<1>3. /\ Elements(heap', s) = a
      /\ \A f \in DOMAIN groups :
            /\ Elements(heap', groups[f].handlers) = Read(groups[f].handlers)
            /\ Disjoint(s, groups[f].handlers) /\ Disjoint(groups[f].handlers, s)
      /\ \A t \in Chains \cup {noRoute, noMethod} :
            Elements(heap', t) = Read(t) /\ Disjoint(s, t) /\ Disjoint(t, s)
  BY <1>1, <1>2, MakeChain
<1>4. Base[g] = groups[g].base
  BY Facts DEF Good, Base
<1>5. key = <<method, Append(Base[g], seg)>>
  BY <1>4
<1>. HIDE DEF m, s, key, a
<1>6. /\ routes' = [k \in Keys |-> IF k = key THEN s ELSE routes[k]]
      /\ \A k \in Keys : routes'[k] = IF k = key THEN s ELSE routes[k]
  BY <1>1 DEF Good, Inv, SlicesWithin
<1>7. Chains' \subseteq Chains \cup {s}
  BY <1>1, <1>6 DEF Chains
<1>8. ArraysApart'
  <2>1. New(s)
    BY <1>3 DEF New
  <2>. QED BY <1>1, <1>7, <2>1, NoSliceNew, OwnArrays
<1>9. Given' = Given /\ Miss' = Miss
  BY <1>1, <1>3, GivenKept, MissKept DEF Chains
<1>10. Table' = [Table EXCEPT ![key] = a] /\ Table[key] = <<>>
  <2>1. Table = [k \in Keys |-> Read(routes[k])]
    BY DEF Table
  <2>2. Table' = [k \in Keys |-> Elements(heap', routes'[k])]
    BY DEF Table, Read
  <2>3. \A k \in Keys : Elements(heap', routes'[k]) = IF k = key THEN a ELSE Read(routes[k])
    BY <1>3, <1>6 DEF Chains
  <2>4. Read(routes[key]) = <<>>
    BY <1>1 DEF Read, Elements, NoSlice
  <2>. QED BY <1>1, <2>1, <2>2, <2>3, <2>4
<1>11. Middleware' = Middleware /\ Base' = Base
  BY <1>1, <1>3, Facts DEF Good, Middleware, Base, Read
<1>12. Abstract!Fits(Middleware[g], list)
  BY <1>1, Fitting DEF Good
<1>. QED BY <1>5, <1>8, <1>9, <1>10, <1>11, <1>12 DEF Abstract!Handle, a

-----------------------------------------------------------------------------
(* NoRoute, NoMethod *)

(* The list that is kept and the chain made of it are in two new arrays.    *)
LEMMA GivenAndMade ==
    ASSUME Good, NEW list \in Seq(Cells)
    PROVE  LET g == Made(heap, list)
               m == combineHandlers(g.heap, groups[1].handlers, list) IN
           /\ Elements(g.heap, g.slice) = list /\ Elements(m.heap, g.slice) = list
           /\ Elements(m.heap, m.slice) = Middleware[1] \o list
           /\ \A t : Within(heap, t) => Elements(g.heap, t) = Read(t) /\ Elements(m.heap, t) = Read(t)
           /\ New(g.slice) /\ New(m.slice) /\ Disjoint(g.slice, m.slice)
<1>. DEFINE g == Made(heap, list)
            h == g.heap
            m == combineHandlers(h, groups[1].handlers, list)
<1>1. heap \in Heaps /\ Within(heap, groups[1].handlers) /\ 1 \in DOMAIN groups
  BY Facts DEF Good
<1>2. /\ h \in Heaps /\ Elements(h, g.slice) = list /\ g.slice.arr = Len(heap) + 1
      /\ \A t : Within(heap, t) => Elements(h, t) = Elements(heap, t)
  BY <1>1, MadeElements
<1>3. Grown(heap, h) /\ Within(h, g.slice)
  BY <1>1, MadeWithin DEF Heaps
<1>. HIDE DEF g, h
<1>4. \A t : Within(heap, t) => Within(h, t)
  BY <1>1, <1>3, StaysWithin DEF Heaps
<1>5. /\ Elements(m.heap, m.slice) = Elements(h, groups[1].handlers) \o list
      /\ m.slice.arr = Len(h) + 1
      /\ \A t : Within(h, t) => Elements(m.heap, t) = Elements(h, t)
  BY <1>1, <1>2, <1>4, CombinedElements
<1>. HIDE DEF m
<1>6. \A t : Within(heap, t) => Disjoint(g.slice, t) /\ Disjoint(t, g.slice)
  BY <1>1, <1>2, FreshApart
<1>7. \A t : Within(h, t) => Disjoint(m.slice, t) /\ Disjoint(t, m.slice)
  BY <1>2, <1>5, FreshApart
<1>8. Middleware[1] = Elements(heap, groups[1].handlers)
  BY Facts DEF Good, Middleware, Read
<1>9. /\ \A f \in DOMAIN groups : Within(heap, groups[f].handlers)
      /\ \A t \in Chains \cup {noRoute, noMethod} : Within(heap, t)
  BY Facts DEF Good
<1>10. New(g.slice) /\ New(m.slice) /\ Disjoint(g.slice, m.slice)
  BY <1>3, <1>4, <1>6, <1>7, <1>9 DEF New
<1>11. Elements(m.heap, m.slice) = Middleware[1] \o list /\ Elements(m.heap, g.slice) = list
  BY <1>1, <1>2, <1>3, <1>5, <1>8
<1>12. \A t : Within(heap, t) => Elements(h, t) = Read(t) /\ Elements(m.heap, t) = Read(t)
  BY <1>2, <1>4, <1>5 DEF Read
<1>. QED BY <1>2, <1>10, <1>11, <1>12 DEF g, h, m

(* c says which of the two it is.                                           *)
LEMMA NoMatchStep ==
    ASSUME Good, NEW c \in {404, 405}, NEW list \in Lists,
           (c = 404 /\ NoRoute(list)) \/ (c = 405 /\ NoMethod(list))
    PROVE  /\ ArraysApart' /\ Abstract!NoMatch(c, list)
           /\ reused' = reused /\ (~failed' => ~failed /\ Abstract!Fits(Middleware[1], list))
<1>. DEFINE g == Made(heap, list)
            m == combineHandlers(g.heap, groups[1].handlers, list)
            fits == Fits(groups[1].handlers, Len(list))
            a == Middleware[1] \o list
<1>1. list \in Seq(Cells)
  BY ListsOfCells
<1>2. /\ Elements(g.heap, g.slice) = list /\ Elements(m.heap, g.slice) = list
      /\ Elements(m.heap, m.slice) = a
      /\ \A t : Within(heap, t) => Elements(g.heap, t) = Read(t) /\ Elements(m.heap, t) = Read(t)
      /\ New(g.slice) /\ New(m.slice) /\ Disjoint(g.slice, m.slice)
  BY <1>1, GivenAndMade
<1>3. /\ UNCHANGED <<groups, routes, reused>>
      /\ \/ fits /\ heap' = m.heap /\ failed' = failed
         \/ ~fits /\ heap' = g.heap /\ failed' = TRUE
      /\ c = 404 => /\ noRoute' = g.slice /\ noMethod' = noMethod /\ allNoMethod' = allNoMethod
                    /\ allNoRoute' = IF fits THEN m.slice ELSE allNoRoute
      /\ c = 405 => /\ noMethod' = g.slice /\ noRoute' = noRoute /\ allNoRoute' = allNoRoute
                    /\ allNoMethod' = IF fits THEN m.slice ELSE allNoMethod
  BY DEF NoRoute, NoMethod
<1>4. fits <=> Abstract!Fits(Middleware[1], list)
  <2>1. Inv /\ 1 \in DOMAIN groups
    BY Facts DEF Good
  <2>. QED BY <2>1, Fitting
<1>. HIDE DEF g, m, fits, a
<1>5. Elements(heap', g.slice) = list /\ (fits => Elements(heap', m.slice) = a)
      /\ \A t : Within(heap, t) => Elements(heap', t) = Read(t)
  BY <1>2, <1>3
<1>6. /\ \A f \in DOMAIN groups : Within(heap, groups[f].handlers)
      /\ \A k \in Keys : Within(heap, routes[k])
      /\ Within(heap, noRoute) /\ Within(heap, noMethod)
      /\ Within(heap, allNoRoute) /\ Within(heap, allNoMethod)
  BY Facts DEF Good, Chains
<1>7. Chains' \subseteq Chains \cup {m.slice}
  BY <1>3 DEF Chains
<1>8. ArraysApart'
  <2>1. \/ noRoute' = noRoute /\ noMethod' = noMethod
        \/ noRoute' = g.slice /\ noMethod' = noMethod
        \/ noRoute' = noRoute /\ noMethod' = g.slice
    BY <1>3
  <2>. QED BY <1>2, <1>3, <1>7, <2>1, OwnArrays
<1>9. Table' = Table /\ Middleware' = Middleware /\ Base' = Base
  <2>1. Table' = Table
    BY <1>3, <1>5, <1>6, TableKept
  <2>2. Middleware' = Middleware /\ Base' = Base
    BY <1>3, <1>5, <1>6, Facts DEF Good, Middleware, Base, Read
  <2>. QED BY <2>1, <2>2
<1>10. Given' = [Given EXCEPT ![c] = list]
  <2>1. Given' = [d \in {404, 405} |-> Elements(heap', IF d = 404 THEN noRoute' ELSE noMethod')]
    BY DEF Given, Read
  <2>2. Given = [d \in {404, 405} |-> Read(IF d = 404 THEN noRoute ELSE noMethod)]
    BY DEF Given
  <2>3. \A d \in {404, 405} : Elements(heap', IF d = 404 THEN noRoute' ELSE noMethod')
                                = IF d = c THEN list ELSE Given[d]
    BY <1>3, <1>5, <1>6, <2>2
  <2>. QED BY <2>1, <2>2, <2>3
<1>11. Miss' = IF fits THEN [Miss EXCEPT ![c] = a] ELSE Miss
  <2>1. Miss' = [d \in {404, 405} |-> Elements(heap', IF d = 404 THEN allNoRoute' ELSE allNoMethod')]
    BY DEF Miss, Read
  <2>2. Miss = [d \in {404, 405} |-> Read(IF d = 404 THEN allNoRoute ELSE allNoMethod)]
    BY DEF Miss
  <2>3. \A d \in {404, 405} : Elements(heap', IF d = 404 THEN allNoRoute' ELSE allNoMethod')
                                = IF fits /\ d = c THEN a ELSE Miss[d]
    BY <1>3, <1>5, <1>6, <2>2
  <2>. QED BY <2>1, <2>2, <2>3
<1>. QED BY <1>3, <1>4, <1>8, <1>9, <1>10, <1>11 DEF Abstract!NoMatch, a

-----------------------------------------------------------------------------
(* Engine.Use *)

(* No rebuild panicked, and the chains are the new list and what was given.  *)
Followed == ~failed /\ \A c \in {404, 405} : Miss'[c] = Middleware'[1] \o Given[c]

(* The engine's Use also rebuilds the 404 and 405 chains, or panics half way. *)
LEMMA EngineUseStep ==
    ASSUME Good, NEW list \in Lists, EngineUse(list)
    PROVE  /\ ArraysApart' /\ Abstract!EngineUse(list)
           /\ reused' = reused
           /\ ~failed' => Followed
<1>0. PICK extra \in 0..Spare :
       LET used  == Appended(heap, groups[1].handlers, list, extra)
           for404 == combineHandlers(used.heap, used.slice, Elements(used.heap, noRoute))
           for405 == combineHandlers(for404.heap, used.slice, Elements(used.heap, noMethod))
       IN /\ groups' = [groups EXCEPT ![1].handlers = used.slice]
          /\ \/ /\ ~Fits(used.slice, noRoute.len)
                /\ heap' = used.heap /\ failed' = TRUE
                /\ UNCHANGED <<allNoRoute, allNoMethod>>
             \/ /\ Fits(used.slice, noRoute.len) /\ ~Fits(used.slice, noMethod.len)
                /\ heap' = for404.heap /\ allNoRoute' = for404.slice /\ failed' = TRUE
                /\ UNCHANGED allNoMethod
             \/ /\ Fits(used.slice, noRoute.len) /\ Fits(used.slice, noMethod.len)
                /\ heap' = for405.heap
                /\ allNoRoute' = for404.slice /\ allNoMethod' = for405.slice
                /\ UNCHANGED failed
          /\ UNCHANGED <<routes, noRoute, noMethod, reused>>
  BY DEF EngineUse
<1>. DEFINE used == Appended(heap, groups[1].handlers, list, extra)
            u == used.slice
            for404 == combineHandlers(used.heap, u, Elements(used.heap, noRoute))
            for405 == combineHandlers(for404.heap, u, Elements(used.heap, noMethod))
            fits404 == Fits(u, noRoute.len)
            fits405 == Fits(u, noMethod.len)
            global == Middleware[1] \o list
            a == global \o Given[404]
            b == global \o Given[405]
<1>1. /\ groups' = [groups EXCEPT ![1].handlers = u]
      /\ UNCHANGED <<routes, noRoute, noMethod, reused>>
      /\ \/ ~fits404 /\ heap' = used.heap /\ failed' = TRUE /\ UNCHANGED <<allNoRoute, allNoMethod>>
         \/ /\ fits404 /\ ~fits405 /\ heap' = for404.heap /\ allNoRoute' = for404.slice
            /\ failed' = TRUE /\ UNCHANGED allNoMethod
         \/ /\ fits404 /\ fits405 /\ heap' = for405.heap
            /\ allNoRoute' = for404.slice /\ allNoMethod' = for405.slice /\ UNCHANGED failed
  BY <1>0
<1>2. /\ list \in Seq(Cells) /\ extra \in Nat /\ 1 \in DOMAIN groups /\ heap \in Heaps
      /\ Middleware[1] = Read(groups[1].handlers)
  BY ListsOfCells, GroupsAssumption, Facts DEF Good, Middleware
<1>3. /\ used.heap \in Heaps /\ Grown(heap, used.heap) /\ Within(used.heap, u)
      /\ Elements(used.heap, u) = global
      /\ \A f \in DOMAIN groups \ {1} :
            /\ Elements(used.heap, groups[f].handlers) = Read(groups[f].handlers)
            /\ Disjoint(u, groups[f].handlers)
      /\ \A t \in Chains \cup {noRoute, noMethod} :
            Elements(used.heap, t) = Read(t) /\ Disjoint(u, t)
  BY ZenonT(60), <1>2, AppendTo
<1>4. \A t : Within(heap, t) => Within(used.heap, t)
  <2>. HIDE DEF used
  <2>. QED BY <1>2, <1>3, StaysWithin DEF Heaps
<1>5. /\ Elements(used.heap, noRoute) = Given[404] /\ Elements(used.heap, noMethod) = Given[405]
      /\ Given[404] \in Seq(Cells) /\ Given[405] \in Seq(Cells)
      /\ Len(Given[404]) = noRoute.len /\ Len(Given[405]) = noMethod.len
      /\ Len(global) = u.len
  <2>1. Given[404] = Read(noRoute) /\ Given[405] = Read(noMethod)
    BY DEF Given
  <2>2. Within(heap, noRoute) /\ Within(heap, noMethod)
    BY Facts DEF Good
  <2>. HIDE DEF used
  <2>3. /\ Read(noRoute) \in Seq(Cells) /\ Len(Read(noRoute)) = noRoute.len
        /\ Read(noMethod) \in Seq(Cells) /\ Len(Read(noMethod)) = noMethod.len
    BY <1>2, <2>2, ElementsAt DEF Read
  <2>4. Len(Elements(used.heap, u)) = u.len
    BY <1>3, ElementsAt
  <2>. QED BY <1>3, <2>1, <2>3, <2>4
<1>6. /\ for404.heap \in Heaps /\ Elements(for404.heap, for404.slice) = a
      /\ for404.slice.arr = Len(used.heap) + 1
      /\ \A t : Within(used.heap, t) => Elements(for404.heap, t) = Elements(used.heap, t)
      /\ Grown(used.heap, for404.heap) /\ Within(for404.heap, for404.slice)
  <2>. HIDE DEF used
  <2>1. /\ for404.heap \in Heaps
        /\ Elements(for404.heap, for404.slice) = Elements(used.heap, u) \o Elements(used.heap, noRoute)
        /\ for404.slice.arr = Len(used.heap) + 1
        /\ \A t : Within(used.heap, t) => Elements(for404.heap, t) = Elements(used.heap, t)
    <3>1. Elements(used.heap, noRoute) \in Seq(Cells)
      BY <1>5
    <3>2. used.heap \in Heaps /\ Within(used.heap, used.slice)
      BY <1>3
    <3>. QED BY <3>1, <3>2, CombinedElements
  <2>2. Grown(used.heap, for404.heap) /\ Within(for404.heap, for404.slice)
    BY <1>3, <1>5, CombinedWithin DEF Heaps
  <2>. QED BY <1>3, <1>5, <2>1, <2>2
<1>7. \A t : Within(used.heap, t) => Within(for404.heap, t)
  <2>. HIDE DEF used, for404
  <2>. QED BY <1>3, <1>6, StaysWithin DEF Heaps
<1>8. /\ Elements(for405.heap, for405.slice) = b
      /\ for405.slice.arr = Len(for404.heap) + 1
      /\ \A t : Within(for404.heap, t) => Elements(for405.heap, t) = Elements(for404.heap, t)
  <2>. HIDE DEF used, for404
  <2>1. /\ Elements(for405.heap, for405.slice) = Elements(for404.heap, u) \o Elements(used.heap, noMethod)
        /\ for405.slice.arr = Len(for404.heap) + 1
        /\ \A t : Within(for404.heap, t) => Elements(for405.heap, t) = Elements(for404.heap, t)
    <3>1. Elements(used.heap, noMethod) \in Seq(Cells)
      BY <1>5
    <3>2. for404.heap \in Heaps /\ Within(for404.heap, used.slice)
      BY <1>3, <1>6, <1>7
    <3>. DEFINE l == Elements(used.heap, noMethod)
                h == for404.heap
                v == used.slice
    <3>. HIDE DEF l, h, v
    <3>3. l \in Seq(Cells) /\ h \in Heaps /\ Within(h, v)
      BY <3>1, <3>2 DEF l, h, v
    <3>4. LET m == combineHandlers(h, v, l) IN
             /\ Elements(m.heap, m.slice) = Elements(h, v) \o l
             /\ m.slice.arr = Len(h) + 1
             /\ \A t : Within(h, t) => Elements(m.heap, t) = Elements(h, t)
      BY <3>3, CombinedElements
    <3>. QED BY <3>4 DEF l, h, v
  <2>2. Elements(for404.heap, u) = global
    BY <1>3, <1>6
  <2>. QED BY <1>5, <2>1, <2>2
<1>9. \A t : Within(used.heap, t) => Disjoint(for404.slice, t) /\ Disjoint(t, for404.slice)
  <2>. HIDE DEF used, for404
  <2>. QED BY <1>3, <1>6, FreshApart
<1>10. \A t : Within(for404.heap, t) => Disjoint(for405.slice, t) /\ Disjoint(t, for405.slice)
  <2>. HIDE DEF used, for404, for405
  <2>. QED BY <1>6, <1>8, FreshApart
<1>. HIDE DEF used, u, for404, for405, global, fits404, fits405, a, b
<1>11. /\ Elements(heap', u) = global
       /\ fits404 => Elements(heap', for404.slice) = a
       /\ fits404 /\ fits405 => Elements(heap', for405.slice) = b
       /\ \A t : Within(heap, t) => Elements(heap', t) = Elements(used.heap, t)
  BY <1>1, <1>3, <1>4, <1>6, <1>7, <1>8
<1>12. /\ 1 \in DOMAIN groups /\ Within(heap, groups[1].handlers)
       /\ \A f \in DOMAIN groups : Within(heap, groups[f].handlers)
       /\ \A k \in Keys : Within(heap, routes[k])
       /\ Within(heap, noRoute) /\ Within(heap, noMethod)
       /\ Within(heap, allNoRoute) /\ Within(heap, allNoMethod)
  BY Facts DEF Good, Chains
<1>13. /\ \A f \in DOMAIN groups \ {1} : Elements(heap', groups[f].handlers) = Read(groups[f].handlers)
       /\ \A k \in Keys : Elements(heap', routes[k]) = Read(routes[k])
       /\ Elements(heap', noRoute) = Read(noRoute) /\ Elements(heap', noMethod) = Read(noMethod)
       /\ Elements(heap', allNoRoute) = Read(allNoRoute)
       /\ Elements(heap', allNoMethod) = Read(allNoMethod)
  BY <1>3, <1>11, <1>12 DEF Chains
<1>14. Chains' \subseteq Chains \cup {for404.slice, for405.slice}
  BY <1>1 DEF Chains
<1>15. ArraysApart'
  <2>. DEFINE Made2 == {for404.slice, for405.slice}
  <2>1. \A t : Within(used.heap, t) => \A c \in Made2 : Disjoint(c, t) /\ Disjoint(t, c)
    BY <1>7, <1>9, <1>10
  <2>2. \A f \in DOMAIN groups \ {1} : \A c \in Made2 : Disjoint(groups[f].handlers, c)
    BY <1>4, <1>12, <2>1
  <2>3. \A c \in Made2 : Disjoint(u, c) /\ Disjoint(noRoute, c) /\ Disjoint(noMethod, c)
    BY <1>3, <1>4, <1>12, <2>1
  <2>4. Chains' \subseteq Chains \cup Made2
    BY <1>14
  <2>. HIDE DEF Made2
  <2>5. \A t \in Chains' \cup {noRoute', noMethod'} :
           /\ Disjoint(u, t)
           /\ \A f \in DOMAIN groups \ {1} : Disjoint(groups[f].handlers, t)
    BY <1>1, <1>3, <2>2, <2>3, <2>4 DEF Good, ArraysApart
  <2>6. (\A t \in Chains' : Disjoint(noRoute', t) /\ Disjoint(noMethod', t)) /\ Disjoint(noRoute', noMethod')
    BY <1>1, <2>3, <2>4 DEF Good, ArraysApart
  <2>. QED BY <1>1, <1>3, <1>12, <2>5, <2>6, UseApart
<1>16. Table' = Table /\ Given' = Given
  BY <1>1, <1>13, TableKept, GivenKept
<1>17. Middleware' = [Middleware EXCEPT ![1] = global] /\ Base' = Base
  <2>1. Inv /\ 1 \in DOMAIN groups /\ groups' = [groups EXCEPT ![1].handlers = u]
    BY <1>1, <1>12 DEF Good
  <2>2. Elements(heap', u) = global
    BY <1>11
  <2>3. \A f \in DOMAIN groups \ {1} : Elements(heap', groups[f].handlers) = Read(groups[f].handlers)
    BY <1>13
  <2>. DEFINE g == 1
  <2>. HIDE DEF g
  <2>4. Middleware' = [Middleware EXCEPT ![g] = global] /\ Base' = Base
    <3>1. Inv /\ g \in DOMAIN groups /\ groups' = [groups EXCEPT ![g].handlers = u]
      BY <2>1 DEF g
    <3>2. \A f \in DOMAIN groups \ {g} :
             Elements(heap', groups[f].handlers) = Read(groups[f].handlers)
      BY <2>3 DEF g
    <3>. QED BY <2>2, <3>1, <3>2, MiddlewareSet
  <2>. QED BY <2>4 DEF g
<1>18. Middleware'[1] = global
  <2>1. 1 \in DOMAIN Middleware
    BY Facts DEF Good, Middleware
  <2>2. Middleware = [f \in DOMAIN Middleware |-> Middleware[f]]
    BY DEF Middleware
  <2>. QED BY <1>17, <2>1, <2>2
<1>19. /\ fits404 <=> Abstract!Fits(global, Given[404])
       /\ fits405 <=> Abstract!Fits(global, Given[405])
  BY <1>5 DEF fits404, fits405, Fits, Abstract!Fits
<1>20. Miss' = [c \in {404, 405} |->
                  IF fits404 /\ (c = 405 => fits405) THEN global \o Given[c] ELSE Miss[c]]
  <2>1. Miss' = [c \in {404, 405} |-> Elements(heap', IF c = 404 THEN allNoRoute' ELSE allNoMethod')]
    BY DEF Miss, Read
  <2>2. Miss = [c \in {404, 405} |-> Read(IF c = 404 THEN allNoRoute ELSE allNoMethod)]
    BY DEF Miss
  <2>3. Elements(heap', allNoRoute') = IF fits404 THEN a ELSE Miss[404]
    BY <1>1, <1>11, <1>13, <2>2
  <2>4. Elements(heap', allNoMethod') = IF fits404 /\ fits405 THEN b ELSE Miss[405]
    BY <1>1, <1>11, <1>13, <2>2
  <2>5. \A c \in {404, 405} :
           Elements(heap', IF c = 404 THEN allNoRoute' ELSE allNoMethod')
              = IF fits404 /\ (c = 405 => fits405) THEN global \o Given[c] ELSE Miss[c]
    <3>. TAKE c \in {404, 405}
    <3>1. CASE c = 404
      BY <2>3, <3>1 DEF a
    <3>2. CASE c = 405
      BY <2>4, <3>2 DEF b
    <3>. QED BY <3>1, <3>2
  <2>. QED BY <2>1, <2>5
<1>21. Abstract!EngineUse(list)
  BY <1>16, <1>17, <1>19, <1>20 DEF Abstract!EngineUse, global
<1>22. ~failed' => ~failed /\ fits404 /\ fits405
  BY <1>1 DEF Good, Inv, SlicesWithin
<1>23. ~failed' => ~failed /\ \A c \in {404, 405} : Miss'[c] = Middleware'[1] \o Given[c]
  BY <1>18, <1>20, <1>22
<1>24. ~failed' => Followed
  BY <1>23 DEF Followed
<1>. QED BY <1>1, <1>15, <1>21, <1>24

-----------------------------------------------------------------------------
(* A program that writes to the list it gave away. *)

(* A caller that writes to the list it gave changes no other list.         *)
LEMMA ReuseStep ==
    ASSUME Good, Reuse
    PROVE  ArraysApart' /\ Abstract!Reuse
<1>. PICK s \in {noRoute, noMethod}, f \in HandlerFuncs :
        \E i \in 1..s.len : heap' = [heap EXCEPT ![s.arr][i] = f]
  BY DEF Reuse
<1>. PICK i \in 1..s.len : heap' = [heap EXCEPT ![s.arr][i] = f]
  OBVIOUS
<1>1. UNCHANGED <<groups, routes, noRoute, noMethod, allNoRoute, allNoMethod>>
  BY DEF Reuse
<1>2. ArraysApart'
  BY <1>1 DEF Good, ArraysApart, Chains
<1>3. /\ heap \in Heaps /\ Within(heap, s) /\ s.len \in Nat
      /\ s.arr \in DOMAIN heap /\ s.len <= Len(heap[s.arr]) /\ heap[s.arr] \in Seq(Cells)
  <2>1. heap \in Heaps /\ Within(heap, s)
    BY Facts DEF Good
  <2>2. s.len \in Nat
    BY <2>1 DEF Within
  <2>. QED BY <2>1, <2>2, ElementsAt
<1>4. heap' = [heap EXCEPT ![s.arr] = [heap[s.arr] EXCEPT ![i] = f]]
  OBVIOUS
<1>5. heap' \in Heaps /\ \A t : Within(heap, t) => Within(heap', t)
  <2>1. heap' \in Heaps /\ Len(heap') = Len(heap) /\ \A k \in DOMAIN heap : Len(heap'[k]) = Len(heap[k])
    <3>. DEFINE new == [heap[s.arr] EXCEPT ![i] = f]
    <3>1. new \in Seq(Cells) /\ Len(new) = Len(heap[s.arr])
      BY <1>3, ExceptSeq DEF Cells
    <3>. HIDE DEF new
    <3>2. heap' = [heap EXCEPT ![s.arr] = new]
      BY <1>4 DEF new
    <3>. QED BY <1>3, <3>1, <3>2, ExceptSeq DEF Heaps
  <2>2. Grown(heap, heap')
    BY <1>3, <2>1 DEF Grown, Heaps
  <2>. QED BY <1>3, <2>1, <2>2, StaysWithin DEF Heaps
<1>6. \A t : Within(heap, t) /\ Disjoint(s, t) => Elements(heap', t) = Read(t)
  <2>. SUFFICES ASSUME NEW t, Within(heap, t), Disjoint(s, t) PROVE Elements(heap', t) = Read(t)
    OBVIOUS
  <2>1. t.len > 0 => t.arr # s.arr /\ t.arr \in DOMAIN heap
    BY <1>3, ElementsAt DEF Disjoint, Heaps
  <2>2. \A k \in 1 .. t.len : heap'[t.arr][k] = heap[t.arr][k]
    <3>. TAKE k \in 1 .. t.len
    <3>1. t.len > 0
      BY DEF Within
    <3>. QED BY <1>3, <1>4, <2>1, <3>1
  <2>3. heap \in Heaps /\ heap' \in Heaps /\ Within(heap', t)
    BY <1>3, <1>5
  <2>4. Elements(heap', t) = Elements(heap, t)
    BY ZenonT(60), <2>2, <2>3, SameCells
  <2>. QED BY <2>4 DEF Read
<1>7. Elements(heap', s) = [Read(s) EXCEPT ![i] = f] /\ Len(Read(s)) = s.len
  <2>. DEFINE old == Read(s)
              new == Elements(heap', s)
  <2>1. old \in Seq(Cells) /\ Len(old) = s.len /\ \A k \in 1 .. s.len : old[k] = heap[s.arr][k]
    BY <1>3, ElementsAt DEF Read
  <2>2. new \in Seq(Cells) /\ Len(new) = s.len /\ \A k \in 1 .. s.len : new[k] = heap'[s.arr][k]
    BY <1>3, <1>5, ElementsAt
  <2>. HIDE DEF old, new
  <2>3. \A k \in 1 .. s.len : heap'[s.arr][k] = IF k = i THEN f ELSE heap[s.arr][k]
    BY <1>3, <1>4
  <2>4. [old EXCEPT ![i] = f] \in Seq(Cells) /\ Len([old EXCEPT ![i] = f]) = s.len
        /\ \A k \in 1 .. s.len : [old EXCEPT ![i] = f][k] = IF k = i THEN f ELSE old[k]
    <3>1. f \in Cells /\ i \in 1 .. Len(old)
      BY <2>1 DEF Cells
    <3>. QED BY <2>1, <3>1, ExceptSeq
  <2>5. new = [old EXCEPT ![i] = f]
    BY SMTT(60), <2>1, <2>2, <2>3, <2>4, SeqEqual
  <2>. QED BY <2>1, <2>5 DEF old, new
<1>. DEFINE c == IF s = noRoute THEN 404 ELSE 405
<1>8. \A t \in Chains : Within(heap, t) /\ Disjoint(s, t)
  BY Facts DEF Good, ArraysApart
<1>9. \A e \in DOMAIN groups : Within(heap, groups[e].handlers) /\ Disjoint(s, groups[e].handlers)
  BY Facts DEF Good, ArraysApart, Disjoint
<1>10. Table' = Table /\ Miss' = Miss /\ Middleware' = Middleware /\ Base' = Base
  <2>1. Table' = Table /\ Miss' = Miss
    BY <1>1, <1>6, <1>8, TableKept, MissKept DEF Chains
  <2>2. Middleware' = Middleware /\ Base' = Base
    BY <1>1, <1>6, <1>9, Facts DEF Good, Middleware, Base, Read
  <2>. QED BY <2>1, <2>2
<1>11. /\ Given[c] = Read(s) /\ Given' = [Given EXCEPT ![c] = [Read(s) EXCEPT ![i] = f]]
  <2>. DEFINE new == [Read(s) EXCEPT ![i] = f]
  <2>0. Elements(heap', s) = new
    BY <1>7
  <2>. HIDE DEF new
  <2>1. Given' = [d \in {404, 405} |-> Elements(heap', IF d = 404 THEN noRoute' ELSE noMethod')]
    BY DEF Given, Read
  <2>2. Given = [d \in {404, 405} |-> Read(IF d = 404 THEN noRoute ELSE noMethod)]
    BY DEF Given
  <2>3. s.arr # 0 /\ Disjoint(noRoute, noMethod) /\ Within(heap, noRoute) /\ Within(heap, noMethod)
    BY SMTT(60), <1>3, Facts DEF Good, ArraysApart, Heaps
  <2>4. CASE s = noRoute
    <3>1. Disjoint(s, noMethod)
      BY <2>3, <2>4
    <3>2. Elements(heap', noMethod) = Read(noMethod)
      BY <1>6, <2>3, <3>1
    <3>3. c = 404 /\ Given[404] = Read(s) /\ Given[405] = Read(noMethod)
      BY <2>2, <2>4
    <3>4. Given' = [d \in {404, 405} |-> IF d = 404 THEN new ELSE Given[405]]
      BY ZenonT(60), <1>1, <2>0, <2>1, <2>4, <3>2, <3>3
    <3>5. [Given EXCEPT ![404] = new] = [d \in {404, 405} |-> IF d = 404 THEN new ELSE Given[405]]
      BY <2>2, <3>3
    <3>. HIDE DEF c
    <3>. QED BY <3>3, <3>4, <3>5 DEF new
  <2>5. CASE s # noRoute
    <3>1. s = noMethod /\ Disjoint(s, noRoute)
      BY <2>3, <2>5 DEF Disjoint
    <3>2. Elements(heap', noRoute) = Read(noRoute)
      BY <1>6, <2>3, <3>1
    <3>3. c = 405 /\ Given[405] = Read(s) /\ Given[404] = Read(noRoute)
      BY <2>2, <2>5, <3>1
    <3>4. Given' = [d \in {404, 405} |-> IF d = 405 THEN new ELSE Given[404]]
      <4>1. Elements(heap', noRoute') = Given[404] /\ Elements(heap', noMethod') = new
        BY <1>1, <2>0, <3>1, <3>2, <3>3
      <4>. HIDE DEF c
      <4>2. \A d \in {404, 405} : Elements(heap', IF d = 404 THEN noRoute' ELSE noMethod')
                                     = IF d = 405 THEN new ELSE Given[404]
        BY <4>1
      <4>. DEFINE x(d) == Elements(heap', IF d = 404 THEN noRoute' ELSE noMethod')
                  y(d) == IF d = 405 THEN new ELSE Given[404]
      <4>3. Given' = [d \in {404, 405} |-> x(d)] /\ \A d \in {404, 405} : x(d) = y(d)
        BY <2>1, <4>2
      <4>. HIDE DEF x, y
      <4>4. Given' = [d \in {404, 405} |-> y(d)]
        BY <4>3
      <4>. QED BY <4>4 DEF y
    <3>5. [Given EXCEPT ![405] = new] = [d \in {404, 405} |-> IF d = 405 THEN new ELSE Given[404]]
      BY <2>2, <3>3
    <3>. HIDE DEF c
    <3>. QED BY <3>3, <3>4, <3>5 DEF new
  <2>. QED BY <2>4, <2>5
<1>12. i \in 1 .. Len(Given[c]) /\ c \in {404, 405}
  BY <1>7, <1>11
<1>13. Given' = [Given EXCEPT ![c][i] = f]
  BY <1>11
<1>. HIDE DEF c
<1>14. \E d \in {404, 405}, e \in HandlerFuncs :
          \E j \in 1 .. Len(Given[d]) : Given' = [Given EXCEPT ![d][j] = e]
  <2>1. c \in {404, 405} /\ f \in HandlerFuncs /\ i \in 1 .. Len(Given[c])
    BY <1>12
  <2>. DEFINE to(d, e, j) == [Given EXCEPT ![d][j] = e]
  <2>2. Given' = to(c, f, i)
    BY <1>13
  <2>. HIDE DEF to
  <2>3. \E j \in 1 .. Len(Given[c]) : Given' = to(c, f, j)
    BY <2>1, <2>2
  <2>4. \E d \in {404, 405}, e \in HandlerFuncs : \E j \in 1 .. Len(Given[d]) : Given' = to(d, e, j)
    BY <2>1, <2>3
  <2>. QED BY <2>4 DEF to
<1>. QED BY <1>2, <1>10, <1>14, Zenon DEF Abstract!Reuse

-----------------------------------------------------------------------------
(* Every call does to the lists what Registration says. *)

(* A new engine has no lists.                                              *)
LEMMA RegistrationInit == Init => Good /\ Abstract!Init
<1>. SUFFICES ASSUME Init PROVE Good /\ Abstract!Init
  OBVIOUS
<1>1. Inv
  BY GroupInit
<1>2. \A s \in Chains \cup {noRoute, noMethod} : s = NoSlice
  BY DEF Init, Chains
<1>3. DOMAIN groups = {1} /\ Len(groups) = 1 /\ groups[1].handlers = NoSlice /\ groups[1].base = <<>>
  BY DEF Init
<1>4. ArraysApart
  BY <1>2, <1>3 DEF ArraysApart, Disjoint, NoSlice
<1>5. Read(NoSlice) = <<>>
  BY DEF Read, Elements, NoSlice
<1>6. Middleware = <<<<>>>> /\ Base = <<<<>>>>
  <2>1. 1 .. Len(groups) = {1}
    BY <1>3
  <2>. QED BY <1>3, <1>5, <2>1 DEF Middleware, Base
<1>7. \A k \in DOMAIN Table : Table[k] = <<>>
  BY <1>2, <1>5 DEF Table, Chains
<1>8. Given = [c \in {404, 405} |-> <<>>] /\ Miss = Given
  BY <1>5 DEF Init, Given, Miss
<1>. QED BY <1>1, <1>4, <1>6, <1>7, <1>8 DEF Good, Abstract!Init

(* Every call does to the lists what Registration says.                    *)
LEMMA RegistrationStep ==
    ASSUME Good, [Next]_gvars
    PROVE  Good' /\ [Abstract!Next]_(Abstract!avars)
<1>1. Inv'
  BY GroupStep DEF Good
<1>2. 1..Len(groups) = DOMAIN groups /\ 1..Len(Middleware) = DOMAIN groups
  BY Facts DEF Good, Middleware
<1>3. ASSUME NEW list \in Lists, EngineUse(list)
      PROVE  ArraysApart' /\ Abstract!Next
  BY <1>3, EngineUseStep DEF Abstract!Next
<1>4. ASSUME NEW list \in Lists, NEW c \in {404, 405},
             (c = 404 /\ NoRoute(list)) \/ (c = 405 /\ NoMethod(list))
      PROVE  ArraysApart' /\ Abstract!Next
  BY <1>4, NoMatchStep DEF Abstract!Next
<1>5. ASSUME NEW list \in Lists, NoRoute(list) \/ NoMethod(list)
      PROVE  ArraysApart' /\ Abstract!Next
  BY <1>4, <1>5
<1>6. ASSUME NEW g \in DOMAIN groups, NEW list \in Lists, Use(g, list)
      PROVE  ArraysApart' /\ Abstract!Next
  BY <1>2, <1>6, UseStep DEF Abstract!Next
<1>7. ASSUME NEW g \in DOMAIN groups, NEW list \in Lists, NEW seg \in Segments, Group(g, seg, list)
      PROVE  ArraysApart' /\ Abstract!Next
  BY <1>2, <1>7, NewGroupStep DEF Abstract!Next
<1>8. ASSUME NEW g \in DOMAIN groups, NEW list \in Lists, NEW method \in Methods, NEW seg \in Segments,
             Handle(g, method, seg, list)
      PROVE  ArraysApart' /\ Abstract!Next
  BY <1>2, <1>8, HandleStep DEF Abstract!Next
<1>9. CASE Reuse
  BY <1>1, <1>9, ReuseStep DEF Abstract!Next, Good
<1>10. CASE UNCHANGED gvars
  BY <1>1, <1>10 DEF gvars, Good, ArraysApart, Chains, Abstract!avars,
     Middleware, Base, Table, Given, Miss, Read
<1>. QED BY <1>1, <1>2, <1>3, <1>5, <1>6, <1>7, <1>8, <1>9, <1>10 DEF Next, Good

(* MissChains in terms of the abstract variables.                           *)
MissCodes == {404, 405}
MissValues == ~failed /\ ~reused => \A c \in MissCodes : Miss[c] = Middleware[1] \o Given[c]

(* MissChains speaks of the values of the slices.                          *)
LEMMA MissByValue == Inv => (MissChains <=> MissValues)
BY Facts DEF MissChains, MissValues, MissCodes, Miss, Middleware, Given

(* What it says of one code.                                               *)
LEMMA MissValue ==
    ASSUME MissValues, ~failed, ~reused, NEW c \in MissCodes
    PROVE  Miss[c] = Middleware[1] \o Given[c]
<1>1. \A d \in MissCodes : Miss[d] = Middleware[1] \o Given[d]
  BY Zenon DEF MissValues
<1>. QED BY <1>1

(* What changes nothing in the values keeps the chains.                     *)
LEMMA MissStays ==
    ASSUME MissValues, failed' = failed, reused' = reused,
           Given' = Given, Miss' = Miss, Middleware'[1] = Middleware[1]
    PROVE  MissValues'
<1>. SUFFICES ASSUME ~failed', ~reused', NEW c \in MissCodes
              PROVE  Miss'[c] = Middleware'[1] \o Given'[c]
  BY Zenon DEF MissValues
<1>1. ~failed /\ ~reused
  BY Zenon
<1>2. Miss[c] = Middleware[1] \o Given[c]
  BY <1>1, MissValue
<1>3. Miss'[c] = Miss[c] /\ Given'[c] = Given[c]
  OBVIOUS
<1>. QED BY <1>2, <1>3

(* The chains for unmatched requests in one step.  Only NoRoute, NoMethod   *)
(* and Engine.Use concern them.                                             *)
LEMMA MissStep ==
    ASSUME Good, MissValues, [Next]_gvars
    PROVE  MissValues'
<1>1. 1 \in DOMAIN groups /\ 1..Len(groups) = DOMAIN groups /\ DOMAIN Middleware = DOMAIN groups
  BY Facts DEF Good, Middleware
<1>2. ASSUME NEW list \in Lists, EngineUse(list) PROVE MissValues'
  <2>1. Given' = Given
    BY <1>2, EngineUseStep DEF Abstract!EngineUse
  <2>2. /\ reused' = reused
        /\ ~failed' => ~failed /\ \A c \in MissCodes : Miss'[c] = Middleware'[1] \o Given[c]
    <3>1. reused' = reused
      BY <1>2 DEF EngineUse
    <3>2. ~failed' => Followed
      BY <1>2, EngineUseStep
    <3>. QED BY <3>1, <3>2 DEF Followed, MissCodes
  <2>. SUFFICES ASSUME ~failed', ~reused', NEW c \in MissCodes
                PROVE  Miss'[c] = Middleware'[1] \o Given'[c]
    BY Zenon DEF MissValues
  <2>3. Miss'[c] = Middleware'[1] \o Given[c]
    BY <2>2, Zenon
  <2>. QED BY <2>1, <2>3
<1>3. ASSUME NEW list \in Lists, NEW c \in MissCodes,
             (c = 404 /\ NoRoute(list)) \/ (c = 405 /\ NoMethod(list))
      PROVE  MissValues'
  <2>1. Abstract!NoMatch(c, list) /\ reused' = reused
        /\ (~failed' => ~failed /\ Abstract!Fits(Middleware[1], list))
    BY <1>3, NoMatchStep DEF MissCodes
  <2>2. Middleware' = Middleware /\ Given' = [Given EXCEPT ![c] = list]
        /\ (~failed' => Miss' = [Miss EXCEPT ![c] = Middleware[1] \o list])
    BY <2>1 DEF Abstract!NoMatch
  <2>3. DOMAIN Given = MissCodes /\ DOMAIN Miss = MissCodes 
    BY DEF Given, Miss, MissCodes
  <2>. SUFFICES ASSUME ~failed', ~reused', NEW d \in MissCodes
                PROVE  Miss'[d] = Middleware'[1] \o Given'[d]
    BY Zenon DEF MissValues
  <2>4. Miss[d] = Middleware[1] \o Given[d]
    <3>1. ~failed /\ ~reused
      BY <2>1, Zenon
    <3>. QED BY <3>1, MissValue
  <2>. DEFINE a == Middleware[1] \o list
  <2>5. Miss' = [Miss EXCEPT ![c] = a]
    BY <2>2
  <2>. HIDE DEF a
  <2>6. CASE d = c
    <3>1. Miss'[d] = a /\ Given'[d] = list
      BY <2>2, <2>3, <2>5, <2>6
    <3>. QED BY <2>2, <3>1 DEF a
  <2>7. CASE d # c
    <3>1. Miss'[d] = Miss[d] /\ Given'[d] = Given[d]
      BY <2>2, <2>3, <2>5, <2>7
    <3>. QED BY <2>2, <2>4, <3>1
  <2>. QED BY <2>6, <2>7
<1>4. ASSUME NEW g \in DOMAIN groups, NEW list \in Lists, Use(g, list) PROVE MissValues'
  <2>1. /\ g # 1 /\ Given' = Given /\ Miss' = Miss
        /\ Middleware' = [Middleware EXCEPT ![g] = @ \o list]
    BY <1>4, UseStep DEF Abstract!Use
  <2>2. Middleware'[1] = Middleware[1]
    BY <1>1, <2>1
  <2>3. UNCHANGED <<failed, reused>>
    BY <1>4 DEF Use
  <2>. QED BY <2>1, <2>2, <2>3, MissStays
<1>5. ASSUME NEW g \in DOMAIN groups, NEW list \in Lists, NEW seg \in Segments, Group(g, seg, list)
      PROVE  MissValues'
  <2>1. /\ Given' = Given /\ Miss' = Miss
        /\ Middleware' = Append(Middleware, Middleware[g] \o list)
    BY <1>5, NewGroupStep DEF Abstract!Group
  <2>2. Middleware'[1] = Middleware[1]
    <3>. DEFINE n == Len(groups)
                a == Middleware[g] \o list
    <3>1. Middleware = [f \in 1 .. n |-> Middleware[f]] /\ n \in Nat /\ 1 \in 1 .. n
      BY <1>1, Facts DEF Good, Middleware
    <3>. HIDE DEF n, a
    <3>2. Append(Middleware, a) = [f \in 1 .. n + 1 |-> IF f = n + 1 THEN a ELSE Middleware[f]]
      BY <3>1, AppendIs
    <3>3. Append(Middleware, a)[1] = Middleware[1]
      BY <3>1, <3>2
    <3>. QED BY <2>1, <3>3 DEF a
  <2>3. UNCHANGED <<failed, reused>>
    BY <1>5 DEF Group
  <2>. QED BY <2>1, <2>2, <2>3, MissStays
<1>6. ASSUME NEW g \in DOMAIN groups, NEW list \in Lists, NEW method \in Methods, NEW seg \in Segments,
             Handle(g, method, seg, list)
      PROVE  MissValues'
  <2>1. Given' = Given /\ Miss' = Miss /\ Middleware' = Middleware
    BY <1>6, HandleStep DEF Abstract!Handle
  <2>2. UNCHANGED <<failed, reused>>
    BY <1>6 DEF Handle
  <2>. QED BY <2>1, <2>2, MissStays
<1>7. CASE Reuse
  BY <1>7 DEF Reuse, MissValues
<1>8. CASE UNCHANGED gvars
  <2>1. Middleware' = Middleware /\ Given' = Given /\ Miss' = Miss /\ UNCHANGED <<failed, reused>>
    BY <1>8 DEF gvars, Middleware, Given, Miss, Read
  <2>. QED BY <2>1, MissStays
<1>9. ASSUME NEW list \in Lists, NoRoute(list) \/ NoMethod(list) PROVE MissValues'
  BY <1>3, <1>9 DEF MissCodes
<1>. QED BY <1>1, <1>2, <1>4, <1>5, <1>6, <1>7, <1>8, <1>9 DEF Next

-----------------------------------------------------------------------------

(* No append and no caller writes to an array that another list has         *)
(* (routergroup.go:66, 252-259, gin.go:346-360).                            *)
THEOREM ListsApart == Spec => []ArraysApart
<1>1. Spec => []Good
  BY RegistrationInit, RegistrationStep, PTL DEF Spec
<1>2. Good => ArraysApart
  BY DEF Good
<1>. QED BY <1>1, <1>2, PTL

(* Slices that grow in place and lists that callers keep behave like values:*)
(* RouterGroup implements Registration.                                     *)
THEOREM ListsAreValues == Spec => RegistrationSpec
<1>1. Spec => []Good
  BY RegistrationInit, RegistrationStep, PTL DEF Spec
<1>2. Init => Abstract!Init
  BY RegistrationInit
<1>3. Good /\ [Next]_gvars => [Abstract!Next]_(Abstract!avars)
  BY RegistrationStep
<1>. QED BY <1>1, <1>2, <1>3, PTL DEF Spec, RegistrationSpec, Abstract!Spec

(* The chains for unmatched requests follow what Use, NoRoute and NoMethod  *)
(* were given (gin.go:346-388).                                             *)
THEOREM MissCorrect == Spec => []MissChains
<1>1. Init => Good /\ MissValues
  <2>. SUFFICES ASSUME Init PROVE Good /\ MissValues
    OBVIOUS
  <2>1. Good
    BY RegistrationInit
  <2>2. MissChains
    BY DEF Init, MissChains, Read, Elements, NoSlice
  <2>. QED BY <2>1, <2>2, MissByValue DEF Good
<1>2. Good /\ MissValues /\ [Next]_gvars => Good' /\ MissValues'
  BY RegistrationStep, MissStep
<1>3. Good /\ MissValues => MissChains
  BY MissByValue DEF Good
<1>. QED BY <1>1, <1>2, <1>3, PTL DEF Spec
=============================================================================
