---------------------------- MODULE RouterGroup ----------------------------
(***************************************************************************)
(* The configuration calls of a program: Use, Group, Handle and its        *)
(* relatives, NoRoute and NoMethod.  Handler lists are Go slices over      *)
(* arrays in the heap, so that two lists may share an array: append        *)
(* writes into the spare capacity of its argument, combineHandlers makes   *)
(* an array of its own, and NoRoute keeps the caller's.                    *)
(*                                                                         *)
(* groups[1] is the Engine's own group.  An operator with an underscore in *)
(* its name is a mutant of the one below it.                               *)
(***************************************************************************)
EXTENDS Integers, Sequences

CONSTANTS
    HandlerFuncs,   \* the handlers of the program
    Lists,          \* the lists of handlers it passes
    Methods,        \* the HTTP methods it registers routes for
    Segments,       \* relative paths, one segment each
    Nil,            \* the content of an array's spare cells
    AbortIndex,     \* abortIndex, 63 in the code
    Spare,          \* bound: cells that append allocates beyond what it needs
    MaxGroups, MaxArrays \* bounds: groups made, arrays allocated

ASSUME GroupsAssumption ==
    /\ AbortIndex \in Nat \ {0}
    /\ Lists \subseteq Seq(HandlerFuncs)
    /\ Nil \notin HandlerFuncs
    /\ Spare \in Nat /\ MaxGroups \in Nat /\ MaxArrays \in Nat

VARIABLES
    heap,       \* the arrays: heap[a] has as many cells as its capacity
    groups,     \* the RouterGroups: their Handlers and basePath
    routes,     \* the handlers stored in the trees, by method and path
    noRoute, noMethod,          \* engine.noRoute, engine.noMethod
    allNoRoute, allNoMethod,    \* the chains that serveError runs
    failed,     \* history: a rebuild of those chains panicked
    reused      \* history: the program wrote to a list it gave to NoRoute
                \* or NoMethod

gvars == <<heap, groups, routes, noRoute, noMethod, allNoRoute, allNoMethod, failed, reused>>

-----------------------------------------------------------------------------
(* Slices *)

NoSlice == [arr |-> 0, len |-> 0]
Elements(h, s) == IF s.len = 0 THEN <<>> ELSE SubSeq(h[s.arr], 1, s.len)
Cap(h, s) == IF s.arr = 0 THEN 0 ELSE Len(h[s.arr])

(* make(HandlersChain, n) filled by copy, or the array of a variadic call *)
Made(h, list) == [heap |-> Append(h, list), slice |-> [arr |-> Len(h) + 1, len |-> Len(list)]]

(* append(s, list...), which allocates extra cells when it has to grow *)
Appended(h, s, list, extra) ==
    LET n == s.len + Len(list) IN
    IF n <= Cap(h, s)
    THEN [heap  |-> IF n = 0 THEN h
                    ELSE [h EXCEPT ![s.arr] = [i \in 1..Len(@) |->
                             IF i \in s.len + 1 .. n THEN list[i - s.len] ELSE @[i]]],
          slice |-> [s EXCEPT !.len = n]]
    ELSE [heap  |-> Append(h, Elements(h, s) \o list \o [i \in 1..extra |-> Nil]),
          slice |-> [arr |-> Len(h) + 1, len |-> n]]

(* combineHandlers, and its assertion on the length *)
Fits_Inclusive(s, n) == s.len + n <= AbortIndex
Fits(s, n) == s.len + n < AbortIndex
combineHandlers_Append(h, s, list) == Appended(h, s, list, 0)
combineHandlers(h, s, list) == Made(h, Elements(h, s) \o list)

-----------------------------------------------------------------------------

Paths == UNION {[1..n -> Segments] : n \in 1..MaxGroups}
Keys == Methods \X Paths

(* New() *)
Init ==
    /\ heap = <<>>
    /\ groups = <<[handlers |-> NoSlice, base |-> <<>>]>>
    /\ routes = [k \in Keys |-> NoSlice]
    /\ noRoute = NoSlice /\ noMethod = NoSlice
    /\ allNoRoute = NoSlice /\ allNoMethod = NoSlice
    /\ failed = FALSE /\ reused = FALSE

(* Engine.Use: append to the root's list, then rebuild the chain for 404    *)
(* and the one for 405; each rebuild may panic and leaves the rest undone.  *)
EngineUse_404Only(list) ==
    \E extra \in 0..Spare :
       LET used  == Appended(heap, groups[1].handlers, list, extra)
           for404 == combineHandlers(used.heap, used.slice, Elements(used.heap, noRoute))
       IN /\ groups' = [groups EXCEPT ![1].handlers = used.slice]
          /\ Fits(used.slice, noRoute.len)
          /\ heap' = for404.heap /\ allNoRoute' = for404.slice
          /\ UNCHANGED <<routes, noRoute, noMethod, allNoMethod, failed, reused>>
EngineUse(list) ==
    \E extra \in 0..Spare :
       LET used  == Appended(heap, groups[1].handlers, list, extra)
           for404 == combineHandlers(used.heap, used.slice, Elements(used.heap, noRoute))
           for405 == combineHandlers(for404.heap, used.slice, Elements(used.heap, noMethod))
       IN /\ groups' = [groups EXCEPT ![1].handlers = used.slice]
          /\ \/ /\ ~Fits(used.slice, noRoute.len)
                /\ heap' = used.heap /\ failed' = TRUE
                /\ UNCHANGED <<allNoRoute, allNoMethod>>
             \/ /\ Fits(used.slice, noRoute.len) /\ ~Fits(used.slice, noMethod.len)
                /\ heap' = for404.heap /\ allNoRoute' = for404.slice /\ failed' = TRUE
                /\ UNCHANGED allNoMethod
             \/ /\ Fits(used.slice, noRoute.len) /\ Fits(used.slice, noMethod.len)
                /\ heap' = for405.heap
                /\ allNoRoute' = for404.slice /\ allNoMethod' = for405.slice
                /\ UNCHANGED failed
          /\ UNCHANGED <<routes, noRoute, noMethod, reused>>

(* RouterGroup.Use of a group made by Group *)
Use(g, list) ==
    /\ g # 1
    /\ \E extra \in 0..Spare :
          LET used == Appended(heap, groups[g].handlers, list, extra)
          IN heap' = used.heap /\ groups' = [groups EXCEPT ![g].handlers = used.slice]
    /\ UNCHANGED <<routes, noRoute, noMethod, allNoRoute, allNoMethod, failed, reused>>

(* RouterGroup.Group *)
Group(g, seg, list) ==
    /\ Len(groups) < MaxGroups
    /\ Fits(groups[g].handlers, Len(list))
    /\ LET made == combineHandlers(heap, groups[g].handlers, list)
       IN /\ heap' = made.heap
          /\ groups' = Append(groups, [handlers |-> made.slice, base |-> Append(groups[g].base, seg)])
    /\ UNCHANGED <<routes, noRoute, noMethod, allNoRoute, allNoMethod, failed, reused>>

(* RouterGroup.handle: the chain is stored in the method's tree, unless the *)
(* path is taken.  GET and its like are one call of it; Any, Match and      *)
(* Static are one per method and may end in a panic after any of them.      *)
Handle(g, method, seg, list) ==
    LET key  == <<method, Append(groups[g].base, seg)>>
        made == combineHandlers(heap, groups[g].handlers, list)
    IN /\ key \in Keys
       /\ Fits(groups[g].handlers, Len(list))
       /\ made.slice.len > 0
       /\ routes[key] = NoSlice
       /\ heap' = made.heap
       /\ routes' = [routes EXCEPT ![key] = made.slice]
       /\ UNCHANGED <<groups, noRoute, noMethod, allNoRoute, allNoMethod, failed, reused>>

(* NoRoute(list...) and NoMethod(list...) keep the caller's slice. *)
NoRoute(list) ==
    LET given == Made(heap, list)
        made  == combineHandlers(given.heap, groups[1].handlers, list)
    IN /\ noRoute' = given.slice
       /\ \/ /\ Fits(groups[1].handlers, Len(list))
             /\ heap' = made.heap /\ allNoRoute' = made.slice
             /\ UNCHANGED failed
          \/ /\ ~Fits(groups[1].handlers, Len(list))
             /\ heap' = given.heap /\ failed' = TRUE
             /\ UNCHANGED allNoRoute
       /\ UNCHANGED <<groups, routes, noMethod, allNoMethod, reused>>

NoMethod(list) ==
    LET given == Made(heap, list)
        made  == combineHandlers(given.heap, groups[1].handlers, list)
    IN /\ noMethod' = given.slice
       /\ \/ /\ Fits(groups[1].handlers, Len(list))
             /\ heap' = made.heap /\ allNoMethod' = made.slice
             /\ UNCHANGED failed
          \/ /\ ~Fits(groups[1].handlers, Len(list))
             /\ heap' = given.heap /\ failed' = TRUE
             /\ UNCHANGED allNoMethod
       /\ UNCHANGED <<groups, routes, noRoute, allNoRoute, reused>>

(* The program writes to a list it has given to NoRoute or NoMethod. *)
Reuse ==
    /\ \E s \in {noRoute, noMethod}, f \in HandlerFuncs :
          \E i \in 1..s.len : heap' = [heap EXCEPT ![s.arr][i] = f]
    /\ reused' = TRUE
    /\ UNCHANGED <<groups, routes, noRoute, noMethod, allNoRoute, allNoMethod, failed>>

Next ==
    /\ Len(heap) < MaxArrays
    /\ \/ \E list \in Lists : EngineUse(list) \/ NoRoute(list) \/ NoMethod(list)
       \/ \E g \in 1..Len(groups), list \in Lists :
             \/ Use(g, list)
             \/ \E seg \in Segments : Group(g, seg, list)
             \/ \E method \in Methods, seg \in Segments : Handle(g, method, seg, list)
       \/ Reuse

Spec == Init /\ [][Next]_gvars

-----------------------------------------------------------------------------
(* Properties *)

Read(s) == Elements(heap, s)

(* The chains that serve unmatched requests are the Engine's middleware     *)
(* followed by what NoRoute or NoMethod was given, whatever was called      *)
(* since (gin.go:380-382), unless a rebuild panicked.                       *)
MissChains ==
    ~failed /\ ~reused
        => /\ Read(allNoRoute) = Read(groups[1].handlers) \o Read(noRoute)
           /\ Read(allNoMethod) = Read(groups[1].handlers) \o Read(noMethod)

(* Every chain that Context.Next may be given is shorter than abortIndex,   *)
(* also after a panic that the program recovered from; so is the list that  *)
(* the file handler installs, unless a rebuild panicked.                    *)
ChainsFit ==
    /\ \A s \in {routes[k] : k \in Keys} \cup {allNoRoute, allNoMethod} : s.len < AbortIndex
    /\ ~failed => noRoute.len < AbortIndex

(* The strengthening of ChainsFit that is inductive: a slice lies within its*)
(* array, so that it has as many elements as its length says.               *)
Cells == HandlerFuncs \cup {Nil}
Within(h, s) ==
    /\ s \in [arr : Nat, len : Nat]
    /\ s.arr # 0 => s.arr \in DOMAIN h
    /\ s.len <= Cap(h, s)
SlicesWithin ==
    /\ heap \in Seq(Seq(Cells))
    /\ groups \in Seq([handlers : [arr : Nat, len : Nat], base : Seq(Segments)]) /\ groups # <<>>
    /\ routes \in [Keys -> [arr : Nat, len : Nat]]
    /\ failed \in BOOLEAN
    /\ \A g \in DOMAIN groups : Within(heap, groups[g].handlers)
    /\ \A k \in Keys : Within(heap, routes[k])
    /\ \A s \in {noRoute, noMethod, allNoRoute, allNoMethod} : Within(heap, s)

(* The arrays that are written to, by an append or from outside, belong to  *)
(* one list each.  Behind MissChains and the refinement.                    *)
Disjoint(s, t) == s.arr = t.arr => s.arr = 0
Chains == {routes[k] : k \in Keys} \cup {allNoRoute, allNoMethod}
ArraysApart ==
    /\ \A g, f \in DOMAIN groups : g # f => Disjoint(groups[g].handlers, groups[f].handlers)
    /\ \A g \in DOMAIN groups : \A t \in Chains \cup {noRoute, noMethod} : Disjoint(groups[g].handlers, t)
    /\ \A t \in Chains : Disjoint(noRoute, t) /\ Disjoint(noMethod, t)
    /\ Disjoint(noRoute, noMethod)

(* What the calls promise over lists as values: see Registration.           *)
Middleware == [g \in 1..Len(groups) |-> Read(groups[g].handlers)]
Base == [g \in 1..Len(groups) |-> groups[g].base]
Table == [k \in Keys |-> Read(routes[k])]
Given == [c \in {404, 405} |-> Read(IF c = 404 THEN noRoute ELSE noMethod)]
Miss == [c \in {404, 405} |-> Read(IF c = 404 THEN allNoRoute ELSE allNoMethod)]

Abstract == INSTANCE Registration WITH
    middleware <- Middleware, base <- Base, table <- Table, given <- Given, miss <- Miss
RegistrationSpec == Abstract!Spec
=============================================================================
