---------------------------- MODULE Registration ----------------------------
(***************************************************************************)
(* What the configuration calls promise, with lists of handlers as values: *)
(* a call changes the group it is called on and nothing else, and a        *)
(* route keeps the middleware its group had when it was registered.        *)
(***************************************************************************)
EXTENDS Integers, Sequences

CONSTANTS HandlerFuncs, Lists, Methods, Segments, AbortIndex

VARIABLES
    middleware,     \* the middleware of every group; middleware[1] is global
    base,           \* the base path of every group
    table,          \* the chain of every route, <<>> if there is none
    given,          \* what NoRoute (404) and NoMethod (405) were given
    miss            \* the chains for unmatched requests

avars == <<middleware, base, table, given, miss>>

Init ==
    /\ middleware = <<<<>>>> /\ base = <<<<>>>>
    /\ \A k \in DOMAIN table : table[k] = <<>>
    /\ given = [c \in {404, 405} |-> <<>>] /\ miss = given

Fits(a, b) == Len(a) + Len(b) < AbortIndex

(* A group gets more middleware, the Engine for its unmatched requests too. *)
Use(g, list) ==
    /\ g # 1
    /\ middleware' = [middleware EXCEPT ![g] = @ \o list]
    /\ UNCHANGED <<base, table, given, miss>>

EngineUse(list) ==
    LET global == middleware[1] \o list
        done(c) == Fits(global, given[404]) /\ (c = 405 => Fits(global, given[405]))
    IN /\ middleware' = [middleware EXCEPT ![1] = global]
       /\ miss' = [c \in {404, 405} |-> IF done(c) THEN global \o given[c] ELSE miss[c]]
       /\ UNCHANGED <<base, table, given>>

Group(g, seg, list) ==
    /\ Fits(middleware[g], list)
    /\ middleware' = Append(middleware, middleware[g] \o list)
    /\ base' = Append(base, Append(base[g], seg))
    /\ UNCHANGED <<table, given, miss>>

Handle(g, method, seg, list) ==
    LET key == <<method, Append(base[g], seg)>> IN
    /\ Fits(middleware[g], list)
    /\ table[key] = <<>>
    /\ table' = [table EXCEPT ![key] = middleware[g] \o list]
    /\ UNCHANGED <<middleware, base, given, miss>>

NoMatch(c, list) ==
    /\ given' = [given EXCEPT ![c] = list]
    /\ miss' = IF Fits(middleware[1], list) THEN [miss EXCEPT ![c] = middleware[1] \o list] ELSE miss
    /\ UNCHANGED <<middleware, base, table>>

(* Only the list kept by NoRoute or NoMethod can be changed from outside.   *)
Reuse ==
    /\ \E c \in {404, 405}, f \in HandlerFuncs :
          \E i \in 1..Len(given[c]) : given' = [given EXCEPT ![c][i] = f]
    /\ UNCHANGED <<middleware, base, table, miss>>

Next ==
    \/ \E list \in Lists : EngineUse(list) \/ \E c \in {404, 405} : NoMatch(c, list)
    \/ \E g \in 1..Len(middleware), list \in Lists :
          \/ Use(g, list)
          \/ \E seg \in Segments : Group(g, seg, list)
          \/ \E method \in Methods, seg \in Segments : Handle(g, method, seg, list)
    \/ Reuse

Spec == Init /\ [][Next]_avars
=============================================================================
