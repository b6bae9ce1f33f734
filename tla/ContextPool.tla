---------------------------- MODULE ContextPool ----------------------------
(***************************************************************************)
(* The life of gin's Context objects: ServeHTTP takes one from a           *)
(* sync.Pool, resets it and puts it back; handlers store keys in it, copy  *)
(* it, and start goroutines that use it or the copy at the same time.      *)
(*                                                                         *)
(* Every request has the goroutine that serves it and at most one helper,  *)
(* which its handler starts with the Context or with a copy, and which may *)
(* outlive the request.  Keys is a pointer to a map and Params one to an   *)
(* array, because both can be shared; either is named by the Context it    *)
(* was made for, which uses no two maps at a time.  One key is enough, and *)
(* a value is the request whose goroutine stored it.                       *)
(*                                                                         *)
(* An operator with an underscore in its name is a mutant of the one below *)
(* it.                                                                     *)
(***************************************************************************)
EXTENDS Integers, FiniteSets

CONSTANTS
    Requests,
    Pooled,     \* the Context objects that engine.pool allocates
    None,       \* no request, no Context, no goroutine, no value
    MaxHelpers  \* bound: helpers that run at the same time

CopyOf(r) == <<"copy", r>>
Copies == {CopyOf(r) : r \in Requests}
Contexts == Pooled \cup Copies

Goroutines == Requests \X {"server", "helper"}
Server(r) == <<r, "server">>
Helper(r) == <<r, "helper">>

ASSUME PoolAssumption ==
    /\ MaxHelpers \in Nat
    /\ None \notin Requests \cup Contexts \cup Goroutines
    /\ Pooled \cap Copies = {}

VARIABLES
    pool,       \* the Contexts in engine.pool
    serving,    \* the Context that each request's server holds
    done,       \* the requests that have ended, normally or in a panic
    ctx,        \* of each Context: Keys (a map), Params (an array, named by
                \* the Context it was made for), and the request whose
                \* connection its writer leads to
    maps,       \* the value of the key in each map, or None
    arrays,     \* the request whose path parameters each array holds
    lock,       \* c.mu: its writer and its readers
    on,         \* the Context that each goroutine works with
    pc,         \* where each goroutine is in a call on that Context
    cKeys,      \* the local variable of Copy
    copied,     \* the requests whose handler has made a copy
    misused,    \* history: Contexts whose last reset came while a helper
                \* held them, and the copies made of such a Context
    nilWrites,  \* history: Contexts through which a nil map was written
                \* since their last reset
    seen        \* history: the values the key had during the call of Copy

pvars == <<pool, serving, done, ctx, maps, arrays, lock, on, pc, cKeys, copied, misused,
           nilWrites, seen>>

In(m) == IF m = None THEN None ELSE maps[m]
Value(c) == In(ctx[c].keys)

Idle(g) == pc[g] = "idle" /\ on[g] # None
Go(g, from, to) == pc[g] = from /\ pc' = [pc EXCEPT ![g] = to]

Init ==
    /\ pool = {} /\ done = {}
    /\ serving = [r \in Requests |-> None]
    /\ ctx = [c \in Contexts |-> [keys |-> None, params |-> c, writer |-> None]]
    /\ maps = [c \in Contexts |-> None]
    /\ arrays = [c \in Contexts |-> None]
    /\ lock = [c \in Contexts |-> [writer |-> None, readers |-> {}]]
    /\ on = [g \in Goroutines |-> None] /\ pc = [g \in Goroutines |-> "idle"]
    /\ cKeys = [r \in Requests |-> None]
    /\ copied = {} /\ misused = {} /\ nilWrites = {} /\ seen = [r \in Requests |-> {}]

-----------------------------------------------------------------------------
(* The life of a request *)

(* Context.reset does not take the lock. *)
reset_KeepsKeys(c) == [keys |-> ctx[c].keys, params |-> c, writer |-> ctx[c].writer]
reset(c) == [keys |-> None, params |-> c, writer |-> ctx[c].writer]

Reset(c, r) ==
    /\ ctx' = [ctx EXCEPT ![c] = [reset(c) EXCEPT !.writer = r]]
    /\ misused' = (misused \ {c}) \cup {x \in {c} : \E g \in Goroutines \ {Server(r)} : on[g] = x}
    /\ nilWrites' = nilWrites \ {c}

(* ServeHTTP takes a Context from the pool, or the pool makes one; the      *)
(* look-up then writes this request's parameters into its array.            *)
ServeHTTP(r) ==
    /\ serving[r] = None /\ r \notin done
    /\ \E c \in Pooled :
          /\ c \in pool \/ arrays[c] = None
          /\ pool' = pool \ {c}
          /\ serving' = [serving EXCEPT ![r] = c]
          /\ on' = [on EXCEPT ![Server(r)] = c]
          /\ Reset(c, r)
          /\ arrays' = [arrays EXCEPT ![c] = r]
    /\ UNCHANGED <<done, maps, lock, pc, cKeys, copied, seen>>

(* The handler starts a goroutine with the Context or with its copy. *)
Start(r) ==
    /\ Idle(Server(r)) /\ on[Helper(r)] = None
    /\ Cardinality({q \in Requests : on[Helper(q)] # None}) < MaxHelpers
    /\ \E c \in {serving[r]} \cup {CopyOf(x) : x \in copied \cap {r}} :
          on' = [on EXCEPT ![Helper(r)] = c]
    /\ UNCHANGED <<pool, serving, done, ctx, maps, arrays, lock, pc, cKeys, copied, misused,
                   nilWrites, seen>>

HelperEnds(r) ==
    /\ Idle(Helper(r))
    /\ on' = [on EXCEPT ![Helper(r)] = None]
    /\ UNCHANGED <<pool, serving, done, ctx, maps, arrays, lock, pc, cKeys, copied, misused,
                   nilWrites, seen>>

(* HandleContext resets the Context and looks the new path up. *)
HandleContext_Puts(r) ==
    /\ Idle(Server(r))
    /\ Reset(serving[r], r)
    /\ pool' = pool \cup {serving[r]}
    /\ UNCHANGED <<serving, done, maps, arrays, lock, on, pc, cKeys, copied, seen>>
HandleContext(r) ==
    /\ Idle(Server(r))
    /\ Reset(serving[r], r)
    /\ UNCHANGED <<pool, serving, done, maps, arrays, lock, on, pc, cKeys, copied, seen>>

(* The handlers have returned; or a panic leaves ServeHTTP, which then does *)
(* not give the Context back.                                               *)
EndsWith(r, back) ==
    /\ Idle(Server(r))
    /\ done' = done \cup {r}
    /\ pool' = pool \cup back
    /\ serving' = [serving EXCEPT ![r] = None]
    /\ on' = [on EXCEPT ![Server(r)] = None]
    /\ UNCHANGED <<ctx, maps, arrays, lock, pc, cKeys, copied, misused, nilWrites, seen>>
Ends(r) == EndsWith(r, {serving[r]})
Panics(r) == EndsWith(r, {})

-----------------------------------------------------------------------------
(* The calls of a goroutine g on its Context: each waits for the lock,      *)
(* works on the map, and gives the lock back.                               *)

Write(g) == [lock[on[g]] EXCEPT !.writer = g]
Read(g) == [lock[on[g]] EXCEPT !.readers = @ \cup {g}]
Released(g) == [writer  |-> IF lock[on[g]].writer = g THEN None ELSE lock[on[g]].writer,
                readers |-> lock[on[g]].readers \ {g}]

Unchanged == UNCHANGED <<pool, serving, done, arrays, on, copied, misused>>

Lock_SharedDelete(g) ==
    /\ on[g] # None /\ lock[on[g]].writer = None
    /\ \/ /\ Go(g, "idle", "make") /\ lock[on[g]].readers = {}
          /\ lock' = [lock EXCEPT ![on[g]] = Write(g)]
       \/ Go(g, "idle", "delete") /\ lock' = [lock EXCEPT ![on[g]] = Read(g)]
    /\ Unchanged /\ UNCHANGED <<ctx, maps, cKeys, nilWrites, seen>>
Lock(g) ==
    /\ on[g] # None
    /\ Go(g, "idle", "make") \/ Go(g, "idle", "delete")
    /\ lock[on[g]] = [writer |-> None, readers |-> {}]
    /\ lock' = [lock EXCEPT ![on[g]] = Write(g)]
    /\ Unchanged /\ UNCHANGED <<ctx, maps, cKeys, nilWrites, seen>>

RLock(g) ==
    /\ on[g] # None
    /\ Go(g, "idle", "get") \/ Go(g, "Copy", "clone")
    /\ lock[on[g]].writer = None
    /\ lock' = [lock EXCEPT ![on[g]] = Read(g)]
    /\ Unchanged /\ UNCHANGED <<ctx, maps, cKeys, nilWrites, seen>>

(* Set: if c.Keys == nil { c.Keys = make(...) } *)
Make(g) ==
    /\ Go(g, "make", "assign")
    /\ IF ctx[on[g]].keys = None
       THEN ctx' = [ctx EXCEPT ![on[g]].keys = on[g]] /\ maps' = [maps EXCEPT ![on[g]] = None]
       ELSE UNCHANGED <<ctx, maps>>
    /\ Unchanged /\ UNCHANGED <<lock, cKeys, nilWrites, seen>>

(* ... and c.Keys[key] = value, which reads c.Keys again. *)
Store(c, value) ==
    IF ctx[c].keys = None THEN UNCHANGED maps ELSE maps' = [maps EXCEPT ![ctx[c].keys] = value]

Observed(c, value) ==
    seen' = [r \in Requests |-> IF pc[Server(r)] \in {"Copy", "clone"} /\ serving[r] = c
                                THEN seen[r] \cup {value} ELSE seen[r]]

Assign(g) ==
    /\ Go(g, "assign", "idle")
    /\ Store(on[g], g[1])
    /\ nilWrites' = nilWrites \cup {c \in {on[g]} : ctx[c].keys = None}
    /\ lock' = [lock EXCEPT ![on[g]] = Released(g)]
    /\ Observed(on[g], g[1])
    /\ Unchanged /\ UNCHANGED <<ctx, cKeys>>

Delete(g) ==
    /\ Go(g, "delete", "idle")
    /\ Store(on[g], None)
    /\ lock' = [lock EXCEPT ![on[g]] = Released(g)]
    /\ Observed(on[g], None)
    /\ Unchanged /\ UNCHANGED <<ctx, cKeys, nilWrites>>

Get(g) ==
    /\ Go(g, "get", "idle")
    /\ lock' = [lock EXCEPT ![on[g]] = Released(g)]
    /\ Unchanged /\ UNCHANGED <<ctx, maps, cKeys, nilWrites, seen>>

(* Copy: cKeys := c.Keys, before the lock is taken ... *)
CopyCalled(r) ==
    /\ Idle(Server(r)) /\ r \notin copied
    /\ Go(Server(r), "idle", "Copy")
    /\ cKeys' = [cKeys EXCEPT ![r] = ctx[serving[r]].keys]
    /\ seen' = [seen EXCEPT ![r] = {Value(serving[r])}]
    /\ Unchanged /\ UNCHANGED <<ctx, maps, lock, nilWrites>>

(* ... then a clone of the map under the lock, and a copy of the parameters.*)
(* The copy's writer has no connection.                                     *)
Clone_Shared(r) == [keys |-> cKeys[r], params |-> CopyOf(r), writer |-> None]
Clone(r) == [keys |-> IF cKeys[r] = None THEN None ELSE CopyOf(r),
             params |-> CopyOf(r), writer |-> None]

Copy(r) ==
    /\ Go(Server(r), "clone", "idle")
    /\ ctx' = [ctx EXCEPT ![CopyOf(r)] = Clone(r)]
    /\ maps' = [maps EXCEPT ![CopyOf(r)] = In(cKeys[r])]
    /\ arrays' = [arrays EXCEPT ![CopyOf(r)] = arrays[ctx[serving[r]].params]]
    /\ lock' = [lock EXCEPT ![serving[r]] = Released(Server(r))]
    /\ cKeys' = [cKeys EXCEPT ![r] = None]
    /\ copied' = copied \cup {r}
    /\ misused' = misused \cup {c \in {CopyOf(r)} : serving[r] \in misused}
    /\ seen' = [seen EXCEPT ![r] = {}]
    /\ UNCHANGED <<pool, serving, done, on, nilWrites>>

-----------------------------------------------------------------------------

Next ==
    \/ \E r \in Requests :
          \/ ServeHTTP(r) \/ Start(r) \/ HelperEnds(r) \/ HandleContext(r) \/ Ends(r) \/ Panics(r)
          \/ CopyCalled(r) \/ Copy(r)
    \/ \E g \in Goroutines : Lock(g) \/ RLock(g) \/ Make(g) \/ Assign(g) \/ Delete(g) \/ Get(g)

Spec == Init /\ [][Next]_pvars

-----------------------------------------------------------------------------
(* Properties *)

(* A Context belongs to one request at a time, and never to one while it is *)
(* in the pool (gin.go:728-735).                                            *)
Exclusive ==
    \A r \in Requests : serving[r] # None =>
        /\ serving[r] \notin pool
        /\ \A q \in Requests \ {r} : serving[q] # serving[r]

(* The strengthening of Exclusive that is inductive: what is in the pool or *)
(* in use was allocated, so the pool does not make it again, and a request's*)
(* server works with the Context that the request holds.                    *)
Held ==
    /\ serving \in [Requests -> Pooled \cup {None}]
    /\ arrays = [c \in Contexts |-> arrays[c]]
    /\ on = [g \in Goroutines |-> on[g]]
    /\ \A c \in pool : c \in Pooled /\ arrays[c] # None
    /\ \A r \in Requests :
          /\ on[Server(r)] = serving[r]
          /\ serving[r] # None => arrays[serving[r]] # None

(* Every goroutine finds its own request in the Context or copy it holds:   *)
(* keys, parameters and connection.  Only a Context that was reset while a  *)
(* helper still held it can mix two requests; a copy cannot                 *)
(* (context.go:120-121).                                                    *)
OwnData ==
    \A g \in Goroutines : on[g] # None /\ on[g] \notin misused =>
        LET c == ctx[on[g]] IN
        /\ Value(on[g]) \in {g[1], None}
        /\ arrays[c.params] = g[1]
        /\ c.writer = (IF on[g] \in Copies THEN None ELSE g[1])

(* A copy holds a value the key had during the call of Copy, and from then  *)
(* on only its own holder changes it.                                       *)
CopyApart ==
    [][\A r \in Requests :
         /\ r \in copied' \ copied => Value(CopyOf(r))' \in seen[r]
         /\ r \in copied /\ Value(CopyOf(r))' # Value(CopyOf(r)) => lock[CopyOf(r)].writer = Helper(r)
      ]_pvars

(* No goroutine writes a map another one uses, which ends the process, and  *)
(* only through a misused Context is a nil map written (context.go:275).    *)
Using(g) == IF pc[g] = "clone" THEN cKeys[g[1]] ELSE ctx[on[g]].keys
MapsSafe ==
    /\ \A g, h \in Goroutines :
          (g # h /\ pc[g] \in {"assign", "delete"} /\ pc[h] \in {"assign", "delete", "get", "clone"})
              => Using(g) # Using(h) \/ Using(g) = None
    /\ nilWrites \subseteq misused

(* The other parts of the invariant behind OwnData, CopyApart and MapsSafe. *)
TypeOK ==
    /\ ctx \in [Contexts -> [keys : Contexts \cup {None}, params : Contexts,
                             writer : Requests \cup {None}]]
    /\ maps \in [Contexts -> Requests \cup {None}]
    /\ arrays \in [Contexts -> Requests \cup {None}]
    /\ lock \in [Contexts -> [writer : Goroutines \cup {None}, readers : SUBSET Goroutines]]
    /\ on \in [Goroutines -> Contexts \cup {None}]
    /\ pc \in [Goroutines -> {"idle", "make", "assign", "delete", "get", "Copy", "clone"}]
    /\ cKeys \in [Requests -> Contexts \cup {None}]
    /\ seen \in [Requests -> SUBSET (Requests \cup {None})]
    /\ copied \subseteq Requests /\ misused \subseteq Contexts

(* A Context has a map and an array of its own.  They hold what belongs to  *)
(* the request its writer leads to, which is also the request of every      *)
(* goroutine on it, or to the request it is a copy for.                     *)
Mine ==
    /\ \A c \in Contexts : ctx[c].params = c /\ ctx[c].keys \in {None, c}
    /\ \A c \in Pooled :
          /\ arrays[c] = ctx[c].writer
          /\ c \notin misused /\ ctx[c].keys # None => maps[c] \in {ctx[c].writer, None}
    /\ \A r \in Requests :
          /\ serving[r] # None => ctx[serving[r]].writer = r
          /\ ctx[CopyOf(r)].writer = None
          /\ CopyOf(r) \notin misused /\ ctx[CopyOf(r)].keys # None => maps[CopyOf(r)] \in {r, None}
          /\ r \in copied => arrays[CopyOf(r)] = r
    /\ \A g \in Goroutines :
          /\ on[g] \in Pooled \ misused => ctx[on[g]].writer = g[1]
          /\ on[g] \in Copies => on[g] = CopyOf(g[1]) /\ g[1] \in copied

(* Where a goroutine is says which lock it holds. *)
Locked ==
    /\ \A c \in Contexts : lock[c].writer # None => lock[c].readers = {}
    /\ \A g \in Goroutines :
          /\ pc[g] # "idle" => on[g] # None
          /\ pc[g] \in {"make", "assign", "delete"} => lock[on[g]].writer = g
          /\ pc[g] \in {"get", "clone"} => g \in lock[on[g]].readers
    /\ \A r \in Requests : pc[Helper(r)] \notin {"Copy", "clone"}

(* The map that Copy read before it took the lock is still the Context's.   *)
Copying ==
    \A r \in Requests : pc[Server(r)] \in {"Copy", "clone"} =>
        /\ r \notin copied
        /\ cKeys[r] # None => cKeys[r] = serving[r] /\ ctx[serving[r]].keys = serving[r]
        /\ In(cKeys[r]) \in seen[r]

(* Between the two halves of Set there is a map, unless there was a reset.  *)
Filled ==
    /\ \A g \in Goroutines : pc[g] = "assign" /\ on[g] \notin misused => ctx[on[g]].keys # None
    /\ nilWrites \subseteq misused

IInv == TypeOK /\ Held /\ Exclusive /\ Mine /\ Locked /\ Copying /\ Filled
=============================================================================
