------------------------- MODULE ContextPoolProofs -------------------------
(***************************************************************************)
(* For every set of requests and Contexts: who holds a Context, whose data  *)
(* it carries, what a copy keeps, and that the maps are used under the lock.*)
(***************************************************************************)
EXTENDS ContextPool, TLAPS

(* A server and a helper are different goroutines.                          *)
LEMMA Distinct ==
    ASSUME NEW q \in Requests, NEW r \in Requests
    PROVE  /\ Server(r) \in Goroutines /\ Helper(r) \in Goroutines
           /\ Helper(q) # Server(r)
           /\ q # r => Server(q) # Server(r)
BY DEF Server, Helper, Goroutines

(* ServeHTTP: the Context comes from the pool, or was never allocated.      *)
LEMMA ServeInv ==
    ASSUME NEW r \in Requests, Held, Exclusive, ServeHTTP(r)
    PROVE  Held' /\ Exclusive'
<1>. PICK c \in Pooled :
        /\ c \in pool \/ arrays[c] = None
        /\ pool' = pool \ {c}
        /\ serving' = [serving EXCEPT ![r] = c]
        /\ on' = [on EXCEPT ![Server(r)] = c]
        /\ arrays' = [arrays EXCEPT ![c] = r]
  BY DEF ServeHTTP
<1>1. r # None /\ c # None /\ c \in Contexts
  BY PoolAssumption DEF Contexts
<1>2. \A q \in Requests : serving[q] # c
  <2>1. ASSUME NEW q \in Requests, serving[q] = c PROVE FALSE
    <3>1. arrays[c] # None /\ c \notin pool
      BY <2>1, <1>1 DEF Held, Exclusive
    <3>. QED BY <3>1
  <2>. QED BY <2>1
<1>3. \A q \in Requests : serving'[q] = IF q = r THEN c ELSE serving[q]
  BY DEF Held
<1>4. \A x \in Contexts : arrays'[x] = IF x = c THEN r ELSE arrays[x]
  BY DEF Held
<1>5. \A q \in Requests : on'[Server(q)] = serving'[q]
  <2>. TAKE q \in Requests
  <2>. QED BY <1>3, Distinct DEF Held
<1>6. \A x \in pool' : x \in Pooled /\ arrays'[x] # None
  BY <1>1, <1>4 DEF Held, Contexts
<1>7. \A q \in Requests : serving'[q] # None => arrays'[serving'[q]] # None
  <2>. TAKE q \in Requests
  <2>1. serving[q] # None => serving[q] \in Contexts
    BY DEF Held, Contexts
  <2>. QED BY <2>1, <1>1, <1>3, <1>4 DEF Held
<1>8. Exclusive'
  BY <1>1, <1>2, <1>3 DEF Exclusive
<1>9. /\ serving' \in [Requests -> Pooled \cup {None}]
      /\ arrays' = [x \in Contexts |-> arrays'[x]]
      /\ on' = [g \in Goroutines |-> on'[g]]
  BY DEF Held
<1>. QED BY <1>5, <1>6, <1>7, <1>8, <1>9 DEF Held

(* The end of a request, with the Context put back or lost.                 *)
LEMMA EndInv ==
    ASSUME NEW r \in Requests, NEW back \in SUBSET {serving[r]}, Held, Exclusive, EndsWith(r, back)
    PROVE  Held' /\ Exclusive'
<1>1. /\ pool' = pool \cup back
      /\ serving' = [serving EXCEPT ![r] = None]
      /\ on' = [on EXCEPT ![Server(r)] = None]
      /\ arrays' = arrays
  BY DEF EndsWith
<1>2. serving[r] # None
  BY DEF EndsWith, Idle, Held
<1>3. \A q \in Requests : serving'[q] = IF q = r THEN None ELSE serving[q]
  BY <1>1 DEF Held
<1>4. \A q \in Requests : on'[Server(q)] = serving'[q]
  <2>. TAKE q \in Requests
  <2>. QED BY <1>1, <1>3, Distinct DEF Held
<1>5. \A x \in pool' : x \in Pooled /\ arrays'[x] # None
  BY <1>1, <1>2 DEF Held
<1>6. Exclusive'
  BY <1>1, <1>2, <1>3 DEF Exclusive
<1>7. \A q \in Requests : serving'[q] # None => arrays'[serving'[q]] # None
  BY <1>1, <1>3 DEF Held
<1>8. /\ serving' \in [Requests -> Pooled \cup {None}]
      /\ arrays' = [x \in Contexts |-> arrays'[x]]
      /\ on' = [g \in Goroutines |-> on'[g]]
  BY <1>1 DEF Held
<1>. QED BY <1>4, <1>5, <1>6, <1>7, <1>8 DEF Held

(* A step that changes nothing but which Context a helper works with.       *)
LEMMA HelperInv ==
    ASSUME NEW r \in Requests, Held, Exclusive, Start(r) \/ HelperEnds(r)
    PROVE  Held' /\ Exclusive'
<1>1. PICK c : on' = [on EXCEPT ![Helper(r)] = c]
  BY DEF Start, HelperEnds
<1>2. UNCHANGED <<pool, serving, arrays>>
  BY DEF Start, HelperEnds
<1>3. \A q \in Requests : on'[Server(q)] = on[Server(q)]
  <2>. TAKE q \in Requests
  <2>. QED BY <1>1, Distinct DEF Held
<1>4. on' = [g \in Goroutines |-> on'[g]]
  BY <1>1 DEF Held
<1>. QED BY <1>2, <1>3, <1>4 DEF Held, Exclusive

(* Copy: the array it fills is the copy's own.                              *)
LEMMA CopyInv ==
    ASSUME NEW r \in Requests, Held, Exclusive, Copy(r)
    PROVE  Held' /\ Exclusive'
<1>1. UNCHANGED <<pool, serving, on>>
  BY DEF Copy
<1>2. PICK x : arrays' = [arrays EXCEPT ![CopyOf(r)] = x]
  BY DEF Copy
<1>3. \A c \in Pooled : arrays'[c] = arrays[c]
  BY <1>2, PoolAssumption DEF Held, Contexts, Copies
<1>4. arrays' = [c \in Contexts |-> arrays'[c]]
  BY <1>2 DEF Held
<1>. QED BY <1>1, <1>3, <1>4 DEF Held, Exclusive

(* The calls on the key store, HandleContext and the first step of Copy.    *)
LEMMA OtherInv ==
    ASSUME Held, Exclusive, UNCHANGED <<pool, serving, arrays, on>>
    PROVE  Held' /\ Exclusive'
BY DEF Held, Exclusive

-----------------------------------------------------------------------------
(* The parts of the state *)

(* A copy and a goroutine belong to one request.                           *)
LEMMA Names ==
    ASSUME NEW r \in Requests
    PROVE  /\ CopyOf(r) \in Copies /\ CopyOf(r) \in Contexts /\ CopyOf(r) \notin Pooled
           /\ \A q \in Requests : CopyOf(q) = CopyOf(r) => q = r
           /\ Server(r)[1] = r /\ Helper(r)[1] = r
BY PoolAssumption DEF CopyOf, Copies, Contexts, Server, Helper

(* A goroutine is a request's server or its helper.                        *)
LEMMA Kinds ==
    ASSUME NEW g \in Goroutines
    PROVE  /\ g[1] \in Requests /\ g # None
           /\ g = Server(g[1]) \/ g = Helper(g[1])
BY PoolAssumption DEF Goroutines, Server, Helper

(* Every Context of a server is one of the pool.                            *)
LEMMA Servers ==
    ASSUME NEW r \in Requests, Held, on[Server(r)] # None
    PROVE  serving[r] = on[Server(r)] /\ serving[r] \in Pooled /\ serving[r] \in Contexts
BY DEF Held, Contexts

(* A reset empties one Context, gives it to r, and clears its record unless *)
(* another goroutine is on it.                                              *)
LEMMA ResetOne ==
    ASSUME TypeOK, NEW c \in Pooled, NEW r \in Requests, Reset(c, r)
    PROVE  /\ \A x \in Contexts :
                 ctx'[x] = IF x = c THEN [keys |-> None, params |-> c, writer |-> r] ELSE ctx[x]
           /\ \A x \in Contexts \ {c} : x \in misused' <=> x \in misused
           /\ c \notin misused' => \A g \in Goroutines \ {Server(r)} : on[g] # c
           /\ misused' \subseteq Contexts
           /\ nilWrites' = nilWrites \ {c}
           /\ ctx' \in [Contexts -> [keys : Contexts \cup {None}, params : Contexts,
                                     writer : Requests \cup {None}]]
<1>1. [reset(c) EXCEPT !.writer = r] = [keys |-> None, params |-> c, writer |-> r]
  BY DEF reset
<1>2. ctx' = [ctx EXCEPT ![c] = [keys |-> None, params |-> c, writer |-> r]]
  BY <1>1 DEF Reset
<1>3. c \in Contexts
  BY DEF Contexts
<1>4. /\ \A x \in Contexts :
            ctx'[x] = IF x = c THEN [keys |-> None, params |-> c, writer |-> r] ELSE ctx[x]
      /\ ctx' \in [Contexts -> [keys : Contexts \cup {None}, params : Contexts,
                                writer : Requests \cup {None}]]
  BY <1>2, <1>3 DEF TypeOK
<1>5. /\ misused' = (misused \ {c}) \cup {x \in {c} : \E g \in Goroutines \ {Server(r)} : on[g] = x}
      /\ nilWrites' = nilWrites \ {c}
  BY DEF Reset
<1>6. c \notin misused' => \A g \in Goroutines \ {Server(r)} : on[g] # c
  BY <1>5
<1>7. misused' \subseteq Contexts /\ \A x \in Contexts \ {c} : x \in misused' <=> x \in misused
  BY <1>3, <1>5 DEF TypeOK
<1>. QED BY <1>4, <1>5, <1>6, <1>7

(* A store through the Context c changes c's own map, if it has one.        *)
LEMMA StoreOne ==
    ASSUME TypeOK, Mine, NEW c \in Contexts, NEW value \in Requests \cup {None}, Store(c, value)
    PROVE  /\ \A x \in Contexts : maps'[x] = IF x = c /\ ctx[c].keys # None THEN value ELSE maps[x]
           /\ maps' \in [Contexts -> Requests \cup {None}]
<1>1. ctx[c].keys \in {None, c}
  BY DEF Mine
<1>. QED BY <1>1 DEF Store, TypeOK

(* A step of a goroutine moves its own program counter.                     *)
LEMMA GoOne ==
    ASSUME TypeOK, NEW g \in Goroutines, NEW from, NEW to, Go(g, from, to)
    PROVE  /\ pc[g] = from
           /\ \A h \in Goroutines : pc'[h] = IF h = g THEN to ELSE pc[h]
BY DEF TypeOK, Go

(* Whoever holds the lock of a Context to write gives it back.              *)
LEMMA ReleaseOne ==
    ASSUME TypeOK, NEW g \in Goroutines, on[g] # None,
           lock' = [lock EXCEPT ![on[g]] = Released(g)]
    PROVE  /\ on[g] \in Contexts
           /\ \A x \in Contexts :
                 /\ lock'[x].writer = IF x = on[g] /\ lock[x].writer = g THEN None ELSE lock[x].writer
                 /\ lock'[x].readers = IF x = on[g] THEN lock[x].readers \ {g} ELSE lock[x].readers
           /\ lock' \in [Contexts -> [writer : Goroutines \cup {None}, readers : SUBSET Goroutines]]
<1>1. on[g] \in Contexts
  BY DEF TypeOK
<1>2. lock[on[g]] \in [writer : Goroutines \cup {None}, readers : SUBSET Goroutines]
  BY <1>1 DEF TypeOK
<1>3. Released(g) \in [writer : Goroutines \cup {None}, readers : SUBSET Goroutines]
  BY <1>2 DEF Released
<1>. QED BY <1>1, <1>2, <1>3 DEF TypeOK, Released

-----------------------------------------------------------------------------
(* The life of a request *)

(* What ServeHTTP and HandleContext do to the Context c of r.               *)
Renewed(c, r) ==
    /\ c \in Pooled
    /\ \A q \in Requests \ {r} : serving[q] # c
    /\ serving' = [serving EXCEPT ![r] = c]
    /\ on' = [on EXCEPT ![Server(r)] = c]
    /\ arrays' = [arrays EXCEPT ![c] = r]
    /\ pc[Server(r)] = "idle"
    /\ Reset(c, r)
    /\ UNCHANGED <<done, maps, lock, pc, cKeys, copied, seen>>

(* A request takes a Context from the pool and renews it.                  *)
LEMMA ServeRenews ==
    ASSUME IInv, NEW r \in Requests, ServeHTTP(r)
    PROVE  \E c \in Pooled : Renewed(c, r)
<1>1. PICK c \in Pooled :
        /\ c \in pool \/ arrays[c] = None
        /\ serving' = [serving EXCEPT ![r] = c]
        /\ on' = [on EXCEPT ![Server(r)] = c]
        /\ Reset(c, r)
        /\ arrays' = [arrays EXCEPT ![c] = r]
  BY DEF ServeHTTP
<1>2. c # None
  BY PoolAssumption DEF Contexts
<1>3. \A q \in Requests : serving[q] # c
  BY <1>1, <1>2 DEF IInv, Held, Exclusive
<1>4. pc[Server(r)] = "idle"
  BY Distinct DEF IInv, Locked, Held, ServeHTTP
<1>. QED BY <1>1, <1>3, <1>4 DEF ServeHTTP, Renewed

(* HandleContext renews the Context it is given.                           *)
LEMMA HandleRenews ==
    ASSUME IInv, NEW r \in Requests, HandleContext(r)
    PROVE  Renewed(serving[r], r)
<1>1. Server(r) \in Goroutines /\ on[Server(r)] # None /\ pc[Server(r)] = "idle"
  BY Distinct DEF HandleContext, Idle
<1>2. serving[r] = on[Server(r)] /\ serving[r] \in Pooled /\ serving[r] \in Contexts
  BY <1>1, Servers DEF IInv
<1>3. arrays[serving[r]] = r
  BY <1>1, <1>2 DEF IInv, Mine
<1>4. /\ serving = [serving EXCEPT ![r] = serving[r]]
      /\ on = [on EXCEPT ![Server(r)] = serving[r]]
      /\ arrays = [arrays EXCEPT ![serving[r]] = r]
  BY <1>1, <1>2, <1>3 DEF IInv, TypeOK, Held
<1>5. \A q \in Requests \ {r} : serving[q] # serving[r]
  BY <1>1, <1>2 DEF IInv, Exclusive
<1>. QED BY <1>1, <1>2, <1>4, <1>5 DEF HandleContext, Renewed

(* The pointwise form. *)
LEMMA RenewedFacts ==
    ASSUME IInv, NEW r \in Requests, NEW c \in Pooled, Renewed(c, r)
    PROVE  /\ \A q \in Requests : serving'[q] = IF q = r THEN c ELSE serving[q]
           /\ \A g \in Goroutines : on'[g] = IF g = Server(r) THEN c ELSE on[g]
           /\ \A x \in Contexts : arrays'[x] = IF x = c THEN r ELSE arrays[x]
           /\ c # None /\ c \in Contexts
BY PoolAssumption, Distinct DEF Renewed, IInv, TypeOK, Held, Contexts

(* A reset keeps the types.                                                *)
LEMMA RenewedType ==
    ASSUME IInv, NEW r \in Requests, NEW c \in Pooled, Renewed(c, r)
    PROVE  TypeOK'
<1>1. ctx' \in [Contexts -> [keys : Contexts \cup {None}, params : Contexts,
                             writer : Requests \cup {None}]] /\ misused' \subseteq Contexts
  BY ResetOne DEF Renewed, IInv
<1>2. c \in Contexts
  BY DEF Contexts
<1>. QED BY <1>1, <1>2, Distinct DEF Renewed, IInv, TypeOK

(* It leaves the Context without a map, and its array to its own request.  *)
LEMMA RenewedMine ==
    ASSUME IInv, NEW r \in Requests, NEW c \in Pooled, Renewed(c, r)
    PROVE  Mine'
<1>1. /\ \A q \in Requests : serving'[q] = IF q = r THEN c ELSE serving[q]
      /\ \A g \in Goroutines : on'[g] = IF g = Server(r) THEN c ELSE on[g]
      /\ \A x \in Contexts : arrays'[x] = IF x = c THEN r ELSE arrays[x]
      /\ c # None /\ c \in Contexts
  BY RenewedFacts
<1>2. /\ \A x \in Contexts :
            ctx'[x] = IF x = c THEN [keys |-> None, params |-> c, writer |-> r] ELSE ctx[x]
      /\ \A x \in Contexts \ {c} : x \in misused' <=> x \in misused
      /\ c \notin misused' => \A g \in Goroutines \ {Server(r)} : on[g] # c
  BY ResetOne DEF Renewed, IInv
<1>3. UNCHANGED <<maps, copied>> /\ \A q \in Requests \ {r} : serving[q] # c
  BY DEF Renewed
<1>4. Mine /\ serving \in [Requests -> Pooled \cup {None}] /\ on \in [Goroutines -> Contexts \cup {None}]
  BY DEF IInv, Held, TypeOK
<1>5. \A x \in Contexts : ctx'[x].params = x /\ ctx'[x].keys \in {None, x}
  BY <1>2, <1>4 DEF Mine
<1>6. \A x \in Pooled :
         /\ arrays'[x] = ctx'[x].writer
         /\ x \notin misused' /\ ctx'[x].keys # None => maps'[x] \in {ctx'[x].writer, None}
  BY <1>1, <1>2, <1>3, <1>4 DEF Mine, Contexts
<1>7. ASSUME NEW q \in Requests
      PROVE  /\ serving'[q] # None => ctx'[serving'[q]].writer = q
             /\ ctx'[CopyOf(q)].writer = None
             /\ CopyOf(q) \notin misused' /\ ctx'[CopyOf(q)].keys # None => maps'[CopyOf(q)] \in {q, None}
             /\ q \in copied' => arrays'[CopyOf(q)] = q
  <2>1. CopyOf(q) \in Contexts /\ CopyOf(q) # c
    BY Names
  <2>2. q # r /\ serving[q] # None => serving[q] \in Contexts /\ serving[q] # c
    BY <1>3, <1>4 DEF Contexts
  <2>. QED BY <1>1, <1>2, <1>3, <1>4, <2>1, <2>2 DEF Mine
<1>8. ASSUME NEW g \in Goroutines
      PROVE  /\ on'[g] \in Pooled \ misused' => ctx'[on'[g]].writer = g[1]
             /\ on'[g] \in Copies => on'[g] = CopyOf(g[1]) /\ g[1] \in copied'
  <2>1. CASE g = Server(r)
    <3>1. on'[g] = c /\ c \notin Copies /\ g[1] = r
      BY <1>1, <2>1, Names, PoolAssumption
    <3>. QED BY <1>1, <1>2, <3>1
  <2>2. CASE g # Server(r)
    <3>1. on'[g] = on[g] /\ on[g] \in Contexts \cup {None}
      BY <1>1, <1>4, <2>2
    <3>2. on[g] \in Pooled \ misused' => on[g] # c /\ on[g] \in Contexts /\ on[g] \notin misused
      BY <1>2, <2>2 DEF Contexts
    <3>. QED BY <1>2, <1>3, <1>4, <3>1, <3>2 DEF Mine
  <2>. QED BY <2>1, <2>2
<1>. QED BY <1>5, <1>6, <1>7, <1>8 DEF Mine

(* It takes and releases no lock.                                          *)
LEMMA RenewedLocked ==
    ASSUME IInv, NEW r \in Requests, NEW c \in Pooled, Renewed(c, r)
    PROVE  Locked'
<1>1. /\ \A g \in Goroutines : on'[g] = IF g = Server(r) THEN c ELSE on[g]
      /\ c # None
  BY RenewedFacts
<1>2. UNCHANGED <<lock, pc>> /\ pc[Server(r)] = "idle"
  BY DEF Renewed
<1>. QED BY <1>1, <1>2 DEF IInv, Locked

(* No copy is being made of the Context, which its server resets.          *)
LEMMA RenewedCopying ==
    ASSUME IInv, NEW r \in Requests, NEW c \in Pooled, Renewed(c, r)
    PROVE  Copying'
<1>1. UNCHANGED <<copied, cKeys, seen, maps, pc>> /\ pc[Server(r)] = "idle"
      /\ \A q \in Requests \ {r} : serving[q] # c
  BY DEF Renewed
<1>2. \A q \in Requests \ {r} : serving'[q] = serving[q]
  BY RenewedFacts
<1>3. \A x \in Contexts \ {c} : ctx'[x] = ctx[x]
  <2>1. TypeOK /\ Reset(c, r)
    BY DEF Renewed, IInv
  <2>2. \A x \in Contexts :
           ctx'[x] = IF x = c THEN [keys |-> None, params |-> c, writer |-> r] ELSE ctx[x]
    BY <2>1, ResetOne
  <2>. QED BY <2>2
<1>. SUFFICES ASSUME NEW q \in Requests, pc[Server(q)] \in {"Copy", "clone"}
              PROVE  /\ q \notin copied
                     /\ cKeys[q] # None => cKeys[q] = serving'[q] /\ ctx'[serving'[q]].keys = serving'[q]
                     /\ In(cKeys[q]) \in seen[q]
  BY <1>1 DEF Copying, In
<1>4. q # r /\ serving[q] \in Contexts \ {c}
  <2>1. Server(q) \in Goroutines /\ on[Server(q)] # None
    BY Distinct DEF IInv, Locked
  <2>2. serving[q] \in Contexts
    BY <2>1, Servers DEF IInv
  <2>. QED BY <1>1, <2>2
<1>. QED BY <1>2, <1>3, <1>4 DEF IInv, Copying

(* Nor is a Set under way, but for a goroutine that misuses it.            *)
LEMMA RenewedFilled ==
    ASSUME IInv, NEW r \in Requests, NEW c \in Pooled, Renewed(c, r)
    PROVE  Filled'
<1>1. \A g \in Goroutines : on'[g] = IF g = Server(r) THEN c ELSE on[g]
  BY RenewedFacts
<1>2. /\ \A x \in Contexts :
            ctx'[x] = IF x = c THEN [keys |-> None, params |-> c, writer |-> r] ELSE ctx[x]
      /\ \A x \in Contexts \ {c} : x \in misused' <=> x \in misused
      /\ c \notin misused' => \A g \in Goroutines \ {Server(r)} : on[g] # c
      /\ nilWrites' = nilWrites \ {c}
  BY ResetOne DEF Renewed, IInv
<1>3. UNCHANGED pc /\ pc[Server(r)] = "idle"
  BY DEF Renewed
<1>4. nilWrites' \subseteq misused'
  BY <1>2 DEF IInv, Filled, TypeOK
<1>5. ASSUME NEW g \in Goroutines, pc'[g] = "assign", on'[g] \notin misused'
      PROVE  ctx'[on'[g]].keys # None
  <2>1. g # Server(r) /\ on'[g] = on[g] /\ pc[g] = "assign"
    BY <1>1, <1>3, <1>5
  <2>2. on[g] # None /\ on[g] \in Contexts /\ on[g] # c
    BY <1>2, <1>5, <2>1 DEF IInv, Locked, TypeOK
  <2>. QED BY <1>2, <1>5, <2>1, <2>2 DEF IInv, Filled
<1>. QED BY <1>4, <1>5 DEF Filled

(* A handler starts its helper on its own Context or its copy; helpers end. *)
LEMMA HelperParts ==
    ASSUME IInv, NEW r \in Requests, Start(r) \/ HelperEnds(r)
    PROVE  TypeOK' /\ Mine' /\ Locked' /\ Copying' /\ Filled'
<1>1. UNCHANGED <<serving, ctx, maps, arrays, lock, pc, cKeys, copied, misused, nilWrites, seen>>
      /\ pc[Helper(r)] = "idle"
  BY Distinct DEF Start, HelperEnds, Idle, IInv, Locked
<1>2. PICK c :
         /\ on' = [on EXCEPT ![Helper(r)] = c]
         /\ c \in {serving[r]} \cup {CopyOf(x) : x \in copied \cap {r}} \cup {None}
         /\ c # None => on[Server(r)] # None
  BY DEF Start, HelperEnds, Idle
<1>3. c # None => \/ c = serving[r] /\ c \in Pooled /\ c \in Contexts
                  \/ c = CopyOf(r) /\ r \in copied /\ c \in Contexts /\ c \notin Pooled
  <2>1. c = serving[r] /\ c # None => c \in Pooled /\ c \in Contexts
    BY DEF IInv, Held, Contexts
  <2>. QED BY <1>2, <2>1, Names
<1>4. \A g \in Goroutines : on'[g] = IF g = Helper(r) THEN c ELSE on[g]
  BY <1>2 DEF IInv, TypeOK
<1>5. TypeOK'
  BY <1>1, <1>2, <1>3 DEF IInv, TypeOK
<1>6. Locked' /\ Filled' /\ Copying'
  BY <1>1, <1>4 DEF IInv, Locked, Filled, Copying, In
<1>7. /\ c \in Pooled \ misused => ctx[c].writer = r
      /\ c \in Copies => c = CopyOf(r) /\ r \in copied
  BY <1>3, PoolAssumption DEF IInv, Mine, Contexts
<1>8. \A g \in Goroutines :
         /\ on'[g] \in Pooled \ misused => ctx[on'[g]].writer = g[1]
         /\ on'[g] \in Copies => on'[g] = CopyOf(g[1]) /\ g[1] \in copied
  BY <1>4, <1>7, Names DEF IInv, Mine
<1>9. Mine'
  BY <1>1, <1>8 DEF IInv, Mine
<1>. QED BY <1>5, <1>6, <1>9

(* The end of a request changes nothing that a Context leads to.           *)
LEMMA EndParts ==
    ASSUME IInv, NEW r \in Requests, Ends(r) \/ Panics(r)
    PROVE  TypeOK' /\ Mine' /\ Locked' /\ Copying' /\ Filled'
<1>1. /\ UNCHANGED <<ctx, maps, arrays, lock, pc, cKeys, copied, misused, nilWrites, seen>>
      /\ pc[Server(r)] = "idle"
      /\ serving' = [serving EXCEPT ![r] = None]
      /\ on' = [on EXCEPT ![Server(r)] = None]
  BY DEF Ends, Panics, EndsWith, Idle
<1>2. \A g \in Goroutines : on'[g] = IF g = Server(r) THEN None ELSE on[g]
  BY <1>1 DEF IInv, TypeOK
<1>3. \A q \in Requests : serving'[q] = IF q = r THEN None ELSE serving[q]
  BY <1>1 DEF IInv, Held
<1>4. TypeOK'
  BY <1>1 DEF IInv, TypeOK
<1>5. Locked' /\ Filled' /\ Copying'
  BY <1>1, <1>2, <1>3 DEF IInv, Locked, Filled, Copying, In
<1>6. Mine'
  BY <1>1, <1>2, <1>3, PoolAssumption DEF IInv, Mine, Contexts
<1>. QED BY <1>4, <1>5, <1>6

-----------------------------------------------------------------------------
(* The calls on the key store *)

(* Taking a lock: to write if nobody has it, to read if nobody writes.      *)
Acquires(g, to) ==
    \/ /\ to \in {"make", "delete"}
       /\ lock[on[g]].writer = None /\ lock[on[g]].readers = {}
       /\ lock' = [lock EXCEPT ![on[g]] = Write(g)]
    \/ /\ to \in {"get", "clone"} /\ lock[on[g]].writer = None
       /\ lock' = [lock EXCEPT ![on[g]] = Read(g)]

(* Taking a lock that is free keeps the invariant.                         *)
LEMMA AcquireParts ==
    ASSUME IInv, NEW g \in Goroutines, NEW from, NEW to,
           Go(g, from, to), on[g] # None, Acquires(g, to),
           (from = "idle" /\ to # "clone") \/ (from = "Copy" /\ to = "clone"),
           UNCHANGED <<serving, ctx, maps, arrays, on, cKeys, copied, misused, nilWrites, seen>>
    PROVE  TypeOK' /\ Mine' /\ Locked' /\ Copying' /\ Filled'
<1>1. on[g] \in Contexts
  BY DEF IInv, TypeOK
<1>2. /\ to \in {"make", "delete", "get", "clone"}
      /\ \/ /\ to \in {"make", "delete"}
            /\ lock[on[g]].writer = None /\ lock[on[g]].readers = {}
            /\ lock' = [lock EXCEPT ![on[g]] = Write(g)]
         \/ /\ to \in {"get", "clone"} /\ lock[on[g]].writer = None
            /\ lock' = [lock EXCEPT ![on[g]] = Read(g)]
  BY DEF Acquires
<1>3. pc[g] = from /\ \A h \in Goroutines : pc'[h] = IF h = g THEN to ELSE pc[h]
  BY GoOne DEF IInv
<1>4. /\ \A x \in Contexts \ {on[g]} : lock'[x] = lock[x]
      /\ \A x \in Contexts : lock'[x].writer # None => lock'[x].readers = {}
      /\ to \in {"make", "delete"} => lock'[on[g]].writer = g
      /\ to \in {"get", "clone"} => lock'[on[g]].writer = None
                                    /\ lock'[on[g]].readers = lock[on[g]].readers \cup {g}
      /\ lock[on[g]].writer = None
      /\ to \in {"make", "delete"} => lock[on[g]].readers = {}
      /\ lock' \in [Contexts -> [writer : Goroutines \cup {None}, readers : SUBSET Goroutines]]
  <2>1. lock[on[g]] \in [writer : Goroutines \cup {None}, readers : SUBSET Goroutines]
    BY <1>1 DEF IInv, TypeOK
  <2>2. CASE to \in {"make", "delete"}
    <3>1. Write(g) = [writer |-> g, readers |-> {}]
      BY <1>2, <2>1, <2>2 DEF Write
    <3>2. Write(g) \in [writer : Goroutines \cup {None}, readers : SUBSET Goroutines]
      BY <3>1
    <3>3. /\ lock' = [lock EXCEPT ![on[g]] = Write(g)]
          /\ lock[on[g]].writer = None /\ lock[on[g]].readers = {}
      BY <1>2, <2>2
    <3>4. /\ \A x \in Contexts : lock'[x] = IF x = on[g] THEN Write(g) ELSE lock[x]
          /\ lock' \in [Contexts -> [writer : Goroutines \cup {None}, readers : SUBSET Goroutines]]
      BY <1>1, <3>2, <3>3 DEF IInv, TypeOK
    <3>. QED BY <1>1, <2>2, <3>1, <3>3, <3>4 DEF IInv, Locked
  <2>3. CASE to \in {"get", "clone"}
    <3>1. Read(g) = [writer |-> None, readers |-> lock[on[g]].readers \cup {g}]
      BY <1>2, <2>1, <2>3 DEF Read
    <3>2. Read(g) \in [writer : Goroutines \cup {None}, readers : SUBSET Goroutines]
      BY <2>1, <3>1
    <3>3. lock' = [lock EXCEPT ![on[g]] = Read(g)] /\ lock[on[g]].writer = None
      BY <1>2, <2>3
    <3>4. /\ \A x \in Contexts : lock'[x] = IF x = on[g] THEN Read(g) ELSE lock[x]
          /\ lock' \in [Contexts -> [writer : Goroutines \cup {None}, readers : SUBSET Goroutines]]
      BY <1>1, <3>2, <3>3 DEF IInv, TypeOK
    <3>. QED BY <1>1, <2>3, <3>1, <3>3, <3>4 DEF IInv, Locked
  <2>. QED BY <1>2, <2>2, <2>3
<1>5. TypeOK'
  BY <1>1, <1>2, <1>4 DEF IInv, TypeOK, Go
<1>6. Mine'
  BY <1>1 DEF IInv, Mine
<1>7. Locked'
  <2>1. ASSUME NEW h \in Goroutines
        PROVE  /\ pc'[h] # "idle" => on[h] # None
               /\ pc'[h] \in {"make", "assign", "delete"} => lock'[on[h]].writer = h
               /\ pc'[h] \in {"get", "clone"} => h \in lock'[on[h]].readers
    <3>1. CASE h = g
      BY <1>1, <1>2, <1>3, <1>4, <3>1
    <3>2. CASE h # g
      <4>1. pc'[h] = pc[h] /\ h # None /\ (pc[h] # "idle" => on[h] \in Contexts /\ on[h] # None)
        BY <1>3, <3>2, Kinds DEF IInv, Locked, TypeOK
      <4>. QED BY <1>2, <1>4, <4>1 DEF IInv, Locked
    <3>. QED BY <3>1, <3>2
  <2>2. \A r \in Requests : pc'[Helper(r)] \notin {"Copy", "clone"}
    BY <1>2, <1>3, Distinct DEF IInv, Locked
  <2>. QED BY <1>1, <1>4, <2>1, <2>2 DEF Locked
<1>8. Copying'
  BY <1>1, <1>2, <1>3, Distinct DEF IInv, Copying, In
<1>9. Filled'
  BY <1>1, <1>2, <1>3 DEF IInv, Filled
<1>. QED BY <1>5, <1>6, <1>7, <1>8, <1>9

(* So do the two ways to take it.                                          *)
LEMMA LockParts ==
    ASSUME IInv, NEW g \in Goroutines, Lock(g) \/ RLock(g)
    PROVE  TypeOK' /\ Mine' /\ Locked' /\ Copying' /\ Filled'
<1>1. /\ UNCHANGED <<serving, ctx, maps, arrays, on, cKeys, copied, misused, nilWrites, seen>>
      /\ on[g] # None
  BY DEF Lock, RLock, Unchanged
<1>2. ASSUME Lock(g), NEW to \in {"make", "delete"} PROVE Acquires(g, to)
  BY <1>2 DEF Lock, Acquires
<1>3. ASSUME RLock(g), NEW to \in {"get", "clone"} PROVE Acquires(g, to)
  BY <1>3 DEF RLock, Acquires
<1>4. ASSUME NEW from, NEW to, Go(g, from, to), Acquires(g, to),
             (from = "idle" /\ to # "clone") \/ (from = "Copy" /\ to = "clone")
      PROVE  TypeOK' /\ Mine' /\ Locked' /\ Copying' /\ Filled'
  BY <1>1, <1>4, AcquireParts
<1>5. ASSUME Lock(g), Go(g, "idle", "make")
      PROVE  TypeOK' /\ Mine' /\ Locked' /\ Copying' /\ Filled'
  <2>1. Acquires(g, "make") /\ "make" # "clone"
    BY <1>2, <1>5
  <2>. QED BY <1>4, <1>5, <2>1
<1>6. ASSUME Lock(g), Go(g, "idle", "delete")
      PROVE  TypeOK' /\ Mine' /\ Locked' /\ Copying' /\ Filled'
  <2>1. Acquires(g, "delete") /\ "delete" # "clone"
    BY <1>2, <1>6
  <2>. QED BY <1>4, <1>6, <2>1
<1>7. ASSUME RLock(g), Go(g, "idle", "get")
      PROVE  TypeOK' /\ Mine' /\ Locked' /\ Copying' /\ Filled'
  <2>1. Acquires(g, "get") /\ "get" # "clone"
    BY <1>3, <1>7
  <2>. QED BY <1>4, <1>7, <2>1
<1>8. ASSUME RLock(g), Go(g, "Copy", "clone")
      PROVE  TypeOK' /\ Mine' /\ Locked' /\ Copying' /\ Filled'
  <2>1. Acquires(g, "clone")
    BY <1>3, <1>8
  <2>. QED BY <1>4, <1>8, <2>1
<1>9. Lock(g) => Go(g, "idle", "make") \/ Go(g, "idle", "delete")
  BY DEF Lock
<1>10. RLock(g) => Go(g, "idle", "get") \/ Go(g, "Copy", "clone")
  BY DEF RLock
<1>. QED BY <1>5, <1>6, <1>7, <1>8, <1>9, <1>10

(* The end of a call: g gives back what it held of the lock.                *)
LEMMA ReleaseLocked ==
    ASSUME IInv, NEW g \in Goroutines, NEW from \in {"assign", "delete", "get", "clone"},
           Go(g, from, "idle"), lock' = [lock EXCEPT ![on[g]] = Released(g)], UNCHANGED on
    PROVE  Locked' /\ lock' \in [Contexts -> [writer : Goroutines \cup {None}, readers : SUBSET Goroutines]]
<1>1. pc[g] = from /\ \A h \in Goroutines : pc'[h] = IF h = g THEN "idle" ELSE pc[h]
  BY GoOne DEF IInv
<1>2. on[g] # None
  BY <1>1 DEF IInv, Locked
<1>3. /\ on[g] \in Contexts
      /\ \A x \in Contexts :
            /\ lock'[x].writer = IF x = on[g] /\ lock[x].writer = g THEN None ELSE lock[x].writer
            /\ lock'[x].readers = IF x = on[g] THEN lock[x].readers \ {g} ELSE lock[x].readers
      /\ lock' \in [Contexts -> [writer : Goroutines \cup {None}, readers : SUBSET Goroutines]]
  BY <1>2, ReleaseOne DEF IInv
<1>4. ASSUME NEW h \in Goroutines
      PROVE  /\ pc'[h] # "idle" => on'[h] # None
             /\ pc'[h] \in {"make", "assign", "delete"} => lock'[on'[h]].writer = h
             /\ pc'[h] \in {"get", "clone"} => h \in lock'[on'[h]].readers
  <2>1. CASE h = g
    BY <1>1, <2>1
  <2>2. CASE h # g
    <3>1. pc'[h] = pc[h] /\ (pc[h] # "idle" => on[h] \in Contexts /\ on[h] # None)
      BY <1>1, <2>2 DEF IInv, Locked, TypeOK
    <3>2. /\ pc[h] \in {"make", "assign", "delete"} => lock[on[h]].writer = h
          /\ pc[h] \in {"get", "clone"} => h \in lock[on[h]].readers
      BY DEF IInv, Locked
    <3>3. pc[h] # "idle" => /\ lock[on[h]].writer = h => lock'[on[h]].writer = h
                            /\ h \in lock[on[h]].readers => h \in lock'[on[h]].readers
      BY <1>3, <2>2, <3>1
    <3>. QED BY <3>1, <3>2, <3>3
  <2>. QED BY <2>1, <2>2
<1>5. \A c \in Contexts : lock'[c].writer # None => lock'[c].readers = {}
  BY <1>3 DEF IInv, Locked
<1>6. \A r \in Requests : pc'[Helper(r)] \notin {"Copy", "clone"}
  BY <1>1, Distinct DEF IInv, Locked
<1>. QED BY <1>3, <1>4, <1>5, <1>6 DEF Locked

(* Set, the first half: from now on there is a map.                         *)
LEMMA MakeParts ==
    ASSUME IInv, NEW g \in Goroutines, Make(g)
    PROVE  TypeOK' /\ Mine' /\ Locked' /\ Copying' /\ Filled'
<1>. DEFINE c == on[g]
<1>1. /\ UNCHANGED <<serving, arrays, on, lock, cKeys, copied, misused, nilWrites, seen>>
      /\ Go(g, "make", "assign")
  BY DEF Make, Unchanged
<1>2. pc[g] = "make" /\ \A h \in Goroutines : pc'[h] = IF h = g THEN "assign" ELSE pc[h]
  BY <1>1, GoOne DEF IInv
<1>3. c # None /\ c \in Contexts /\ ctx[c].keys \in {None, c}
  BY <1>2 DEF IInv, Locked, TypeOK, Mine
<1>4. ctx[c] \in [keys : Contexts \cup {None}, params : Contexts, writer : Requests \cup {None}]
  BY <1>3 DEF IInv, TypeOK
<1>5. /\ \A x \in Contexts :
            /\ ctx'[x].keys = IF x = c THEN c ELSE ctx[x].keys
            /\ ctx'[x].params = ctx[x].params /\ ctx'[x].writer = ctx[x].writer
            /\ maps'[x] = IF x = c /\ ctx[c].keys = None THEN None ELSE maps[x]
      /\ ctx' \in [Contexts -> [keys : Contexts \cup {None}, params : Contexts,
                                writer : Requests \cup {None}]]
      /\ maps' \in [Contexts -> Requests \cup {None}]
  <2>1. CASE ctx[c].keys = None
    <3>1. ctx' = [ctx EXCEPT ![c] = [ctx[c] EXCEPT !.keys = c]] /\ maps' = [maps EXCEPT ![c] = None]
      BY <2>1 DEF Make
    <3>2. [ctx[c] EXCEPT !.keys = c] = [keys |-> c, params |-> ctx[c].params, writer |-> ctx[c].writer]
      BY <1>4
    <3>. HIDE DEF c
    <3>. QED BY <1>3, <1>4, <2>1, <3>1, <3>2 DEF IInv, TypeOK
  <2>2. CASE ctx[c].keys # None
    <3>1. UNCHANGED <<ctx, maps>>
      BY <2>2 DEF Make
    <3>. QED BY <1>3, <2>2, <3>1 DEF IInv, TypeOK
  <2>. QED BY <2>1, <2>2
<1>. HIDE DEF c
<1>6. TypeOK'
  BY <1>1, <1>5 DEF IInv, TypeOK, Go
<1>7. Mine'
  <2>1. \A x \in Contexts : ctx'[x].params = x /\ ctx'[x].keys \in {None, x}
    BY <1>5 DEF IInv, Mine
  <2>2. \A x \in Pooled :
           /\ arrays'[x] = ctx'[x].writer
           /\ x \notin misused' /\ ctx'[x].keys # None => maps'[x] \in {ctx'[x].writer, None}
    BY <1>1, <1>5 DEF IInv, Mine, Contexts
  <2>3. ASSUME NEW q \in Requests
        PROVE  /\ serving'[q] # None => ctx'[serving'[q]].writer = q
               /\ ctx'[CopyOf(q)].writer = None
               /\ CopyOf(q) \notin misused' /\ ctx'[CopyOf(q)].keys # None => maps'[CopyOf(q)] \in {q, None}
               /\ q \in copied' => arrays'[CopyOf(q)] = q
    <3>1. serving[q] # None => serving[q] \in Contexts
      BY DEF IInv, Held, Contexts
    <3>. QED BY <1>1, <1>5, <3>1, Names DEF IInv, Mine
  <2>4. ASSUME NEW h \in Goroutines
        PROVE  /\ on'[h] \in Pooled \ misused' => ctx'[on'[h]].writer = h[1]
               /\ on'[h] \in Copies => on'[h] = CopyOf(h[1]) /\ h[1] \in copied'
    BY <1>1, <1>5 DEF IInv, Mine, Contexts
  <2>. QED BY <2>1, <2>2, <2>3, <2>4 DEF Mine
<1>8. Locked'
  BY <1>1, <1>2, Distinct DEF IInv, Locked
<1>9. Copying'
  <2>. SUFFICES ASSUME NEW q \in Requests, pc'[Server(q)] \in {"Copy", "clone"}
                PROVE  /\ q \notin copied
                       /\ cKeys[q] # None => cKeys[q] = serving[q] /\ ctx'[serving[q]].keys = serving[q]
                       /\ In(cKeys[q])' \in seen[q]
    BY <1>1 DEF Copying
  <2>1. pc[Server(q)] \in {"Copy", "clone"}
    BY <1>2, Distinct
  <2>2. /\ q \notin copied
        /\ cKeys[q] # None => cKeys[q] = serving[q] /\ ctx[serving[q]].keys = serving[q]
        /\ In(cKeys[q]) \in seen[q]
    BY <2>1 DEF IInv, Copying
  <2>3. cKeys[q] # None => cKeys[q] \in Contexts
    BY DEF IInv, TypeOK
  <2>. QED BY <1>1, <1>5, <2>2, <2>3 DEF In
<1>10. Filled'
  <2>1. ASSUME NEW h \in Goroutines, pc'[h] = "assign", on[h] \notin misused PROVE ctx'[on[h]].keys # None
    <3>1. h = g \/ pc[h] = "assign"
      BY <1>2, <2>1
    <3>2. h # g => on[h] \in Contexts /\ ctx[on[h]].keys # None
      BY <2>1, <3>1 DEF IInv, Locked, TypeOK, Filled
    <3>. QED BY <1>3, <1>5, <3>2 DEF c
  <2>. QED BY <1>1, <2>1 DEF IInv, Filled
<1>. QED BY <1>6, <1>7, <1>8, <1>9, <1>10

(* The second half of Set, and Delete: a value of g's own request, or none. *)
LEMMA StoreParts ==
    ASSUME IInv, NEW g \in Goroutines, NEW from \in {"assign", "delete"},
           NEW value \in {g[1], None},
           Go(g, from, "idle"), Store(on[g], value), Observed(on[g], value),
           lock' = [lock EXCEPT ![on[g]] = Released(g)], nilWrites' \subseteq misused,
           UNCHANGED <<serving, ctx, arrays, on, cKeys, copied, misused>>
    PROVE  TypeOK' /\ Mine' /\ Locked' /\ Copying' /\ Filled'
<1>. DEFINE c == on[g]
<1>1. Locked' /\ lock' \in [Contexts -> [writer : Goroutines \cup {None}, readers : SUBSET Goroutines]]
  BY ReleaseLocked
<1>2. pc[g] = from /\ \A h \in Goroutines : pc'[h] = IF h = g THEN "idle" ELSE pc[h]
  BY GoOne DEF IInv
<1>3. c # None /\ c \in Contexts /\ value \in Requests \cup {None}
  BY <1>2, Kinds DEF IInv, Locked, TypeOK
<1>4. /\ \A x \in Contexts : maps'[x] = IF x = c /\ ctx[c].keys # None THEN value ELSE maps[x]
      /\ maps' \in [Contexts -> Requests \cup {None}]
  BY <1>3, StoreOne DEF IInv
<1>5. /\ \A q \in Requests : seen'[q] = IF pc[Server(q)] \in {"Copy", "clone"} /\ serving[q] = c
                                        THEN seen[q] \cup {value} ELSE seen[q]
      /\ seen' \in [Requests -> SUBSET (Requests \cup {None})]
  BY <1>3 DEF Observed, IInv, TypeOK
<1>6. TypeOK'
  BY <1>1, <1>4, <1>5 DEF IInv, TypeOK, Go
<1>7. Mine'
  <2>1. \A x \in Pooled : x \notin misused /\ ctx[x].keys # None => maps'[x] \in {ctx[x].writer, None}
    <3>. TAKE x \in Pooled
    <3>1. x = c /\ x \notin misused => ctx[x].writer = g[1]
      BY DEF IInv, Mine
    <3>. QED BY <1>4, <3>1 DEF IInv, Mine, Contexts
  <2>2. ASSUME NEW q \in Requests, CopyOf(q) \notin misused, ctx[CopyOf(q)].keys # None
        PROVE  maps'[CopyOf(q)] \in {q, None}
    <3>1. CopyOf(q) = c => g[1] = q
      BY Names, Kinds DEF IInv, Mine
    <3>. QED BY <1>4, <2>2, <3>1, Names DEF IInv, Mine
  <2>. QED BY <2>1, <2>2 DEF IInv, Mine
<1>8. Copying'
  <2>. SUFFICES ASSUME NEW q \in Requests, pc'[Server(q)] \in {"Copy", "clone"}
                PROVE  /\ q \notin copied
                       /\ cKeys[q] # None => cKeys[q] = serving[q] /\ ctx[serving[q]].keys = serving[q]
                       /\ In(cKeys[q])' \in seen'[q]
    BY DEF Copying
  <2>1. pc[Server(q)] \in {"Copy", "clone"}
    BY <1>2, Distinct
  <2>2. /\ q \notin copied
        /\ cKeys[q] # None => cKeys[q] = serving[q] /\ ctx[serving[q]].keys = serving[q]
        /\ In(cKeys[q]) \in seen[q]
    BY <2>1 DEF IInv, Copying
  <2>3. cKeys[q] # None => cKeys[q] \in Contexts
    BY DEF IInv, TypeOK
  <2>. HIDE DEF c
  <2>. QED BY <1>4, <1>5, <2>1, <2>2, <2>3 DEF In
<1>9. Filled'
  BY <1>2 DEF IInv, Filled
<1>. QED BY <1>1, <1>6, <1>7, <1>8, <1>9

(* Set and Delete are such calls.                                           *)
LEMMA AssignStores ==
    ASSUME IInv, NEW g \in Goroutines, Assign(g)
    PROVE  /\ Go(g, "assign", "idle") /\ Store(on[g], g[1]) /\ Observed(on[g], g[1])
           /\ lock' = [lock EXCEPT ![on[g]] = Released(g)] /\ nilWrites' \subseteq misused
           /\ UNCHANGED <<serving, ctx, arrays, on, cKeys, copied, misused>>
<1>1. pc[g] = "assign"
  BY DEF Assign, Go
<1>2. nilWrites' \subseteq misused
  BY <1>1 DEF Assign, IInv, Filled
<1>. QED BY <1>2 DEF Assign, Unchanged

(* Delete stores the absence of a value.                                   *)
LEMMA DeleteStores ==
    ASSUME IInv, NEW g \in Goroutines, Delete(g)
    PROVE  /\ Go(g, "delete", "idle") /\ Store(on[g], None) /\ Observed(on[g], None)
           /\ lock' = [lock EXCEPT ![on[g]] = Released(g)] /\ nilWrites' \subseteq misused
           /\ UNCHANGED <<serving, ctx, arrays, on, cKeys, copied, misused>>
BY DEF Delete, Unchanged, IInv, Filled

(* Get only releases its lock.                                             *)
LEMMA GetParts ==
    ASSUME IInv, NEW g \in Goroutines, Get(g)
    PROVE  TypeOK' /\ Mine' /\ Locked' /\ Copying' /\ Filled'
<1>1. /\ UNCHANGED <<serving, ctx, maps, arrays, on, cKeys, copied, misused, nilWrites, seen>>
      /\ Go(g, "get", "idle") /\ lock' = [lock EXCEPT ![on[g]] = Released(g)]
  BY DEF Get, Unchanged
<1>2. Locked' /\ lock' \in [Contexts -> [writer : Goroutines \cup {None}, readers : SUBSET Goroutines]]
  BY <1>1, ReleaseLocked
<1>3. \A h \in Goroutines : pc'[h] = IF h = g THEN "idle" ELSE pc[h]
  BY <1>1, GoOne DEF IInv
<1>4. TypeOK'
  BY <1>1, <1>2 DEF IInv, TypeOK, Go
<1>5. Mine' /\ Copying' /\ Filled'
  BY <1>1, <1>3, Distinct DEF IInv, Mine, Copying, Filled, In
<1>. QED BY <1>2, <1>4, <1>5

-----------------------------------------------------------------------------
(* Copy *)

(* Copy notes the map that the key store has, before it takes the lock.    *)
LEMMA CopyCalledParts ==
    ASSUME IInv, NEW r \in Requests, CopyCalled(r)
    PROVE  TypeOK' /\ Mine' /\ Locked' /\ Copying' /\ Filled'
<1>1. /\ UNCHANGED <<serving, ctx, maps, arrays, lock, on, copied, misused, nilWrites>>
      /\ Go(Server(r), "idle", "Copy") /\ on[Server(r)] # None /\ r \notin copied
      /\ cKeys' = [cKeys EXCEPT ![r] = ctx[serving[r]].keys]
      /\ seen' = [seen EXCEPT ![r] = {Value(serving[r])}]
  BY DEF CopyCalled, Unchanged, Idle
<1>2. Server(r) \in Goroutines /\ Helper(r) \in Goroutines
  BY Distinct
<1>3. \A h \in Goroutines : pc'[h] = IF h = Server(r) THEN "Copy" ELSE pc[h]
  BY <1>1, <1>2, GoOne DEF IInv
<1>4. serving[r] \in Contexts /\ ctx[serving[r]].keys \in {None, serving[r]}
  BY <1>1, Servers DEF IInv, Mine
<1>5. Value(serving[r]) \in Requests \cup {None}
  BY <1>4 DEF Value, In, IInv, TypeOK
<1>6. \A q \in Requests : /\ cKeys'[q] = IF q = r THEN ctx[serving[r]].keys ELSE cKeys[q]
                          /\ seen'[q] = IF q = r THEN {Value(serving[r])} ELSE seen[q]
  BY <1>1 DEF IInv, TypeOK
<1>7. TypeOK'
  BY <1>1, <1>4, <1>5 DEF IInv, TypeOK, Go
<1>8. Mine' /\ Filled'
  BY <1>1, <1>3 DEF IInv, Mine, Filled
<1>9. Locked'
  BY <1>1, <1>3, Distinct DEF IInv, Locked
<1>10. Copying'
  <2>1. ASSUME NEW q \in Requests, pc'[Server(q)] \in {"Copy", "clone"}
        PROVE  /\ q \notin copied
               /\ cKeys'[q] # None => cKeys'[q] = serving[q] /\ ctx[serving[q]].keys = serving[q]
               /\ In(cKeys'[q]) \in seen'[q]
    <3>1. CASE q = r
      BY <1>1, <1>4, <1>6, <3>1 DEF Value
    <3>2. CASE q # r
      BY <1>3, <1>6, <2>1, <3>2, Distinct DEF IInv, Copying
    <3>. QED BY <3>1, <3>2
  <2>. QED BY <1>1, <2>1 DEF Copying, In
<1>. QED BY <1>7, <1>8, <1>9, <1>10

(* What the second half of Copy makes: a Context of r's own.                *)
LEMMA CopyOne ==
    ASSUME IInv, NEW r \in Requests, Copy(r)
    PROVE  LET d == CopyOf(r) IN
           /\ \A x \in Contexts :
                 /\ ctx'[x] = IF x = d THEN Clone(r) ELSE ctx[x]
                 /\ maps'[x] = IF x = d THEN In(cKeys[r]) ELSE maps[x]
                 /\ arrays'[x] = IF x = d THEN r ELSE arrays[x]
           /\ In(cKeys[r]) \in Requests \cup {None}
           /\ serving[r] \in Pooled /\ r \notin copied
           /\ serving[r] \notin misused /\ cKeys[r] # None => In(cKeys[r]) \in {r, None}
           /\ misused' = misused \cup {c \in {d} : serving[r] \in misused}
           /\ copied' = copied \cup {r}
           /\ pc[Server(r)] = "clone"
<1>. DEFINE d == CopyOf(r)
<1>1. /\ ctx' = [ctx EXCEPT ![d] = Clone(r)]
      /\ maps' = [maps EXCEPT ![d] = In(cKeys[r])]
      /\ arrays' = [arrays EXCEPT ![d] = arrays[ctx[serving[r]].params]]
      /\ misused' = misused \cup {c \in {d} : serving[r] \in misused}
      /\ copied' = copied \cup {r}
      /\ pc[Server(r)] = "clone"
  BY DEF Copy, Go
<1>2. on[Server(r)] # None
  BY <1>1, Distinct DEF IInv, Locked
<1>3. serving[r] \in Pooled /\ serving[r] \in Contexts /\ serving[r] # None
  BY <1>2, Servers DEF IInv
<1>4. ctx[serving[r]].writer = r /\ arrays[ctx[serving[r]].params] = r
  BY <1>3 DEF IInv, Mine
<1>5. /\ r \notin copied
      /\ cKeys[r] # None => cKeys[r] = serving[r] /\ ctx[serving[r]].keys = serving[r]
  BY <1>1 DEF IInv, Copying
<1>6. In(cKeys[r]) \in Requests \cup {None}
  BY <1>3, <1>5 DEF In, IInv, TypeOK
<1>7. serving[r] \notin misused /\ cKeys[r] # None => In(cKeys[r]) \in {r, None}
  BY <1>3, <1>4, <1>5 DEF In, IInv, Mine
<1>8. d \in Contexts
  BY Names
<1>9. \A x \in Contexts :
         /\ ctx'[x] = IF x = d THEN Clone(r) ELSE ctx[x]
         /\ maps'[x] = IF x = d THEN In(cKeys[r]) ELSE maps[x]
         /\ arrays'[x] = IF x = d THEN r ELSE arrays[x]
  BY <1>1, <1>4, <1>8 DEF IInv, TypeOK
<1>. QED BY <1>1, <1>3, <1>5, <1>6, <1>7, <1>9

(* The copy gets a map of its own, with the values of the one noted.       *)
LEMMA CopyParts ==
    ASSUME IInv, NEW r \in Requests, Copy(r)
    PROVE  TypeOK' /\ Mine' /\ Locked' /\ Copying' /\ Filled'
<1>. DEFINE d == CopyOf(r)
<1>1. /\ \A x \in Contexts :
            /\ ctx'[x] = IF x = d THEN Clone(r) ELSE ctx[x]
            /\ maps'[x] = IF x = d THEN In(cKeys[r]) ELSE maps[x]
            /\ arrays'[x] = IF x = d THEN r ELSE arrays[x]
      /\ In(cKeys[r]) \in Requests \cup {None}
      /\ serving[r] \in Pooled /\ r \notin copied
      /\ serving[r] \notin misused /\ cKeys[r] # None => In(cKeys[r]) \in {r, None}
      /\ misused' = misused \cup {c \in {d} : serving[r] \in misused}
      /\ copied' = copied \cup {r}
      /\ pc[Server(r)] = "clone"
  BY CopyOne
<1>2. /\ UNCHANGED <<serving, on, nilWrites>> /\ Go(Server(r), "clone", "idle")
      /\ lock' = [lock EXCEPT ![serving[r]] = Released(Server(r))]
      /\ cKeys' = [cKeys EXCEPT ![r] = None] /\ seen' = [seen EXCEPT ![r] = {}]
  BY DEF Copy
<1>3. Server(r) \in Goroutines /\ Server(r)[1] = r /\ on[Server(r)] = serving[r]
  BY Distinct, Names DEF IInv, Held
<1>4. Locked' /\ lock' \in [Contexts -> [writer : Goroutines \cup {None}, readers : SUBSET Goroutines]]
  BY <1>2, <1>3, ReleaseLocked
<1>5. \A h \in Goroutines : pc'[h] = IF h = Server(r) THEN "idle" ELSE pc[h]
  BY <1>2, <1>3, GoOne DEF IInv
<1>6. d \in Contexts /\ d \notin Pooled /\ d # None
  BY Names, PoolAssumption
<1>7. Clone(r) \in [keys : Contexts \cup {None}, params : Contexts, writer : Requests \cup {None}]
  BY <1>6 DEF Clone
<1>8. \A q \in Requests : /\ cKeys'[q] = IF q = r THEN None ELSE cKeys[q]
                          /\ seen'[q] = IF q = r THEN {} ELSE seen[q]
  BY <1>2 DEF IInv, TypeOK
<1>9. TypeOK'
  <2>1. /\ ctx' \in [Contexts -> [keys : Contexts \cup {None}, params : Contexts,
                                  writer : Requests \cup {None}]]
        /\ maps' \in [Contexts -> Requests \cup {None}]
        /\ arrays' \in [Contexts -> Requests \cup {None}]
    <3>1. /\ ctx' = [ctx EXCEPT ![d] = Clone(r)]
          /\ maps' = [maps EXCEPT ![d] = In(cKeys[r])]
          /\ arrays' = [arrays EXCEPT ![d] = arrays'[d]]
      BY <1>6 DEF Copy, IInv, TypeOK
    <3>2. arrays'[d] = r
      BY <1>1, <1>6
    <3>. QED BY <1>1, <1>6, <1>7, <3>1, <3>2 DEF IInv, TypeOK
  <2>2. copied' \subseteq Requests /\ misused' \subseteq Contexts
    BY <1>1, <1>6 DEF IInv, TypeOK
  <2>. QED BY <1>2, <1>4, <2>1, <2>2 DEF IInv, TypeOK, Go
<1>10. \A x \in Contexts \ {d} : (x \in misused' <=> x \in misused) /\ ctx'[x] = ctx[x]
                                 /\ maps'[x] = maps[x] /\ arrays'[x] = arrays[x]
  BY <1>1
<1>11. d \notin misused' => serving[r] \notin misused
  BY <1>1
<1>12. ASSUME NEW g \in Goroutines, on[g] # None PROVE on[g] \in Contexts \ {d}
  <2>1. on[g] \in Contexts
    BY <1>12 DEF IInv, TypeOK
  <2>2. on[g] # d
    BY <1>1, Names, Kinds DEF IInv, Mine
  <2>. QED BY <2>1, <2>2
<1>13. /\ ctx'[d].keys = (IF cKeys[r] = None THEN None ELSE d)
       /\ ctx'[d].params = d /\ ctx'[d].writer = None
       /\ maps'[d] = In(cKeys[r]) /\ arrays'[d] = r
  BY <1>1, <1>6 DEF Clone
<1>. HIDE DEF d
<1>14. Mine'
  <2>1. \A x \in Contexts : ctx'[x].params = x /\ ctx'[x].keys \in {None, x}
    BY <1>10, <1>13 DEF IInv, Mine
  <2>2. \A x \in Pooled :
           /\ arrays'[x] = ctx'[x].writer
           /\ x \notin misused' /\ ctx'[x].keys # None => maps'[x] \in {ctx'[x].writer, None}
    BY <1>6, <1>10 DEF IInv, Mine, Contexts
  <2>3. ASSUME NEW q \in Requests
        PROVE  /\ serving'[q] # None => ctx'[serving'[q]].writer = q
               /\ ctx'[CopyOf(q)].writer = None
               /\ CopyOf(q) \notin misused' /\ ctx'[CopyOf(q)].keys # None => maps'[CopyOf(q)] \in {q, None}
               /\ q \in copied' => arrays'[CopyOf(q)] = q
    <3>1. serving[q] # None => serving[q] \in Contexts \ {d} /\ ctx'[serving[q]] = ctx[serving[q]]
      BY <1>6, <1>10 DEF IInv, Held, Contexts
    <3>2. CASE q = r
      BY <1>1, <1>2, <1>11, <1>13, <3>1, <3>2 DEF IInv, Mine, d
    <3>3. CASE q # r
      <4>1. CopyOf(q) \in Contexts \ {d}
        BY <3>3, Names DEF d
      <4>. QED BY <1>1, <1>2, <1>10, <3>1, <3>3, <4>1 DEF IInv, Mine
    <3>. QED BY <3>2, <3>3
  <2>4. ASSUME NEW g \in Goroutines
        PROVE  /\ on'[g] \in Pooled \ misused' => ctx'[on'[g]].writer = g[1]
               /\ on'[g] \in Copies => on'[g] = CopyOf(g[1]) /\ g[1] \in copied'
    <3>1. on'[g] = on[g] /\ (on[g] # None => on[g] \in Contexts \ {d})
      BY <1>2, <1>12
    <3>2. None \notin Pooled
      BY PoolAssumption DEF Contexts
    <3>. QED BY <1>1, <1>10, <3>1, <3>2 DEF IInv, Mine
  <2>. QED BY <2>1, <2>2, <2>3, <2>4 DEF Mine
<1>15. Copying'
  <2>1. ASSUME NEW q \in Requests, pc'[Server(q)] \in {"Copy", "clone"}
        PROVE  /\ q \notin copied'
               /\ cKeys'[q] # None => cKeys'[q] = serving'[q] /\ ctx'[serving'[q]].keys = serving'[q]
               /\ In(cKeys[q])' \in seen'[q]
    <3>1. q # r /\ pc[Server(q)] \in {"Copy", "clone"}
      BY <1>5, <2>1, Distinct
    <3>2. /\ q \notin copied
          /\ cKeys[q] # None => cKeys[q] = serving[q] /\ ctx[serving[q]].keys = serving[q]
          /\ In(cKeys[q]) \in seen[q]
      BY <3>1 DEF IInv, Copying
    <3>3. cKeys[q] # None => cKeys[q] \in Contexts \ {d}
      BY <1>6, <3>2 DEF IInv, Held, Contexts
    <3>. QED BY <1>1, <1>2, <1>8, <1>10, <3>1, <3>2, <3>3 DEF In
  <2>. QED BY <2>1 DEF Copying
<1>16. Filled'
  <2>1. nilWrites' \subseteq misused'
    BY <1>1, <1>2 DEF IInv, Filled
  <2>2. ASSUME NEW g \in Goroutines, pc'[g] = "assign", on'[g] \notin misused'
        PROVE  ctx'[on'[g]].keys # None
    <3>1. pc[g] = "assign" /\ on'[g] = on[g]
      BY <1>2, <1>5, <2>2
    <3>2. on[g] \in Contexts \ {d}
      BY <1>12, <3>1 DEF IInv, Locked
    <3>. QED BY <1>10, <2>2, <3>1, <3>2 DEF IInv, Filled
  <2>. QED BY <2>1, <2>2 DEF Filled
<1>. QED BY <1>4, <1>9, <1>14, <1>15, <1>16

-----------------------------------------------------------------------------

(* At first no Context has been allocated.                                 *)
LEMMA PoolInit == Init => IInv
<1>. SUFFICES ASSUME Init PROVE IInv
  OBVIOUS
<1>1. TypeOK
  <2>1. \A c \in Contexts : [keys |-> None, params |-> c, writer |-> None]
                               \in [keys : Contexts \cup {None}, params : Contexts,
                                    writer : Requests \cup {None}]
    OBVIOUS
  <2>. QED BY <2>1 DEF Init, TypeOK
<1>2. Held /\ Exclusive
  BY Distinct DEF Init, Held, Exclusive
<1>3. Mine
  BY Names, PoolAssumption DEF Init, Mine, Contexts
<1>4. Locked /\ Copying /\ Filled
  BY Distinct DEF Init, Locked, Copying, Filled
<1>. QED BY <1>1, <1>2, <1>3, <1>4 DEF IInv

(* Every step keeps who holds a Context.                                    *)
LEMMA HeldStep == Held /\ Exclusive /\ [Next]_pvars => (Held /\ Exclusive)'
<1>. SUFFICES ASSUME Held, Exclusive, [Next]_pvars PROVE (Held /\ Exclusive)'
  OBVIOUS
<1>1. ASSUME NEW r \in Requests, ServeHTTP(r) PROVE (Held /\ Exclusive)'
  BY <1>1, ServeInv
<1>2. ASSUME NEW r \in Requests, Start(r) \/ HelperEnds(r) PROVE (Held /\ Exclusive)'
  BY <1>2, HelperInv
<1>3. ASSUME NEW r \in Requests, Ends(r) \/ Panics(r) PROVE (Held /\ Exclusive)'
  BY <1>3, EndInv DEF Ends, Panics
<1>4. ASSUME NEW r \in Requests, Copy(r) PROVE (Held /\ Exclusive)'
  BY <1>4, CopyInv
<1>5. ASSUME NEW r \in Requests, HandleContext(r) \/ CopyCalled(r) PROVE (Held /\ Exclusive)'
  <2>1. UNCHANGED <<pool, serving, arrays, on>>
    BY <1>5 DEF HandleContext, CopyCalled, Unchanged
  <2>. QED BY <2>1, OtherInv
<1>6. ASSUME NEW g \in Goroutines, Lock(g) \/ RLock(g) \/ Make(g) \/ Assign(g) \/ Delete(g) \/ Get(g)
      PROVE (Held /\ Exclusive)'
  <2>1. UNCHANGED <<pool, serving, arrays, on>>
    BY <1>6 DEF Lock, RLock, Make, Assign, Delete, Get, Unchanged
  <2>. QED BY <2>1, OtherInv
<1>7. CASE UNCHANGED pvars
  BY <1>7, OtherInv DEF pvars
<1>. QED BY <1>1, <1>2, <1>3, <1>4, <1>5, <1>6, <1>7 DEF Next

(* Every step keeps the other parts.                                        *)
LEMMA PartsStep ==
    IInv /\ [Next]_pvars => TypeOK' /\ Mine' /\ Locked' /\ Copying' /\ Filled'
<1>. DEFINE Parts == TypeOK' /\ Mine' /\ Locked' /\ Copying' /\ Filled'
<1>. SUFFICES ASSUME IInv, [Next]_pvars PROVE Parts
  OBVIOUS
<1>1. ASSUME NEW r \in Requests, NEW c \in Pooled, Renewed(c, r) PROVE Parts
  BY <1>1, RenewedType, RenewedMine, RenewedLocked, RenewedCopying, RenewedFilled
<1>2. ASSUME NEW r \in Requests, ServeHTTP(r) PROVE Parts
  BY <1>1, <1>2, ServeRenews
<1>3. ASSUME NEW r \in Requests, HandleContext(r) PROVE Parts
  BY <1>1, <1>3, HandleRenews DEF Renewed
<1>4. ASSUME NEW r \in Requests, Start(r) \/ HelperEnds(r) PROVE Parts
  BY <1>4, HelperParts
<1>5. ASSUME NEW r \in Requests, Ends(r) \/ Panics(r) PROVE Parts
  BY <1>5, EndParts
<1>6. ASSUME NEW r \in Requests, CopyCalled(r) PROVE Parts
  BY <1>6, CopyCalledParts
<1>7. ASSUME NEW r \in Requests, Copy(r) PROVE Parts
  BY <1>7, CopyParts
<1>8. ASSUME NEW g \in Goroutines, Lock(g) \/ RLock(g) PROVE Parts
  BY <1>8, LockParts
<1>9. ASSUME NEW g \in Goroutines, Make(g) PROVE Parts
  BY <1>9, MakeParts
<1>10. ASSUME NEW g \in Goroutines, Assign(g) PROVE Parts
  BY <1>10, AssignStores, StoreParts
<1>11. ASSUME NEW g \in Goroutines, Delete(g) PROVE Parts
  BY <1>11, DeleteStores, StoreParts
<1>12. ASSUME NEW g \in Goroutines, Get(g) PROVE Parts
  BY <1>12, GetParts
<1>13. CASE UNCHANGED pvars
  BY <1>13 DEF pvars, IInv, TypeOK, Mine, Locked, Copying, Filled, In
<1>. HIDE DEF Parts
<1>. QED BY <1>2, <1>3, <1>4, <1>5, <1>6, <1>7, <1>8, <1>9, <1>10, <1>11, <1>12, <1>13 DEF Next

(* Every step of every goroutine keeps the invariant.                      *)
LEMMA PoolStep == IInv /\ [Next]_pvars => IInv'
BY HeldStep, PartsStep DEF IInv

THEOREM PoolInvariant == Spec => []IInv
BY PoolInit, PoolStep, PTL DEF Spec

-----------------------------------------------------------------------------
(* What the invariant says *)

(* Whose map and array a Context leads to says whose data it holds.        *)
LEMMA OwnFromInv == IInv => OwnData
<1>. SUFFICES ASSUME IInv, NEW g \in Goroutines, on[g] # None, on[g] \notin misused
              PROVE  LET c == ctx[on[g]] IN
                     /\ Value(on[g]) \in {g[1], None}
                     /\ arrays[c.params] = g[1]
                     /\ c.writer = (IF on[g] \in Copies THEN None ELSE g[1])
  BY DEF OwnData
<1>1. on[g] \in Contexts /\ ctx[on[g]].params = on[g] /\ ctx[on[g]].keys \in {None, on[g]}
  BY DEF IInv, TypeOK, Mine
<1>2. CASE on[g] \in Pooled
  <2>1. on[g] \notin Copies /\ ctx[on[g]].writer = g[1] /\ arrays[on[g]] = g[1]
    BY <1>2, PoolAssumption DEF IInv, Mine
  <2>2. ctx[on[g]].keys # None => maps[on[g]] \in {g[1], None}
    BY <1>2, <2>1 DEF IInv, Mine
  <2>. QED BY <1>1, <2>1, <2>2 DEF Value, In
<1>3. CASE on[g] \in Copies
  <2>1. on[g] = CopyOf(g[1]) /\ g[1] \in copied /\ g[1] \in Requests
    BY <1>3, Kinds DEF IInv, Mine
  <2>2. /\ ctx[on[g]].writer = None /\ arrays[on[g]] = g[1]
        /\ ctx[on[g]].keys # None => maps[on[g]] \in {g[1], None}
    BY <2>1 DEF IInv, Mine
  <2>. QED BY <1>1, <1>3, <2>2 DEF Value, In
<1>. QED BY <1>1, <1>2, <1>3 DEF Contexts

(* Whoever writes a map holds the lock of everyone else who uses it.       *)
LEMMA SafeFromInv == IInv => MapsSafe
<1>. SUFFICES ASSUME IInv PROVE MapsSafe
  OBVIOUS
<1>1. ASSUME NEW g \in Goroutines, pc[g] \in {"assign", "delete", "get", "clone"}
      PROVE  Using(g) \in {None, on[g]} /\ on[g] \in Contexts
  <2>1. on[g] \in Contexts
    BY <1>1 DEF IInv, Locked, TypeOK
  <2>2. CASE pc[g] # "clone"
    BY <2>1, <2>2 DEF Using, IInv, Mine
  <2>3. CASE pc[g] = "clone"
    <3>1. g = Server(g[1]) /\ g[1] \in Requests
      BY <2>3, Kinds DEF IInv, Locked
    <3>2. cKeys[g[1]] \in {None, serving[g[1]]} /\ on[g] = serving[g[1]]
      BY <2>3, <3>1 DEF IInv, Copying, Held
    <3>. QED BY <2>1, <2>3, <3>2 DEF Using
  <2>. QED BY <2>2, <2>3
<1>2. ASSUME NEW g \in Goroutines, NEW h \in Goroutines, g # h, on[g] = on[h],
             pc[g] \in {"assign", "delete"}, pc[h] \in {"assign", "delete", "get", "clone"}
      PROVE  FALSE
  <2>1. lock[on[g]].writer = g /\ g # None /\ on[g] \in Contexts
    BY <1>1, <1>2, Kinds DEF IInv, Locked
  <2>2. lock[on[g]].readers = {}
    BY <2>1 DEF IInv, Locked
  <2>. QED BY <1>2, <2>1, <2>2 DEF IInv, Locked
<1>3. ASSUME NEW g \in Goroutines, NEW h \in Goroutines, g # h,
             pc[g] \in {"assign", "delete"}, pc[h] \in {"assign", "delete", "get", "clone"}
      PROVE  Using(g) # Using(h) \/ Using(g) = None
  <2>1. Using(g) \in {None, on[g]} /\ Using(h) \in {None, on[h]} /\ on[g] # on[h]
    BY <1>1, <1>2, <1>3
  <2>. QED BY <2>1
<1>. QED BY <1>3 DEF MapsSafe, IInv, Filled

(* A call on the key store changes the values of one Context at most, and   *)
(* only while its goroutine has the lock to write.                          *)
LEMMA StoreValue ==
    ASSUME IInv, NEW g \in Goroutines, NEW from \in {"assign", "delete"}, NEW value \in {g[1], None},
           Go(g, from, "idle"), Store(on[g], value), UNCHANGED <<ctx, copied>>, NEW r \in Requests
    PROVE  Value(CopyOf(r))' # Value(CopyOf(r)) => lock[CopyOf(r)].writer = Helper(r)
<1>1. pc[g] = from
  BY GoOne DEF IInv
<1>2. on[g] \in Contexts /\ value \in Requests \cup {None} /\ lock[on[g]].writer = g
  BY <1>1, Kinds DEF IInv, Locked, TypeOK
<1>3. \A x \in Contexts : maps'[x] = IF x = on[g] /\ ctx[on[g]].keys # None THEN value ELSE maps[x]
  BY <1>2, StoreOne DEF IInv
<1>4. CopyOf(r) \in Contexts /\ ctx[CopyOf(r)].keys \in {None, CopyOf(r)}
  BY Names DEF IInv, Mine
<1>5. CASE on[g] = CopyOf(r)
  <2>1. g[1] = r
    BY <1>5, Names, Kinds DEF IInv, Mine
  <2>2. g # Server(r)
    <3>1. on[Server(r)] \in Pooled \cup {None}
      BY DEF IInv, Held
    <3>2. CopyOf(r) \notin Pooled \cup {None}
      BY Names, PoolAssumption
    <3>. QED BY <1>5, <3>1, <3>2
  <2>. QED BY <1>2, <1>5, <2>1, <2>2, Kinds
<1>6. CASE on[g] # CopyOf(r)
  BY <1>3, <1>4, <1>6 DEF Value, In
<1>. QED BY <1>5, <1>6

(* What a copy holds was there during the call, and stays but for its helper. *)
LEMMA ApartStep ==
    ASSUME IInv, [Next]_pvars, NEW r \in Requests
    PROVE  /\ r \in copied' \ copied => Value(CopyOf(r))' \in seen[r]
           /\ r \in copied /\ Value(CopyOf(r))' # Value(CopyOf(r)) => lock[CopyOf(r)].writer = Helper(r)
<1>. DEFINE d == CopyOf(r)
            Apart == /\ r \in copied' \ copied => Value(d)' \in seen[r]
                     /\ r \in copied /\ Value(d)' # Value(d) => lock[d].writer = Helper(r)
<1>1. d \in Contexts /\ d \notin Pooled /\ d # None /\ ctx[d].keys \in {None, d}
  BY Names, PoolAssumption DEF IInv, Mine
<1>2. ASSUME NEW q \in Requests, NEW c \in Pooled, Renewed(c, q) PROVE Apart
  <2>2. \A x \in Contexts \ {c} : ctx'[x] = ctx[x]
    <3>1. TypeOK /\ Reset(c, q)
      BY <1>2 DEF Renewed, IInv
    <3>2. \A x \in Contexts :
             ctx'[x] = IF x = c THEN [keys |-> None, params |-> c, writer |-> q] ELSE ctx[x]
      BY <3>1, ResetOne
    <3>. QED BY <3>2
  <2>1. ctx'[d] = ctx[d]
    BY <1>1, <2>2
  <2>. QED BY <1>2, <2>1 DEF Renewed, Value, In
<1>3. ASSUME NEW q \in Requests, ServeHTTP(q) PROVE Apart
  BY <1>2, <1>3, ServeRenews
<1>4. ASSUME NEW q \in Requests, HandleContext(q) PROVE Apart
  BY <1>2, <1>4, HandleRenews DEF Renewed
<1>5. ASSUME UNCHANGED <<ctx, maps, copied>> PROVE Apart
  BY <1>5 DEF Value, In
<1>6. ASSUME NEW q \in Requests, Copy(q) PROVE Apart
  <2>1. /\ \A x \in Contexts :
              /\ ctx'[x] = IF x = CopyOf(q) THEN Clone(q) ELSE ctx[x]
              /\ maps'[x] = IF x = CopyOf(q) THEN In(cKeys[q]) ELSE maps[x]
        /\ q \notin copied /\ copied' = copied \cup {q} /\ pc[Server(q)] = "clone"
    BY <1>6, CopyOne
  <2>2. CASE q = r
    <3>1. In(cKeys[r]) \in seen[r]
      BY <2>1, <2>2 DEF IInv, Copying
    <3>2. ctx'[d] = Clone(r) /\ maps'[d] = In(cKeys[r])
      BY <1>1, <2>1, <2>2
    <3>3. ctx'[d].keys = IF cKeys[r] = None THEN None ELSE d
      BY <3>2 DEF Clone
    <3>4. Value(d)' = In(cKeys[r])
      BY <1>1, <3>2, <3>3 DEF Value, In
    <3>. QED BY <2>1, <2>2, <3>1, <3>4
  <2>3. CASE q # r
    <3>1. CopyOf(q) # d
      BY <2>3, Names
    <3>. QED BY <1>1, <2>1, <2>3, <3>1 DEF Value, In
  <2>. QED BY <2>2, <2>3
<1>7. ASSUME NEW g \in Goroutines, Make(g) PROVE Apart
  <2>1. UNCHANGED copied /\ on[g] \in Contexts /\ on[g] # None
    BY <1>7 DEF Make, Unchanged, Go, IInv, Locked, TypeOK
  <2>2. CASE on[g] = d /\ ctx[d].keys = None
    <3>1. ctx' = [ctx EXCEPT ![d].keys = d] /\ maps' = [maps EXCEPT ![d] = None]
      BY <1>7, <2>2 DEF Make
    <3>2. ctx'[d].keys = d /\ maps'[d] = None
      BY <1>1, <3>1 DEF IInv, TypeOK
    <3>. QED BY <1>1, <2>1, <2>2, <3>2 DEF Value, In
  <2>3. CASE ~(on[g] = d /\ ctx[d].keys = None)
    <3>1. ctx'[d].keys = ctx[d].keys /\ (ctx[d].keys # None => maps'[d] = maps[d])
      BY <1>1, <1>7, <2>1, <2>3 DEF Make, IInv, TypeOK
    <3>. QED BY <1>1, <2>1, <3>1 DEF Value, In
  <2>. QED BY <2>2, <2>3
<1>8. ASSUME NEW g \in Goroutines, Assign(g) PROVE Apart
  <2>1. UNCHANGED copied
    BY <1>8 DEF Assign, Unchanged
  <2>. QED BY <1>8, <2>1, AssignStores, StoreValue
<1>9. ASSUME NEW g \in Goroutines, Delete(g) PROVE Apart
  <2>1. UNCHANGED copied
    BY <1>9 DEF Delete, Unchanged
  <2>. QED BY <1>9, <2>1, DeleteStores, StoreValue
<1>10. ASSUME NEW q \in Requests, Start(q) \/ HelperEnds(q) \/ Ends(q) \/ Panics(q) \/ CopyCalled(q)
       PROVE  Apart
  <2>1. UNCHANGED <<ctx, maps, copied>>
    BY <1>10 DEF Start, HelperEnds, Ends, Panics, EndsWith, CopyCalled, Unchanged
  <2>. QED BY <1>5, <2>1
<1>11. ASSUME NEW g \in Goroutines, Lock(g) \/ RLock(g) \/ Get(g) PROVE Apart
  <2>1. UNCHANGED <<ctx, maps, copied>>
    BY <1>11 DEF Lock, RLock, Get, Unchanged
  <2>. QED BY <1>5, <2>1
<1>12. ASSUME UNCHANGED pvars PROVE Apart
  BY <1>5, <1>12 DEF pvars
<1>. HIDE DEF Apart
<1>13. Apart
  BY <1>3, <1>4, <1>6, <1>7, <1>8, <1>9, <1>10, <1>11, <1>12 DEF Next
<1>. QED BY <1>13 DEF Apart

-----------------------------------------------------------------------------

(* A Context belongs to one request at a time, and never to one while it is *)
(* in the pool, whatever panics, HandleContext and goroutines that outlive  *)
(* their request do (gin.go:728-735).                                       *)
THEOREM ContextsExclusive == Spec => []Exclusive
BY PoolInvariant, PTL DEF IInv

(* Every goroutine finds its own request in the Context or the copy that it *)
(* holds, unless the Context was reset while a goroutine still held it      *)
(* (context.go:103-145).                                                    *)
THEOREM DataOwned == Spec => []OwnData
BY PoolInvariant, OwnFromInv, PTL

(* No goroutine writes a map that another one uses, and only through a      *)
(* Context that was reset under it is a nil map written                     *)
(* (context.go:275-292, 475-481).                                           *)
THEOREM MapsNeverRaced == Spec => []MapsSafe
BY PoolInvariant, SafeFromInv, PTL

(* A copy holds a value the key had during the call of Copy, and from then  *)
(* on only its own holder changes it (context.go:122-145).                  *)
THEOREM CopiesApart == Spec => CopyApart
<1>1. IInv /\ [Next]_pvars =>
        [\A r \in Requests :
           /\ r \in copied' \ copied => Value(CopyOf(r))' \in seen[r]
           /\ r \in copied /\ Value(CopyOf(r))' # Value(CopyOf(r)) => lock[CopyOf(r)].writer = Helper(r)
        ]_pvars
  BY ApartStep
<1>. QED BY <1>1, PoolInvariant, PTL DEF Spec, CopyApart
=============================================================================
