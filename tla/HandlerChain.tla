---------------------------- MODULE HandlerChain ----------------------------
(***************************************************************************)
(* Flow control of one request: Context.Next, Context.Abort, the int8      *)
(* field c.index, Recovery, and the file handler that restarts the chain   *)
(* with the 404 handlers.                                                  *)
(*                                                                         *)
(* A handler is known by its kind; what a handler of the application does  *)
(* is any sequence of calls of Next and Abort, then a return or a panic:   *)
(*   "nil"       a nil HandlerFunc, which Next skips                       *)
(*   "handler"   middleware or a final handler of the application          *)
(*   "recovery"  Recovery(): calls Next, aborts with 500 after a panic     *)
(*   "custom"    CustomRecovery whose function returns without aborting    *)
(*   "static"    the handler of StaticFS, the last one of its chain        *)
(*                                                                         *)
(* Go's call stack is frames: the handlers that have been called and have  *)
(* not returned, innermost last.  Everything below the last frame is       *)
(* inside its call of Next.                                                *)
(*                                                                         *)
(* An operator with an underscore in its name is the mutant of the one     *)
(* below it that the runs must tell apart; nothing else uses it.           *)
(***************************************************************************)
EXTENDS Integers, Sequences

CONSTANTS
    AbortIndex,     \* abortIndex, 63 in the code
    MaxInt8,        \* math.MaxInt8, 127 in the code
    Chains,         \* the merged handler chains a request may be given
    NoRoute,        \* engine.noRoute, the handlers given to NoRoute
    MaxNextCalls    \* bound: how often one handler may call c.Next()

Kinds == {"nil", "handler", "recovery", "custom", "static"}

(* The chains come from combineHandlers, which rejects those of AbortIndex  *)
(* handlers or more; a file handler is registered last.  NoRoute keeps the  *)
(* raw list, which rebuild404Handlers has measured with the middleware.     *)
ASSUME ChainsAssumption ==
    /\ AbortIndex \in Nat \ {0}
    /\ MaxInt8 = 2 * AbortIndex + 1
    /\ MaxNextCalls \in Nat \ {0}
    /\ NoRoute \in Seq(Kinds \ {"static"})
    /\ Len(NoRoute) < AbortIndex
    /\ \A c \in Chains :
          /\ c \in Seq(Kinds)
          /\ Len(c) < AbortIndex
          /\ \A i \in 1..Len(c) : c[i] = "static" => i = Len(c)

VARIABLES
    index,      \* c.index, an int8
    handlers,   \* c.handlers; handlers[i + 1] is Go's c.handlers[i]
    frames,     \* the handlers on the call stack, with their calls of Next
    pc,         \* "loop": at the test of Next's loop; "body": the last
                \* frame's handler runs; "done": the dispatcher's Next has
                \* returned; "crashed": a panic left the engine
    ran,        \* history: the indices of the handlers called, in order
    aborted     \* history: Abort was called since the chain was set

vars == <<index, handlers, frames, pc, ran, aborted>>

Frame == [kind : Kinds, nexts : 0..MaxNextCalls]
Top == frames[Len(frames)]

(* int8 arithmetic of c.index++.  The mutant is the tempting repair that     *)
(* sets an index that became negative to 0.                                 *)
Inc_FromZero(i) == IF i = MaxInt8 THEN 0 ELSE i + 1
Inc(i) == IF i = MaxInt8 THEN -MaxInt8 - 1 ELSE i + 1

(* The frame of a handler that makes no further call before it returns, and *)
(* the one of a handler that calls Next: a recovery handler does so once.   *)
Spent(frame) == [kind |-> frame.kind, nexts |-> MaxNextCalls]
InNext(frame) ==
    IF frame.kind = "handler"
    THEN [kind |-> frame.kind, nexts |-> frame.nexts + 1]
    ELSE Spent(frame)

TypeOK ==
    /\ index \in -MaxInt8 - 1 .. MaxInt8
    /\ handlers \in Chains \cup {NoRoute}
    /\ frames \in Seq(Frame)
    /\ pc \in {"loop", "body", "done", "crashed"}
    /\ ran \in Seq(Nat)
    /\ aborted \in BOOLEAN
    /\ pc = "body" => frames # <<>>

-----------------------------------------------------------------------------

(* handleHTTPRequest (or serveError) has set c.handlers and calls c.Next(), *)
(* whose first statement is c.index++.                                      *)
Init ==
    /\ handlers \in Chains
    /\ index = 0
    /\ frames = <<>>
    /\ pc = "loop"
    /\ ran = <<>>
    /\ aborted = FALSE

(* The handler of the last frame calls c.Next(). *)
CallNext_NoIncrement ==
    /\ pc = "body" /\ Top.kind \notin {"static", "nil"} /\ Top.nexts < MaxNextCalls
    /\ frames' = [frames EXCEPT ![Len(frames)] = InNext(Top)]
    /\ pc' = "loop"
    /\ UNCHANGED <<index, handlers, ran, aborted>>
CallNext ==
    /\ pc = "body"
    /\ Top.kind \notin {"static", "nil"}
    /\ Top.nexts < MaxNextCalls
    /\ frames' = [frames EXCEPT ![Len(frames)] = InNext(Top)]
    /\ index' = Inc(index)
    /\ pc' = "loop"
    /\ UNCHANGED <<handlers, ran, aborted>>

(* Next's loop calls the handler at c.index. *)
LoopCall ==
    /\ pc = "loop"
    /\ index \in 0 .. Len(handlers) - 1
    /\ handlers[index + 1] # "nil"
    /\ frames' = Append(frames, [kind |-> handlers[index + 1], nexts |-> 0])
    /\ ran' = Append(ran, index)
    /\ pc' = "body"
    /\ UNCHANGED <<index, handlers, aborted>>

(* Next's loop steps over a nil handler. *)
LoopNil_Stuck ==
    /\ pc = "loop" /\ index \in 0 .. Len(handlers) - 1 /\ handlers[index + 1] = "nil"
    /\ UNCHANGED vars
LoopNil_Twice ==
    /\ pc = "loop" /\ index \in 0 .. Len(handlers) - 1 /\ handlers[index + 1] = "nil"
    /\ index' = Inc(Inc(index))
    /\ UNCHANGED <<handlers, frames, pc, ran, aborted>>
LoopNil ==
    /\ pc = "loop"
    /\ index \in 0 .. Len(handlers) - 1
    /\ handlers[index + 1] = "nil"
    /\ index' = Inc(index)
    /\ UNCHANGED <<handlers, frames, pc, ran, aborted>>

(* Next returns, to the handler that called it or to the dispatcher when    *)
(* only the first base frames are left.                                     *)
LoopExit(base) ==
    /\ pc = "loop"
    /\ index >= Len(handlers)
    /\ pc' = IF Len(frames) = base THEN "done" ELSE "body"
    /\ UNCHANGED <<index, handlers, frames, ran, aborted>>

(* The handler returns into Next's loop, which increments c.index.          *)
(* A recovery handler does nothing but call Next, a file handler nothing    *)
(* but serve the file.                                                      *)
Return ==
    /\ pc = "body"
    /\ Top.kind \in {"recovery", "custom", "static"} => Top.nexts > 0
    /\ frames' = SubSeq(frames, 1, Len(frames) - 1)
    /\ index' = Inc(index)
    /\ pc' = "loop"
    /\ UNCHANGED <<handlers, ran, aborted>>

Abort_MaxInt8 ==
    /\ pc = "body" /\ Top.kind = "handler"
    /\ index' = MaxInt8 /\ aborted' = TRUE
    /\ UNCHANGED <<handlers, frames, pc, ran>>
Abort_NoIndex ==
    /\ pc = "body" /\ Top.kind = "handler"
    /\ aborted' = TRUE
    /\ UNCHANGED <<index, handlers, frames, pc, ran>>
Abort ==
    /\ pc = "body"
    /\ Top.kind = "handler"
    /\ index' = AbortIndex
    /\ aborted' = TRUE
    /\ UNCHANGED <<handlers, frames, pc, ran>>

(* The file handler finds no file: it installs the 404 handlers, resets     *)
(* c.index to -1 and returns.                                               *)
StaticMiss_IndexZero ==
    /\ pc = "body" /\ Top.kind = "static" /\ Top.nexts = 0
    /\ handlers' = NoRoute /\ index' = 0 /\ ran' = <<>>
    /\ frames' = [frames EXCEPT ![Len(frames)] = Spent(Top)]
    /\ UNCHANGED <<pc, aborted>>
StaticMiss_SameChain ==
    /\ pc = "body" /\ Top.kind = "static" /\ Top.nexts = 0
    /\ index' = -1 /\ ran' = <<>>
    /\ frames' = [frames EXCEPT ![Len(frames)] = Spent(Top)]
    /\ UNCHANGED <<handlers, pc, aborted>>
StaticMiss ==
    /\ pc = "body"
    /\ Top.kind = "static"
    /\ Top.nexts = 0
    /\ handlers' = NoRoute
    /\ index' = -1
    /\ frames' = [frames EXCEPT ![Len(frames)] = Spent(Top)]
    /\ ran' = <<>>
    /\ UNCHANGED <<pc, aborted>>

(* The file handler has sent the file. *)
StaticServe ==
    /\ pc = "body"
    /\ Top.kind = "static"
    /\ Top.nexts = 0
    /\ frames' = [frames EXCEPT ![Len(frames)] = Spent(Top)]
    /\ UNCHANGED <<index, handlers, pc, ran, aborted>>

(* The frames whose deferred function recovers a panic. *)
Recoverers == {k \in 1..Len(frames) : frames[k].kind \in {"recovery", "custom"}}

(* A panic unwinds to the innermost recovery handler, which handles it in   *)
(* its deferred function and returns; with none, it leaves the engine.      *)
(* After a panic for a broken connection every recovery handler aborts.     *)
Unwind(broken) ==
    \/ /\ Recoverers = {}
       /\ pc' = "crashed"
       /\ frames' = <<>>
       /\ UNCHANGED <<index, handlers, ran, aborted>>
    \/ \E k \in Recoverers :
          /\ \A j \in Recoverers : j <= k
          /\ frames' = SubSeq(frames, 1, k)
          /\ pc' = "body"
          /\ index' = IF frames[k].kind = "recovery" \/ broken THEN AbortIndex ELSE index
          /\ aborted' = (aborted \/ frames[k].kind = "recovery" \/ broken)
          /\ UNCHANGED <<handlers, ran>>

(* The running handler panics; the file handler does so on a failed Open    *)
(* or ServeHTTP only.                                                       *)
CanPanic ==
    /\ pc = "body"
    /\ Top.kind \in {"handler", "static"}
    /\ Top.kind = "static" => Top.nexts = 0

Panic == CanPanic /\ \E broken \in BOOLEAN : Unwind(broken)

(* c.handlers[c.index] with a negative index: the runtime panics. *)
BadIndex == pc = "loop" /\ index < 0
LoopBadIndex == BadIndex /\ Unwind(FALSE)

Step ==
    \/ CallNext
    \/ LoopCall
    \/ LoopNil
    \/ Return
    \/ Abort
    \/ StaticMiss
    \/ StaticServe
    \/ Panic
    \/ LoopBadIndex

Terminated == pc \in {"done", "crashed"} /\ UNCHANGED vars

Next == Step \/ LoopExit(0) \/ Terminated

Spec == Init /\ [][Next]_vars

(* The Go scheduler keeps running the request's goroutine; that a handler   *)
(* calls Next finitely often is MaxNextCalls.                               *)
FairSpec == Spec /\ WF_vars(Next)

-----------------------------------------------------------------------------
(* Properties *)

(* The handlers of the current chain that Next's loop has passed. *)
Cursor == IF pc \in {"body", "crashed"} THEN index + 1 ELSE index
Passed == {i \in 0 .. Len(handlers) - 1 : i < Cursor /\ handlers[i + 1] # "nil"}
Remaining == {i \in 0 .. Len(handlers) - 1 : i >= Cursor /\ handlers[i + 1] # "nil"}
RanSet == {ran[i] : i \in 1..Len(ran)}

(* c.index (context.go:187-195, 206-208) never wraps past the int8 range,   *)
(* although every return and every Abort under nested calls of Next goes on *)
(* incrementing it: so c.handlers[c.index] is never out of range.           *)
IndexFits == index >= IF pc = "loop" THEN 0 ELSE -1

(* Handlers are called in the order of the chain, none of them twice, also  *)
(* when Next is nested, repeated, or resumed after a panic.                 *)
InOrder == \A i, j \in 1..Len(ran) : i < j => ran[i] < ran[j]

(* A request that comes to its end without Abort has called every handler   *)
(* of the chain it ended with, whether or not its middleware calls Next.    *)
NoneSkipped == (pc = "done" /\ ~aborted) => (RanSet = Passed /\ Remaining = {})

(* After Abort no handler of the chain is called (context.go:202-208),      *)
(* however many middleware still return through Next's loop.                *)
AbortStops == [][aborted => ran' = ran]_vars

(* IsAborted (context.go:197-200) tells a running handler whether Abort was *)
(* called, in chains of at most half of abortIndex: each handler that       *)
(* returns through a nested Next adds one to the index.                     *)
IsAborted == index >= AbortIndex
IsAbortedTruthful ==
    pc = "body" /\ handlers # NoRoute /\ 2 * Len(handlers) <= AbortIndex
        => (IsAborted <=> aborted)

(* Every request comes to its end when every handler does.                  *)
Ends == <>(pc \in {"done", "crashed"})

(* The abstract pipeline this chain implements. *)
Todo == IF aborted \/ pc = "crashed" THEN {} ELSE Remaining
Active == Len(frames)
Phase == IF pc \in {"loop", "body"} THEN "running" ELSE pc
Pipe == INSTANCE Pipeline WITH chain <- handlers, todo <- Todo, active <- Active, state <- Phase
PipelineSpec == Pipe!Spec

-----------------------------------------------------------------------------
(* The inductive invariant behind the properties above.                     *)

(* Usage under which the index arithmetic is safe: a handler calls Next at  *)
(* most once, and the 404 handlers fit on top of a chain that can fall      *)
(* through to them.  Neither is enforced by the code.                       *)
SafeUse ==
    /\ MaxNextCalls = 1
    /\ \A c \in Chains :
          (\E i \in 1..Len(c) : c[i] = "static") => Len(c) + Len(NoRoute) <= AbortIndex

(* Below the innermost handler, and everywhere while Next's loop runs,      *)
(* every handler has made its call of Next.                                 *)
CallersWait ==
    \A k \in 1..Len(frames) :
        (pc = "loop" \/ k < Len(frames)) => frames[k].nexts = MaxNextCalls

(* Each handler on the stack has moved the cursor by one since the chain    *)
(* was set, so the stack is no deeper than the chain is long; after the     *)
(* file handler installed the 404 handlers, base frames lie below theirs.   *)
(* After Abort no handler is called, and the stack may be any (the one that *)
(* a panic leaves below the HandleContext it passed, in Request).           *)
DepthInv ==
    \/ aborted /\ Len(frames) <= AbortIndex
    \/ /\ handlers \in Chains
       /\ Len(frames) <= Cursor
       /\ Len(frames) <= Len(handlers)
       /\ \A k \in 1..Len(frames) :
             frames[k].kind = "static" => \E i \in 1..Len(handlers) : handlers[i] = "static"
    \/ /\ handlers = NoRoute
       /\ \E base \in 0..AbortIndex :
             /\ base + Len(NoRoute) <= AbortIndex
             /\ Len(frames) <= base + Cursor
             /\ Len(frames) <= base + Len(NoRoute)
       /\ \A k \in 1..Len(frames) :
             frames[k].kind = "static" => frames[k].nexts = MaxNextCalls

(* Once the index has passed the chain it is incremented once per frame     *)
(* that returns and once per call of Next still to come.                    *)
IndexInv ==
    \/ index < Len(handlers)
    \/ /\ pc = "body"
       /\ index + Len(frames) + (MaxNextCalls - Top.nexts) <= MaxInt8
    \/ /\ pc # "body"
       /\ index + Len(frames) <= MaxInt8

(* The cursor stays past the chain after Abort; a file handler that has     *)
(* just been called was not called after Abort.                             *)
AbortInv ==
    /\ aborted => index >= AbortIndex
    /\ (pc = "body" /\ Top.kind = "static" /\ Top.nexts = 0) => ~aborted

RanInv ==
    /\ \A i \in 1..Len(ran) : ran[i] < Len(handlers) /\ ran[i] < Cursor
    /\ ~aborted => RanSet = Passed
    /\ pc = "done" => frames = <<>> /\ index >= Len(handlers)

IInv ==
    /\ TypeOK
    /\ IndexFits
    /\ CallersWait
    /\ DepthInv
    /\ IndexInv
    /\ AbortInv
    /\ InOrder
    /\ RanInv

=============================================================================
