------------------------------ MODULE Request ------------------------------
(***************************************************************************)
(* One request through handleHTTPRequest: the chain the router chose runs  *)
(* (HandlerChain), its handlers use the writer (ResponseWriter), the tail  *)
(* of handleHTTPRequest or serveError completes the response, and a        *)
(* handler may re-enter the engine with HandleContext, which runs a second *)
(* dispatch on the same Context.  An operator with an underscore in its    *)
(* name is a mutant of the one below it.                                   *)
(***************************************************************************)
EXTENDS HandlerChain, FiniteSets

CONSTANTS
    Codes, CanHijack, CanFlush, MaxBody,    \* see ResponseWriter
    RouteChains,    \* the chains of registered routes
    ErrorChains,    \* allNoRoute and allNoMethod
    ErrorCode,      \* the status serveError is called with: 404 or 405
    MaxReentry      \* bound: calls of HandleContext

VARIABLES
    writer,     \* c.writermem, and the net/http response under it
    route,      \* what this activation of handleHTTPRequest does after Next:
                \* "error": the tail of serveError; else WriteHeaderNow
    reentries,  \* how often HandleContext was called
    saved,      \* the suspended activations, one for each HandleContext
    quiet,      \* history: no handler has used the writer
    caught,     \* history: a panic reached Recovery before any output
    stopped     \* history: Abort was called for this request

RW == INSTANCE ResponseWriter WITH w <- writer, open <- pc # "served"

ASSUME RequestAssumption ==
    /\ RouteChains \cup ErrorChains \cup {<<>>} \subseteq Chains
    /\ \A c \in ErrorChains : \A i \in 1..Len(c) : c[i] # "static"
    /\ ErrorCode \in {404, 405}
    /\ MaxReentry \in Nat

rvars == <<vars, writer, route, saved, reentries, quiet, caught, stopped>>

Routes == {"match", "error", "redirectGET", "redirect"}

(* The frames below this activation of handleHTTPRequest. *)
Base == IF saved = <<>> THEN 0 ELSE saved[Len(saved)].base

(* What handleHTTPRequest can do with a request: run a route's chain; run   *)
(* the 404 or 405 chain in serveError, which stores the status without      *)
(* asking the writer; or redirect, which runs no handler.                   *)
Outcomes ==
    [chain : RouteChains, route : {"match"}] \cup [chain : ErrorChains, route : {"error"}]
        \cup [chain : {<<>>}, route : {"redirectGET", "redirect"}]

Redirect(wr, rt) ==
    IF rt = "redirectGET" THEN RW!Write(RW!WriteHeader(wr, 301), 1) ELSE RW!WriteHeader(wr, 307)
Entered(wr, rt) ==
    CASE rt = "match" -> wr
      [] rt = "error" -> [wr EXCEPT !.status = ErrorCode]
      [] OTHER        -> Redirect(wr, rt)

RequestInit ==
    /\ \E o \in Outcomes :
          handlers = o.chain /\ route = o.route /\ writer = Entered(RW!Fresh, o.route)
    /\ index = 0 /\ frames = <<>> /\ pc = "loop" /\ ran = <<>> /\ aborted = FALSE
    /\ saved = <<>> /\ reentries = 0 /\ quiet = TRUE /\ caught = FALSE /\ stopped = FALSE

-----------------------------------------------------------------------------
(* Flow control, without effect on the writer. *)
Flow ==
    /\ CallNext \/ LoopCall \/ LoopNil \/ LoopExit(Base) \/ Return \/ Abort
    /\ stopped' = (stopped \/ aborted')
    /\ UNCHANGED <<writer, route, saved, reentries, quiet, caught>>

(* A panic with the writer in state wr.  The activations of HandleContext   *)
(* above the handler that recovers are gone, without having restored        *)
(* c.index and c.handlers; Recovery answers with AbortWithStatus(500).      *)
(* The bases increase, so those below k are the first.                      *)
Surviving(k) == SubSeq(saved, 1, Cardinality({i \in 1..Len(saved) : saved[i].base < k}))

Answer500_HeaderOnly(wr) == RW!WriteHeaderNow(wr)
Answer500(wr) == RW!WriteHeaderNow(RW!WriteHeader(wr, 500))

Raise(wr, broken) ==
    /\ Unwind(broken)
    /\ LET k     == Len(frames')
           kept  == Surviving(k)
           caughtBy500 == ~broken /\ pc' # "crashed" /\ frames[k].kind = "recovery"
       IN /\ saved' = kept
          /\ route' = IF Len(kept) = Len(saved) THEN route ELSE saved[Len(kept) + 1].route
          /\ writer' = IF caughtBy500 THEN Answer500(wr) ELSE wr
          /\ caught' = (caught \/ (caughtBy500 /\ wr.wire = RW!NoStatus /\ ~wr.hijacked))
          /\ stopped' = (stopped \/ aborted')
    /\ UNCHANGED <<reentries, quiet>>

(* The running handler panics; or Next indexes the chain with a c.index     *)
(* that wrapped, which can happen after a panic passed HandleContext: the   *)
(* c.index of the activation that is gone stays with the stack it left.     *)
MayPanic(broken) == CanPanic \/ (BadIndex /\ ~broken)
HandlerPanics == \E broken \in BOOLEAN : MayPanic(broken) /\ Raise(writer, broken)

(* c.Status(code) *)
SetStatus ==
    /\ pc = "body" /\ Top.kind = "handler"
    /\ \E code \in Codes : writer' = RW!WriteHeader(writer, code)
    /\ quiet' = FALSE
    /\ UNCHANGED <<vars, route, saved, reentries, caught, stopped>>

(* c.Render(code, ...): the status, then the body if the code allows one.   *)
Render ==
    /\ pc = "body" /\ Top.kind = "handler"
    /\ writer.body < MaxBody
    /\ \E code \in Codes :
          LET s == RW!WriteHeader(writer, code)
              r == IF RW!BodyAllowed(code) THEN RW!Write(s, 1) ELSE RW!WriteHeaderNow(s)
          IN IF RW!HeaderPanics(s)
             THEN Raise(r, FALSE)
             ELSE writer' = r /\ quiet' = FALSE /\ UNCHANGED <<vars, route, saved, reentries, caught, stopped>>

(* ... whose renderer fails before or after its first Write: c.Abort().     *)
RenderFails ==
    /\ Abort
    /\ writer.body < MaxBody
    /\ \E code \in Codes :
          LET s == RW!WriteHeader(writer, code) IN
          /\ RW!BodyAllowed(code) /\ ~RW!HeaderPanics(s)
          /\ writer' \in {s, RW!Write(s, 1)}
    /\ quiet' = FALSE /\ stopped' = TRUE
    /\ UNCHANGED <<route, saved, reentries, caught>>

AbortWithStatus ==
    /\ \E code \in Codes :
          LET s == RW!WriteHeader(writer, code)
          IN IF RW!HeaderPanics(s)
             THEN pc = "body" /\ Top.kind = "handler" /\ Raise(RW!WriteHeaderNow(s), FALSE)
             ELSE /\ Abort
                  /\ writer' = RW!WriteHeaderNow(s) /\ quiet' = FALSE /\ stopped' = TRUE
                  /\ UNCHANGED <<route, saved, reentries, caught>>

Hijack ==
    /\ pc = "body" /\ Top.kind = "handler"
    /\ IF RW!HijackPanics(writer)
       THEN Raise(RW!Hijack(writer), FALSE)
       ELSE /\ writer' = RW!Hijack(writer) /\ quiet' = FALSE
            /\ UNCHANGED <<vars, route, saved, reentries, caught, stopped>>

(* c.Writer.Flush(), which c.Stream calls after each of its steps. *)
Flush ==
    /\ pc = "body" /\ Top.kind = "handler"
    /\ IF RW!FlushPanics(writer)
       THEN Raise(RW!Flush(writer), FALSE)
       ELSE /\ writer' = RW!Flush(writer) /\ quiet' = FALSE
            /\ UNCHANGED <<vars, route, saved, reentries, caught, stopped>>

(* http.FileServer sends a file, says that it has not changed, or answers   *)
(* 404 itself (a directory that must not be listed).                        *)
FileCodes == {200, 304, 404}

ServeFile ==
    /\ StaticServe
    /\ \E code \in FileCodes :
          LET s == RW!WriteHeader(writer, code)
          IN writer' = IF RW!BodyAllowed(code) THEN RW!Write(s, 1) ELSE s
    /\ quiet' = FALSE
    /\ UNCHANGED <<route, saved, reentries, caught, stopped>>

(* The file handler finds no file: it sets 404 and installs the 404 chain.  *)
FileMissing ==
    /\ StaticMiss
    /\ writer' = RW!WriteHeader(writer, 404)
    /\ UNCHANGED <<route, saved, reentries, quiet, caught, stopped>>

(* HandleContext: save the index and the chain, reset the context and       *)
(* dispatch the rewritten request.                                          *)
HandleContext ==
    /\ pc = "body" /\ Top.kind = "handler"
    /\ reentries < MaxReentry
    /\ reentries' = reentries + 1
    /\ saved' = Append(saved, [index |-> index, handlers |-> handlers, ran |-> ran,
                               aborted |-> aborted, route |-> route, base |-> Len(frames)])
    /\ \E o \in Outcomes :
          handlers' = o.chain /\ route' = o.route /\ writer' = Entered(writer, o.route)
    /\ index' = 0 /\ pc' = "loop" /\ ran' = <<>> /\ aborted' = FALSE
    /\ UNCHANGED <<frames, quiet, caught, stopped>>

(* The end of handleHTTPRequest, of serveError or of redirectRequest. *)
Completed_NoHeader ==
    IF route = "error" /\ ~RW!Written(writer) THEN RW!Write(writer, 1) ELSE writer
Completed ==
    CASE route = "error" /\ RW!Written(writer) -> writer
      [] route = "error" /\ ~RW!Written(writer) /\ writer.status = ErrorCode -> RW!Write(writer, 1)
      [] OTHER -> RW!WriteHeaderNow(writer)

(* ... which ends the request, or returns to the handler that called        *)
(* HandleContext with c.index and c.handlers as they were.                  *)
Resume_KeepsIndex(s) ==
    /\ handlers' = s.handlers /\ route' = s.route
    /\ ran' = s.ran /\ aborted' = s.aborted
    /\ UNCHANGED index
Resume(s) ==
    /\ index' = s.index /\ handlers' = s.handlers /\ route' = s.route
    /\ ran' = s.ran /\ aborted' = s.aborted

Complete ==
    /\ pc = "done"
    /\ IF RW!HeaderPanics(writer)
       THEN Raise(Completed, FALSE)
       ELSE /\ writer' = Completed
            /\ UNCHANGED <<frames, reentries, quiet, caught, stopped>>
            /\ IF saved = <<>>
               THEN pc' = "served" /\ UNCHANGED <<index, handlers, ran, aborted, route, saved>>
               ELSE /\ Resume(saved[Len(saved)])
                    /\ pc' = "body"
                    /\ saved' = SubSeq(saved, 1, Len(saved) - 1)

RequestEnded == pc \in {"served", "crashed"} /\ UNCHANGED rvars

RequestNext ==
    \/ Flow \/ HandlerPanics \/ SetStatus \/ Render \/ RenderFails \/ AbortWithStatus \/ Hijack
    \/ Flush \/ ServeFile \/ FileMissing \/ HandleContext \/ Complete \/ RequestEnded

RequestSpec == RequestInit /\ [][RequestNext]_rvars

(* The goroutine keeps running and handlers return: a handler may use the   *)
(* writer any number of times, but not for ever.                            *)
Progress ==
    \/ /\ \/ LoopCall \/ LoopNil \/ LoopExit(Base) \/ Return
          \/ pc = "body" /\ Top.kind \in {"recovery", "custom"} /\ CallNext
       /\ UNCHANGED <<writer, route, saved, reentries, quiet, caught, stopped>>
    \/ ServeFile
    \/ Complete

FairRequestSpec == RequestSpec /\ WF_rvars(Progress)

-----------------------------------------------------------------------------
(* Properties *)

(* A request that is served has been answered by one header, or its         *)
(* connection was taken; gin asked net/http for no second one, but in a     *)
(* Flush of a connection that was taken, which panics.  If no route matched *)
(* and its handlers left the writer alone, it got the error status with the *)
(* default body (gin.go:822-839).                                           *)
Answered ==
    /\ writer.superfluous => writer.torn /\ writer.hijacked /\ writer.wire = RW!NoStatus
    /\ pc = "served" => writer.wire # RW!NoStatus \/ writer.hijacked
    /\ pc = "served" /\ route = "error" /\ quiet /\ ~caught /\ reentries = 0 =>
          writer.wire = ErrorCode /\ writer.body = 1

(* Status() tells the middleware what the client was sent, as long as       *)
(* nothing re-entered the engine (response_writer.go:27-28).                *)
StatusReported == writer.wire # RW!NoStatus /\ reentries = 0 => writer.status = writer.wire

(* When Recovery catches a panic and nothing has reached the client, the    *)
(* client gets a 500 (recovery.go:33-46).                                   *)
RecoveryAnswers500 == (pc = "served" /\ caught) => writer.wire = 500

(* Abort stops all later handlers of a request that does not re-enter the   *)
(* engine (context.go:202-205).                                             *)
AbortStopsRequest ==
    [][(stopped /\ reentries' = 0) => Len(frames') <= Len(frames)]_rvars

(* HandleContext gives the handlers around it their chain back: the         *)
(* returning activations still run it in order and to its end, and after a  *)
(* panic none is left of those it passed (gin.go:741-749).                  *)
Resumes ==
    /\ InOrder
    /\ pc = "done" /\ ~aborted => RanSet = Passed /\ Remaining = {}
    /\ \A i \in 1..Len(saved) :
          /\ saved[i].base <= Len(frames)
          /\ \A j \in 1..Len(saved[i].ran) : saved[i].ran[j] <= saved[i].index

(* Every request is served or ends in a panic. *)
RequestEnds == <>(pc \in {"served", "crashed"})
=============================================================================
