--------------------------- MODULE ResponseWriter ---------------------------
(***************************************************************************)
(* gin's responseWriter on top of the net/http response it wraps, as       *)
(* operators on one record, so that a specification can compose the calls  *)
(* a handler makes; and the specification of a goroutine that makes any    *)
(* calls in any order before the server finishes the response.             *)
(*   size, status   the fields of responseWriter                           *)
(*   wire           the status line net/http committed, NoStatus if none   *)
(*   body           bytes of the body net/http accepted                    *)
(*   hijacked       the connection belongs to the handler                  *)
(*   superfluous    history: net/http refused a WriteHeader (and logged    *)
(*                  it) because the header was out or the connection gone  *)
(*   torn           history: Flush panicked, as net/http has no buffer for *)
(*                  a connection that was taken                            *)
(* A body is counted in units of one Write.  An operator with an           *)
(* underscore in its name is a mutant of the one below it.                 *)
(***************************************************************************)
EXTENDS Integers

CONSTANTS
    Codes,          \* the status codes handlers ask for
    CanHijack,      \* the underlying writer implements http.Hijacker
    CanFlush,       \* the underlying writer implements http.Flusher
    MaxBody         \* bound: the writes that carry data

ASSUME WriterAssumption ==
    /\ Codes \subseteq Nat
    /\ CanHijack \in BOOLEAN
    /\ CanFlush \in BOOLEAN
    /\ MaxBody \in Nat

NoWritten == -1
DefaultStatus == 200
NoStatus == 0

Fresh == [size |-> NoWritten, status |-> DefaultStatus, wire |-> NoStatus,
          body |-> 0, hijacked |-> FALSE, superfluous |-> FALSE, torn |-> FALSE]

Writers == [size : NoWritten .. MaxBody, status : Codes \cup {DefaultStatus},
            wire : Codes \cup {NoStatus, DefaultStatus}, body : 0 .. MaxBody,
            hijacked : BOOLEAN, superfluous : BOOLEAN, torn : BOOLEAN]

-----------------------------------------------------------------------------
(* net/http *)

ValidCode(code) == code \in 100..999
Informational(code) == code \in 100..199 /\ code # 101
BodyAllowed(code) == ~(code \in 100..199 \/ code \in {204, 304})

(* response.WriteHeader; an invalid code panics and leaves it unchanged.    *)
NetWriteHeader(r, code) ==
    IF r.hijacked \/ r.wire # NoStatus THEN [r EXCEPT !.superfluous = TRUE]
    ELSE IF ValidCode(code) /\ ~Informational(code) THEN [r EXCEPT !.wire = code]
    ELSE r

NetCommitted(r) ==
    IF r.hijacked \/ r.wire # NoStatus THEN r ELSE [r EXCEPT !.wire = DefaultStatus]

(* response.write: how many of n bytes are accepted. *)
Accepted(r, n) == IF r.hijacked \/ ~BodyAllowed(NetCommitted(r).wire) THEN 0 ELSE n

NetWrite(r, n) == [NetCommitted(r) EXCEPT !.body = @ + Accepted(r, n)]

NetHijack(r) == IF CanHijack THEN [r EXCEPT !.hijacked = TRUE] ELSE r

(* response.FlushError asks for the header of a response that has none, and *)
(* then uses the buffer, which Hijack has set to nil.                       *)
NetFlush(r) ==
    LET h == IF r.wire = NoStatus THEN NetWriteHeader(r, DefaultStatus) ELSE r
    IN [h EXCEPT !.torn = @ \/ r.hijacked]

-----------------------------------------------------------------------------
(* responseWriter *)

Written(r) == r.size # NoWritten

WriteHeader_AfterOutput(r, code) ==
    IF code > 0 /\ r.status # code THEN [r EXCEPT !.status = code] ELSE r
WriteHeader(r, code) ==
    IF code > 0 /\ r.status # code /\ ~Written(r) THEN [r EXCEPT !.status = code] ELSE r

(* The size is set before net/http is asked to write the header.            *)
WriteHeaderNow_NoSize(r) == IF Written(r) THEN r ELSE NetWriteHeader(r, r.status)
WriteHeaderNow(r) ==
    IF Written(r) THEN r ELSE NetWriteHeader([r EXCEPT !.size = 0], r.status)

(* net/http panics in WriteHeaderNow on a status that is no status code.    *)
HeaderPanics(r) ==
    ~Written(r) /\ ~r.hijacked /\ r.wire = NoStatus /\ ~ValidCode(r.status)

Write_Requested(r, n) ==
    LET h == WriteHeaderNow(r) IN
    IF HeaderPanics(r) THEN h ELSE [NetWrite(h, n) EXCEPT !.size = h.size + n]
Write(r, n) ==
    LET h == WriteHeaderNow(r) IN
    IF HeaderPanics(r) THEN h
    ELSE [NetWrite(h, n) EXCEPT !.size = h.size + Accepted(h, n)]

(* Hijack is refused after body data; it marks the writer as written before *)
(* it asks the underlying writer, and panics if that is no http.Hijacker.   *)
Hijack_Unguarded(r) == NetHijack([r EXCEPT !.size = 0])
Hijack(r) == IF r.size > 0 THEN r ELSE NetHijack([r EXCEPT !.size = 0])
HijackPanics(r) == r.size <= 0 /\ ~CanHijack

Flush(r) ==
    LET h == WriteHeaderNow(r) IN IF HeaderPanics(r) \/ ~CanFlush THEN h ELSE NetFlush(h)
FlushPanics(r) == HeaderPanics(r) \/ (CanFlush /\ r.hijacked)

-----------------------------------------------------------------------------
VARIABLES
    w,      \* the writer of the current request
    open    \* the handler has not returned yet

wvars == <<w, open>>

TypeOK == w \in Writers /\ open \in BOOLEAN

(* reset, when the request takes the context from the pool. *)
WriterInit == w = Fresh /\ open = TRUE

DoWriteHeader == \E code \in Codes : w' = WriteHeader(w, code)
DoWriteHeaderNow == w' = WriteHeaderNow(w)
DoWrite == \E n \in 0..1 : w.body + n <= MaxBody /\ w' = Write(w, n)
DoHijack == ~HijackPanics(w) /\ w' = Hijack(w)
DoFlush == w' = Flush(w)        \* also one that panics, which middleware may recover

(* The dispatcher's WriteHeaderNow, then net/http's finishRequest. *)
Finish ==
    /\ open' = FALSE
    /\ w' = NetCommitted(WriteHeaderNow(w))

WriterNext ==
    \/ /\ open /\ UNCHANGED open
       /\ DoWriteHeader \/ DoWriteHeaderNow \/ DoWrite \/ DoHijack \/ DoFlush
    \/ open /\ Finish
    \/ ~open /\ UNCHANGED wvars

WriterSpec == WriterInit /\ [][WriterNext]_wvars

-----------------------------------------------------------------------------
(* Properties *)

(* What Status() reports to middleware that runs after the response is out, *)
(* and at the end of the request, is the status on the wire                 *)
(* (response_writer.go:67-82, 98-100).  Here and below a 1xx status, which  *)
(* net/http sends without committing to it while gin takes it for the       *)
(* response's, is excepted, and at the end a connection that was taken.     *)
StatusIsWire ==
    ~Informational(w.status) /\ (w.wire # NoStatus \/ (~open /\ ~w.hijacked)) =>
        w.status = w.wire

(* Size() counts the bytes of the body that net/http accepted, and Written  *)
(* is true exactly once something was sent or the connection was taken.     *)
SizeIsBody ==
    /\ w.body = IF Written(w) THEN w.size ELSE 0
    /\ ~Informational(w.status) => (Written(w) <=> w.wire # NoStatus \/ w.hijacked)

(* gin never asks net/http for a second header, nor for one on a connection *)
(* that was hijacked, but for a Flush of such a connection: what net/http   *)
(* then refuses is always followed by a panic, and by no call that goes on  *)
(* as if a header were out (response_writer.go:77-82, 129-134).             *)
RefusalPanics == w.superfluous => w.torn /\ w.hijacked /\ w.wire = NoStatus

(* A connection that was handed out carries no body of gin's, and none is   *)
(* written to it later (response_writer.go:112-120).                        *)
HijackedClean == w.hijacked => w.body = 0 /\ w.size = 0

(* The strengthening of the four that is inductive: before anything is      *)
(* written net/http has nothing, and afterwards the status is settled.      *)
Agrees(r) ==
    /\ r \in Writers
    /\ r.torn => r.hijacked
    /\ r.superfluous => r.torn /\ r.wire = NoStatus
    /\ ~Written(r) => r.wire = NoStatus /\ ~r.hijacked /\ r.body = 0
    /\ Written(r) => r.body = r.size
    /\ Written(r) /\ ~Informational(r.status) => r.wire # NoStatus \/ r.hijacked
    /\ r.wire # NoStatus /\ ~Informational(r.status) => r.status = r.wire
    /\ r.hijacked => r.size = 0
IInv ==
    /\ open \in BOOLEAN
    /\ Agrees(w)
    /\ ~open /\ ~w.hijacked => w.wire # NoStatus
=============================================================================
