--------------------------- MODULE RequestProofs ---------------------------
(***************************************************************************)
(* For every set of chains, every 404 chain, any number of handlers, calls *)
(* and re-entries: the client gets one answer, Status() tells what it is,  *)
(* a caught panic is a 500, and Abort stops the later handlers.            *)
(***************************************************************************)
EXTENDS Request, HandlerChainProofs, FiniteSetTheorems, SequenceTheorems, WellFoundedInduction, TLAPS

(* Handlers ask for codes that net/http takes for the final status, and     *)
(* nothing asks for a connection that cannot be had.                        *)
FinalCode(code) == RW!ValidCode(code) /\ ~RW!Informational(code)
FinalCodes == CanHijack /\ \A code \in Codes : FinalCode(code)

(* gin's account of the response agrees with net/http's.                    *)
Responses == [size : Nat \cup {-1}, status : Int, wire : Int, body : Nat,
              hijacked : BOOLEAN, superfluous : BOOLEAN, torn : BOOLEAN]
Honest(r) ==
    /\ r \in Responses
    /\ FinalCode(r.status)
    /\ r.superfluous => r.torn /\ r.hijacked /\ r.wire = RW!NoStatus
    /\ IF RW!Written(r) THEN r.wire # RW!NoStatus \/ r.hijacked ELSE r.wire = RW!NoStatus /\ ~r.hijacked

(* A request without a route whose handlers leave the writer alone: only    *)
(* serveError has set the status, and no file handler can be in its chain.  *)
Silent == route = "error" /\ quiet /\ ~caught /\ reentries = 0
Plain == [kind : Kinds \ {"static"}, nexts : Nat]
Untouched ==
    Silent =>
        /\ handlers \in ErrorChains
        /\ frames \in Seq(Plain)
        /\ pc = "body" => frames # <<>>
        /\ IF pc = "served" THEN writer.wire = ErrorCode /\ writer.body = 1
           ELSE writer = [RW!Fresh EXCEPT !.status = ErrorCode]

Caught500 == caught => writer.wire = 500
Served == pc = "served" => writer.wire # RW!NoStatus \/ writer.hijacked
Suspended == reentries \in Nat /\ (reentries = 0 => saved = <<>>)

RInv == Honest(writer) /\ StatusReported /\ Caught500 /\ Served /\ Suspended /\ Untouched

(* What every operation on the writer keeps: the account is honest, a       *)
(* status on the wire stays, and Status() goes on to report it.             *)
Sent(r, s) ==
    /\ Honest(s)
    /\ r.wire # RW!NoStatus => s.wire = r.wire
    /\ (r.wire # RW!NoStatus => r.status = r.wire) => (s.wire # RW!NoStatus => s.status = s.wire)

-----------------------------------------------------------------------------
(* The writer *)

(* The fields of a writer.                                                 *)
LEMMA FieldTypes ==
    ASSUME NEW r \in Responses
    PROVE  /\ r.size \in Nat \cup {-1} /\ r.status \in Int /\ r.wire \in Int /\ r.body \in Nat
           /\ r.hijacked \in BOOLEAN /\ r.superfluous \in BOOLEAN /\ r.torn \in BOOLEAN
           /\ r = [size |-> r.size, status |-> r.status, wire |-> r.wire,
                   body |-> r.body, hijacked |-> r.hijacked, superfluous |-> r.superfluous, torn |-> r.torn]
BY DEF Responses

(* Those of an honest one.                                                 *)
LEMMA Fields ==
    ASSUME NEW r, Honest(r)
    PROVE  /\ r.size \in Nat \cup {-1} /\ r.status \in Int /\ r.wire \in Int /\ r.body \in Nat
           /\ r.hijacked \in BOOLEAN /\ r.superfluous \in BOOLEAN /\ r.torn \in BOOLEAN
BY FieldTypes DEF Honest

(* One whose Flush panicked, or asked for a header that was refused.       *)
LEMMA Torn ==
    ASSUME NEW r \in Responses, NEW v
    PROVE  /\ [r EXCEPT !.torn = v] =
                 [size |-> r.size, status |-> r.status, wire |-> r.wire, body |-> r.body,
                  hijacked |-> r.hijacked, superfluous |-> r.superfluous, torn |-> v]
           /\ [r EXCEPT !.superfluous = v] =
                 [size |-> r.size, status |-> r.status, wire |-> r.wire, body |-> r.body,
                  hijacked |-> r.hijacked, superfluous |-> v, torn |-> r.torn]
BY FieldTypes

(* An honest writer with one field changed.                                *)
LEMMA Updates ==
    ASSUME NEW r, Honest(r), NEW v
    PROVE  /\ [r EXCEPT !.size = v] =
                  [size |-> v, status |-> r.status, wire |-> r.wire,
                   body |-> r.body, hijacked |-> r.hijacked, superfluous |-> r.superfluous, torn |-> r.torn]
           /\ [r EXCEPT !.status = v] =
                  [size |-> r.size, status |-> v, wire |-> r.wire,
                   body |-> r.body, hijacked |-> r.hijacked, superfluous |-> r.superfluous, torn |-> r.torn]
<1>1. r \in Responses
  BY DEF Honest
<1>2. [r EXCEPT !.size = v] =
          [size |-> v, status |-> r.status, wire |-> r.wire,
           body |-> r.body, hijacked |-> r.hijacked, superfluous |-> r.superfluous, torn |-> r.torn]
  BY <1>1, FieldTypes
<1>3. [r EXCEPT !.status = v] =
          [size |-> r.size, status |-> v, wire |-> r.wire,
           body |-> r.body, hijacked |-> r.hijacked, superfluous |-> r.superfluous, torn |-> r.torn]
  BY <1>1, FieldTypes
<1>. QED BY <1>1, <1>2, <1>3

(* A request's writer before its handlers run.                              *)
LEMMA Start ==
    /\ Honest(RW!Fresh) /\ RW!Fresh.wire = RW!NoStatus /\ ~RW!Written(RW!Fresh) /\ RW!Fresh.body = 0
BY DEF Honest, Responses, FinalCode, RW!Fresh, RW!Written, RW!NoWritten, RW!NoStatus, RW!DefaultStatus,
       RW!ValidCode, RW!Informational

(* What was sent stays sent through two operations.                        *)
LEMMA SentTwice ==
    ASSUME NEW r, NEW s, NEW t, Sent(r, s), Sent(s, t) PROVE Sent(r, t)
BY DEF Sent

(* net/http takes the status of an honest writer, so asking it for the      *)
(* header does not panic.                                                   *)
LEMMA NoHeaderPanic == ASSUME NEW r, Honest(r) PROVE ~RW!HeaderPanics(r)
BY DEF Honest, FinalCode, RW!HeaderPanics

(* responseWriter.WriteHeader                                               *)
LEMMA WriteHeaderSent ==
    ASSUME NEW r, Honest(r), NEW code, code \in Int, FinalCode(code)
    PROVE  /\ Sent(r, RW!WriteHeader(r, code))
           /\ RW!Written(RW!WriteHeader(r, code)) <=> RW!Written(r)
           /\ ~RW!Written(r) => RW!WriteHeader(r, code).status = code
<1>. DEFINE s == [size |-> r.size, status |-> code, wire |-> r.wire,
                  body |-> r.body, hijacked |-> r.hijacked, superfluous |-> r.superfluous, torn |-> r.torn]
<1>1. code > 0
  BY DEF FinalCode, RW!ValidCode
<1>2. CASE r.status # code /\ ~RW!Written(r)
  <2>1. RW!WriteHeader(r, code) = s
    BY <1>1, <1>2, Updates DEF RW!WriteHeader
  <2>2. Honest(s) /\ ~RW!Written(s) /\ r.wire = RW!NoStatus
    BY <1>2, Fields DEF Honest, Responses, RW!Written, RW!NoWritten
  <2>. QED BY <1>2, <2>1, <2>2 DEF Sent
<1>3. CASE ~(r.status # code /\ ~RW!Written(r))
  BY <1>3 DEF RW!WriteHeader, Sent
<1>. QED BY <1>2, <1>3

(* responseWriter.WriteHeaderNow                                            *)
LEMMA HeaderNowSent ==
    ASSUME NEW r, Honest(r)
    PROVE  /\ Sent(r, RW!WriteHeaderNow(r)) /\ RW!Written(RW!WriteHeaderNow(r))
           /\ ~RW!Written(r) =>
                 RW!WriteHeaderNow(r) = [size |-> 0, status |-> r.status, wire |-> r.status,
                                         body |-> r.body, hijacked |-> FALSE, superfluous |-> r.superfluous, torn |-> r.torn]
<1>. DEFINE s == [size |-> 0, status |-> r.status, wire |-> r.status,
                  body |-> r.body, hijacked |-> FALSE, superfluous |-> r.superfluous, torn |-> r.torn]
<1>1. CASE RW!Written(r)
  BY <1>1 DEF RW!WriteHeaderNow, Sent
<1>2. CASE ~RW!Written(r)
  <2>1. r.wire = RW!NoStatus /\ r.hijacked = FALSE /\ FinalCode(r.status)
    BY <1>2, Fields DEF Honest
  <2>2. [r EXCEPT !.size = 0] = [size |-> 0, status |-> r.status, wire |-> r.wire,
                                 body |-> r.body, hijacked |-> FALSE, superfluous |-> r.superfluous, torn |-> r.torn]
    BY <2>1, Updates
  <2>3. RW!WriteHeaderNow(r) = s
    BY <1>2, <2>1, <2>2 DEF RW!WriteHeaderNow, RW!NetWriteHeader, FinalCode
  <2>4. Honest(s) /\ RW!Written(s)
    BY SMTT(60), <2>1, Fields DEF Honest, Responses, FinalCode, RW!Written, RW!NoWritten, RW!NoStatus, RW!ValidCode
  <2>. QED BY <1>2, <2>1, <2>3, <2>4 DEF Sent
<1>. QED BY <1>1, <1>2

(* responseWriter.Write                                                     *)
LEMMA WriteSent ==
    ASSUME NEW r, Honest(r)
    PROVE  /\ Sent(r, RW!Write(r, 1)) /\ RW!Written(RW!Write(r, 1))
           /\ ~RW!Written(r) =>
                 /\ RW!Write(r, 1).wire = r.status
                 /\ RW!BodyAllowed(r.status) => RW!Write(r, 1).body = r.body + 1
<1>. DEFINE h == RW!WriteHeaderNow(r)
            a == RW!Accepted(h, 1)
            s == [size |-> h.size + a, status |-> h.status, wire |-> h.wire,
                  body |-> h.body + a, hijacked |-> h.hijacked, superfluous |-> h.superfluous, torn |-> h.torn]
<1>1. Honest(h) /\ RW!Written(h) /\ Sent(r, h)
  BY HeaderNowSent DEF Sent
<1>2. RW!Write(r, 1) = [RW!NetWrite(h, 1) EXCEPT !.size = h.size + a]
  BY NoHeaderPanic DEF RW!Write
<1>3. ~RW!Written(r) => h.wire = r.status /\ h.body = r.body /\ ~h.hijacked
  BY HeaderNowSent
<1>. HIDE DEF h
<1>4. a \in {0, 1}
  BY DEF RW!Accepted
<1>5. RW!NetCommitted(h) = h
  BY <1>1 DEF Honest, RW!NetCommitted
<1>6. ~h.hijacked /\ RW!BodyAllowed(h.wire) => a = 1
  BY <1>5 DEF RW!Accepted
<1>7. RW!NetWrite(h, 1) = [h EXCEPT !.body = @ + a]
  BY <1>5 DEF RW!NetWrite
<1>. HIDE DEF a
<1>8. RW!Write(r, 1) = s
  <2>. DEFINE c == [size |-> h.size, status |-> h.status, wire |-> h.wire,
                    body |-> h.body + a, hijacked |-> h.hijacked, superfluous |-> h.superfluous, torn |-> h.torn]
  <2>1. h \in Responses
    BY <1>1 DEF Honest
  <2>2. RW!NetWrite(h, 1) = c
    BY <1>7, <2>1, FieldTypes
  <2>3. c \in Responses
    BY <1>4, <2>1, FieldTypes DEF Responses
  <2>. QED BY <1>2, <2>2, <2>3, FieldTypes
<1>9. Honest(s) /\ RW!Written(s)
  BY <1>1, <1>4, Fields DEF Honest, Responses, RW!Written, RW!NoWritten
<1>10. Sent(h, s)
  BY <1>9 DEF Sent
<1>11. Sent(r, s)
  BY <1>1, <1>10, SentTwice
<1>12. ~RW!Written(r) => s.wire = r.status /\ (RW!BodyAllowed(r.status) => s.body = r.body + 1)
  BY <1>3, <1>6
<1>. HIDE DEF s
<1>. QED BY <1>8, <1>9, <1>11, <1>12

(* responseWriter.Hijack                                                    *)
LEMMA HijackSent ==
    ASSUME CanHijack, NEW r, Honest(r)
    PROVE  Sent(r, RW!Hijack(r)) /\ ~RW!HijackPanics(r)
<1>1. CASE r.size > 0
  BY <1>1 DEF RW!Hijack, RW!HijackPanics, Sent
<1>2. CASE ~(r.size > 0)
  <2>. DEFINE s == [size |-> 0, status |-> r.status, wire |-> r.wire,
                    body |-> r.body, hijacked |-> TRUE, superfluous |-> r.superfluous, torn |-> r.torn]
  <2>1. [r EXCEPT !.size = 0] = [size |-> 0, status |-> r.status, wire |-> r.wire,
                                 body |-> r.body, hijacked |-> r.hijacked, superfluous |-> r.superfluous, torn |-> r.torn]
    BY Updates
  <2>3. RW!Hijack(r) = s
    BY <1>2, <2>1 DEF RW!Hijack, RW!NetHijack
  <2>2. Honest(s)
    BY Fields DEF Honest, Responses, RW!Written, RW!NoWritten
  <2>. QED BY <2>2, <2>3 DEF RW!HijackPanics, Sent
<1>. QED BY <1>1, <1>2

(* responseWriter.Flush: it panics on a connection that was taken, and       *)
(* sends nothing but the header on another.                                  *)
LEMMA FlushSent ==
    ASSUME NEW r, Honest(r)
    PROVE  Sent(r, RW!Flush(r)) /\ (RW!FlushPanics(r) => r.hijacked)
<1>. DEFINE h == RW!WriteHeaderNow(r)
            g == [h EXCEPT !.superfluous = TRUE]
<1>1. Honest(h) /\ RW!Written(h) /\ Sent(r, h) /\ ~RW!HeaderPanics(r)
  BY HeaderNowSent, NoHeaderPanic DEF Sent
<1>2. RW!FlushPanics(r) => r.hijacked
  BY <1>1 DEF RW!FlushPanics
<1>3. RW!Flush(r) = IF CanFlush THEN RW!NetFlush(h) ELSE h
  BY <1>1 DEF RW!Flush
<1>. HIDE DEF h
<1>4. h \in Responses
  BY <1>1 DEF Honest
<1>5. CASE h.wire # RW!NoStatus /\ ~h.hijacked
  <2>1. RW!NetFlush(h) = [h EXCEPT !.torn = h.torn]
    <3>1. (h.torn \/ h.hijacked) = h.torn
      BY <1>4, <1>5, FieldTypes
    <3>. QED BY <1>5, <3>1 DEF RW!NetFlush
  <2>2. RW!NetFlush(h) = h
    BY <1>4, <2>1, FieldTypes
  <2>. QED BY <1>1, <1>2, <1>3, <2>2
<1>6. CASE h.wire # RW!NoStatus /\ h.hijacked
  <2>. DEFINE s == [size |-> h.size, status |-> h.status, wire |-> h.wire, body |-> h.body,
                    hijacked |-> h.hijacked, superfluous |-> h.superfluous, torn |-> TRUE]
  <2>1. RW!NetFlush(h) = [h EXCEPT !.torn = TRUE]
    <3>1. (h.torn \/ h.hijacked) = TRUE
      BY <1>6
    <3>. QED BY <1>6, <3>1 DEF RW!NetFlush
  <2>2. RW!NetFlush(h) = s
    BY <1>4, <2>1, Torn, Zenon
  <2>3. Sent(h, s)
    BY <1>1, <1>4, <1>6, FieldTypes DEF Sent, Honest, Responses, RW!Written
  <2>. HIDE DEF s
  <2>. QED BY <1>1, <1>2, <1>3, <2>2, <2>3, SentTwice
<1>7. CASE h.wire = RW!NoStatus
  <2>. DEFINE s == [size |-> h.size, status |-> h.status, wire |-> h.wire, body |-> h.body,
                    hijacked |-> h.hijacked, superfluous |-> TRUE, torn |-> TRUE]
  <2>1. h.hijacked
    BY <1>1, <1>7 DEF Honest
  <2>2. g = [size |-> h.size, status |-> h.status, wire |-> h.wire, body |-> h.body,
             hijacked |-> h.hijacked, superfluous |-> TRUE, torn |-> h.torn]
    BY <1>4, Torn, Zenon
  <2>3. RW!NetWriteHeader(h, RW!DefaultStatus) = g
    BY <2>1 DEF RW!NetWriteHeader
  <2>4. (g.torn \/ h.hijacked) = TRUE
    BY <2>1
  <2>5. g \in Responses /\ g.size = h.size /\ g.status = h.status /\ g.wire = h.wire
        /\ g.body = h.body /\ g.hijacked = h.hijacked /\ g.superfluous = TRUE
    BY <1>4, <2>2, FieldTypes DEF Responses
  <2>. HIDE DEF g
  <2>6. RW!NetFlush(h) = [g EXCEPT !.torn = TRUE]
    BY <1>7, <2>3, <2>4 DEF RW!NetFlush
  <2>7. [g EXCEPT !.torn = TRUE] =
           [size |-> g.size, status |-> g.status, wire |-> g.wire, body |-> g.body,
            hijacked |-> g.hijacked, superfluous |-> g.superfluous, torn |-> TRUE]
    BY <2>5, Torn, Zenon
  <2>8. RW!NetFlush(h) = s
    <3>. HIDE DEF s
    <3>1. s = [size |-> h.size, status |-> h.status, wire |-> h.wire, body |-> h.body,
               hijacked |-> h.hijacked, superfluous |-> TRUE, torn |-> TRUE]
      BY DEF s
    <3>. QED BY <2>5, <2>6, <2>7, <3>1, Zenon
  <2>9. Sent(h, s)
    BY <1>1, <1>4, <1>7, <2>1, FieldTypes DEF Sent, Honest, Responses, RW!Written
  <2>. HIDE DEF s
  <2>. QED BY <1>1, <1>2, <1>3, <2>8, <2>9, SentTwice
<1>. QED BY <1>5, <1>6, <1>7

(* c.AbortWithStatus(500) in Recovery                                       *)
LEMMA Answer500Sent ==
    ASSUME NEW r, Honest(r)
    PROVE  /\ Sent(r, Answer500(r))
           /\ r.wire = RW!NoStatus /\ ~r.hijacked => Answer500(r).wire = 500
<1>. DEFINE s == RW!WriteHeader(r, 500)
<1>1. FinalCode(500)
  BY DEF FinalCode, RW!ValidCode, RW!Informational
<1>2. Sent(r, s) /\ (RW!Written(s) <=> RW!Written(r)) /\ (~RW!Written(r) => s.status = 500)
  BY <1>1, WriteHeaderSent
<1>3. r.wire = RW!NoStatus /\ ~r.hijacked => ~RW!Written(r)
  BY DEF Honest
<1>4. Answer500(r) = RW!WriteHeaderNow(s)
  BY DEF Answer500
<1>. HIDE DEF s
<1>5. Honest(s)
  BY <1>2 DEF Sent
<1>6. Sent(s, RW!WriteHeaderNow(s)) /\ (~RW!Written(s) => RW!WriteHeaderNow(s).wire = s.status)
  BY <1>5, HeaderNowSent
<1>. QED BY <1>2, <1>3, <1>4, <1>6, SentTwice

(* What handleHTTPRequest does before the handlers: serveError stores the   *)
(* status also when the header is out, a redirect is written.               *)
LEMMA EnteredHonest ==
    ASSUME NEW r, Honest(r), NEW rt
    PROVE  /\ Honest(Entered(r, rt))
           /\ r.wire # RW!NoStatus => Entered(r, rt).wire = r.wire
           /\ rt = "error" => Entered(r, rt) = [r EXCEPT !.status = ErrorCode]
           /\ rt # "error" => Sent(r, Entered(r, rt))
<1>1. CASE rt = "match"
  BY <1>1 DEF Entered, Sent
<1>2. CASE rt = "error"
  <2>1. Entered(r, rt) = [size |-> r.size, status |-> ErrorCode, wire |-> r.wire,
                          body |-> r.body, hijacked |-> r.hijacked, superfluous |-> r.superfluous, torn |-> r.torn]
    BY <1>2, Updates DEF Entered
  <2>2. FinalCode(ErrorCode) /\ ErrorCode \in Int
    BY RequestAssumption DEF FinalCode, RW!ValidCode, RW!Informational
  <2>3. Honest(Entered(r, rt))
    BY <2>1, <2>2, Fields DEF Honest, Responses, RW!Written
  <2>. QED BY <1>2, <2>1, <2>3 DEF Entered
<1>3. CASE rt \notin {"match", "error"}
  <2>1. FinalCode(301) /\ FinalCode(307)
    BY DEF FinalCode, RW!ValidCode, RW!Informational
  <2>2. Sent(r, RW!WriteHeader(r, 301)) /\ Sent(r, RW!WriteHeader(r, 307))
    BY <2>1, WriteHeaderSent
  <2>. DEFINE s == RW!WriteHeader(r, 301)
  <2>3. Sent(r, RW!Write(s, 1))
    <3>1. Honest(s) /\ Sent(r, s)
      BY <2>2 DEF Sent
    <3>. HIDE DEF s
    <3>2. Sent(s, RW!Write(s, 1))
      BY <3>1, WriteSent
    <3>. QED BY <3>1, <3>2, SentTwice
  <2>4. Entered(r, rt) = Redirect(r, rt)
    BY <1>3 DEF Entered
  <2>5. Sent(r, Entered(r, rt))
    BY <2>2, <2>3, <2>4 DEF Redirect
  <2>. QED BY <1>3, <2>5 DEF Sent
<1>. QED BY <1>1, <1>2, <1>3

-----------------------------------------------------------------------------
(* The steps *)

(* A step whose effect on the writer is that of its operations.             *)
LEMMA Keeps ==
    ASSUME RInv, Sent(writer, writer'), reentries' = reentries, saved = <<>> => saved' = <<>>,
           caught' => caught \/ writer'.wire = 500,
           pc' = "served" => writer'.wire # RW!NoStatus \/ writer'.hijacked,
           Untouched'
    PROVE  RInv'
<1>1. Honest(writer)' /\ Suspended'
  BY DEF RInv, Sent, Suspended
<1>2. StatusReported'
  BY DEF RInv, StatusReported, Sent
<1>3. Caught500'
  BY DEF RInv, Caught500, Sent, RW!NoStatus
<1>4. Served'
  BY DEF Served
<1>. QED BY <1>1, <1>2, <1>3, <1>4 DEF RInv

(* A handler has used the writer, or a re-entry has. *)
LEMMA NotSilent == ASSUME ~Silent' PROVE Untouched'
BY DEF Untouched

(* It does through none.                                                   *)
LEMMA NothingSent == ASSUME RInv PROVE Sent(writer, writer)
BY DEF RInv, Sent

(* The stack keeps its type when a handler is pushed, popped or changed.   *)
LEMMA FramesKept ==
    ASSUME NEW s \in Seq(Plain)
    PROVE  /\ \A f \in Plain : Append(s, f) \in Seq(Plain)
           /\ \A k \in 0..Len(s) : SubSeq(s, 1, k) \in Seq(Plain)
           /\ s # <<>> =>
                 /\ s[Len(s)] \in Plain
                 /\ \A f \in Plain : [s EXCEPT ![Len(s)] = f] \in Seq(Plain) /\ [s EXCEPT ![Len(s)] = f] # <<>>
<1>1. s # <<>> => Len(s) \in 1..Len(s)
  BY EmptySeq, LenProperties
<1>2. \A k \in 0..Len(s) : SubSeq(s, 1, k) \in Seq(Plain)
  BY SubSeqProperties
<1>3. ASSUME s # <<>>, NEW f \in Plain
      PROVE  [s EXCEPT ![Len(s)] = f] \in Seq(Plain) /\ [s EXCEPT ![Len(s)] = f] # <<>>
  <2>1. [s EXCEPT ![Len(s)] = f] \in Seq(Plain) /\ Len([s EXCEPT ![Len(s)] = f]) = Len(s)
    BY <1>1, <1>3, ExceptSeq
  <2>. QED BY <1>1, <1>3, <2>1
<1>. QED BY <1>1, <1>2, <1>3, ElementOfSeq, AppendProperties

(* What a silent request has in its chain and on its stack. *)
LEMMA SilentFacts ==
    ASSUME RInv, Silent
    PROVE  /\ handlers \in ErrorChains /\ frames \in Seq(Plain) /\ saved = <<>>
           /\ pc = "body" => frames # <<>> /\ Top \in Plain
           /\ pc # "served" => writer = [RW!Fresh EXCEPT !.status = ErrorCode]
           /\ \A i \in 1..Len(handlers) : handlers[i] \in Kinds \ {"static"}
<1>1. handlers \in ErrorChains /\ frames \in Seq(Plain) /\ saved = <<>> /\ (pc = "body" => frames # <<>>)
      /\ (pc # "served" => writer = [RW!Fresh EXCEPT !.status = ErrorCode])
  BY DEF RInv, Untouched, Suspended, Silent
<1>2. handlers \in Seq(Kinds)
  BY <1>1, RequestAssumption, ChainsAssumption
<1>. QED BY <1>1, <1>2, FramesKept, RequestAssumption DEF Top

(* A step of the chain leaves the writer alone and keeps the invariant.    *)
LEMMA FlowKeeps == ASSUME RInv, Flow PROVE RInv'
<1>1. UNCHANGED <<writer, route, saved, reentries, quiet, caught>> /\ UNCHANGED handlers
      /\ pc \in {"loop", "body"} /\ pc' # "served"
  BY DEF Flow, CallNext, LoopCall, LoopNil, LoopExit, Return, Abort
<1>2. ASSUME Silent' PROVE Untouched'
  <2>1. Silent
    BY <1>1, <1>2 DEF Silent
  <2>2. handlers \in ErrorChains /\ frames \in Seq(Plain) /\ saved = <<>>
        /\ (pc = "body" => frames # <<>> /\ Top \in Plain)
        /\ writer = [RW!Fresh EXCEPT !.status = ErrorCode]
        /\ \A i \in 1..Len(handlers) : handlers[i] \in Kinds \ {"static"}
    BY <1>1, <2>1, SilentFacts
  <2>3. frames' \in Seq(Plain) /\ (pc' = "body" => frames' # <<>>)
    <3>1. CASE CallNext
      <4>1. InNext(Top) \in Plain
        BY <2>2, <3>1, ChainsAssumption DEF CallNext, InNext, Spent, Plain
      <4>. QED BY <2>2, <3>1, <4>1, FramesKept DEF CallNext
    <3>2. CASE LoopCall
      <4>1. handlers \in Seq(Kinds)
        BY <2>2, RequestAssumption, ChainsAssumption
      <4>2. index + 1 \in 1..Len(handlers)
        BY <3>2, <4>1 DEF LoopCall
      <4>3. [kind |-> handlers[index + 1], nexts |-> 0] \in Plain
        BY <2>2, <4>2 DEF Plain
      <4>. QED BY <2>2, <3>2, <4>3, FramesKept DEF LoopCall
    <3>3. CASE LoopNil
      BY <2>2, <3>3 DEF LoopNil
    <3>4. CASE LoopExit(Base)
      BY <2>2, <3>4 DEF LoopExit, Base
    <3>5. CASE Return
      <4>1. Len(frames) - 1 \in 0..Len(frames)
        BY <2>2, <3>5, EmptySeq, LenProperties DEF Return
      <4>. QED BY <2>2, <3>5, <4>1, FramesKept DEF Return
    <3>6. CASE Abort
      BY <2>2, <3>6 DEF Abort
    <3>. QED BY <3>1, <3>2, <3>3, <3>4, <3>5, <3>6 DEF Flow
  <2>. QED BY <1>1, <2>2, <2>3 DEF Untouched
<1>. QED BY <1>1, <1>2, Keeps, NothingSent, NotSilent

(* A panic: the handlers above the one that recovers are gone, and Recovery *)
(* answers 500 if nothing was sent.  The call that panics may have used the *)
(* writer, but not that of a silent request.                                *)
LEMMA RaiseKeeps ==
    ASSUME RInv, NEW broken \in BOOLEAN, NEW wr, pc \in {"body", "loop"}, Raise(wr, broken),
           Sent(writer, wr), Silent => wr = writer
    PROVE  RInv'
<1>. DEFINE k == Len(frames')
            kept == Surviving(k)
            by500 == ~broken /\ pc' # "crashed" /\ frames[k].kind = "recovery"
<1>1. /\ saved' = kept
      /\ route' = IF Len(kept) = Len(saved) THEN route ELSE saved[Len(kept) + 1].route
      /\ writer' = IF by500 THEN Answer500(wr) ELSE wr
      /\ caught' = (caught \/ (by500 /\ wr.wire = RW!NoStatus /\ ~wr.hijacked))
      /\ reentries' = reentries /\ quiet' = quiet
      /\ Unwind(broken)
  BY DEF Raise
<1>2. saved = <<>> => kept = <<>>
  <2>1. SUFFICES ASSUME saved = <<>> PROVE kept = <<>>
    OBVIOUS
  <2>2. {i \in 1..Len(saved) : saved[i].base < k} = {}
    BY <2>1
  <2>3. kept = SubSeq(saved, 1, 0)
    BY <2>2, FS_EmptySet DEF Surviving
  <2>. QED BY <2>1, <2>3
<1>. HIDE DEF k, kept
<1>3. Honest(wr)
  BY DEF Sent
<1>4. Sent(writer, writer') /\ (caught' => caught \/ writer'.wire = 500)
  BY ZenonT(60), <1>1, <1>3, Answer500Sent, SentTwice
<1>5. pc' \in {"body", "crashed"} /\ UNCHANGED handlers
  BY <1>1 DEF Unwind
<1>6. ASSUME Silent' PROVE Untouched'
  <2>1. reentries = 0 /\ saved = <<>> /\ quiet /\ ~caught
    BY <1>1, <1>6 DEF Silent, RInv, Suspended
  <2>2. route' = route
    BY <1>1, <1>2, <2>1
  <2>3. Silent
    BY <1>6, <2>1, <2>2 DEF Silent
  <2>4. handlers \in ErrorChains /\ frames \in Seq(Plain) /\ writer = [RW!Fresh EXCEPT !.status = ErrorCode]
        /\ wr = writer
    BY <2>3, SilentFacts
  <2>5. ~by500
    <3>1. wr.wire = RW!NoStatus /\ ~wr.hijacked
      BY <2>4, Start DEF RW!Fresh
    <3>. QED BY <1>1, <1>6, <3>1 DEF Silent
  <2>6. frames' \in Seq(Plain) /\ (pc' = "body" => frames' # <<>>)
    <3>1. CASE frames' = <<>> /\ pc' = "crashed"
      BY <3>1
    <3>2. CASE \E j \in Recoverers : frames' = SubSeq(frames, 1, j)
      <4>1. PICK j \in 1..Len(frames) : frames' = SubSeq(frames, 1, j)
        BY <3>2 DEF Recoverers
      <4>2. frames' \in Seq(Plain) /\ Len(frames') = j
        BY <2>4, <4>1, SubSeqProperties
      <4>. QED BY <4>1, <4>2
    <3>. QED BY <1>1, <3>1, <3>2 DEF Unwind
  <2>. QED BY <1>1, <1>5, <2>4, <2>5, <2>6 DEF Untouched
<1>7. pc' # "served"
  BY <1>5
<1>. QED BY <1>1, <1>2, <1>4, <1>6, <1>7, Keeps, NotSilent

(* A panic keeps the invariant, whoever recovers from it.                  *)
LEMMA PanicKeeps == ASSUME RInv, HandlerPanics PROVE RInv'
BY RaiseKeeps, NothingSent DEF HandlerPanics, MayPanic, CanPanic, BadIndex

(* A handler uses the writer. *)
LEMMA UseKeeps ==
    ASSUME RInv, Sent(writer, writer'), quiet' = FALSE, UNCHANGED <<pc, saved, reentries, caught>>, pc = "body"
    PROVE  RInv'
<1>1. Untouched'
  BY NotSilent DEF Silent
<1>. QED BY <1>1, Keeps

(* What the calls with a final status send.                                *)
LEMMA CodeSent ==
    ASSUME FinalCodes, RInv, NEW code \in Codes
    PROVE  /\ Sent(writer, RW!WriteHeader(writer, code))
           /\ ~RW!HeaderPanics(RW!WriteHeader(writer, code))
           /\ Sent(writer, RW!WriteHeaderNow(RW!WriteHeader(writer, code)))
           /\ Sent(writer, RW!Write(RW!WriteHeader(writer, code), 1))
<1>. DEFINE s == RW!WriteHeader(writer, code)
<1>1. Honest(writer) /\ FinalCode(code)
  BY DEF RInv, FinalCodes
<1>2. code \in Int
  BY <1>1 DEF FinalCode, RW!ValidCode
<1>3. Sent(writer, s)
  BY <1>1, <1>2, WriteHeaderSent
<1>. HIDE DEF s
<1>4. Honest(s)
  BY <1>3 DEF Sent
<1>5. ~RW!HeaderPanics(s) /\ Sent(writer, RW!WriteHeaderNow(s)) /\ Sent(writer, RW!Write(s, 1))
  BY <1>3, <1>4, NoHeaderPanic, HeaderNowSent, WriteSent, SentTwice
<1>. QED BY <1>3, <1>5 DEF s

(* Status keeps the invariant.                                             *)
LEMMA StatusKeeps == ASSUME FinalCodes, RInv, SetStatus PROVE RInv'
<1>1. Sent(writer, writer')
  BY CodeSent DEF SetStatus
<1>. QED BY <1>1, UseKeeps DEF SetStatus, vars

(* A renderer that writes keeps it.                                        *)
LEMMA RenderKeeps == ASSUME FinalCodes, RInv, Render PROVE RInv'
<1>1. Sent(writer, writer') /\ quiet' = FALSE /\ UNCHANGED <<vars, saved, reentries, caught>> /\ pc = "body"
  BY CodeSent DEF Render
<1>. QED BY <1>1, UseKeeps DEF vars

(* A renderer that fails keeps it.                                         *)
LEMMA RenderFailsKeeps == ASSUME FinalCodes, RInv, RenderFails PROVE RInv'
<1>1. Sent(writer, writer') /\ quiet' = FALSE /\ UNCHANGED <<pc, saved, reentries, caught>> /\ pc = "body"
  BY CodeSent DEF RenderFails, Abort
<1>. QED BY <1>1, UseKeeps

(* AbortWithStatus keeps it.                                               *)
LEMMA AbortStatusKeeps == ASSUME FinalCodes, RInv, AbortWithStatus PROVE RInv'
<1>1. Sent(writer, writer') /\ quiet' = FALSE /\ UNCHANGED <<pc, saved, reentries, caught>> /\ pc = "body"
  BY CodeSent DEF AbortWithStatus, Abort
<1>. QED BY <1>1, UseKeeps

(* Hijack keeps it.                                                        *)
LEMMA HijackKeeps == ASSUME FinalCodes, RInv, Hijack PROVE RInv'
<1>1. Honest(writer) /\ CanHijack
  BY DEF RInv, FinalCodes
<1>2. Sent(writer, writer') /\ quiet' = FALSE /\ UNCHANGED <<vars, saved, reentries, caught>> /\ pc = "body"
  BY <1>1, HijackSent DEF Hijack
<1>. QED BY <1>2, UseKeeps DEF vars

(* Flush keeps it, and panics in no silent request.                         *)
LEMMA FlushKeeps == ASSUME RInv, Flush PROVE RInv'
<1>1. Sent(writer, RW!Flush(writer)) /\ (RW!FlushPanics(writer) => writer.hijacked)
  BY FlushSent DEF RInv
<1>2. CASE RW!FlushPanics(writer)
  <2>1. ~Silent
    <3>1. ASSUME Silent, pc = "body" PROVE ~writer.hijacked
      BY <3>1, SilentFacts, Start DEF RW!Fresh
    <3>. QED BY <1>1, <1>2, <3>1 DEF Flush
  <2>2. \E broken \in BOOLEAN : Raise(RW!Flush(writer), broken)
    BY <1>2 DEF Flush
  <2>3. PICK broken \in BOOLEAN : \E wr : Raise(wr, broken) /\ Sent(writer, wr)
    BY <1>1, <2>2, Zenon
  <2>. QED BY <2>1, <2>3, RaiseKeeps DEF Flush
<1>3. CASE ~RW!FlushPanics(writer)
  <2>1. Sent(writer, writer') /\ quiet' = FALSE /\ UNCHANGED <<vars, saved, reentries, caught>> /\ pc = "body"
    BY <1>1, <1>3 DEF Flush
  <2>. QED BY <2>1, UseKeeps DEF vars
<1>. QED BY <1>2, <1>3

(* The file server answers; what follows is no longer a silent request.     *)
LEMMA FileKeeps == ASSUME RInv, ServeFile PROVE RInv'
<1>1. Honest(writer)
  BY DEF RInv
<1>2. PICK code \in FileCodes :
        writer' = IF RW!BodyAllowed(code) THEN RW!Write(RW!WriteHeader(writer, code), 1)
                                          ELSE RW!WriteHeader(writer, code)
  BY DEF ServeFile
<1>. DEFINE s == RW!WriteHeader(writer, code)
<1>3. Sent(writer, s)
  <2>1. code \in Int /\ FinalCode(code)
    BY DEF FileCodes, FinalCode, RW!ValidCode, RW!Informational
  <2>. QED BY <1>1, <2>1, WriteHeaderSent
<1>. HIDE DEF s
<1>4. Sent(writer, RW!Write(s, 1))
  <2>1. Honest(s)
    BY <1>3 DEF Sent
  <2>. QED BY <1>3, <2>1, WriteSent, SentTwice
<1>5. Sent(writer, writer')
  BY <1>2, <1>3, <1>4 DEF s
<1>. QED BY <1>5, UseKeeps DEF ServeFile, StaticServe

(* A request with a file handler on its stack is not a silent one.          *)
LEMMA MissingKeeps == ASSUME RInv, FileMissing PROVE RInv'
<1>1. Honest(writer)
  BY DEF RInv
<1>2. FinalCode(404)
  BY DEF FinalCode, RW!ValidCode, RW!Informational
<1>3. Sent(writer, writer')
  BY <1>1, <1>2, WriteHeaderSent DEF FileMissing
<1>4. UNCHANGED <<route, saved, reentries, quiet, caught, pc>> /\ pc = "body" /\ Top.kind = "static"
  BY DEF FileMissing, StaticMiss
<1>5. ~Silent
  BY <1>4, SilentFacts DEF Plain
<1>6. Untouched'
  BY <1>4, <1>5, NotSilent DEF Silent
<1>. QED BY <1>3, <1>4, <1>6, Keeps

(* The engine is re-entered: Status() may differ from the wire from here on,*)
(* the account of what was sent stays.                                      *)
LEMMA ReentryKeeps == ASSUME RInv, HandleContext PROVE RInv'
<1>1. PICK o \in Outcomes : writer' = Entered(writer, o.route)
  BY DEF HandleContext
<1>2. Honest(writer') /\ (writer.wire # RW!NoStatus => writer'.wire = writer.wire)
  BY <1>1, EnteredHonest DEF RInv
<1>3. reentries \in Nat /\ reentries' = reentries + 1 /\ pc' = "loop" /\ caught' = caught
  BY DEF HandleContext, RInv, Suspended
<1>4. reentries' # 0 /\ reentries' \in Nat
  BY <1>3
<1>5. Untouched'
  BY <1>4, NotSilent DEF Silent
<1>6. Caught500'
  BY <1>2, <1>3 DEF RInv, Caught500, RW!NoStatus
<1>. QED BY <1>2, <1>3, <1>4, <1>5, <1>6 DEF RInv, StatusReported, Served, Suspended

(* The tail of handleHTTPRequest, serveError or redirectRequest always      *)
(* leaves a response.                                                       *)
LEMMA CompletedSent ==
    ASSUME Honest(writer)
    PROVE  /\ Sent(writer, Completed)
           /\ Completed.wire # RW!NoStatus \/ Completed.hijacked
<1>1. /\ Sent(writer, RW!Write(writer, 1)) /\ RW!Written(RW!Write(writer, 1))
      /\ Sent(writer, RW!WriteHeaderNow(writer)) /\ RW!Written(RW!WriteHeaderNow(writer))
      /\ Sent(writer, writer)
  BY WriteSent, HeaderNowSent DEF Sent
<1>2. Sent(writer, Completed) /\ RW!Written(Completed)
  <2>1. CASE route = "error" /\ RW!Written(writer)
    BY <1>1, <2>1 DEF Completed
  <2>2. CASE route = "error" /\ ~RW!Written(writer) /\ writer.status = ErrorCode
    BY <1>1, <2>2 DEF Completed
  <2>3. CASE ~(route = "error" /\ (RW!Written(writer) \/ writer.status = ErrorCode))
    BY <1>1, <2>3 DEF Completed
  <2>. QED BY <2>1, <2>2, <2>3
<1>. QED BY <1>2 DEF Sent, Honest

(* The tail of the dispatcher sends the header if nobody has.              *)
LEMMA CompleteKeeps == ASSUME RInv, Complete PROVE RInv'
<1>1. Honest(writer) /\ ~RW!HeaderPanics(writer)
  BY NoHeaderPanic DEF RInv
<1>2. /\ writer' = Completed /\ UNCHANGED <<frames, reentries, quiet, caught>>
      /\ pc = "done" /\ pc' \in {"served", "body"}
      /\ saved = <<>> => pc' = "served" /\ UNCHANGED <<handlers, route, saved>>
  BY <1>1 DEF Complete
<1>3. Sent(writer, writer') /\ (writer'.wire # RW!NoStatus \/ writer'.hijacked)
  BY <1>1, <1>2, CompletedSent
<1>4. ASSUME Silent' PROVE Untouched'
  <2>1. saved = <<>>
    BY <1>2, <1>4 DEF Silent, RInv, Suspended
  <2>2. Silent
    BY <1>2, <1>4, <2>1 DEF Silent
  <2>3. handlers \in ErrorChains /\ frames \in Seq(Plain) /\ writer = [RW!Fresh EXCEPT !.status = ErrorCode]
    BY <1>2, <2>2, SilentFacts
  <2>4. writer.status = ErrorCode /\ writer.body = 0 /\ ~RW!Written(writer)
    BY <2>3, Start DEF RW!Fresh, RW!Written
  <2>5. RW!BodyAllowed(ErrorCode)
    BY RequestAssumption DEF RW!BodyAllowed
  <2>6. writer' = RW!Write(writer, 1)
    BY <1>2, <2>2, <2>4 DEF Completed, Silent
  <2>7. writer'.wire = ErrorCode /\ writer'.body = 1
    BY <1>1, <2>4, <2>5, <2>6, WriteSent
  <2>. QED BY <1>2, <2>1, <2>3, <2>7 DEF Untouched
<1>5. saved = <<>> => saved' = <<>>
  BY <1>2
<1>. QED BY <1>2, <1>3, <1>4, <1>5, Keeps, NotSilent

-----------------------------------------------------------------------------

(* The dispatcher starts with an answer that is not begun.                 *)
LEMMA RequestStart == RequestInit => RInv
<1>. SUFFICES ASSUME RequestInit PROVE RInv
  OBVIOUS
<1>1. PICK o \in Outcomes : handlers = o.chain /\ route = o.route /\ writer = Entered(RW!Fresh, o.route)
  BY DEF RequestInit
<1>2. frames = <<>> /\ pc = "loop" /\ saved = <<>> /\ reentries = 0 /\ caught = FALSE
  BY DEF RequestInit
<1>3. Honest(writer) /\ (route = "error" => writer = [RW!Fresh EXCEPT !.status = ErrorCode])
  BY <1>1, Start, EnteredHonest
<1>4. StatusReported
  <2>1. CASE route = "error"
    BY <1>3, <2>1, Start DEF StatusReported, RW!Fresh
  <2>2. CASE route # "error"
    <3>1. Sent(RW!Fresh, writer)
      BY <1>1, <2>2, Start, EnteredHonest
    <3>. QED BY <3>1, Start DEF Sent, StatusReported
  <2>. QED BY <2>1, <2>2
<1>5. Untouched
  <2>1. ASSUME route = "error" PROVE handlers \in ErrorChains
    BY <1>1, <2>1 DEF Outcomes
  <2>. QED BY <1>2, <1>3, <2>1 DEF Untouched, Silent
<1>. QED BY <1>2, <1>3, <1>4, <1>5 DEF RInv, Caught500, Served, Suspended

(* Every step of a request keeps the invariant.                            *)
LEMMA RequestStep ==
    ASSUME FinalCodes PROVE RInv /\ [RequestNext]_rvars => RInv'
<1>. SUFFICES ASSUME RInv, [RequestNext]_rvars PROVE RInv'
  OBVIOUS
<1>1. CASE UNCHANGED rvars
  <2>1. UNCHANGED <<writer, route, saved, reentries, quiet, caught, handlers, frames, pc>>
    BY <1>1 DEF rvars, vars
  <2>2. StatusReported' /\ Caught500' /\ Served' /\ Suspended'
    BY <2>1 DEF RInv, StatusReported, Caught500, Served, Suspended
  <2>3. Untouched'
    BY <2>1 DEF RInv, Untouched, Silent
  <2>. QED BY <2>1, <2>2, <2>3 DEF RInv
<1>2. CASE RequestEnded
  BY <1>1, <1>2 DEF RequestEnded
<1>. QED BY <1>1, <1>2, FlowKeeps, PanicKeeps, StatusKeeps, RenderKeeps, RenderFailsKeeps,
            AbortStatusKeeps, HijackKeeps, FlushKeeps, FileKeeps, MissingKeeps, ReentryKeeps, CompleteKeeps
         DEF RequestNext

(* Through handlers, panics, missing files and re-entries, gin's account of *)
(* the response agrees with net/http's (gin.go:688-749, response_writer.go). *)
THEOREM RequestInvariant ==
    ASSUME FinalCodes PROVE RequestSpec => []RInv
<1>1. RInv /\ [RequestNext]_rvars => RInv'
  BY RequestStep
<1>. QED BY <1>1, RequestStart, PTL DEF RequestSpec

(* A request that is served has one answer, and the default one if no       *)
(* handler gave it another (gin.go:822-839).                                *)
THEOREM OneAnswer ==
    ASSUME FinalCodes PROVE RequestSpec => []Answered
<1>1. RInv => Answered
  BY DEF RInv, Answered, Honest, Served, Untouched, Silent
<1>. QED BY <1>1, RequestInvariant, PTL

(* Status() is what the client was sent, unless the engine was re-entered   *)
(* (response_writer.go:67-82).                                              *)
THEOREM StatusKnown ==
    ASSUME FinalCodes PROVE RequestSpec => []StatusReported
<1>1. RInv => StatusReported
  BY DEF RInv
<1>. QED BY <1>1, RequestInvariant, PTL

(* A panic that Recovery catches before any output is a 500                 *)
(* (recovery.go:33-46).                                                     *)
THEOREM PanicIs500 ==
    ASSUME FinalCodes PROVE RequestSpec => []RecoveryAnswers500
<1>1. RInv => RecoveryAnswers500
  BY DEF RInv, Caught500, RecoveryAnswers500
<1>. QED BY <1>1, RequestInvariant, PTL

-----------------------------------------------------------------------------
(* Until the engine is re-entered, the flow of control is HandlerChain's,   *)
(* and so is its invariant.                                                 *)

ChainInv ==
    reentries = 0 =>
        /\ stopped => aborted
        /\ frames \in Seq(Frame)
        /\ pc # "served" => IInv

(* Until the engine is re-entered a request takes the chain's steps.       *)
LEMMA ChainStep ==
    ASSUME FinalCodes, RInv, RequestNext, reentries' = 0
    PROVE  /\ reentries = 0
           /\ [Next]_vars \/ (pc' = "served" /\ UNCHANGED <<frames, aborted>>)
           /\ pc = "served" => UNCHANGED <<pc, frames, aborted>>
           /\ stopped' => stopped \/ aborted'
           /\ aborted => aborted'
<1>. DEFINE Goal == /\ reentries = 0
                    /\ [Next]_vars \/ (pc' = "served" /\ UNCHANGED <<frames, aborted>>)
                    /\ pc = "served" => UNCHANGED <<pc, frames, aborted>>
                    /\ stopped' => stopped \/ aborted'
                    /\ aborted => aborted'
<1>1. Honest(writer) /\ reentries \in Nat /\ (reentries = 0 => Base = 0)
  BY DEF RInv, Suspended, Base
<1>2. CASE Flow
  <2>1. Step \/ LoopExit(0)
    BY <1>1, <1>2 DEF Flow, Step
  <2>2. (aborted => aborted') /\ pc # "served"
    BY <1>2 DEF Flow, CallNext, LoopCall, LoopNil, LoopExit, Return, Abort
  <2>. QED BY <1>2, <2>1, <2>2 DEF Flow, Next
<1>3. CASE HandlerPanics \/ (Flush /\ RW!FlushPanics(writer))
  <2>1. (Panic \/ LoopBadIndex) /\ reentries' = reentries /\ stopped' = (stopped \/ aborted')
    <3>1. CASE HandlerPanics
      BY <3>1 DEF HandlerPanics, MayPanic, Raise, Panic, LoopBadIndex
    <3>2. CASE Flush /\ RW!FlushPanics(writer)
      BY <3>2 DEF Flush, Raise, Panic, CanPanic
    <3>. QED BY <1>3, <3>1, <3>2
  <2>2. (aborted => aborted') /\ pc \in {"body", "loop"}
    <3>1. pc \in {"body", "loop"} /\ \E broken \in BOOLEAN : Unwind(broken)
      BY <2>1 DEF Panic, CanPanic, LoopBadIndex, BadIndex
    <3>2. aborted' = aborted \/ \E k \in Recoverers, broken \in BOOLEAN :
                                  aborted' = (aborted \/ frames[k].kind = "recovery" \/ broken)
      BY <3>1, Zenon DEF Unwind
    <3>3. aborted => aborted'
      BY <3>2, Zenon
    <3>. QED BY <3>1, <3>3
  <2>. QED BY <2>1, <2>2 DEF Next, Step
<1>4. CASE SetStatus
  BY <1>4 DEF SetStatus, vars
<1>5. CASE Render
  <2>1. pc = "body" /\ UNCHANGED <<vars, reentries, stopped>>
    BY <1>5, CodeSent DEF Render
  <2>. QED BY <2>1 DEF vars
<1>6. CASE RenderFails
  <2>1. Abort /\ reentries' = reentries
    BY <1>6 DEF RenderFails
  <2>. QED BY <2>1 DEF Next, Step, Abort
<1>7. CASE AbortWithStatus
  <2>1. Abort /\ reentries' = reentries
    BY <1>7, CodeSent DEF AbortWithStatus
  <2>. QED BY <2>1 DEF Next, Step, Abort
<1>8. CASE Hijack
  <2>1. pc = "body" /\ UNCHANGED <<vars, reentries, stopped>>
    BY <1>1, <1>8, HijackSent DEF Hijack, FinalCodes
  <2>. QED BY <2>1 DEF vars
<1>9. CASE ServeFile
  BY <1>9 DEF ServeFile, Next, Step, StaticServe
<1>10. CASE FileMissing
  BY <1>10 DEF FileMissing, Next, Step, StaticMiss
<1>11. CASE HandleContext
  BY <1>1, <1>11 DEF HandleContext
<1>12. CASE Complete
  <2>1. UNCHANGED <<frames, reentries, stopped>> /\ pc = "done"
    BY <1>1, <1>12, NoHeaderPanic DEF Complete
  <2>2. saved = <<>>
    BY <2>1 DEF RInv, Suspended
  <2>3. pc' = "served" /\ UNCHANGED aborted
    BY <1>1, <1>12, <2>2, NoHeaderPanic DEF Complete
  <2>. QED BY <2>1, <2>3
<1>13. CASE RequestEnded
  BY <1>13 DEF RequestEnded, rvars, vars
<1>14. CASE Flush /\ ~RW!FlushPanics(writer)
  BY <1>14 DEF Flush, vars
<1>. QED BY <1>2, <1>3, <1>4, <1>5, <1>6, <1>7, <1>8, <1>9, <1>10, <1>11, <1>12, <1>13, <1>14 DEF RequestNext

(* So the chain's invariant holds of it.                                   *)
LEMMA ChainInvStep ==
    ASSUME SafeUse, FinalCodes PROVE RInv /\ ChainInv /\ [RequestNext]_rvars => ChainInv'
<1>. SUFFICES ASSUME RInv, ChainInv, [RequestNext]_rvars, reentries' = 0
              PROVE  (stopped' => aborted') /\ frames' \in Seq(Frame) /\ (pc' # "served" => IInv')
  BY DEF ChainInv
<1>1. CASE UNCHANGED rvars
  <2>1. UNCHANGED vars /\ UNCHANGED <<pc, frames, aborted, stopped, reentries>>
    BY <1>1 DEF rvars, vars
  <2>. QED BY <2>1, StepInv DEF ChainInv
<1>2. CASE RequestNext
  <2>1. /\ (stopped => aborted) /\ frames \in Seq(Frame) /\ (pc # "served" => IInv)
        /\ [Next]_vars \/ (pc' = "served" /\ UNCHANGED frames)
        /\ pc = "served" => pc' = "served" /\ UNCHANGED frames
    BY <1>2, ChainStep DEF ChainInv
  <2>2. stopped' => aborted'
    BY <1>2, <2>1, ChainStep
  <2>3. pc # "served" /\ [Next]_vars => IInv'
    BY <2>1, StepInv
  <2>4. frames' \in Seq(Frame)
    BY <2>1, <2>3 DEF IInv, TypeOK
  <2>. QED BY <2>1, <2>2, <2>3, <2>4
<1>. QED BY <1>1, <1>2

(* It holds when the dispatcher starts the chain.                          *)
LEMMA ChainStart == ASSUME SafeUse PROVE RequestInit => ChainInv
<1>. SUFFICES ASSUME RequestInit PROVE ChainInv
  OBVIOUS
<1>1. handlers \in Chains
  BY RequestAssumption DEF RequestInit, Outcomes
<1>2. Init
  BY <1>1 DEF RequestInit, Init
<1>. QED BY <1>2, InitInv DEF ChainInv, RequestInit, IInv, TypeOK

(* After Abort no step of HandlerChain calls a handler.                     *)
LEMMA StackShrinks ==
    ASSUME SafeUse, IInv, aborted, Next
    PROVE  Len(frames') <= Len(frames)
<1>1. frames \in Seq(Frame) /\ Len(frames) \in Nat
  BY LenProperties DEF IInv, TypeOK
<1>2. UNCHANGED frames => Len(frames') <= Len(frames)
  BY <1>1
<1>3. CASE LoopCall
  <2>1. index \in Int /\ index >= AbortIndex
    BY ChainFacts DEF IInv, TypeOK, AbortInv
  <2>2. Len(handlers) \in Nat /\ Len(handlers) < AbortIndex /\ AbortIndex \in Nat
    BY ChainFacts DEF IInv, TypeOK
  <2>. QED BY <1>3, <2>1, <2>2 DEF LoopCall
<1>4. CASE CallNext \/ StaticServe
  <2>1. frames # <<>>
    BY <1>4 DEF CallNext, StaticServe, IInv, TypeOK
  <2>2. Top \in Frame
    BY <1>1, <2>1, ElementOfSeq, EmptySeq DEF Top
  <2>3. CASE CallNext
    <3>1. InNext(Top) \in Frame
      BY <2>2, <2>3, ChainsAssumption DEF CallNext, InNext, Spent, Frame
    <3>. QED BY <1>1, <2>1, <2>3, <3>1, SetTop DEF CallNext
  <2>4. CASE StaticServe
    <3>1. Spent(Top) \in Frame
      BY <2>2, ChainsAssumption DEF Spent, Frame
    <3>. QED BY <1>1, <2>1, <2>4, <3>1, SetTop DEF StaticServe
  <2>. QED BY <1>4, <2>3, <2>4
<1>5. CASE StaticMiss
  BY <1>5 DEF IInv, AbortInv, StaticMiss
<1>6. CASE Return
  <2>1. Len(frames) - 1 \in 0..Len(frames)
    BY <1>1, <1>6, EmptySeq DEF Return, IInv, TypeOK
  <2>. QED BY <1>1, <1>6, <2>1, CutStack DEF Return
<1>7. CASE Panic \/ LoopBadIndex
  <2>1. \/ frames' = <<>>
        \/ \E k \in 1..Len(frames) : frames' = SubSeq(frames, 1, k)
    BY <1>7 DEF Panic, LoopBadIndex, Unwind, Recoverers
  <2>2. ASSUME NEW k \in 1..Len(frames), frames' = SubSeq(frames, 1, k) PROVE Len(frames') <= Len(frames)
    <3>1. k \in 0..Len(frames)
      OBVIOUS
    <3>. QED BY <1>1, <2>2, <3>1, CutStack
  <2>. QED BY <1>1, <2>1, <2>2, EmptySeq
<1>. QED BY <1>2, <1>3, <1>4, <1>5, <1>6, <1>7
         DEF Next, Step, LoopNil, LoopExit, Abort, Terminated, vars

(* No handler is called after Abort in a whole request with writer, tail    *)
(* and Recovery, unless it re-enters the engine (context.go:202-205).       *)
THEOREM AbortStopsThemAll ==
    ASSUME SafeUse, FinalCodes PROVE RequestSpec => AbortStopsRequest
<1>1. ASSUME RInv, ChainInv, RequestNext, stopped, reentries' = 0 PROVE Len(frames') <= Len(frames)
  <2>1. /\ aborted /\ frames \in Seq(Frame) /\ (pc # "served" => IInv)
        /\ [Next]_vars \/ UNCHANGED frames
        /\ pc = "served" => UNCHANGED frames
    BY <1>1, ChainStep DEF ChainInv
  <2>2. UNCHANGED frames => Len(frames') <= Len(frames)
    BY <2>1, LenProperties
  <2>3. Next /\ IInv => Len(frames') <= Len(frames)
    BY <2>1, StackShrinks
  <2>. QED BY <2>1, <2>2, <2>3 DEF vars
<1>2. RInv /\ ChainInv /\ [RequestNext]_rvars =>
          [(stopped /\ reentries' = 0) => Len(frames') <= Len(frames)]_rvars
  BY <1>1
<1>3. RInv /\ ChainInv /\ [RequestNext]_rvars => ChainInv'
  BY ChainInvStep
<1>4. RequestInit => ChainInv
  BY ChainStart
<1>. QED BY <1>2, <1>3, <1>4, RequestInvariant, PTL DEF RequestSpec, AbortStopsRequest

-----------------------------------------------------------------------------
(* Re-entry: each activation of handleHTTPRequest runs its own chain on     *)
(* its own part of the stack, and HandlerChain's invariant holds there.     *)

(* What the code does not enforce: a request that re-enters the engine has  *)
(* no CustomRecovery that leaves the chain running after a panic.           *)
PanicsAbort ==
    MaxReentry > 0 => \A c \in Chains \cup {NoRoute} : \A i \in 1..Len(c) : c[i] # "custom"

(* The stack of the running activation. *)
Part == SubSeq(frames, Base + 1, Len(frames))
PartPc == IF pc = "served" THEN "done" ELSE pc
Act == INSTANCE HandlerChainProofs WITH frames <- Part, pc <- PartPc

(* A suspended activation s with the stack g, whose last handler is inside  *)
(* its call of HandleContext.                                               *)
Waiting(s, g) == INSTANCE HandlerChain WITH
    index <- s.index, handlers <- s.handlers, frames <- g, pc <- "body",
    ran <- s.ran, aborted <- s.aborted

Activation == [index : Int, handlers : Chains \cup {NoRoute}, ran : Seq(Nat),
               aborted : BOOLEAN, route : Routes, base : Nat]

(* The frames of the first m activations, and those of the mth alone.       *)
Root(m) == IF m = 0 THEN 0 ELSE saved[m].base
Slice(m) == SubSeq(frames, Root(m - 1) + 1, Root(m))
Parked(m) == Waiting(saved[m], Slice(m))!IInv

Nested ==
    /\ frames \in Seq(Frame) /\ saved \in Seq(Activation) /\ route \in Routes
    /\ reentries \in 0..MaxReentry /\ (reentries = 0 => saved = <<>>)
    /\ \A i, j \in 1..Len(saved) : i < j => saved[i].base < saved[j].base
    /\ \A i \in 1..Len(saved) :
          /\ saved[i].base \in 1..Len(frames)
          /\ frames[saved[i].base].kind = "handler"
          /\ Parked(i)
Abortive == MaxReentry > 0 => \A k \in 1..Len(frames) : frames[k].kind # "custom"
NestedInv == Nested /\ Abortive /\ Act!IInv

(* HandlerChain's constants and operators are the same for every part.      *)
LEMMA SameChains ==
    /\ Act!Frame = Frame /\ Act!Kinds = Kinds
    /\ Act!ChainsAssumption
    /\ SafeUse => Act!SafeUse
    /\ \A f : Act!InNext(f) = InNext(f) /\ Act!Spent(f) = Spent(f)
    /\ \A i : Act!Inc(i) = Inc(i)
BY ChainsAssumption DEF Act!Frame, Frame, Act!Kinds, Kinds, Act!ChainsAssumption, Act!SafeUse, SafeUse,
       Act!InNext, InNext, Act!Spent, Spent, Act!Inc, Inc

(* The elements of a part of a sequence.                                   *)
LEMMA SliceOf ==
    ASSUME NEW S, NEW s \in Seq(S), NEW a \in 0..Len(s), NEW b \in a..Len(s)
    PROVE  /\ SubSeq(s, a + 1, b) \in Seq(S)
           /\ Len(SubSeq(s, a + 1, b)) = b - a
           /\ \A k \in 1..b - a : SubSeq(s, a + 1, b)[k] = s[a + k]
<1>1. Len(s) \in Nat /\ a + 1 \in Int /\ b \in Int
  BY LenProperties
<1>2. \A i \in a + 1 .. b : s[i] \in S
  BY <1>1, ElementOfSeq
<1>. QED BY <1>1, <1>2, SubSeqProperties

(* The bases of the suspended activations increase, up to Base. *)
LEMMA Roots ==
    ASSUME Nested
    PROVE  /\ Len(saved) \in Nat /\ Len(frames) \in Nat
           /\ \A m \in 0..Len(saved) : Root(m) \in 0..Len(frames)
           /\ \A i, j \in 0..Len(saved) : i < j => Root(i) < Root(j)
           /\ Base = Root(Len(saved))
<1>1. Len(saved) \in Nat /\ Len(frames) \in Nat
  BY LenProperties DEF Nested
<1>2. \A m \in 0..Len(saved) : Root(m) \in 0..Len(frames)
  BY <1>1 DEF Nested, Root
<1>3. ASSUME NEW i \in 0..Len(saved), NEW j \in 0..Len(saved), i < j PROVE Root(i) < Root(j)
  <2>1. j \in 1..Len(saved) /\ Root(j) = saved[j].base /\ saved[j].base \in 1..Len(frames)
    BY <1>1, <1>3 DEF Root, Nested
  <2>2. CASE i = 0
    BY <1>1, <2>1, <2>2 DEF Root
  <2>3. CASE i # 0
    <3>1. i \in 1..Len(saved) /\ Root(i) = saved[i].base
      BY <1>1, <2>3 DEF Root
    <3>. QED BY <1>3, <2>1, <3>1 DEF Nested
  <2>. QED BY <2>2, <2>3
<1>4. Base = Root(Len(saved))
  <2>1. saved = <<>> <=> Len(saved) = 0
    BY EmptySeq DEF Nested
  <2>. QED BY <2>1 DEF Base, Root
<1>. QED BY <1>1, <1>2, <1>3, <1>4

(* The frames of a suspended activation.                                   *)
LEMMA SliceFacts ==
    ASSUME Nested, NEW m \in 1..Len(saved)
    PROVE  /\ Slice(m) \in Seq(Frame)
           /\ Len(Slice(m)) = Root(m) - Root(m - 1)
           /\ \A k \in 1..Root(m) - Root(m - 1) : Slice(m)[k] = frames[Root(m - 1) + k]
<1>1. /\ Root(m - 1) \in 0..Len(frames) /\ Root(m) \in Root(m - 1)..Len(frames)
  BY Roots
<1>. QED BY <1>1, SliceOf DEF Slice, Nested

(* The frames of the activation that runs.                                 *)
LEMMA PartFacts ==
    ASSUME Nested
    PROVE  /\ Base \in 0..Len(frames) /\ Len(frames) \in Nat
           /\ Part \in Seq(Frame) /\ Len(Part) = Len(frames) - Base
           /\ \A k \in 1..Len(frames) - Base : Part[k] = frames[Base + k]
           /\ Base < Len(frames) => Act!Top = Top
<1>1. Base \in 0..Len(frames) /\ Len(frames) \in Base..Len(frames) /\ Len(frames) \in Nat
  BY Roots
<1>2. /\ Part \in Seq(Frame) /\ Len(Part) = Len(frames) - Base
      /\ \A k \in 1..Len(frames) - Base : Part[k] = frames[Base + k]
  BY <1>1, SliceOf DEF Part, Nested
<1>. QED BY <1>1, <1>2 DEF Act!Top, Top

(* A handler runs: it is on the stack of its activation. *)
LEMMA BodyFacts ==
    ASSUME NestedInv, pc = "body"
    PROVE  Base < Len(frames) /\ Act!Top = Top /\ Top \in Frame /\ Len(frames) \in 1..Len(frames)
<1>1. Part # <<>>
  BY DEF NestedInv, Act!IInv, Act!TypeOK, PartPc
<1>2. Base < Len(frames)
  BY <1>1, PartFacts, EmptySeq DEF NestedInv
<1>3. Len(frames) \in 1..Len(frames) /\ frames \in Seq(Frame)
  BY <1>2, PartFacts DEF NestedInv, Nested
<1>. QED BY <1>2, <1>3, PartFacts, ElementOfSeq DEF NestedInv, Top

(* The stack below m activations stays: what is suspended there does not    *)
(* change.                                                                  *)
LEMMA StaysSuspended ==
    ASSUME Nested, NEW m \in 0..Len(saved), saved' = SubSeq(saved, 1, m),
           frames' \in Seq(Frame), route' \in Routes, reentries' = reentries,
           \A k \in 1..Root(m) : k \in 1..Len(frames') /\ frames'[k] = frames[k]
    PROVE  Nested' /\ Base' = Root(m) /\ Len(saved') = m /\ Root(m) \in 0..Len(frames')
<1>1. /\ saved' \in Seq(Activation) /\ Len(saved') = m
      /\ \A i \in 1..m : saved'[i] = saved[i] /\ i \in 1..Len(saved)
  <2>1. saved \in Seq(Activation) /\ \A i \in 1..m : saved[i] \in Activation
    BY Roots, ElementOfSeq DEF Nested
  <2>. QED BY <2>1, Roots, SubSeqProperties
<1>2. Len(frames') \in Nat
  BY LenProperties
<1>3. \A i \in 0..m : Root(i)' = Root(i) /\ Root(i) \in 0..Root(m)
  <2>1. \A i \in 0..m : Root(i)' = Root(i)
    BY <1>1 DEF Root
  <2>2. ASSUME NEW i \in 0..m PROVE Root(i) \in 0..Root(m)
    BY Roots
  <2>. QED BY <2>1, <2>2
<1>4. Root(m) \in 0..Len(frames')
  BY <1>2, Roots
<1>5. Base' = Root(m)
  <2>1. saved' = <<>> <=> m = 0
    BY <1>1, EmptySeq
  <2>2. m # 0 => saved'[m] = saved[m]
    BY <1>1
  <2>. QED BY <1>1, <2>1, <2>2 DEF Base, Root
<1>6. \A i \in 1..m : Slice(i)' = Slice(i)
  <2>. SUFFICES ASSUME NEW i \in 1..m PROVE Slice(i)' = Slice(i)
    OBVIOUS
  <2>1. i \in 1..Len(saved) /\ i \in 0..m /\ i - 1 \in 0..m
    BY Roots
  <2>. DEFINE a == Root(i - 1)
              b == Root(i)
  <2>2. a \in 0..Root(m) /\ b \in 0..Root(m) /\ a < b /\ Root(i - 1)' = a /\ Root(i)' = b
    BY SMTT(60), <1>3, <2>1, Roots
  <2>. HIDE DEF a, b
  <2>3. a \in 0..Len(frames') /\ b \in a..Len(frames') /\ a \in 0..Len(frames) /\ b \in a..Len(frames)
    BY <1>2, <1>4, <2>2, Roots
  <2>4. \A k \in 1..b - a : a + k \in 1..Root(m)
    BY <1>4, <2>2, <2>3
  <2>5. /\ SubSeq(frames, a + 1, b) \in Seq(Frame) /\ SubSeq(frames', a + 1, b) \in Seq(Frame)
        /\ Len(SubSeq(frames, a + 1, b)) = b - a /\ Len(SubSeq(frames', a + 1, b)) = b - a
        /\ \A k \in 1..b - a : /\ SubSeq(frames, a + 1, b)[k] = frames[a + k]
                               /\ SubSeq(frames', a + 1, b)[k] = frames'[a + k]
    BY <2>3, SliceOf DEF Nested
  <2>6. \A k \in 1..b - a : frames'[a + k] = frames[a + k]
    BY <2>4
  <2>7. SubSeq(frames', a + 1, b) = SubSeq(frames, a + 1, b)
    BY <2>5, <2>6, SeqEqual
  <2>. QED BY <2>2, <2>7 DEF Slice, a, b
<1>7. \A i, j \in 1..Len(saved') : i < j => saved'[i].base < saved'[j].base
  BY <1>1 DEF Nested
<1>8. ASSUME NEW i \in 1..Len(saved')
      PROVE  /\ saved'[i].base \in 1..Len(frames')
             /\ frames'[saved'[i].base].kind = "handler"
             /\ Parked(i)'
  <2>1. i \in 1..Len(saved) /\ i \in 1..m /\ i \in 0..m /\ saved'[i] = saved[i] /\ Root(i) = saved[i].base
    BY <1>1, Roots DEF Root
  <2>2. saved[i].base \in 1..Root(m)
    <3>1. saved[i].base \in 1..Len(frames)
      BY <2>1 DEF Nested
    <3>. QED BY <1>3, <2>1, <3>1
  <2>. QED BY <1>6, <2>1, <2>2 DEF Nested, Parked
<1>9. reentries = 0 => saved' = <<>>
  <2>1. reentries = 0 => Len(saved) = 0
    BY EmptySeq DEF Nested
  <2>. QED BY <1>1, <2>1, EmptySeq
<1>. QED BY <1>1, <1>4, <1>5, <1>7, <1>8, <1>9 DEF Nested

(* The part of a stack above its first a frames, when the stack changes.    *)
LEMMA SliceTop ==
    ASSUME NEW S, NEW s \in Seq(S), NEW a \in 0..Len(s), a < Len(s), NEW f \in S
    PROVE  LET t == [s EXCEPT ![Len(s)] = f] IN
           /\ t \in Seq(S) /\ Len(t) = Len(s) /\ t[Len(s)] = f
           /\ \A k \in 1..Len(s) - 1 : t[k] = s[k]
           /\ SubSeq(t, a + 1, Len(s)) = [SubSeq(s, a + 1, Len(s)) EXCEPT ![Len(s) - a] = f]
<1>. DEFINE n == Len(s)
            t == [s EXCEPT ![n] = f]
            p == SubSeq(s, a + 1, n)
            q == SubSeq(t, a + 1, n)
            r == [p EXCEPT ![n - a] = f]
<1>1. n \in Nat /\ n \in 1..n /\ a \in 0..n /\ n \in a..n /\ n - a \in 1..n - a
  BY LenProperties
<1>2. t \in Seq(S) /\ Len(t) = n /\ \A k \in 1..n : t[k] = IF k = n THEN f ELSE s[k]
  BY <1>1, ExceptSeq
<1>3. p \in Seq(S) /\ Len(p) = n - a /\ \A k \in 1..n - a : p[k] = s[a + k]
  BY <1>1, SliceOf
<1>. HIDE DEF n, t, p
<1>4. q \in Seq(S) /\ Len(q) = n - a /\ \A k \in 1..n - a : q[k] = t[a + k]
  BY <1>1, <1>2, SliceOf
<1>5. r \in Seq(S) /\ Len(r) = n - a /\ \A k \in 1..n - a : r[k] = IF k = n - a THEN f ELSE p[k]
  BY <1>1, <1>3, ExceptSeq
<1>. HIDE DEF q, r
<1>6. \A k \in 1..n - a : a + k \in 1..n /\ (a + k = n <=> k = n - a)
  BY <1>1
<1>7. \A k \in 1..n - a : q[k] = r[k]
  BY <1>2, <1>3, <1>4, <1>5, <1>6
<1>8. q = r
  BY <1>4, <1>5, <1>7, SeqEqual
<1>9. t[n] = f /\ \A k \in 1..n - 1 : t[k] = s[k]
  BY <1>1, <1>2
<1>. QED BY <1>2, <1>8, <1>9 DEF n, t, p, q, r

(* A push makes the last part longer.                                      *)
LEMMA SlicePush ==
    ASSUME NEW S, NEW s \in Seq(S), NEW a \in 0..Len(s), NEW f \in S
    PROVE  LET t == Append(s, f) IN
           /\ t \in Seq(S) /\ Len(t) = Len(s) + 1 /\ t[Len(s) + 1] = f
           /\ \A k \in 1..Len(s) : t[k] = s[k]
           /\ SubSeq(t, a + 1, Len(s) + 1) = Append(SubSeq(s, a + 1, Len(s)), f)
<1>. DEFINE n == Len(s)
            t == Append(s, f)
            p == SubSeq(s, a + 1, n)
            q == SubSeq(t, a + 1, n + 1)
<1>1. n \in Nat /\ a \in 0..n /\ n \in a..n /\ a \in 0..n + 1 /\ n + 1 \in a..n + 1
  BY LenProperties
<1>2. t \in Seq(S) /\ Len(t) = n + 1 /\ t[n + 1] = f /\ \A k \in 1..n : t[k] = s[k]
  BY <1>1, AppendProperties
<1>3. p \in Seq(S) /\ Len(p) = n - a /\ \A k \in 1..n - a : p[k] = s[a + k]
  BY <1>1, SliceOf
<1>4. q \in Seq(S) /\ Len(q) = n + 1 - a /\ \A k \in 1..n + 1 - a : q[k] = t[a + k]
  BY <1>1, <1>2, SliceOf
<1>. HIDE DEF n, t, p, q
<1>5. Append(p, f) \in Seq(S) /\ Len(Append(p, f)) = n + 1 - a /\ Append(p, f)[n + 1 - a] = f
      /\ \A k \in 1..n - a : Append(p, f)[k] = p[k]
  <2>1. (n - a) + 1 = n + 1 - a
    BY <1>1
  <2>. QED BY <1>3, <2>1, AppendProperties
<1>6. \A k \in 1..n + 1 - a : q[k] = Append(p, f)[k]
  <2>. TAKE k \in 1..n + 1 - a
  <2>1. CASE k = n + 1 - a
    <3>1. a + k = n + 1
      BY <1>1, <2>1
    <3>. QED BY <1>2, <1>4, <1>5, <2>1, <3>1
  <2>2. CASE k # n + 1 - a
    <3>1. k \in 1..n - a /\ a + k \in 1..n
      BY <1>1, <2>2
    <3>. QED BY <1>2, <1>3, <1>4, <1>5, <3>1
  <2>. QED BY <2>1, <2>2
<1>7. q = Append(p, f)
  BY <1>4, <1>5, <1>6, SeqEqual
<1>. QED BY <1>2, <1>7 DEF n, t, p, q

(* A pop makes it shorter.                                                 *)
LEMMA SliceCut ==
    ASSUME NEW S, NEW s \in Seq(S), NEW a \in 0..Len(s), NEW c \in a..Len(s)
    PROVE  LET t == SubSeq(s, 1, c) IN
           /\ t \in Seq(S) /\ Len(t) = c
           /\ \A k \in 1..c : t[k] = s[k]
           /\ SubSeq(t, a + 1, c) = SubSeq(SubSeq(s, a + 1, Len(s)), 1, c - a)
<1>. DEFINE n == Len(s)
            t == SubSeq(s, 1, c)
            p == SubSeq(s, a + 1, n)
            q == SubSeq(p, 1, c - a)
            r == SubSeq(t, a + 1, c)
<1>1. n \in Nat /\ a \in 0..n /\ n \in a..n /\ c \in 0..n /\ c \in a..n /\ a \in 0..c /\ c \in a..c
      /\ c \in Nat /\ a \in Nat /\ a <= c
  BY LenProperties
<1>2. t \in Seq(S) /\ Len(t) = c /\ \A k \in 1..c : t[k] = s[k]
  <2>1. 0 \in 0..n /\ c \in 0..n /\ 0 + 1 = 1 /\ c - 0 = c /\ \A k \in 1..c : 0 + k = k
    BY <1>1
  <2>. QED BY <2>1, SliceOf
<1>3. p \in Seq(S) /\ Len(p) = n - a /\ \A k \in 1..n - a : p[k] = s[a + k]
  BY <1>1, SliceOf
<1>4. r \in Seq(S) /\ Len(r) = c - a /\ \A k \in 1..c - a : r[k] = t[a + k]
  BY SMTT(60), <1>1, <1>2, SliceOf
<1>. HIDE DEF n, t, p, q, r
<1>5. q \in Seq(S) /\ Len(q) = c - a /\ \A k \in 1..c - a : q[k] = p[k]
  <2>1. 0 \in 0..n - a /\ c - a \in 0..n - a /\ 0 + 1 = 1 /\ (c - a) - 0 = c - a /\ \A k \in 1..c - a : 0 + k = k
    BY <1>1
  <2>. QED BY SMTT(60), <1>3, <2>1, SliceOf DEF q
<1>6. \A k \in 1..c - a : k \in 1..n - a /\ a + k \in 1..c
  BY <1>1
<1>7. \A k \in 1..c - a : r[k] = q[k]
  BY <1>2, <1>3, <1>4, <1>5, <1>6
<1>8. r = q
  BY <1>4, <1>5, <1>7, SeqEqual
<1>. QED BY <1>2, <1>8 DEF n, t, p, q, r

(* All suspended activations are a part of themselves.                     *)
LEMMA WholeStack == ASSUME Nested PROVE SubSeq(saved, 1, Len(saved)) = saved
<1>1. Len(saved) \in Nat /\ \A i \in 1..Len(saved) : saved[i] \in Activation
  BY Roots, ElementOfSeq DEF Nested
<1>2. SubSeq(saved, 1, Len(saved)) \in Seq(Activation) /\ Len(SubSeq(saved, 1, Len(saved))) = Len(saved)
      /\ \A i \in 1..Len(saved) : SubSeq(saved, 1, Len(saved))[i] = saved[i]
  BY <1>1, SubSeqProperties
<1>. QED BY <1>2, SeqEqual DEF Nested

(* A step of HandlerChain on the part of the running activation.            *)
LEMMA StepWithin ==
    ASSUME SafeUse, NestedInv, [Act!Next]_(Act!vars), UNCHANGED saved, UNCHANGED reentries, route' \in Routes,
           frames' \in Seq(Frame), Abortive',
           \A k \in 1..Base : k \in 1..Len(frames') /\ frames'[k] = frames[k]
    PROVE  NestedInv'
<1>1. Nested'
  <2>1. Len(saved) \in 0..Len(saved) /\ Base = Root(Len(saved))
    BY Roots DEF NestedInv
  <2>2. saved' = SubSeq(saved, 1, Len(saved))
    BY WholeStack DEF NestedInv
  <2>. QED BY <2>1, <2>2, StaysSuspended DEF NestedInv
<1>2. Act!IInv'
  BY SameChains, Act!StepInv DEF NestedInv
<1>. QED BY <1>1, <1>2 DEF NestedInv

(* The running handler's frame is replaced: it calls Next, or is the file   *)
(* handler.                                                                 *)
LEMMA TopWithin ==
    ASSUME SafeUse, NestedInv, pc = "body", UNCHANGED <<saved, route, reentries>>,
           NEW f \in Frame, f.kind = Top.kind, frames' = [frames EXCEPT ![Len(frames)] = f],
           Part' = [Part EXCEPT ![Len(Part)] = f] => [Act!Next]_(Act!vars)
    PROVE  NestedInv'
<1>1. Base \in 0..Len(frames) /\ Base < Len(frames) /\ Len(frames) \in Nat /\ frames \in Seq(Frame)
      /\ Len(Part) = Len(frames) - Base
  BY BodyFacts, PartFacts DEF NestedInv, Nested
<1>2. /\ frames' \in Seq(Frame) /\ Len(frames') = Len(frames) /\ frames'[Len(frames)] = f
      /\ \A k \in 1..Len(frames) - 1 : frames'[k] = frames[k]
      /\ SubSeq(frames', Base + 1, Len(frames)) = [Part EXCEPT ![Len(frames) - Base] = f]
  BY SMTT(60), <1>1, SliceTop DEF Part
<1>3. Part' = [Part EXCEPT ![Len(Part)] = f]
  <2>1. Part' = SubSeq(frames', Base + 1, Len(frames))
    BY <1>2 DEF Part, Base
  <2>. QED BY <1>1, <1>2, <2>1
<1>4. Abortive'
  <2>1. \A k \in 1..Len(frames) : frames'[k].kind = frames[k].kind
    BY <1>1, <1>2 DEF Top
  <2>. QED BY <1>2, <2>1 DEF NestedInv, Abortive
<1>5. \A k \in 1..Base : k \in 1..Len(frames') /\ frames'[k] = frames[k]
  BY <1>1, <1>2
<1>6. route' \in Routes
  BY DEF NestedInv, Nested
<1>. QED BY <1>2, <1>3, <1>4, <1>5, <1>6, StepWithin

(* The stack stays as it is, or loses frames of the running activation.     *)
LEMMA CutWithin ==
    ASSUME SafeUse, NestedInv, UNCHANGED <<saved, reentries>>, route' \in Routes,
           NEW c \in Base..Len(frames), frames' = SubSeq(frames, 1, c),
           Part' = SubSeq(Part, 1, c - Base) => [Act!Next]_(Act!vars)
    PROVE  NestedInv'
<1>1. Base \in 0..Len(frames) /\ Len(frames) \in Nat /\ frames \in Seq(Frame)
  BY PartFacts DEF NestedInv, Nested
<1>2. /\ frames' \in Seq(Frame) /\ Len(frames') = c
      /\ \A k \in 1..c : frames'[k] = frames[k]
      /\ SubSeq(frames', Base + 1, c) = SubSeq(Part, 1, c - Base)
  BY <1>1, SliceCut DEF Part
<1>3. Part' = SubSeq(Part, 1, c - Base)
  BY <1>2 DEF Part, Base
<1>4. \A k \in 1..c : k \in 1..Len(frames)
  BY <1>1
<1>5. Abortive'
  BY <1>2, <1>4 DEF NestedInv, Abortive
<1>6. \A k \in 1..Base : k \in 1..Len(frames') /\ frames'[k] = frames[k]
  BY <1>1, <1>2
<1>. QED BY <1>2, <1>3, <1>5, <1>6, StepWithin

(* A step within the running activation leaves the suspended ones alone.   *)
LEMMA SameWithin ==
    ASSUME SafeUse, NestedInv, UNCHANGED <<frames, saved, route, reentries>>,
           Part' = Part => [Act!Next]_(Act!vars)
    PROVE  NestedInv'
<1>1. Base \in 0..Len(frames) /\ Len(frames) \in Nat /\ frames' \in Seq(Frame) /\ route' \in Routes
  BY PartFacts DEF NestedInv, Nested
<1>2. Part' = Part /\ Abortive'
  BY DEF Part, Base, NestedInv, Abortive
<1>3. \A k \in 1..Base : k \in 1..Len(frames') /\ frames'[k] = frames[k]
  BY <1>1
<1>. QED BY <1>1, <1>2, <1>3, StepWithin

(* The chain's steps are steps within the running activation.              *)
LEMMA FlowWithin ==
    ASSUME SafeUse, PanicsAbort, NestedInv, UNCHANGED <<saved, route, reentries>>,
           \/ CallNext \/ LoopCall \/ LoopNil \/ LoopExit(Base) \/ Return
           \/ Abort \/ StaticMiss \/ StaticServe
    PROVE  NestedInv'
<1>. USE SameChains
<1>1. CASE CallNext
  <2>1. Base < Len(frames) /\ Act!Top = Top /\ Top \in Frame
    BY <1>1, BodyFacts DEF CallNext
  <2>2. InNext(Top) \in Frame /\ InNext(Top).kind = Top.kind
    BY SMTT(60), <1>1, <2>1, ChainsAssumption DEF CallNext, InNext, Spent, Frame
  <2>3. ASSUME Part' = [Part EXCEPT ![Len(Part)] = InNext(Top)] PROVE Act!CallNext
    BY <1>1, <2>1, <2>3 DEF CallNext, Act!CallNext, PartPc
  <2>4. Part' = [Part EXCEPT ![Len(Part)] = InNext(Top)] => [Act!Next]_(Act!vars)
    BY <2>3 DEF Act!Next, Act!Step
  <2>. QED BY <1>1, <2>2, <2>4, TopWithin DEF CallNext
<1>2. CASE StaticMiss \/ StaticServe
  <2>1. Base < Len(frames) /\ Act!Top = Top /\ Top \in Frame /\ pc = "body"
    BY <1>2, BodyFacts DEF StaticMiss, StaticServe
  <2>2. Spent(Top) \in Frame /\ Spent(Top).kind = Top.kind
    BY <2>1, ChainsAssumption DEF Spent, Frame
  <2>3. ASSUME Part' = [Part EXCEPT ![Len(Part)] = Spent(Top)] PROVE Act!StaticMiss \/ Act!StaticServe
    BY <1>2, <2>1, <2>3 DEF StaticMiss, StaticServe, Act!StaticMiss, Act!StaticServe, PartPc
  <2>4. Part' = [Part EXCEPT ![Len(Part)] = Spent(Top)] => [Act!Next]_(Act!vars)
    BY <2>3 DEF Act!Next, Act!Step
  <2>. QED BY <1>2, <2>1, <2>2, <2>4, TopWithin DEF StaticMiss, StaticServe
<1>3. CASE LoopCall
  <2>. DEFINE f == [kind |-> handlers[index + 1], nexts |-> 0]
  <2>1. /\ Base \in 0..Len(frames) /\ Len(frames) \in Nat /\ frames \in Seq(Frame) /\ frames' = Append(frames, f)
        /\ route' \in Routes
    BY <1>3, PartFacts DEF NestedInv, Nested, LoopCall
  <2>2. handlers \in Chains \cup {NoRoute} /\ handlers \in Seq(Kinds) /\ index + 1 \in 1..Len(handlers)
    BY <1>3, ChainFacts DEF NestedInv, Act!IInv, Act!TypeOK, LoopCall
  <2>3. f \in Frame
    BY <2>2, ElementOfSeq, ChainsAssumption DEF Frame
  <2>4. /\ frames' \in Seq(Frame) /\ Len(frames') = Len(frames) + 1 /\ frames'[Len(frames) + 1] = f
        /\ \A k \in 1..Len(frames) : frames'[k] = frames[k]
        /\ SubSeq(frames', Base + 1, Len(frames) + 1) = Append(Part, f)
    BY <2>1, <2>3, SlicePush DEF Part
  <2>5. Part' = Append(Part, f)
    BY <2>4 DEF Part, Base
  <2>6. Act!LoopCall
    BY <1>3, <2>5 DEF LoopCall, Act!LoopCall, PartPc
  <2>7. Abortive'
    <3>1. MaxReentry > 0 => f.kind # "custom"
      BY <2>2 DEF PanicsAbort
    <3>. QED BY <2>1, <2>4, <3>1 DEF NestedInv, Abortive
  <2>8. \A k \in 1..Base : k \in 1..Len(frames') /\ frames'[k] = frames[k]
    BY <2>1, <2>4
  <2>9. [Act!Next]_(Act!vars)
    BY <2>6 DEF Act!Next, Act!Step
  <2>. QED BY <2>1, <2>4, <2>7, <2>8, <2>9, StepWithin
<1>4. CASE LoopNil
  <2>1. Part' = Part => Act!LoopNil
    BY <1>4 DEF LoopNil, Act!LoopNil, PartPc
  <2>2. Part' = Part => [Act!Next]_(Act!vars)
    BY <2>1 DEF Act!Next, Act!Step
  <2>. QED BY <1>4, <2>2, SameWithin DEF LoopNil
<1>5. CASE LoopExit(Base)
  <2>1. Len(frames) = Base <=> Len(Part) = 0
    BY PartFacts DEF NestedInv
  <2>2. Part' = Part => Act!LoopExit(0)
    BY <1>5, <2>1 DEF LoopExit, Act!LoopExit, PartPc
  <2>3. Part' = Part => [Act!Next]_(Act!vars)
    BY <2>2 DEF Act!Next
  <2>. QED BY <1>5, <2>3, SameWithin DEF LoopExit
<1>6. CASE Abort
  <2>1. Act!Top = Top
    BY <1>6, BodyFacts DEF Abort
  <2>2. Part' = Part => Act!Abort
    BY <1>6, <2>1 DEF Abort, Act!Abort, PartPc
  <2>3. Part' = Part => [Act!Next]_(Act!vars)
    BY <2>2 DEF Act!Next, Act!Step
  <2>. QED BY <1>6, <2>3, SameWithin DEF Abort
<1>7. CASE Return
  <2>. DEFINE c == Len(frames) - 1
  <2>1. Base < Len(frames) /\ Act!Top = Top /\ Len(Part) = Len(frames) - Base
        /\ Base \in 0..Len(frames) /\ Len(frames) \in Nat /\ pc = "body"
    BY <1>7, BodyFacts, PartFacts DEF Return, NestedInv
  <2>2. c \in Base..Len(frames) /\ c - Base = Len(Part) - 1 /\ frames' = SubSeq(frames, 1, c)
    BY <1>7, <2>1 DEF Return
  <2>3. Part' = SubSeq(Part, 1, Len(Part) - 1) => Act!Return
    BY <1>7, <2>1 DEF Return, Act!Return, PartPc
  <2>4. Part' = SubSeq(Part, 1, c - Base) => [Act!Next]_(Act!vars)
    BY <2>2, <2>3 DEF Act!Next, Act!Step
  <2>5. route' \in Routes
    BY DEF NestedInv, Nested
  <2>. QED BY <2>2, <2>4, <2>5, CutWithin
<1>. QED BY <1>1, <1>2, <1>3, <1>4, <1>5, <1>6, <1>7

(* The bases increase: those below a frame are the first ones.              *)
LEMMA Survivors ==
    ASSUME Nested, NEW k \in Nat
    PROVE  \E m \in 0..Len(saved) :
              /\ Surviving(k) = SubSeq(saved, 1, m)
              /\ \A i \in 1..Len(saved) : saved[i].base < k <=> i <= m
<1>. DEFINE n == Len(saved)
            Past == {i \in 1..n : ~(saved[i].base < k)}
<1>1. n \in Nat /\ \A i \in 1..n : saved[i].base \in Nat
  <2>1. \A i \in 1..n : saved[i] \in Activation
    BY ElementOfSeq DEF Nested
  <2>. QED BY <2>1, Roots DEF Activation
<1>2. \E m \in 0..n : \A i \in 1..n : saved[i].base < k <=> i <= m
  <2>1. CASE Past = {}
    <3>1. ASSUME NEW i \in 1..n PROVE saved[i].base < k
      BY <2>1
    <3>2. n \in 0..n
      BY <1>1
    <3>3. \A i \in 1..n : i <= n
      BY <1>1
    <3>4. \A i \in 1..n : saved[i].base < k <=> i <= n
      BY <3>1, <3>3
    <3>. HIDE DEF n
    <3>. QED BY <3>2, <3>4
  <2>2. CASE Past # {}
    <3>1. Past \in SUBSET Nat
      BY <1>1
    <3>2. PICK x \in Past : \A y \in Past : ~(<<y, x>> \in OpToRel(<, Nat))
      BY <2>2, <3>1, NatLessThanWellFounded, WFMin
    <3>3. \A y \in Past : x <= y
      <4>. TAKE y \in Past
      <4>1. ~(y < x)
        BY <3>1, <3>2 DEF OpToRel
      <4>. QED BY <1>1, <4>1
    <3>4. ASSUME NEW i \in 1..n PROVE saved[i].base < k <=> i <= x - 1
      <4>1. CASE i < x
        BY <1>1, <3>3, <4>1
      <4>2. CASE i = x
        BY <1>1, <4>2
      <4>3. CASE i > x
        <5>1. saved[x].base < saved[i].base
          BY <1>1, <4>3 DEF Nested
        <5>. QED BY <1>1, <4>3, <5>1
      <4>. QED BY <1>1, <4>1, <4>2, <4>3
    <3>5. x - 1 \in 0..n
      BY <1>1
    <3>. QED BY <3>4, <3>5
  <2>. QED BY <2>1, <2>2
<1>3. PICK m \in 0..n : \A i \in 1..n : saved[i].base < k <=> i <= m
  BY <1>2
<1>4. {i \in 1..n : saved[i].base < k} = 1..m
  BY <1>1, <1>3
<1>5. Cardinality(1..m) = m
  <2>1. 1 \in Int /\ m \in Int /\ (IF 1 > m THEN 0 ELSE m - 1 + 1) = m
    BY <1>1
  <2>. QED BY <2>1, FS_Interval
<1>. QED BY <1>3, <1>4, <1>5 DEF Surviving

(* What is suspended has made its calls of Next below the handler that      *)
(* called HandleContext.                                                    *)
LEMMA WaitingFacts ==
    ASSUME SafeUse, Nested, NEW m \in 1..Len(saved)
    PROVE  /\ Len(Slice(m)) <= AbortIndex
           /\ \A k \in 1..Len(Slice(m)) : k < Len(Slice(m)) => Slice(m)[k].nexts = MaxNextCalls
           /\ \A j \in 1..Len(saved[m].ran) : saved[m].ran[j] <= saved[m].index
<1>. DEFINE s == saved[m]
            g == Slice(m)
<1>1. Waiting(s, g)!IInv /\ s \in Activation /\ Len(g) \in Nat
  BY ElementOfSeq, SliceFacts, LenProperties DEF Nested, Parked
<1>. HIDE DEF s, g
<1>2. Len(g) <= AbortIndex
  <2>1. Waiting(s, g)!DepthInv /\ s.handlers \in Chains \cup {NoRoute}
    BY <1>1 DEF Waiting!IInv, Activation
  <2>2. Len(s.handlers) \in Nat /\ Len(s.handlers) < AbortIndex /\ Len(NoRoute) \in Nat /\ AbortIndex \in Nat
    BY <2>1, ChainFacts
  <2>. QED BY <1>1, <2>1, <2>2 DEF Waiting!DepthInv
<1>3. \A k \in 1..Len(g) : k < Len(g) => g[k].nexts = MaxNextCalls
  BY <1>1 DEF Waiting!IInv, Waiting!CallersWait
<1>4. \A j \in 1..Len(s.ran) : s.ran[j] <= s.index
  <2>1. s.ran \in Seq(Nat) /\ s.index \in Int
    BY <1>1 DEF Activation
  <2>2. \A j \in 1..Len(s.ran) : s.ran[j] \in Nat /\ s.ran[j] < s.index + 1
    BY <1>1, <2>1, ElementOfSeq DEF Waiting!IInv, Waiting!RanInv, Waiting!Cursor
  <2>. QED BY <2>1, <2>2
<1>. QED BY <1>2, <1>3, <1>4 DEF s, g

(* Recovery has aborted a chain that it did not start.                      *)
LEMMA AfterRecovery ==
    ASSUME SafeUse, Act!IInv, pc = "body", pc' = "body", index' = AbortIndex, aborted' = TRUE,
           UNCHANGED <<handlers, ran>>,
           Part' \in Seq(Frame), Len(Part') \in 1..AbortIndex,
           \A k \in 1..Len(Part') : Part'[k].nexts = MaxNextCalls,
           Part'[Len(Part')].kind = "recovery"
    PROVE  Act!IInv'
<1>1. AbortIndex \in Nat /\ AbortIndex > 0 /\ MaxInt8 = 2 * AbortIndex + 1 /\ MaxNextCalls = 1
      /\ Len(handlers) \in Nat /\ Len(handlers) < AbortIndex
  BY ChainFacts DEF SafeUse, Act!IInv, Act!TypeOK
<1>2. PartPc = "body" /\ PartPc' = "body" /\ Part' # <<>>
      /\ Act!Top'.kind = "recovery" /\ Act!Top'.nexts = MaxNextCalls /\ Act!Cursor' = AbortIndex + 1
  BY <1>1, EmptySeq DEF PartPc, Act!Top, Act!Cursor
<1>3. Act!TypeOK'
  <2>1. index' \in -MaxInt8 - 1 .. MaxInt8
    BY <1>1
  <2>. QED BY <1>2, <2>1, SameChains DEF Act!IInv, Act!TypeOK
<1>4. Act!IndexFits' /\ Act!CallersWait' /\ Act!InOrder' /\ Act!AbortInv'
  BY <1>1, <1>2 DEF Act!IInv, Act!IndexFits, Act!CallersWait, Act!InOrder, Act!AbortInv
<1>5. Act!DepthInv'
  BY <1>1 DEF Act!DepthInv
<1>6. Act!IndexInv'
  BY <1>1, <1>2 DEF Act!IndexInv
<1>7. Act!RanInv'
  <2>1. \A i \in 1..Len(ran) : ran[i] \in Nat /\ ran[i] < Len(handlers)
    BY ElementOfSeq DEF Act!IInv, Act!TypeOK, Act!RanInv
  <2>. QED BY <1>1, <1>2, <2>1 DEF Act!RanInv
<1>. QED BY <1>3, <1>4, <1>5, <1>6, <1>7 DEF Act!IInv

(* A panic that no handler recovers. *)
LEMMA CrashEnds ==
    ASSUME SafeUse, NestedInv, NEW broken \in BOOLEAN, CanPanic, Recoverers = {}, pc' = "crashed", frames' = <<>>,
           saved' = Surviving(Len(frames')), route' \in Routes, reentries' = reentries,
           UNCHANGED <<index, handlers, ran, aborted>>
    PROVE  NestedInv'
<1>1. Len(frames') = 0 /\ frames' \in Seq(Frame)
  BY EmptySeq
<1>2. PICK m \in 0..Len(saved) : saved' = SubSeq(saved, 1, m) /\ \A i \in 1..Len(saved) : saved[i].base < 0 <=> i <= m
  BY <1>1, Survivors DEF NestedInv
<1>3. m = 0
  <2>1. ASSUME m # 0 PROVE FALSE
    <3>1. 1 \in 1..Len(saved) /\ saved[1].base < 0
      BY <1>2, <2>1, Roots DEF NestedInv
    <3>. QED BY <3>1, Roots DEF NestedInv, Nested
  <2>. QED BY <2>1
<1>4. Root(m) = 0
  BY <1>3 DEF Root
<1>5. Nested' /\ Base' = 0
  BY <1>1, <1>2, <1>4, StaysSuspended DEF NestedInv
<1>6. Part' = <<>>
  BY <1>1, <1>5, SubSeqEmpty DEF Part
<1>7. Act!Panic
  <2>1. pc = "body" /\ Act!Top = Top
    BY BodyFacts DEF CanPanic
  <2>2. Act!Recoverers = {}
    <3>1. ASSUME NEW j \in Act!Recoverers PROVE Base + j \in Recoverers
      BY PartFacts DEF NestedInv, Act!Recoverers, Recoverers
    <3>. QED BY <3>1
  <2>3. Act!Unwind(broken)
    BY <1>6, <2>2 DEF Act!Unwind, PartPc
  <2>. QED BY <2>1, <2>3 DEF Act!Panic, Act!CanPanic, CanPanic, PartPc
<1>8. Act!IInv'
  BY <1>7, SameChains, Act!StepInv DEF NestedInv, Act!Next, Act!Step
<1>9. Abortive'
  BY <1>1 DEF Abortive
<1>. QED BY <1>5, <1>8, <1>9 DEF NestedInv

(* A panic that the running activation recovers is HandlerChain's; one that *)
(* passes HandleContext leaves the index behind the chain.                  *)
LEMMA RecoveryWithin ==
    ASSUME SafeUse, NestedInv, NEW broken \in BOOLEAN, CanPanic,
           NEW k \in Recoverers, \A j \in Recoverers : j <= k, frames' = SubSeq(frames, 1, k), pc' = "body",
           index' = (IF frames[k].kind = "recovery" \/ broken THEN AbortIndex ELSE index),
           aborted' = (aborted \/ frames[k].kind = "recovery" \/ broken),
           UNCHANGED <<handlers, ran>>,
           saved' = Surviving(Len(frames')), route' \in Routes, reentries' = reentries
    PROVE  NestedInv'
<1>. DEFINE n == Len(saved)
<1>1. /\ k \in 1..Len(frames) /\ k \in 0..Len(frames) /\ k \in Nat /\ Len(frames) \in Nat /\ n \in Nat
      /\ frames[k].kind \in {"recovery", "custom"}
      /\ frames \in Seq(Frame) /\ Base \in 0..Len(frames) /\ Base = Root(n)
      /\ pc = "body" /\ Act!Top = Top /\ Nested
  BY Roots, BodyFacts DEF NestedInv, Nested, Recoverers, CanPanic
<1>2. frames' \in Seq(Frame) /\ Len(frames') = k /\ \A j \in 1..k : frames'[j] = frames[j]
  BY <1>1, CutStack
<1>3. PICK m \in 0..n : saved' = SubSeq(saved, 1, m) /\ \A i \in 1..n : saved[i].base < k <=> i <= m
  BY <1>1, <1>2, Survivors
<1>4. Root(m) \in 0..k - 1
  <2>1. Root(m) \in 0..Len(frames)
    BY <1>1, Roots
  <2>2. m # 0 => saved[m].base < k
    BY <1>1, <1>3
  <2>. QED BY <1>1, <2>1, <2>2 DEF Root
<1>5. CASE m = n
  <2>1. UNCHANGED saved /\ k \in Base..Len(frames) /\ Base < k
    BY <1>1, <1>3, <1>4, <1>5, WholeStack
  <2>2. ASSUME Part' = SubSeq(Part, 1, k - Base) PROVE Act!Panic
    <3>1. k - Base \in Act!Recoverers /\ Part[k - Base] = frames[k]
      <4>1. k - Base \in 1..Len(frames) - Base /\ Base + (k - Base) = k
        BY <1>1, <2>1
      <4>. QED BY <1>1, <4>1, PartFacts DEF Act!Recoverers
    <3>2. \A j \in Act!Recoverers : j <= k - Base
      <4>. TAKE j \in Act!Recoverers
      <4>1. Base + j \in Recoverers /\ j \in Nat
        <5>1. j \in 1..Len(frames) - Base /\ Part[j].kind \in {"recovery", "custom"}
          BY <1>1, PartFacts DEF Act!Recoverers
        <5>2. Base + j \in 1..Len(frames) /\ Part[j] = frames[Base + j]
          BY <1>1, <5>1, PartFacts
        <5>. QED BY <5>1, <5>2 DEF Recoverers
      <4>. QED BY <1>1, <4>1
    <3>3. Act!Unwind(broken)
      <4>. DEFINE c == k - Base
      <4>1. c \in Act!Recoverers /\ (\A j \in Act!Recoverers : j <= c) /\ Part' = SubSeq(Part, 1, c)
            /\ PartPc' = "body"
        BY <2>2, <3>1, <3>2 DEF PartPc
      <4>2. /\ index' = IF Part[c].kind = "recovery" \/ broken THEN AbortIndex ELSE index
            /\ aborted' = (aborted \/ Part[c].kind = "recovery" \/ broken)
        BY <3>1, Zenon
      <4>. HIDE DEF c
      <4>. QED BY <4>1, <4>2, Zenon DEF Act!Unwind
    <3>. QED BY <1>1, <3>3 DEF Act!Panic, Act!CanPanic, CanPanic, PartPc
  <2>3. Part' = SubSeq(Part, 1, k - Base) => [Act!Next]_(Act!vars)
    BY <2>2 DEF Act!Next, Act!Step
  <2>. QED BY <2>1, <2>3, CutWithin
<1>6. CASE m # n
  <2>. DEFINE a == Root(m)
              b == Root(m + 1)
  <2>1. m + 1 \in 1..n /\ b = saved[m + 1].base /\ b \in 0..Len(frames) /\ k < b
    <3>1. m + 1 \in 1..n /\ m + 1 \in 0..n /\ b = saved[m + 1].base
      BY <1>1, <1>6 DEF Root
    <3>2. b \in 0..Len(frames)
      BY <1>1, <3>1, Roots
    <3>3. ~(b < k)
      BY <1>3, <3>1
    <3>4. b # k
      BY <1>1, <3>1 DEF Nested
    <3>. QED BY <1>1, <3>1, <3>2, <3>3, <3>4
  <2>2. frames[k].kind = "recovery"
    <3>1. reentries # 0
      BY <1>1, <2>1, EmptySeq DEF Nested
    <3>2. MaxReentry > 0
      BY <1>1, <3>1, RequestAssumption DEF Nested
    <3>. QED BY <1>1, <3>2 DEF NestedInv, Abortive
  <2>3. index' = AbortIndex /\ aborted' = TRUE
    BY <2>2
  <2>4. \A j \in 1..a : j \in 1..Len(frames') /\ frames'[j] = frames[j]
    BY <1>1, <1>2, <1>4
  <2>5. Nested' /\ Base' = a
    BY <1>1, <1>2, <1>3, <2>4, StaysSuspended
  <2>6. /\ Part' \in Seq(Frame) /\ Len(Part') = k - a
        /\ \A j \in 1..k - a : Part'[j] = frames'[a + j]
    <3>1. Part' = SubSeq(frames', a + 1, k)
      BY <1>2, <2>5 DEF Part
    <3>2. a \in 0..Len(frames') /\ k \in a..Len(frames')
      BY <1>1, <1>2, <1>4
    <3>. HIDE DEF a
    <3>. QED BY <1>2, <3>1, <3>2, SliceOf
  <2>7. \A j \in 1..k - a : j \in 1..b - a /\ j < b - a /\ a + j \in 1..k
    BY <1>1, <1>4, <2>1
  <2>8. Len(Slice(m + 1)) = b - a /\ \A j \in 1..b - a : Slice(m + 1)[j] = frames[a + j]
    <3>1. (m + 1) - 1 = m
      BY <1>1
    <3>. QED BY <1>1, <2>1, <3>1, SliceFacts
  <2>9. b - a <= AbortIndex /\ \A j \in 1..b - a : j < b - a => Slice(m + 1)[j].nexts = MaxNextCalls
    BY <1>1, <2>1, <2>8, WaitingFacts
  <2>10. \A j \in 1..Len(Part') : Part'[j].nexts = MaxNextCalls
    BY ZenonT(60), <1>2, <2>6, <2>7, <2>8, <2>9
  <2>11. Len(Part') \in 1..AbortIndex /\ Part'[Len(Part')].kind = "recovery"
    <3>1. k - a \in 1..k - a /\ a + (k - a) = k /\ k \in 1..k
      BY <1>1, <1>4
    <3>2. k - a <= AbortIndex /\ AbortIndex \in Nat
      BY <1>1, <1>4, <2>1, <2>9, ChainFacts
    <3>. QED BY <1>2, <2>2, <2>6, <3>1, <3>2
  <2>12. Act!IInv'
    BY <1>1, <2>3, <2>6, <2>10, <2>11, AfterRecovery DEF NestedInv
  <2>13. Abortive'
    BY <1>1, <1>2 DEF NestedInv, Abortive
  <2>. QED BY <2>5, <2>12, <2>13 DEF NestedInv
<1>. QED BY <1>5, <1>6

(* A panic drops the activations that it passes, and no more.              *)
LEMMA PanicWithin ==
    ASSUME SafeUse, PanicsAbort, NestedInv,
           HandlerPanics \/ (Flush /\ RW!FlushPanics(writer)) PROVE NestedInv'
<1>1. PICK broken \in BOOLEAN : MayPanic(broken) /\ \E wr : Raise(wr, broken)
  BY DEF HandlerPanics, Flush, MayPanic, CanPanic
<1>2. CanPanic
  <2>1. pc = "loop" => index \in Int /\ index >= 0
    BY DEF NestedInv, Act!IInv, Act!TypeOK, Act!IndexFits, PartPc
  <2>. QED BY <1>1, <2>1 DEF MayPanic, BadIndex
<1>3. Unwind(broken) /\ saved' = Surviving(Len(frames')) /\ reentries' = reentries
  BY <1>1 DEF Raise
<1>4. Len(frames') \in Nat
  <2>1. CASE frames' = <<>>
    BY <2>1
  <2>2. ASSUME NEW k \in Recoverers, frames' = SubSeq(frames, 1, k) PROVE Len(frames') \in Nat
    <3>1. k \in 0..Len(frames) /\ frames \in Seq(Frame)
      BY Roots DEF Recoverers, NestedInv, Nested
    <3>. QED BY <2>2, <3>1, CutStack
  <2>. QED BY <1>3, <2>1, <2>2 DEF Unwind
<1>5. route' \in Routes
  <2>1. PICK m \in 0..Len(saved) : saved' = SubSeq(saved, 1, m)
    BY <1>3, <1>4, Survivors DEF NestedInv
  <2>2. Len(saved') = m /\ Len(saved) \in Nat
    <3>1. \A i \in 1..m : saved[i] \in Activation
      BY Roots, ElementOfSeq DEF NestedInv, Nested
    <3>. QED BY <2>1, <3>1, Roots, SubSeqProperties DEF NestedInv
  <2>3. route' = IF m = Len(saved) THEN route ELSE saved[m + 1].route
    BY <1>1, <1>3, <2>2 DEF Raise
  <2>4. m # Len(saved) => saved[m + 1] \in Activation
    BY <2>2, ElementOfSeq DEF NestedInv, Nested
  <2>. QED BY <2>3, <2>4 DEF NestedInv, Nested, Activation
<1>6. CASE /\ Recoverers = {} /\ pc' = "crashed" /\ frames' = <<>>
           /\ UNCHANGED <<index, handlers, ran, aborted>>
  BY <1>2, <1>3, <1>5, <1>6, CrashEnds
<1>7. ASSUME NEW k \in Recoverers, \A j \in Recoverers : j <= k,
             frames' = SubSeq(frames, 1, k), pc' = "body",
             index' = (IF frames[k].kind = "recovery" \/ broken THEN AbortIndex ELSE index),
             aborted' = (aborted \/ frames[k].kind = "recovery" \/ broken),
             UNCHANGED <<handlers, ran>>
      PROVE  NestedInv'
  BY <1>2, <1>3, <1>5, <1>7, RecoveryWithin
<1>. QED BY <1>3, <1>6, <1>7 DEF Unwind

(* An activation that is suspended or resumed keeps its invariant.          *)
LEMMA SameInv ==
    \A s : pc = "body" /\ s.index = index /\ s.handlers = handlers /\ s.ran = ran /\ s.aborted = aborted
              => (Act!IInv <=> Waiting(s, Part)!IInv)
<1>. SUFFICES ASSUME NEW s, pc = "body",
                     s.index = index, s.handlers = handlers, s.ran = ran, s.aborted = aborted
              PROVE  Act!IInv <=> Waiting(s, Part)!IInv
  OBVIOUS
<1>1. PartPc = "body" /\ Act!Top = Waiting(s, Part)!Top
  BY DEF PartPc, Act!Top, Waiting!Top
<1>2. /\ Act!Cursor = Waiting(s, Part)!Cursor
      /\ Act!Passed = Waiting(s, Part)!Passed
      /\ Act!RanSet = Waiting(s, Part)!RanSet
  BY <1>1 DEF Act!Cursor, Waiting!Cursor, Act!Passed, Waiting!Passed, Act!RanSet, Waiting!RanSet
<1>3. Act!TypeOK <=> Waiting(s, Part)!TypeOK
  BY <1>1 DEF Act!TypeOK, Act!Frame, Act!Kinds, Waiting!Frame, Waiting!Kinds, Waiting!TypeOK
<1>4. Act!IndexFits <=> Waiting(s, Part)!IndexFits
  BY <1>1 DEF Act!IndexFits, Waiting!IndexFits
<1>5. Act!CallersWait <=> Waiting(s, Part)!CallersWait
  BY <1>1 DEF Act!CallersWait, Waiting!CallersWait
<1>6. Act!DepthInv <=> Waiting(s, Part)!DepthInv
  BY <1>1, <1>2 DEF Act!DepthInv, Waiting!DepthInv
<1>7. Act!IndexInv <=> Waiting(s, Part)!IndexInv
  BY <1>1 DEF Act!IndexInv, Waiting!IndexInv
<1>8. Act!AbortInv <=> Waiting(s, Part)!AbortInv
  BY <1>1 DEF Act!AbortInv, Waiting!AbortInv
<1>9. Act!InOrder <=> Waiting(s, Part)!InOrder
  BY <1>1 DEF Act!InOrder, Waiting!InOrder
<1>10. Act!RanInv <=> Waiting(s, Part)!RanInv
  BY <1>1, <1>2 DEF Act!RanInv, Waiting!RanInv
<1>. QED BY <1>3, <1>4, <1>5, <1>6, <1>7, <1>8, <1>9, <1>10 DEF Act!IInv, Waiting!IInv

(* A suspended activation has the invariant that it had when it ran.       *)
LEMMA SameInvNext ==
    (\A s : pc = "body" /\ s.index = index /\ s.handlers = handlers /\ s.ran = ran /\ s.aborted = aborted
               => (Act!IInv <=> Waiting(s, Part)!IInv))'
BY SameInv, PTL

(* A new activation starts as a chain does.                                *)
LEMMA FreshInv == ASSUME SafeUse PROVE (Act!Init => Act!IInv)'
<1>1. SafeUse => (Act!Init => Act!IInv)
  BY SameChains, Act!InitInv
<1>2. SafeUse' => (Act!Init => Act!IInv)'
  BY <1>1, PTL
<1>. QED BY <1>2 DEF SafeUse

(* The handler that called HandleContext waits with the index and the chain *)
(* that Resume will restore.                                                *)
LEMMA ReentryWithin == ASSUME SafeUse, NestedInv, HandleContext PROVE NestedInv'
<1>. DEFINE n == Len(saved)
            s == [index |-> index, handlers |-> handlers, ran |-> ran,
                  aborted |-> aborted, route |-> route, base |-> Len(frames)]
<1>1. /\ pc = "body" /\ pc' = "loop" /\ Top.kind = "handler" /\ frames' = frames /\ saved' = Append(saved, s)
      /\ index' = 0 /\ ran' = <<>> /\ aborted' = FALSE
      /\ reentries' = reentries + 1 /\ reentries < MaxReentry /\ Nested
  BY DEF HandleContext, NestedInv
<1>2. /\ n \in Nat /\ Len(frames) \in 1..Len(frames) /\ Len(frames) \in Nat /\ frames \in Seq(Frame)
      /\ Base = Root(n) /\ Base < Len(frames) /\ Base \in 0..Len(frames)
  BY <1>1, Roots, BodyFacts, PartFacts DEF NestedInv, Nested
<1>3. s \in Activation
  BY <1>2 DEF NestedInv, Nested, Act!IInv, Act!TypeOK, Activation
<1>. HIDE DEF s
<1>4. /\ saved' \in Seq(Activation) /\ Len(saved') = n + 1 /\ saved'[n + 1] = s
      /\ \A i \in 1..n : saved'[i] = saved[i]
      /\ saved' # <<>>
  BY <1>1, <1>3, AppendProperties DEF Nested
<1>5. s.base = Len(frames) /\ Base' = Len(frames)
  <2>1. s.base = Len(frames)
    BY DEF s
  <2>. QED BY <1>4, <2>1 DEF Base
<1>6. \A i \in 0..n : Root(i)' = Root(i)
  BY <1>4 DEF Root
<1>7. ASSUME NEW i, i = n + 1 PROVE Root(i)' = Len(frames)
  BY <1>2, <1>4, <1>5, <1>7 DEF Root
<1>8. \A i \in 1..n : Slice(i)' = Slice(i)
  <2>. TAKE i \in 1..n
  <2>1. i \in 0..n /\ i - 1 \in 0..n
    BY <1>2
  <2>. QED BY <1>1, <1>6, <2>1 DEF Slice
<1>9. ASSUME NEW i, i = n + 1 PROVE Slice(i)' = Part
  <2>1. i - 1 = n /\ i - 1 \in 0..n
    BY <1>2, <1>9
  <2>2. Root(i - 1)' = Base
    BY <1>2, <1>6, <2>1
  <2>. QED BY <1>1, <1>7, <1>9, <2>2 DEF Slice, Part
<1>10. Waiting(s, Part)!IInv
  BY <1>1, SameInv DEF NestedInv, s
<1>11. ASSUME NEW i \in 1..Len(saved')
       PROVE  /\ saved'[i].base \in 1..Len(frames')
              /\ frames'[saved'[i].base].kind = "handler"
              /\ Parked(i)'
  <2>1. CASE i \in 1..n
    BY <1>1, <1>4, <1>8, <2>1 DEF Nested, Parked
  <2>2. CASE i = n + 1
    <3>1. saved'[i] = s /\ Slice(i)' = Part
      BY <1>4, <1>9, <2>2
    <3>. QED BY <1>1, <1>2, <1>5, <1>10, <3>1 DEF Top, Parked
  <2>. QED BY <1>2, <1>4, <2>1, <2>2
<1>12. ASSUME NEW i \in 1..Len(saved'), NEW j \in 1..Len(saved'), i < j PROVE saved'[i].base < saved'[j].base
  <2>1. i \in 1..n /\ saved'[i] = saved[i]
    BY <1>2, <1>4, <1>12
  <2>2. CASE j \in 1..n
    <3>1. saved[i].base < saved[j].base
      BY <1>1, <1>12, <2>1, <2>2 DEF Nested
    <3>. QED BY <1>4, <2>1, <2>2, <3>1
  <2>3. CASE j = n + 1
    <3>1. i \in 0..n /\ n \in 0..n /\ Root(i) = saved[i].base /\ Root(i) \in 0..Len(frames) /\ Root(n) \in 0..Len(frames)
      BY <1>1, <1>2, <2>1, Roots DEF Root
    <3>2. Root(i) <= Root(n)
      <4>1. CASE i = n
        BY <3>1, <4>1
      <4>2. CASE i # n
        BY <1>1, <1>2, <2>1, <3>1, <4>2, Roots
      <4>. QED BY <4>1, <4>2
    <3>. QED BY <1>2, <1>4, <1>5, <2>1, <2>3, <3>1, <3>2
  <2>. QED BY <1>2, <1>4, <2>2, <2>3
<1>13. handlers' \in Chains /\ route' \in Routes
  BY RequestAssumption DEF HandleContext, Outcomes, Routes
<1>14. reentries' \in 0..MaxReentry /\ reentries' # 0
  BY <1>1, RequestAssumption DEF Nested
<1>15. Nested'
  BY <1>1, <1>2, <1>4, <1>11, <1>12, <1>13, <1>14 DEF Nested
<1>16. Part' = <<>>
  <2>1. Part' = SubSeq(frames, Len(frames) + 1, Len(frames))
    BY <1>1, <1>5 DEF Part
  <2>. QED BY <1>2, <2>1, SubSeqEmpty
<1>17. Act!IInv'
  <2>1. Act!Init'
    BY <1>1, <1>13, <1>16 DEF Act!Init, PartPc
  <2>. QED BY <2>1, FreshInv
<1>18. Abortive'
  BY <1>1 DEF NestedInv, Abortive
<1>. QED BY <1>15, <1>17, <1>18 DEF NestedInv

(* The tail of handleHTTPRequest finds the stack of its activation empty;   *)
(* what HandleContext restores fits the part of the stack below.            *)
LEMMA CompleteWithin == ASSUME SafeUse, RInv, NestedInv, Complete PROVE NestedInv'
<1>. DEFINE n == Len(saved)
<1>1. pc = "done" /\ frames' = frames /\ reentries' = reentries /\ ~RW!HeaderPanics(writer) /\ Nested
  BY NoHeaderPanic DEF Complete, RInv, NestedInv
<1>2. /\ n \in Nat /\ Len(frames) \in Nat /\ frames \in Seq(Frame) /\ Base = Root(n) /\ Base \in 0..Len(frames)
      /\ Len(Part) = Len(frames) - Base
  BY <1>1, Roots, PartFacts DEF Nested
<1>3. CASE saved = <<>>
  <2>1. pc' = "served" /\ UNCHANGED <<index, handlers, ran, aborted, route, saved>>
    BY <1>1, <1>3 DEF Complete
  <2>2. Part' = Part => [Act!Next]_(Act!vars)
    BY <1>1, <2>1 DEF Act!vars, PartPc
  <2>. QED BY <1>1, <2>1, <2>2, SameWithin
<1>4. CASE saved # <<>>
  <2>1. n \in 1..n /\ n - 1 \in 0..n
    BY <1>1, <1>2, <1>4, EmptySeq DEF Nested
  <2>. DEFINE s == saved[n]
  <2>2. /\ index' = s.index /\ handlers' = s.handlers /\ route' = s.route /\ ran' = s.ran /\ aborted' = s.aborted
        /\ pc' = "body" /\ saved' = SubSeq(saved, 1, n - 1)
    BY <1>1, <1>4 DEF Complete, Resume
  <2>3. route' \in Routes
    <3>1. saved \in Seq(Activation)
      BY <1>1 DEF Nested
    <3>2. s \in Activation
      BY <2>1, <3>1, ElementOfSeq
    <3>. QED BY <2>2, <3>2 DEF Activation
  <2>4. Len(frames) = Root(n)
    <3>1. Len(Part) = 0
      BY <1>1 DEF NestedInv, Act!IInv, Act!RanInv, PartPc
    <3>. QED BY <1>2, <3>1
  <2>5. \A k \in 1..Root(n - 1) : k \in 1..Len(frames') /\ frames'[k] = frames[k]
    <3>1. Root(n - 1) \in 0..Len(frames)
      BY <1>1, <2>1, Roots
    <3>. QED BY <1>1, <1>2, <3>1
  <2>6. Nested' /\ Base' = Root(n - 1)
    BY <1>1, <1>2, <2>1, <2>2, <2>3, <2>5, StaysSuspended
  <2>7. Part' = Slice(n)
    BY <1>1, <2>4, <2>6 DEF Part, Slice
  <2>8. Waiting(s, Slice(n))!IInv
    BY <1>1, <2>1 DEF Nested, Parked
  <2>9. Act!IInv'
    BY <2>2, <2>7, <2>8, SameInvNext
  <2>10. Abortive'
    BY <1>1 DEF NestedInv, Abortive
  <2>. QED BY <2>6, <2>9, <2>10 DEF NestedInv
<1>. QED BY <1>3, <1>4

(* A request starts with one activation.                                   *)
LEMMA NestedStart == ASSUME SafeUse PROVE RequestInit => NestedInv
<1>. SUFFICES ASSUME RequestInit PROVE NestedInv
  OBVIOUS
<1>1. /\ handlers \in Chains /\ route \in Routes /\ index = 0 /\ frames = <<>> /\ pc = "loop" /\ ran = <<>>
      /\ aborted = FALSE /\ saved = <<>> /\ reentries = 0
  BY RequestAssumption DEF RequestInit, Outcomes, Routes
<1>2. Len(saved) = 0 /\ Len(frames) = 0 /\ Base = 0
  BY <1>1 DEF Base
<1>3. Nested
  BY <1>1, <1>2, EmptySeq, RequestAssumption DEF Nested
<1>4. Part = <<>>
  BY <1>1, <1>2, SubSeqEmpty DEF Part
<1>5. Act!Init
  BY <1>1, <1>4 DEF Act!Init, PartPc
<1>6. Act!IInv
  BY <1>5, SameChains, Act!InitInv
<1>. QED BY <1>2, <1>3, <1>6 DEF NestedInv, Abortive

(* Every step keeps the invariant of all activations.                      *)
LEMMA NestedStep ==
    ASSUME SafeUse, FinalCodes, PanicsAbort
    PROVE  RInv /\ NestedInv /\ [RequestNext]_rvars => NestedInv'
<1>. SUFFICES ASSUME RInv, NestedInv, [RequestNext]_rvars PROVE NestedInv'
  OBVIOUS
<1>1. ASSUME UNCHANGED <<vars, saved, route, reentries>> PROVE NestedInv'
  <2>1. Part' = Part => [Act!Next]_(Act!vars)
    BY <1>1 DEF vars, Act!vars, PartPc
  <2>. QED BY <1>1, <2>1, SameWithin DEF vars
<1>2. CASE UNCHANGED rvars \/ RequestEnded
  BY <1>1, <1>2 DEF rvars, RequestEnded
<1>3. CASE Flow
  BY <1>3, FlowWithin DEF Flow
<1>4. CASE SetStatus \/ Render
  <2>1. UNCHANGED <<vars, saved, route, reentries>>
    BY <1>4, CodeSent DEF SetStatus, Render
  <2>. QED BY <1>1, <2>1
<1>5. CASE RenderFails \/ AbortWithStatus
  <2>1. Abort /\ UNCHANGED <<saved, route, reentries>>
    BY <1>5, CodeSent DEF RenderFails, AbortWithStatus
  <2>. QED BY <2>1, FlowWithin
<1>6. CASE Hijack
  <2>1. UNCHANGED <<vars, saved, route, reentries>>
    BY <1>6, HijackSent DEF Hijack, FinalCodes, RInv
  <2>. QED BY <1>1, <2>1
<1>7. CASE ServeFile \/ FileMissing
  BY <1>7, FlowWithin DEF ServeFile, FileMissing
<1>8. CASE Flush /\ ~RW!FlushPanics(writer)
  BY <1>1, <1>8 DEF Flush
<1>. QED BY <1>2, <1>3, <1>4, <1>5, <1>6, <1>7, <1>8, PanicWithin, ReentryWithin, CompleteWithin DEF RequestNext

(* Through re-entries, panics that pass HandleContext and missing files,    *)
(* each activation calls its chain in order and to its end, and gets back   *)
(* the index with which it called HandleContext (gin.go:741-749).           *)
THEOREM ChainsResume ==
    ASSUME SafeUse, FinalCodes, PanicsAbort PROVE RequestSpec => []Resumes
<1>1. ASSUME NestedInv PROVE Resumes
  <2>1. InOrder
    BY <1>1 DEF NestedInv, Act!IInv, Act!InOrder, InOrder
  <2>2. ASSUME pc = "done", ~aborted PROVE RanSet = Passed /\ Remaining = {}
    <3>1. index >= Len(handlers) /\ RanSet = Passed
      BY <1>1, <2>2 DEF NestedInv, Act!IInv, Act!RanInv, Act!RanSet, Act!Passed, Act!Cursor, PartPc,
                        RanSet, Passed, Cursor
    <3>2. index \in Int /\ Len(handlers) \in Nat /\ Cursor = index
      BY <1>1, <2>2, ChainFacts DEF NestedInv, Act!IInv, Act!TypeOK, Cursor
    <3>. QED BY <3>1, <3>2 DEF Remaining
  <2>3. ASSUME NEW i \in 1..Len(saved)
        PROVE  /\ saved[i].base <= Len(frames)
               /\ \A j \in 1..Len(saved[i].ran) : saved[i].ran[j] <= saved[i].index
    <3>1. saved[i].base \in 1..Len(frames)
      BY <1>1 DEF NestedInv, Nested
    <3>. QED BY <1>1, <3>1, WaitingFacts DEF NestedInv
  <2>. QED BY <2>1, <2>2, <2>3 DEF Resumes
<1>2. RInv /\ NestedInv /\ [RequestNext]_rvars => NestedInv'
  BY NestedStep
<1>3. RequestInit => NestedInv
  BY NestedStart
<1>. QED BY <1>1, <1>2, <1>3, RequestInvariant, PTL DEF RequestSpec
=============================================================================
