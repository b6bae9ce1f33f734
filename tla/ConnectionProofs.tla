-------------------------- MODULE ConnectionProofs --------------------------
(***************************************************************************)
(* The two ends of a connection.  Whom a request comes from, for every     *)
(* list of trusted proxies, any number of them on the way and any headers  *)
(* from the client; and what it is answered, for every set of valid status *)
(* codes and any number of calls: gin's account of the response is what    *)
(* net/http sent.                                                          *)
(***************************************************************************)
EXTENDS ClientIP, ResponseWriter, WellFoundedInduction, TLAPS

-----------------------------------------------------------------------------
(* The client *)

(* A set of naturals that is not empty has a least element.                 *)
LEMMA MinExists ==
    ASSUME NEW S \in SUBSET Nat, S # {}
    PROVE  Min(S) \in S /\ \A y \in S : Min(S) <= y
<1>1. PICK x \in S : \A y \in S : ~(<<y, x>> \in OpToRel(<, Nat))
  BY NatLessThanWellFounded, WFMin
<1>2. \A y \in S : x <= y
  <2>. TAKE y \in S
  <2>1. ~(y < x)
    BY <1>1 DEF OpToRel
  <2>2. x \in Nat /\ y \in Nat
    OBVIOUS
  <2>. QED BY <2>1, <2>2
<1>. QED BY <1>2 DEF Min

(* The greatest number of a set, once it is known.                         *)
LEMMA MaxIs ==
    ASSUME NEW S \in SUBSET Nat, NEW k \in S, \A y \in S : k >= y
    PROVE  Max(S) = k
<1>1. Max(S) \in S /\ \A y \in S : Max(S) >= y
  BY DEF Max
<1>2. Max(S) >= k /\ k >= Max(S) /\ Max(S) \in Nat /\ k \in Nat
  BY <1>1
<1>. QED BY <1>2

-----------------------------------------------------------------------------
(* SetTrustedProxies *)

(* The parsed list is the given one up to the first entry that is junk.     *)
LEMMA ParsedPrefix ==
    ASSUME NEW list, NEW S, list \in Seq(S)
    PROVE  LET parsed == prepareTrustedCIDRs(list) IN
           /\ parsed \in Seq(S)
           /\ Len(parsed) <= Len(list)
           /\ \A i \in 1 .. Len(parsed) : parsed[i] = list[i] /\ list[i] # Junk
           /\ (\A i \in 1 .. Len(list) : list[i] # Junk) => parsed = list
<1>. DEFINE bad == {i \in DOMAIN list : list[i] = Junk}
            parsed == prepareTrustedCIDRs(list)
<1>1. Len(list) \in Nat /\ DOMAIN list = 1 .. Len(list)
  OBVIOUS
<1>2. CASE bad = {}
  <2>1. parsed = list
    BY <1>2 DEF prepareTrustedCIDRs
  <2>. QED BY <1>1, <1>2, <2>1
<1>3. CASE bad # {}
  <2>1. Min(bad) \in 1 .. Len(list) /\ \A i \in bad : Min(bad) <= i
    <3>1. bad \in SUBSET Nat
      BY <1>1
    <3>2. Min(bad) \in bad /\ \A i \in bad : Min(bad) <= i
      <4>. HIDE DEF bad
      <4>. QED BY <1>3, <3>1, MinExists
    <3>. QED BY <1>1, <3>2
  <2>2. parsed = SubSeq(list, 1, Min(bad) - 1)
    BY <1>3 DEF prepareTrustedCIDRs
  <2>. DEFINE m == Min(bad)
  <2>3. \A i \in 1 .. m - 1 : i \in 1 .. Len(list) /\ list[i] # Junk
    <3>. TAKE i \in 1 .. m - 1
    <3>1. i \in 1 .. Len(list) /\ ~(m <= i)
      BY <1>1, <2>1
    <3>. QED BY <1>1, <2>1, <3>1
  <2>4. \E i \in 1 .. Len(list) : list[i] = Junk
    BY <1>1, <1>3
  <2>. HIDE DEF m
  <2>5. m \in 1 .. Len(list) /\ parsed = SubSeq(list, 1, m - 1)
    BY <2>1, <2>2 DEF m
  <2>. HIDE DEF parsed, bad
  <2>6. parsed \in Seq(S) /\ Len(parsed) = m - 1 /\ \A i \in 1 .. m - 1 : parsed[i] = list[i]
    BY <1>1, <2>5
  <2>7. /\ parsed \in Seq(S)
        /\ Len(parsed) <= Len(list)
        /\ \A i \in 1 .. Len(parsed) : parsed[i] = list[i] /\ list[i] # Junk
        /\ (\A i \in 1 .. Len(list) : list[i] # Junk) => parsed = list
    BY <1>1, <2>3, <2>4, <2>5, <2>6
  <2>. QED BY <2>7 DEF parsed
<1>. QED BY <1>2, <1>3

(* Who is trusted is in the list, and the other way round if it parses.     *)
LEMMA ListedAreTrusted == Traced => TrustAsListed
<1>. SUFFICES ASSUME Traced PROVE TrustAsListed
  OBVIOUS
<1>. DEFINE S == Networks \cup {Junk, Addresses}
<1>1. trustedProxies \in Seq(S) /\ trustedCIDRs = prepareTrustedCIDRs(trustedProxies)
  BY DEF Traced
<1>2. /\ trustedCIDRs \in Seq(S)
      /\ Len(trustedCIDRs) <= Len(trustedProxies)
      /\ \A i \in 1 .. Len(trustedCIDRs) :
            trustedCIDRs[i] = trustedProxies[i] /\ trustedProxies[i] # Junk
      /\ (\A i \in 1 .. Len(trustedProxies) : trustedProxies[i] # Junk)
            => trustedCIDRs = trustedProxies
  BY <1>1, ParsedPrefix
<1>3. /\ DOMAIN trustedProxies = 1 .. Len(trustedProxies) /\ Len(trustedProxies) \in Nat
      /\ DOMAIN trustedCIDRs = 1 .. Len(trustedCIDRs) /\ Len(trustedCIDRs) \in Nat
  BY <1>1, <1>2
<1>. HIDE DEF S
<1>4. ASSUME NEW ip, isTrustedProxy(ip)
      PROVE  \E i \in DOMAIN trustedProxies : trustedProxies[i] # Junk /\ ip \in trustedProxies[i]
  <2>1. PICK i \in DOMAIN trustedCIDRs : ip \in trustedCIDRs[i]
    BY <1>4 DEF isTrustedProxy
  <2>2. i \in 1 .. Len(trustedCIDRs) /\ i \in DOMAIN trustedProxies
    BY <1>2, <1>3, <2>1
  <2>. QED BY <1>2, <2>1, <2>2
<1>5. ASSUME NEW ip, Junk \notin ToSet(trustedProxies),
             \E i \in DOMAIN trustedProxies : trustedProxies[i] # Junk /\ ip \in trustedProxies[i]
      PROVE  isTrustedProxy(ip)
  <2>1. \A i \in 1 .. Len(trustedProxies) : trustedProxies[i] # Junk
    BY <1>3, <1>5 DEF ToSet
  <2>. QED BY <1>2, <1>5, <2>1 DEF isTrustedProxy
<1>. QED BY <1>4, <1>5 DEF TrustAsListed

-----------------------------------------------------------------------------
(* ClientIP *)

(* The scan ends at the last item that no trusted proxy wrote.              *)
LEMMA ScanEnds ==
    ASSUME NEW items \in Seq(Items), NEW k \in 1 .. Len(items),
           items[k] # Junk, ~isTrustedProxy(items[k]),
           \A j \in k + 1 .. Len(items) : items[j] # Junk /\ isTrustedProxy(items[j])
    PROVE  validateHeader(items) = [valid |-> TRUE, ip |-> items[k]]
<1>. DEFINE ends == {i \in DOMAIN items : items[i] = Junk \/ i = 1 \/ ~isTrustedProxy(items[i])}
<1>1. DOMAIN items = 1 .. Len(items) /\ Len(items) \in Nat
  OBVIOUS
<1>2. k \in ends /\ ends \in SUBSET Nat
  BY <1>1
<1>3. \A y \in ends : k >= y
  <2>. TAKE y \in ends
  <2>1. y \in 1 .. Len(items) /\ y \notin k + 1 .. Len(items)
    BY <1>1
  <2>. QED BY <1>1, <2>1
<1>4. Max(ends) = k
  <2>. HIDE DEF ends
  <2>. QED BY <1>2, <1>3, MaxIs
<1>5. validateHeader(items) =
        IF items = <<>> \/ items[Max(ends)] = Junk THEN Invalid
        ELSE [valid |-> TRUE, ip |-> items[Max(ends)]]
  BY DEF validateHeader
<1>6. items # <<>>
  BY <1>1
<1>. HIDE DEF ends
<1>. QED BY <1>4, <1>5, <1>6

(* The answer is the last machine that is not trusted, if there is one.     *)
LEMMA TracedAnswer == Traced => LastUntrusted
<1>. DEFINE Untrusted == {i \in DOMAIN route : /\ ~isTrustedProxy(route[i])
                                               /\ socket = "unix" => i < Len(route)}
            items == header.forwardedFor
            sent == Len(items) - (Len(route) - 1)
<1>. SUFFICES ASSUME Traced, pc = "answered", forwarded, socket # "other",
                     platform => header.platform = None,
                     NEW i \in Untrusted, \A j \in Untrusted : j <= i
              PROVE  answer = route[i]
  BY DEF LastUntrusted
<1>1. /\ route \in Seq(Addresses) /\ DOMAIN route = 1 .. Len(route) /\ Len(route) \in Nat
      /\ i \in 1 .. Len(route)
      /\ items \in Seq(Items) /\ Len(items) \in Nat
      /\ socket \in {"tcp", "unix"}
  BY DEF Traced
<1>2. Last(route) = route[Len(route)]
  BY DEF Last
<1>3. answer = Result(socket)
  BY DEF Traced
<1>4. CASE i = Len(route)
  <2>1. socket = "tcp" /\ ~isTrustedProxy(Last(route))
    BY <1>1, <1>2, <1>4
  <2>. QED BY <1>2, <1>3, <1>4, <2>1 DEF Result, Trusted
<1>5. CASE i < Len(route)
  <2>. DEFINE n == Len(route)
              k == sent + i
  <2>1. Trusted(socket)
    <3>1. n \notin Untrusted
      BY <1>1, <1>5
    <3>2. socket = "unix" \/ isTrustedProxy(route[n])
      BY <1>1, <1>5, <3>1
    <3>. QED BY <1>1, <1>2, <3>2 DEF Trusted
  <2>2. sent \in Nat /\ \A j \in 1 .. n - 1 : items[sent + j] = route[j]
    BY <1>1 DEF Traced, Forwarded
  <2>7. Len(items) = sent + (n - 1) /\ n \in Nat /\ i \in 1 .. n - 1
    BY <1>1, <1>5
  <2>8. \A j \in 1 .. n : route[j] \in Addresses /\ route[j] # Junk
    BY <1>1, AddressAssumption
  <2>. HIDE DEF items, sent, n
  <2>3. k \in 1 .. Len(items) /\ items[k] = route[i] /\ route[i] # Junk
    BY <2>2, <2>7, <2>8
  <2>4. \A j \in k + 1 .. Len(items) : items[j] # Junk /\ isTrustedProxy(items[j])
    <3>. TAKE j \in k + 1 .. Len(items)
    <3>1. j - sent \in i + 1 .. n - 1 /\ sent + (j - sent) = j
      BY <2>2, <2>7
    <3>2. items[j] = route[j - sent] /\ j - sent \in 1 .. n /\ ~(j - sent <= i) /\ j - sent < n
      BY <2>2, <2>7, <3>1
    <3>3. j - sent \notin Untrusted
      BY <2>7, <3>2
    <3>. QED BY <1>1, <2>8, <3>2, <3>3 DEF n
  <2>5. validateHeader(items) = [valid |-> TRUE, ip |-> route[i]]
    <3>1. ~isTrustedProxy(items[k])
      BY <2>3
    <3>. HIDE DEF k, Untrusted
    <3>2. validateHeader(items) = [valid |-> TRUE, ip |-> items[k]]
      BY <1>1, <2>3, <2>4, <3>1, ScanEnds
    <3>. QED BY <2>3, <3>2
  <2>6. FromHeaders.valid /\ FromHeaders.ip = route[i]
    BY <2>5 DEF FromHeaders, items
  <2>. QED BY <1>1, <1>3, <2>1, <2>6 DEF Result
<1>. QED BY <1>1, <1>4, <1>5

-----------------------------------------------------------------------------

(* At first everybody is trusted and there is no request.                  *)
LEMMA TracedInit == Init => Traced
<1>. SUFFICES ASSUME Init PROVE Traced
  OBVIOUS
<1>1. prepareTrustedCIDRs(<<Addresses>>) = <<Addresses>>
  <2>1. {i \in DOMAIN <<Addresses>> : <<Addresses>>[i] = Junk} = {}
    BY AddressAssumption
  <2>. QED BY <2>1 DEF prepareTrustedCIDRs
<1>. QED BY <1>1 DEF Init, Traced, NoRequest

(* A proxy adds the machine before it.                                      *)
LEMMA HopForwards ==
    ASSUME Traced, NEW proxy \in Addresses, Hop(proxy)
    PROVE  Forwarded' /\ route' \in Seq(Addresses) /\ route' # <<>>
           /\ header' \in [forwardedFor : Seq(Items), realIP : Seq(Items), platform : Addresses \cup {None}]
<1>. DEFINE items == header.forwardedFor
            sent == Len(items) - (Len(route) - 1)
<1>1. /\ route \in Seq(Addresses) /\ route # <<>> /\ Len(route) \in Nat /\ Len(route) >= 1
      /\ header \in [forwardedFor : Seq(Items), realIP : Seq(Items), platform : Addresses \cup {None}]
      /\ items \in Seq(Items) /\ Len(items) \in Nat
  BY DEF Traced, Hop
<1>2. Last(route) = route[Len(route)] /\ Last(route) \in Items
  BY <1>1 DEF Last, Items
<1>3. header' = [header EXCEPT !.forwardedFor = Append(items, Last(route))] /\ route' = Append(route, proxy)
  BY DEF Hop
<1>4. /\ header' \in [forwardedFor : Seq(Items), realIP : Seq(Items), platform : Addresses \cup {None}]
      /\ header'.forwardedFor = Append(items, Last(route))
  <2>1. Append(items, Last(route)) \in Seq(Items)
    BY <1>1, <1>2
  <2>. HIDE DEF items
  <2>. QED BY <1>1, <1>3, <2>1
<1>5. sent \in Nat /\ \A i \in 1 .. Len(route) - 1 : items[sent + i] = route[i]
  BY DEF Traced, Forwarded, Hop
<1>6. Len(header'.forwardedFor) = Len(items) + 1 /\ Len(route') = Len(route) + 1
  BY <1>1, <1>2, <1>3, <1>4
<1>7. Len(header'.forwardedFor) - (Len(route') - 1) = sent
  BY <1>1, <1>6
<1>8. \A i \in 1 .. Len(route') - 1 : header'.forwardedFor[sent + i] = route'[i]
  <2>. TAKE i \in 1 .. Len(route') - 1
  <2>1. i \in 1 .. Len(route) /\ sent + i \in 1 .. Len(items) + 1 /\ route'[i] = route[i]
    BY <1>1, <1>3, <1>5, <1>6
  <2>2. CASE i = Len(route)
    <3>1. sent + i = Len(items) + 1
      BY <1>1, <2>2
    <3>. QED BY <1>1, <1>2, <1>4, <2>1, <2>2, <3>1
  <2>3. CASE i # Len(route)
    <3>1. i \in 1 .. Len(route) - 1 /\ sent + i \in 1 .. Len(items)
      BY <1>1, <1>5, <2>1, <2>3
    <3>. QED BY <1>1, <1>2, <1>4, <1>5, <2>1, <3>1
  <2>. QED BY <2>2, <2>3
<1>9. route' \in Seq(Addresses) /\ route' # <<>>
  BY <1>1, <1>3
<1>10. sent \in Nat
  BY <1>5
<1>. HIDE DEF sent
<1>. QED BY <1>4, <1>7, <1>8, <1>9, <1>10 DEF Forwarded

(* Every step keeps the header in line with the machines passed.           *)
LEMMA TracedStep == Traced /\ [Next]_vars => Traced'
<1>. SUFFICES ASSUME Traced, [Next]_vars PROVE Traced'
  OBVIOUS
<1>1. ASSUME NEW list \in Lists, SetTrustedProxies(list) PROVE Traced'
  <2>1. list \in Seq(Networks \cup {Junk, Addresses})
    BY AddressAssumption DEF Lists
  <2>2. trustedCIDRs' = prepareTrustedCIDRs(trustedProxies')
    BY <1>1 DEF SetTrustedProxies
  <2>. QED BY <1>1, <2>1, <2>2 DEF Traced, SetTrustedProxies, request
<1>2. ASSUME NEW client \in Addresses, NEW sent \in Headers, Send(client, sent) PROVE Traced'
  <2>1. sent \in [forwardedFor : Seq(Items), realIP : Seq(Items), platform : Addresses \cup {None}]
    <3>1. sent.forwardedFor \in Seq(Items)
      <4>1. PICK k \in 0 .. MaxSent : sent.forwardedFor \in [1 .. k -> Items]
        BY DEF Headers
      <4>. QED BY <4>1, AddressAssumption
    <3>2. sent.realIP \in Seq(Items)
      <4>1. sent.realIP = <<>> \/ \E i \in Items : sent.realIP = <<i>>
        BY DEF Headers
      <4>2. <<>> \in Seq(Items) /\ \A i \in Items : <<i>> \in Seq(Items)
        OBVIOUS
      <4>. QED BY <4>1, <4>2
    <3>. QED BY <3>1, <3>2 DEF Headers
  <2>2. route' = <<client>> /\ header' = sent /\ pc' = "sent"
    BY <1>2 DEF Send
  <2>3. route' \in Seq(Addresses) /\ route' # <<>> /\ Len(route') = 1
    BY <2>2
  <2>4. sent.forwardedFor \in Seq(Items) /\ Len(sent.forwardedFor) \in Nat
    BY <2>1
  <2>5. Forwarded'
    BY <2>2, <2>3, <2>4 DEF Forwarded
  <2>. QED BY <1>2, <2>1, <2>2, <2>3, <2>5 DEF Traced, Send, config
<1>3. ASSUME NEW proxy \in Addresses, Hop(proxy) PROVE Traced'
  BY <1>3, HopForwards DEF Traced, Hop, config
<1>4. ASSUME NEW s \in {"tcp", "unix", "other"}, Serve(s) PROVE Traced'
  <2>1. UNCHANGED <<config, route, header>> /\ socket' = s /\ pc' = "answered" /\ answer' = Result(s)
        /\ pc # "idle"
    BY <1>4 DEF Serve
  <2>2. Result(socket)' = Result(s)
    BY <2>1 DEF Result, Trusted, FromHeaders, validateHeader, isTrustedProxy, config
  <2>3. Forwarded' /\ route # <<>>
    BY <2>1 DEF Traced, Forwarded
  <2>. QED BY <2>1, <2>2, <2>3 DEF Traced, config
<1>5. CASE UNCHANGED vars
  BY <1>5 DEF vars, config, request, Traced, Forwarded, Result, Trusted, FromHeaders,
              validateHeader, isTrustedProxy
<1>. QED BY <1>1, <1>2, <1>3, <1>4, <1>5 DEF Next, Done

(* Trust is as listed: nobody is trusted who is not in the last list, and   *)
(* if the list parses everybody in it is (gin.go:506-528).                  *)
THEOREM TrustCorrect == Spec => []TrustAsListed
<1>1. Spec => []Traced
  BY TracedInit, TracedStep, PTL DEF Spec
<1>. QED BY <1>1, ListedAreTrusted, PTL

(* The answer is the last machine on the way that is not a trusted proxy,   *)
(* whatever the client wrote into the headers (gin.go:544-564,              *)
(* context.go:963-1017).                                                    *)
THEOREM AnswerCorrect == Spec => []LastUntrusted
<1>1. Spec => []Traced
  BY TracedInit, TracedStep, PTL DEF Spec
<1>. QED BY <1>1, TracedAnswer, PTL

-----------------------------------------------------------------------------
(* The response *)

(* net/http accepts the codes that handlers ask for.                        *)
ValidCodes == \A code \in Codes : ValidCode(code)

(* The fields of a writer, for the updates below.                           *)
LEMMA Fields ==
    ASSUME NEW r \in Writers
    PROVE  /\ r.size \in NoWritten .. MaxBody /\ r.status \in Codes \cup {DefaultStatus}
           /\ r.wire \in Codes \cup {NoStatus, DefaultStatus} /\ r.body \in 0 .. MaxBody
           /\ r.hijacked \in BOOLEAN /\ r.superfluous \in BOOLEAN /\ r.torn \in BOOLEAN
           /\ r = [size |-> r.size, status |-> r.status, wire |-> r.wire,
                   body |-> r.body, hijacked |-> r.hijacked, superfluous |-> r.superfluous, torn |-> r.torn]
BY DEF Writers

(* A writer with another size, field by field.                             *)
LEMMA SizeSet ==
    ASSUME NEW r \in Writers, NEW v
    PROVE  [r EXCEPT !.size = v] =
               [size |-> v, status |-> r.status, wire |-> r.wire,
                body |-> r.body, hijacked |-> r.hijacked, superfluous |-> r.superfluous, torn |-> r.torn]
BY Fields

(* A writer before anything is written to it.                               *)
LEMMA FreshAgrees == Agrees(Fresh)
BY WriterAssumption DEF Fresh, Agrees, Writers, Written, NoWritten, NoStatus, DefaultStatus

(* responseWriter.WriteHeader                                               *)
LEMMA WriteHeaderAgrees ==
    ASSUME NEW r, Agrees(r), NEW code \in Codes
    PROVE  Agrees(WriteHeader(r, code))
<1>. DEFINE s == [r EXCEPT !.status = code]
<1>1. r \in Writers
  BY DEF Agrees
<1>2. CASE code > 0 /\ r.status # code /\ ~Written(r)
  <2>1. s = [size |-> r.size, status |-> code, wire |-> r.wire,
             body |-> r.body, hijacked |-> r.hijacked, superfluous |-> r.superfluous, torn |-> r.torn]
    BY <1>1, Fields
  <2>2. s \in Writers
    BY <1>1, <2>1, Fields DEF Writers
  <2>3. WriteHeader(r, code) = s
    BY <1>2 DEF WriteHeader
  <2>. QED BY <1>2, <2>1, <2>2, <2>3 DEF Agrees, Written
<1>3. CASE ~(code > 0 /\ r.status # code /\ ~Written(r))
  BY <1>3 DEF WriteHeader
<1>. QED BY <1>2, <1>3

(* responseWriter.WriteHeaderNow, which asks net/http for the header once.  *)
LEMMA WriteHeaderNowAgrees ==
    ASSUME ValidCodes, NEW r, Agrees(r)
    PROVE  /\ Agrees(WriteHeaderNow(r)) /\ Written(WriteHeaderNow(r))
           /\ WriteHeaderNow(r).body = r.body
<1>1. r \in Writers
  BY DEF Agrees
<1>2. CASE Written(r)
  BY <1>2 DEF WriteHeaderNow
<1>3. CASE ~Written(r)
  <2>. DEFINE wire == IF Informational(r.status) THEN NoStatus ELSE r.status
              s == [size |-> 0, status |-> r.status, wire |-> wire,
                    body |-> 0, hijacked |-> FALSE, superfluous |-> FALSE, torn |-> FALSE]
  <2>1. r.wire = NoStatus /\ ~r.hijacked /\ r.body = 0 /\ ~r.superfluous /\ ~r.torn
    BY <1>3 DEF Agrees
  <2>2. ValidCode(r.status) /\ r.status \in Codes \cup {DefaultStatus}
    BY <1>1, Fields DEF ValidCodes, ValidCode, DefaultStatus
  <2>3. r.hijacked = FALSE /\ r.superfluous = FALSE /\ r.torn = FALSE
    BY <1>1, <2>1, Fields
  <2>4. WriteHeaderNow(r) = s
    <3>1. [r EXCEPT !.size = 0] = [size |-> 0, status |-> r.status, wire |-> NoStatus,
                                   body |-> 0, hijacked |-> FALSE, superfluous |-> FALSE, torn |-> FALSE]
      BY <1>1, <2>1, <2>3, SizeSet
    <3>. QED BY <1>3, <2>2, <3>1 DEF WriteHeaderNow, NetWriteHeader
  <2>5. s \in Writers
    BY <2>2, WriterAssumption DEF Writers, NoWritten
  <2>6. wire = NoStatus => Informational(r.status)
    BY <2>2 DEF ValidCode, NoStatus
  <2>7. Agrees(s) /\ Written(s) /\ s.body = 0
    BY <2>5, <2>6 DEF Agrees, Written, NoWritten
  <2>. QED BY <2>1, <2>4, <2>7
<1>. QED BY <1>2, <1>3

(* What net/http makes of a header that was not written.                    *)
LEMMA CommittedAgrees ==
    ASSUME NEW r, Agrees(r), Written(r)
    PROVE  /\ Agrees(NetCommitted(r))
           /\ ~NetCommitted(r).hijacked => NetCommitted(r).wire # NoStatus
           /\ NetCommitted(r).size = r.size /\ NetCommitted(r).body = r.body
           /\ NetCommitted(r).hijacked = r.hijacked
<1>1. r \in Writers
  BY DEF Agrees
<1>2. CASE r.hijacked \/ r.wire # NoStatus
  BY <1>2 DEF NetCommitted
<1>3. CASE ~(r.hijacked \/ r.wire # NoStatus)
  <2>1. NetCommitted(r) = [size |-> r.size, status |-> r.status, wire |-> DefaultStatus,
                           body |-> r.body, hijacked |-> r.hijacked, superfluous |-> r.superfluous, torn |-> r.torn]
    BY <1>1, <1>3, Fields DEF NetCommitted
  <2>2. NetCommitted(r) \in Writers
    BY <1>1, <2>1, Fields DEF Writers
  <2>3. Informational(r.status)
    BY <1>3 DEF Agrees
  <2>. QED BY <1>3, <2>1, <2>2, <2>3 DEF Agrees, Written, NoStatus, DefaultStatus
<1>. QED BY <1>2, <1>3

(* responseWriter.Write: gin counts the bytes that net/http accepts.        *)
LEMMA WriteAgrees ==
    ASSUME ValidCodes, NEW r, Agrees(r), NEW n \in Nat, r.body + n <= MaxBody
    PROVE  Agrees(Write(r, n))
<1>. DEFINE h == WriteHeaderNow(r)
            c == NetCommitted(h)
            a == Accepted(h, n)
            s == [c EXCEPT !.body = @ + a]
            t == [s EXCEPT !.size = h.size + a]
<1>1. Agrees(h) /\ Written(h) /\ h.body = r.body
  BY WriteHeaderNowAgrees
<1>2. CASE HeaderPanics(r)
  BY <1>1, <1>2 DEF Write
<1>3. CASE ~HeaderPanics(r)
  <2>1. Write(r, n) = t
    BY <1>3 DEF Write, NetWrite
  <2>. HIDE DEF h
  <2>2. Agrees(c) /\ c.size = h.size /\ c.body = h.body /\ c.hijacked = h.hijacked
    BY <1>1, CommittedAgrees
  <2>3. a \in {0, n} /\ (h.hijacked => a = 0)
    BY DEF Accepted
  <2>. HIDE DEF c, a
  <2>4. c \in Writers /\ h.body \in 0..MaxBody /\ h.size = h.body /\ Written(c)
    BY <1>1, <2>2, Fields DEF Agrees, Written
  <2>9. h.body + a \in 0..MaxBody
    BY <1>1, <2>3, <2>4, WriterAssumption
  <2>5. t = [size |-> h.size + a, status |-> c.status, wire |-> c.wire,
             body |-> h.body + a, hijacked |-> c.hijacked, superfluous |-> c.superfluous, torn |-> c.torn]
    <3>1. s = [size |-> c.size, status |-> c.status, wire |-> c.wire,
               body |-> c.body + a, hijacked |-> c.hijacked, superfluous |-> c.superfluous, torn |-> c.torn]
      BY <2>4, Fields
    <3>2. s \in Writers
      BY <2>2, <2>4, <2>9, <3>1, Fields DEF Writers
    <3>3. s.status = c.status /\ s.wire = c.wire /\ s.body = h.body + a
          /\ s.hijacked = c.hijacked /\ s.superfluous = c.superfluous /\ s.torn = c.torn
      BY <2>2, <3>1
    <3>. HIDE DEF s
    <3>. QED BY <3>2, <3>3, SizeSet
  <2>7. t \in Writers
    BY <2>4, <2>5, <2>9, Fields DEF Writers, NoWritten
  <2>. HIDE DEF t
  <2>8. Agrees(t)
    BY <2>2, <2>3, <2>4, <2>5, <2>7, <2>9 DEF Agrees, Written, NoWritten
  <2>. QED BY <2>1, <2>8
<1>. QED BY <1>2, <1>3

(* responseWriter.Hijack, when it does not panic.                           *)
LEMMA HijackAgrees ==
    ASSUME NEW r, Agrees(r), ~HijackPanics(r)
    PROVE  Agrees(Hijack(r))
<1>1. r \in Writers /\ r.size \in NoWritten .. MaxBody
  BY Fields DEF Agrees
<1>2. CASE r.size > 0
  BY <1>2 DEF Hijack
<1>3. CASE ~(r.size > 0)
  <2>1. CanHijack /\ r.body = 0
    BY <1>1, <1>3, WriterAssumption DEF HijackPanics, Agrees, Written, NoWritten
  <2>2. Hijack(r) = [size |-> 0, status |-> r.status, wire |-> r.wire,
                     body |-> r.body, hijacked |-> TRUE, superfluous |-> r.superfluous, torn |-> r.torn]
    <3>1. Hijack(r) = [[r EXCEPT !.size = 0] EXCEPT !.hijacked = TRUE]
      BY <1>3, <2>1 DEF Hijack, NetHijack
    <3>. QED BY <1>1, <3>1, SizeSet
  <2>3. Hijack(r) \in Writers
    BY <1>1, <2>2, Fields, WriterAssumption DEF Writers, NoWritten
  <2>. QED BY <2>1, <2>2, <2>3 DEF Agrees, Written, NoWritten
<1>. QED BY <1>2, <1>3

(* A writer whose Flush panicked.                                           *)
LEMMA TornSet ==
    ASSUME NEW r \in Writers, NEW v
    PROVE  [r EXCEPT !.torn = v] =
              [size |-> r.size, status |-> r.status, wire |-> r.wire, body |-> r.body,
               hijacked |-> r.hijacked, superfluous |-> r.superfluous, torn |-> v]
BY Fields

(* responseWriter.Flush: after a 1xx status it commits to 200, and on a      *)
(* connection that was taken it panics.                                     *)
LEMMA FlushAgrees ==
    ASSUME ValidCodes, NEW r, Agrees(r)
    PROVE  Agrees(Flush(r))
<1>. DEFINE h == WriteHeaderNow(r)
<1>1. Agrees(h) /\ Written(h)
  BY WriteHeaderNowAgrees
<1>2. CASE HeaderPanics(r) \/ ~CanFlush
  BY <1>1, <1>2 DEF Flush
<1>3. CASE ~(HeaderPanics(r) \/ ~CanFlush)
  <2>. DEFINE refused == h.wire = NoStatus /\ h.hijacked
              s == [size |-> h.size, status |-> h.status,
                    wire |-> IF h.wire = NoStatus /\ ~h.hijacked THEN DefaultStatus ELSE h.wire,
                    body |-> h.body, hijacked |-> h.hijacked,
                    superfluous |-> h.superfluous \/ refused, torn |-> h.torn \/ h.hijacked]
  <2>1. Flush(r) = NetFlush(h)
    BY <1>3 DEF Flush
  <2>. HIDE DEF h
  <2>2. h \in Writers
    BY <1>1 DEF Agrees
  <2>3. NetFlush(h) = s
    <3>1. h = [size |-> h.size, status |-> h.status, wire |-> h.wire, body |-> h.body,
               hijacked |-> h.hijacked, superfluous |-> h.superfluous, torn |-> h.torn]
          /\ h.superfluous \in BOOLEAN /\ h.torn \in BOOLEAN /\ h.hijacked \in BOOLEAN
      BY <2>2, Fields
    <3>2. ValidCode(DefaultStatus) /\ ~Informational(DefaultStatus)
      BY DEF ValidCode, Informational, DefaultStatus
    <3>3. CASE h.wire # NoStatus
      <4>1. s.wire = h.wire /\ s.superfluous = h.superfluous
        BY <3>1, <3>3
      <4>. QED BY <3>1, <3>3, <4>1 DEF NetFlush
    <3>4. CASE h.wire = NoStatus /\ h.hijacked
      <4>. DEFINE g == [size |-> h.size, status |-> h.status, wire |-> h.wire, body |-> h.body,
                        hijacked |-> h.hijacked, superfluous |-> TRUE, torn |-> h.torn]
      <4>1. s = [g EXCEPT !.torn = TRUE]
        <5>1. s = [size |-> h.size, status |-> h.status, wire |-> h.wire, body |-> h.body,
                   hijacked |-> h.hijacked, superfluous |-> TRUE, torn |-> TRUE]
          BY <3>4
        <5>2. g \in Writers
          BY <2>2, Fields DEF Writers
        <5>3. g.size = h.size /\ g.status = h.status /\ g.wire = h.wire /\ g.body = h.body
              /\ g.hijacked = h.hijacked /\ g.superfluous = TRUE
          OBVIOUS
        <5>. HIDE DEF g
        <5>4. [g EXCEPT !.torn = TRUE] =
                 [size |-> g.size, status |-> g.status, wire |-> g.wire, body |-> g.body,
                  hijacked |-> g.hijacked, superfluous |-> g.superfluous, torn |-> TRUE]
          BY <5>2, TornSet, Zenon
        <5>. HIDE DEF s
        <5>. QED BY <5>1, <5>3, <5>4, Zenon
      <4>2. NetWriteHeader(h, DefaultStatus) = g
        <5>1. NetWriteHeader(h, DefaultStatus) = [h EXCEPT !.superfluous = TRUE]
          BY <3>4 DEF NetWriteHeader
        <5>. QED BY <3>1, <5>1
      <4>3. (g.torn \/ h.hijacked) = TRUE
        BY <3>4
      <4>4. NetFlush(h) = [g EXCEPT !.torn = g.torn \/ h.hijacked]
        BY <3>4, <4>2 DEF NetFlush
      <4>. QED BY <4>1, <4>3, <4>4
    <3>5. CASE h.wire = NoStatus /\ ~h.hijacked
      <4>1. s.wire = DefaultStatus /\ s.superfluous = h.superfluous
        BY <3>1, <3>5
      <4>2. NetWriteHeader(h, DefaultStatus) = [h EXCEPT !.wire = DefaultStatus]
        BY <3>2, <3>5 DEF NetWriteHeader
      <4>. QED BY <3>1, <3>5, <4>1, <4>2 DEF NetFlush
    <3>. QED BY <3>3, <3>4, <3>5
  <2>4. s \in Writers
    BY <2>2, Fields DEF Writers
  <2>5. h.wire = NoStatus /\ ~h.hijacked => Informational(h.status)
    BY <1>1 DEF Agrees
  <2>6. Agrees(s)
    BY <1>1, <2>2, <2>4, <2>5 DEF Agrees, Written, NoStatus, DefaultStatus
  <2>. QED BY <2>1, <2>3, <2>6
<1>. QED BY <1>2, <1>3

-----------------------------------------------------------------------------

(* A writer that was reset agrees with a response that was not begun.      *)
LEMMA WriterStart == WriterInit => IInv
BY FreshAgrees DEF WriterInit, IInv

(* Every call of a handler, and the end of the request, keep the invariant. *)
LEMMA WriterStep ==
    ASSUME ValidCodes PROVE IInv /\ [WriterNext]_wvars => IInv'
<1>. SUFFICES ASSUME IInv, [WriterNext]_wvars PROVE IInv'
  OBVIOUS
<1>1. Agrees(w) /\ open \in BOOLEAN
  BY DEF IInv
<1>2. ASSUME open, open' = open, DoWriteHeader \/ DoWriteHeaderNow \/ DoWrite \/ DoHijack \/ DoFlush PROVE IInv'
  <2>1. Agrees(w')
    <3>1. ASSUME DoWriteHeader PROVE Agrees(w')
      BY <1>1, <3>1, WriteHeaderAgrees DEF DoWriteHeader
    <3>2. ASSUME DoWriteHeaderNow PROVE Agrees(w')
      BY <1>1, <3>2, WriteHeaderNowAgrees DEF DoWriteHeaderNow
    <3>3. ASSUME DoWrite PROVE Agrees(w')
      BY <1>1, <3>3, WriteAgrees DEF DoWrite
    <3>4. ASSUME DoHijack PROVE Agrees(w')
      BY <1>1, <3>4, HijackAgrees DEF DoHijack
    <3>5. ASSUME DoFlush PROVE Agrees(w')
      BY <1>1, <3>5, FlushAgrees DEF DoFlush
    <3>. QED BY <1>2, <3>1, <3>2, <3>3, <3>4, <3>5
  <2>. QED BY <1>1, <1>2, <2>1 DEF IInv
<1>3. ASSUME Finish PROVE IInv'
  <2>. DEFINE h == WriteHeaderNow(w)
  <2>1. Agrees(h) /\ Written(h)
    BY <1>1, WriteHeaderNowAgrees
  <2>2. w' = NetCommitted(h) /\ open' = FALSE
    BY <1>3 DEF Finish
  <2>. HIDE DEF h
  <2>. QED BY <2>1, <2>2, CommittedAgrees DEF IInv
<1>4. CASE UNCHANGED wvars
  BY <1>4 DEF wvars, IInv
<1>. QED BY <1>2, <1>3, <1>4 DEF WriterNext

(* gin and net/http agree, in types, status, size and who owns the          *)
(* connection, after every sequence of calls (response_writer.go:67-121).   *)
THEOREM WriterInvariant ==
    ASSUME ValidCodes PROVE WriterSpec => []IInv
<1>1. IInv /\ [WriterNext]_wvars => IInv'
  BY WriterStep
<1>. QED BY <1>1, WriterStart, PTL DEF WriterSpec

(* What Status() reports once the response is out is the status on the wire *)
(* (response_writer.go:67-82, 98-100), a 1xx status excepted.               *)
THEOREM StatusCorrect ==
    ASSUME ValidCodes PROVE WriterSpec => []StatusIsWire
<1>1. IInv => StatusIsWire
  BY DEF IInv, Agrees, StatusIsWire
<1>. QED BY <1>1, WriterInvariant, PTL

(* Size() is the number of bytes net/http accepted, and Written says        *)
(* whether anything was sent or the connection taken                        *)
(* (response_writer.go:84-110).                                             *)
THEOREM SizeCorrect ==
    ASSUME ValidCodes PROVE WriterSpec => []SizeIsBody
<1>1. IInv => SizeIsBody
  BY DEF IInv, Agrees, SizeIsBody
<1>. QED BY <1>1, WriterInvariant, PTL

(* net/http is never asked for a header when one is out, and for one on a   *)
(* connection that was taken only by a Flush, which panics                  *)
(* (response_writer.go:77-82, 129-134).                                     *)
THEOREM HeaderOnce ==
    ASSUME ValidCodes PROVE WriterSpec => []RefusalPanics
<1>1. IInv => RefusalPanics
  BY DEF IInv, Agrees, RefusalPanics
<1>. QED BY <1>1, WriterInvariant, PTL

(* A connection that was handed out carries no body of gin's                *)
(* (response_writer.go:112-120).                                            *)
THEOREM HijackCorrect ==
    ASSUME ValidCodes PROVE WriterSpec => []HijackedClean
<1>1. IInv => HijackedClean
  BY DEF IInv, Agrees, HijackedClean, Written, NoWritten
<1>. QED BY <1>1, WriterInvariant, PTL
=============================================================================
