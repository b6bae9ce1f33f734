------------------------------ MODULE ClientIP ------------------------------
(***************************************************************************)
(* Which address ClientIP answers for a request that came through proxies, *)
(* under any list given to SetTrustedProxies.                              *)
(*                                                                         *)
(* An address is a model value and a network the set of its addresses: a   *)
(* lone address of the list is the network of that address, as the code    *)
(* makes it.  Junk is text that does not parse, in a header or in the list.*)
(* An operator with an underscore in its name is a mutant of the one below *)
(* it.                                                                     *)
(***************************************************************************)
EXTENDS Integers, FiniteSets, Sequences, SequencesExt, FiniteSetsExt

CONSTANTS
    Addresses,
    Networks,   \* the networks a list may name
    Junk,
    None,       \* no address: the text "", or a header that is absent
    NilIP,      \* the text of a nil net.IP
    MaxListed,  \* entries of a list of trusted proxies
    MaxSent,    \* items of the X-Forwarded-For header a client sends
    MaxHops     \* proxies on the way

ASSUME AddressAssumption ==
    /\ Networks \subseteq SUBSET Addresses
    /\ {Junk, None, NilIP} \cap Addresses = {}
    /\ Junk # Addresses
    /\ MaxSent \in Nat /\ MaxListed \in Nat

VARIABLES
    trustedProxies, \* the list as it was given; nil is the empty one, both trust nobody
    trustedCIDRs,   \* what was parsed of it
    platform,       \* TrustedPlatform (or AppEngine) is set
    forwarded,      \* ForwardedByClientIP
    route,          \* the machines the request came through, the client first
    socket,         \* "tcp"; "unix"; "other": an address that does not parse
    header,         \* X-Forwarded-For, X-Real-IP and the platform's header
    answer,
    pc              \* "idle", "sent", "answered"

config == <<trustedProxies, trustedCIDRs, platform, forwarded>>
request == <<route, socket, header>>
vars == <<config, request, answer, pc>>

Items == Addresses \cup {Junk}

(* Entries are parsed in order up to the first that does not parse; what    *)
(* was parsed before it stays, and the caller gets the error.               *)
prepareTrustedCIDRs(list) ==
    LET bad == {i \in DOMAIN list : list[i] = Junk} IN
    IF bad = {} THEN list ELSE SubSeq(list, 1, Min(bad) - 1)

isTrustedProxy(ip) == \E i \in DOMAIN trustedCIDRs : ip \in trustedCIDRs[i]

(* From the last item to the left, up to one that does not parse, that no   *)
(* trusted proxy wrote, or that is the first.                               *)
Invalid == [valid |-> FALSE, ip |-> None]
validateHeader_FromLeft(items) ==
    LET ends == {i \in DOMAIN items :
                    items[i] = Junk \/ i = Len(items) \/ ~isTrustedProxy(items[i])} IN
    IF items = <<>> \/ items[Min(ends)] = Junk THEN Invalid
    ELSE [valid |-> TRUE, ip |-> items[Min(ends)]]
validateHeader(items) ==
    LET ends == {i \in DOMAIN items : items[i] = Junk \/ i = 1 \/ ~isTrustedProxy(items[i])} IN
    IF items = <<>> \/ items[Max(ends)] = Junk THEN Invalid
    ELSE [valid |-> TRUE, ip |-> items[Max(ends)]]

(* RemoteIP has an address for TCP only; over a Unix socket the peer is     *)
(* trusted without one.                                                     *)
Trusted(s) == s = "unix" \/ (s = "tcp" /\ isTrustedProxy(Last(route)))

(* RemoteIPHeaders, in order *)
FromHeaders ==
    LET forwardedFor == validateHeader(header.forwardedFor) IN
    IF forwardedFor.valid THEN forwardedFor ELSE validateHeader(header.realIP)

Result(s) ==
    IF platform /\ header.platform # None THEN header.platform
    ELSE IF s = "other" THEN None
    ELSE IF Trusted(s) /\ forwarded /\ FromHeaders.valid THEN FromHeaders.ip
    ELSE IF s = "unix" THEN NilIP ELSE Last(route)

-----------------------------------------------------------------------------

NoRequest == [forwardedFor |-> <<>>, realIP |-> <<>>, platform |-> None]

(* New: everybody is trusted.  TrustedPlatform and ForwardedByClientIP are  *)
(* set once.                                                                *)
Init ==
    /\ trustedProxies = <<Addresses>> /\ trustedCIDRs = <<Addresses>>
    /\ platform \in BOOLEAN /\ forwarded \in BOOLEAN
    /\ route = <<>> /\ socket = "tcp" /\ header = NoRequest
    /\ answer = None /\ pc = "idle"

SetTrustedProxies_KeepsOld(list) ==
    /\ pc = "idle"
    /\ trustedProxies' = list
    /\ trustedCIDRs' = IF Junk \in ToSet(list) THEN trustedCIDRs ELSE prepareTrustedCIDRs(list)
    /\ UNCHANGED <<platform, forwarded, request, answer, pc>>
SetTrustedProxies(list) ==
    /\ pc = "idle"
    /\ trustedProxies' = list
    /\ trustedCIDRs' = prepareTrustedCIDRs(list)
    /\ UNCHANGED <<platform, forwarded, request, answer, pc>>

(* A client writes what it likes into the headers. *)
Send(client, sent) ==
    /\ pc = "idle"
    /\ route' = <<client>> /\ header' = sent
    /\ pc' = "sent"
    /\ UNCHANGED <<config, socket, answer>>

(* A proxy adds the address it got the request from and passes it on.       *)
Hop(proxy) ==
    /\ pc = "sent" /\ Len(route) <= MaxHops
    /\ header' = [header EXCEPT !.forwardedFor = Append(@, Last(route))]
    /\ route' = Append(route, proxy)
    /\ UNCHANGED <<config, socket, answer, pc>>

Serve(s) ==
    /\ pc = "sent"
    /\ socket' = s
    /\ answer' = Result(s)
    /\ pc' = "answered"
    /\ UNCHANGED <<config, route, header>>

Done == pc = "answered" /\ UNCHANGED vars

Lists == UNION {[1..k -> Networks \cup {Junk}] : k \in 0..MaxListed}
Headers ==
    [forwardedFor : UNION {[1..k -> Items] : k \in 0..MaxSent},
     realIP : {<<>>} \cup {<<i>> : i \in Items},
     platform : Addresses \cup {None}]

Next ==
    \/ \E list \in Lists : SetTrustedProxies(list)
    \/ \E client \in Addresses, sent \in Headers : Send(client, sent)
    \/ \E proxy \in Addresses : Hop(proxy)
    \/ \E s \in {"tcp", "unix", "other"} : Serve(s)
    \/ Done

Spec == Init /\ [][Next]_vars

-----------------------------------------------------------------------------
(* Properties *)

(* Nobody is trusted who is not in the last list given, and if the list     *)
(* parses, everybody in it is (gin.go:506-528).                             *)
TrustAsListed ==
    LET Listed(ip) == \E i \in DOMAIN trustedProxies :
                         trustedProxies[i] # Junk /\ ip \in trustedProxies[i]
    IN \A ip \in Addresses :
         /\ isTrustedProxy(ip) => Listed(ip)
         /\ Junk \notin ToSet(trustedProxies) /\ Listed(ip) => isTrustedProxy(ip)

(* The answer is the last machine on the way that is not a trusted proxy,   *)
(* whatever the client wrote into the headers (gin.go:544-564,              *)
(* context.go:963-1017).  The peer on a Unix socket counts as trusted.      *)
LastUntrusted ==
    LET Untrusted == {i \in DOMAIN route : /\ ~isTrustedProxy(route[i])
                                           /\ socket = "unix" => i < Len(route)}
        Scanned == /\ pc = "answered" /\ forwarded /\ socket # "other"
                   /\ platform => header.platform = None
    IN Scanned => \A i \in Untrusted : (\A j \in Untrusted : j <= i) => answer = route[i]

(* What the two rest on, which is inductive: the list that is used is the   *)
(* one that was parsed of the last list given, X-Forwarded-For ends with    *)
(* the machines the request came through before the last, and nothing       *)
(* changes once the answer is given.                                        *)
Forwarded ==
    LET items == header.forwardedFor
        sent  == Len(items) - (Len(route) - 1)
    IN /\ sent \in Nat
       /\ \A i \in 1 .. Len(route) - 1 : items[sent + i] = route[i]
Traced ==
    /\ route \in Seq(Addresses)
    /\ header \in [forwardedFor : Seq(Items), realIP : Seq(Items), platform : Addresses \cup {None}]
    /\ trustedProxies \in Seq(Networks \cup {Junk, Addresses})
    /\ trustedCIDRs = prepareTrustedCIDRs(trustedProxies)
    /\ pc # "idle" => route # <<>> /\ Forwarded
    /\ pc = "answered" => answer = Result(socket)
    /\ socket \in {"tcp", "unix", "other"}
=============================================================================
