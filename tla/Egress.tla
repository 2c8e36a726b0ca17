------------------------------- MODULE Egress -------------------------------
(***************************************************************************)
(* What one stream contacts: the policy applied to its destination, the    *)
(* resolution, and the addresses that are dialled (handler.go:dialContext) *)
(* or sent datagrams to (handler.go:readUDPOverTCPRequest,                 *)
(* preparePacketDestination, uot.go:proxyUOTToPacket).                     *)
(*                                                                         *)
(* The resolver may answer differently each time it is asked, so what was  *)
(* checked and what is contacted could come apart: between the check and   *)
(* the dial, between the check of a UDP-over-TCP request and its first     *)
(* datagram, and for as long as a datagram's destination stays in the      *)
(* stream's cache.  Slots, sockets and goroutines are in Streams, the      *)
(* race between the dialled addresses in Dial.                             *)
(***************************************************************************)
EXTENDS Policy, FiniteSets

CONSTANTS
    Policies,   \* the policies a configuration may have
    Kinds,      \* the kinds of stream: "tcp", "connect", "packets"
    Dests,      \* the destinations peers ask for
    Answers,    \* [Kinds -> the resolver's answers]; <<>> is a failed lookup or
                \* one that finds nothing
    TTL,        \* how long a cached destination lives (30 s)
    MaxCached,  \* maxCachedDestinations (256)
    MaxTime     \* bound on the clock

ASSUME KindsAssumption == Kinds \subseteq {"tcp", "connect", "packets"}
ASSUME PoliciesAssumption ==
    \A p \in Policies : /\ p.denyDomains \subseteq Names /\ p.allowDomains \subseteq Names
                        /\ p.allowPrivate \in BOOLEAN
ASSUME DestsAssumption ==
    \A d \in Dests : d.fqdn \in Names /\ d.addr \in Addresses \cup {NoAddr} /\ d.port \in Nat
ASSUME AnswersAssumption == \A k \in Kinds : Answers[k] \subseteq Seq(Addresses)
ASSUME BoundsAssumption == TTL \in Nat /\ MaxCached \in Nat \ {0} /\ MaxTime \in Nat

VARIABLES
    policy,  \* the configuration's policy; it does not change
    pc,      \* "new", "resolve", "dial", "read", "lookup", "refused" or "closed"
    kind,    \* "tcp"; UDP over TCP with ("connect") or without one destination
    dest,    \* the destination being validated
    answer,  \* what the last lookup for it returned; NoAnswer before
    list,    \* resolvedDestinations still to be dialled
    cache,   \* destinationCache; an entry also keeps when and from what it came
    now,     \* the clock
    last     \* the contact made by the last step; NoContact if it made none

vars == <<policy, pc, kind, dest, answer, list, cache, now, last>>

NoDest == Dest(NoName, NoAddr, 0)
NoAnswer == <<NoAddr>>

\* The stream sends to address a, taken from the answer ans of time at.
Contact(d, a, ans, at) == [dest |-> d, addr |-> a, answer |-> ans, at |-> at]

NoContact == Contact(NoDest, NoAddr, NoAnswer, 0)

Init ==
    /\ policy \in Policies
    /\ pc = "new" /\ kind = "none"
    /\ dest = NoDest /\ answer = NoAnswer /\ list = <<>>
    /\ cache = <<>>
    /\ now = 0
    /\ last = NoContact

-----------------------------------------------------------------------------
(***************************************************************************)
(* validateDestination, for a TCP destination or a UDP-over-TCP request    *)
(* that names one.                                                         *)
(***************************************************************************)

Open(k, d) ==
    /\ pc = "new" /\ k \in Kinds \cap {"tcp", "connect"}
    /\ kind' = k /\ dest' = d
    /\ pc' = IF AdmitsUnresolved(policy, d) THEN "resolve" ELSE "refused"
    /\ UNCHANGED <<policy, answer, list, cache, now, last>>

\* A request without a destination (or the legacy magic address): nothing to
\* check until a datagram comes.
OpenPackets ==
    /\ pc = "new" /\ "packets" \in Kinds
    /\ kind' = "packets" /\ pc' = "read"
    /\ UNCHANGED <<policy, dest, answer, list, cache, now, last>>

\* resolveDestination: an address is its own answer, a name is looked up.
Lookups(d) == IF d.addr # NoAddr THEN {<<d.addr>>} ELSE Answers[kind]

\* The answer arrives and is checked as a whole.  dialContext goes on to dial
\* the interleaved addresses; readUDPOverTCPRequest forgets them.
Resolve(ans) ==
    /\ pc = "resolve"
    /\ answer' = ans
    /\ IF ans # <<>> /\ AdmitsResolved(policy, ans)
          THEN IF kind = "tcp"
                  THEN pc' = "dial" /\ list' = interleaveAddressFamilies(ans)
                  ELSE pc' = "read" /\ UNCHANGED list
          ELSE pc' = "refused" /\ UNCHANGED list
    /\ UNCHANGED <<policy, kind, dest, cache, now, last>>

\* Fault: the name is dialled, and resolved again by the dialer.
LaunchDialByName ==
    /\ pc = "dial" /\ list # <<>>
    /\ \E ans \in Lookups(dest) \ {<<>>} : last' = Contact(dest, ans[1], ans, now)
    /\ list' = Tail(list)
    /\ UNCHANGED <<policy, pc, kind, dest, answer, cache, now>>

\* dialContext launches the next address (Dial says when).
LaunchDial ==
    /\ pc = "dial" /\ list # <<>>
    /\ last' = Contact(dest, list[1], answer, now)
    /\ list' = Tail(list)
    /\ UNCHANGED <<policy, pc, kind, dest, answer, cache, now>>

-----------------------------------------------------------------------------
(***************************************************************************)
(* proxyUOTToPacket.                                                       *)
(***************************************************************************)

\* ReadPacket returns the request's destination if it has one.
Addressed(d) == d \in Dests /\ (kind = "connect" => d = dest)

\* Fault: an expired entry still counts as cached.
CachedEver(d) == d \in DOMAIN cache

Cached(d) == d \in DOMAIN cache /\ now <= cache[d].expiresAt

\* A datagram whose destination is cached goes out at once.
PacketHit(d) ==
    /\ pc = "read" /\ Addressed(d) /\ Cached(d)
    /\ last' = Contact(d, cache[d].addr, cache[d].answer, cache[d].at)
    /\ UNCHANGED <<policy, pc, kind, dest, answer, list, cache, now>>

\* Otherwise prepareDestination is called; an error ends the relay.
PacketMiss(d) ==
    /\ pc = "read" /\ Addressed(d) /\ ~Cached(d)
    /\ dest' = d /\ answer' = NoAnswer
    /\ pc' = IF AdmitsUnresolved(policy, d) THEN "lookup" ELSE "refused"
    /\ last' = NoContact
    /\ UNCHANGED <<policy, kind, list, cache, now>>

\* The cache before an entry is added to it.
RoomInCache == IF Cardinality(DOMAIN cache) >= MaxCached THEN <<>> ELSE cache

\* The answer is checked, its first address cached and the datagram sent.
PacketResolved(ans) ==
    /\ pc = "lookup"
    /\ answer' = ans
    /\ IF ans # <<>> /\ AdmitsResolved(policy, ans)
          THEN /\ pc' = "read"
               /\ cache' = [d \in DOMAIN RoomInCache \cup {dest} |->
                               IF d # dest THEN RoomInCache[d]
                               ELSE [addr |-> ans[1], expiresAt |-> now + TTL,
                                     answer |-> ans, at |-> now]]
               /\ last' = Contact(dest, ans[1], ans, now)
          ELSE /\ pc' = "refused"
               /\ UNCHANGED cache /\ last' = NoContact
    /\ UNCHANGED <<policy, kind, dest, list, now>>

-----------------------------------------------------------------------------
\* Time passes while the stream waits for a datagram or for the resolver.
Tick ==
    /\ pc \in {"read", "lookup"} /\ now < MaxTime
    /\ now' = now + 1
    /\ last' = NoContact
    /\ UNCHANGED <<policy, pc, kind, dest, answer, list, cache>>

\* External: the dial is decided, or the relay ends.
End ==
    /\ pc \in {"dial", "read"}
    /\ pc' = "closed" /\ last' = NoContact
    /\ UNCHANGED <<policy, kind, dest, answer, list, cache, now>>

Terminating == pc \in {"refused", "closed"} /\ UNCHANGED vars

Next ==
    \/ \E k \in Kinds, d \in Dests : Open(k, d)
    \/ OpenPackets
    \/ kind \in Kinds /\ \E ans \in Lookups(dest) : Resolve(ans) \/ PacketResolved(ans)
    \/ LaunchDial
    \/ \E d \in Dests : PacketHit(d) \/ PacketMiss(d)
    \/ Tick \/ End \/ Terminating

Spec == Init /\ [][Next]_vars

-----------------------------------------------------------------------------
(***************************************************************************)
(* The policy as README.md and docs/ describe it: a denied port, name or   *)
(* prefix wins; with an allow list, what it misses is refused; a private   *)
(* address needs allow_private_targets or an allowed prefix; all addresses *)
(* of an answer count.                                                     *)
(*                                                                         *)
(* The descriptions and the code part on one case, Disputed: a destination *)
(* given as an IP address while allow_domain is set.  docs/examples.md:86  *)
(* and :146 and docs/technical-design.md:85 refuse it, and so does         *)
(* PermitsDest; README.md:176 only refuses the "corresponding" targets;    *)
(* policy.go:91 skips the lists of names and admits it.  ContactsPermitted *)
(* and RefusalsJustified take no side there; OnlyListedNames is what       *)
(* docs/examples.md says, and the code violates it.                        *)
(***************************************************************************)

\* Pattern q covers the name: the name itself, or for "." and "*." every name
\* with more labels in front.
Covers(q, name) ==
    LET base == Canonical(q)
        n == Canonical(name)
    IN  \/ n = base
        \/ /\ base[1] \in {"", "*"} /\ Len(base) > 1
           /\ \E i \in 1 .. Len(n) - 1 : SubSeq(n, i + 1, Len(n)) = Tail(base)

\* The destination has a name that one of the patterns covers.
Listed(patterns, d) == d.fqdn # NoName /\ \E q \in patterns : Covers(q, d.fqdn)

PermitsPort(p, d) ==
    /\ d.port # 0 /\ (d.addr # NoAddr \/ d.fqdn # NoName)
    /\ d.port \notin p.denyPorts /\ (p.allowPorts = {} \/ d.port \in p.allowPorts)

PermitsDest(p, d) ==
    /\ PermitsPort(p, d)
    /\ ~Listed(p.denyDomains, d)
    /\ p.allowDomains = {} \/ Listed(p.allowDomains, d)

Disputed(p, d) == d.fqdn = NoName /\ p.allowDomains # {}

PermitsAddr(p, a) ==
    /\ Unmap(a) \notin UNION p.denyCIDRs
    /\ p.allowCIDRs = {} \/ Unmap(a) \in UNION p.allowCIDRs
    /\ Unmap(a) \in Private => p.allowPrivate \/ Unmap(a) \in UNION p.allowCIDRs

PermitsAnswer(p, ans) == ans # <<>> /\ \A i \in DOMAIN ans : PermitsAddr(p, ans[i])

(***************************************************************************)
(* Properties.                                                             *)
(***************************************************************************)

\* Nothing is contacted, by a dial, a first or a cached datagram, but an
\* address of one answer for that destination all of whose addresses the policy
\* permits: not a later answer of the resolver, and not one that was not checked.
\* The destination's port is permitted, and so is its name; of the lists of names
\* for a disputed destination nothing is said.
ContactsPermitted ==
    last # NoContact =>
        /\ PermitsPort(policy, last.dest) /\ PermitsAnswer(policy, last.answer)
        /\ Disputed(policy, last.dest) \/ PermitsDest(policy, last.dest)
        /\ last.addr \in {last.answer[i] : i \in DOMAIN last.answer}
        /\ last.answer \in Lookups(last.dest)
        /\ kind # "packets" => last.dest = dest
        /\ kind = "tcp" => last.answer = answer

\* What docs/examples.md:146 says of allow_domain: only the listed names and
\* suffixes can be accessed.
OnlyListedNames ==
    last # NoContact /\ policy.allowDomains # {} => Listed(policy.allowDomains, last.dest)

\* validateDestination refuses only what the policy refuses or the resolver did
\* not answer, wherever in the stream's life it is called.
RefusalsJustified ==
    pc = "refused" => IF answer = NoAnswer THEN ~PermitsDest(policy, dest)
                                           ELSE ~PermitsAnswer(policy, answer)

\* The addresses are dialled starting with the resolver's first, without losing,
\* repeating or reordering those of one family; all of them in the resolver's
\* order if it gave one family only.  (In which order those of two families are
\* mixed is left open: the documents differ on it, and interleaveAddressFamilies
\* alternates; EgressProofs.FamiliesAlternate.)
DialOrder ==
    pc = "dial" /\ last = NoContact =>
        /\ Len(list) = Len(answer) /\ list[1] = answer[1]
        /\ \A six \in BOOLEAN : OfFamily(six, list) = OfFamily(six, answer)

\* A datagram, from the cache or not, goes to an address that the resolver gave
\* at most TTL ago, and the cache never holds more than maxCachedDestinations.
PacketsFresh ==
    /\ last # NoContact => now - last.at <= TTL
    /\ Cardinality(DOMAIN cache) <= MaxCached

=============================================================================
