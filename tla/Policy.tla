------------------------------- MODULE Policy -------------------------------
(***************************************************************************)
(* The destination policy (policy.go) and the order in which the addresses *)
(* that passed it are dialled (handler.go:interleaveAddressFamilies), as   *)
(* operators.                                                              *)
(*                                                                         *)
(* An address is [ip, fam] with fam "v4", "v6" or "4in6", the IPv4-mapped  *)
(* form of the IPv4 address ip.  A prefix is the set of addresses it       *)
(* contains; as in netip, an IPv4 prefix contains no mapped address.  A    *)
(* domain, and a pattern of a domain list, is the sequence of its labels:  *)
(* a final dot is a last empty label, ".example.com" starts with an empty  *)
(* label and "*.example.com" with "*".                                     *)
(***************************************************************************)
EXTENDS Integers, Sequences

CONSTANTS
    Lower,    \* [upper-case labels -> labels], strings.ToLower on the labels
    Private   \* the addresses, unmapped, that isPrivateDestination is true of

ASSUME LowerAssumption == \A label \in DOMAIN Lower : Lower[label] \in STRING

Addresses == [ip : Nat, fam : {"v4", "v6", "4in6"}]
Names == Seq(STRING)

\* The zero values of netip.Addr and of the name.
NoAddr == [ip |-> 0, fam |-> "none"]
NoName == <<>>

\* A destination that was resolved or given as an IP has an address, one given
\* as a domain has a name.
Dest(name, addr, port) == [fqdn |-> name, addr |-> addr, port |-> port]

Unmap(a) == IF a.fam = "4in6" THEN [a EXCEPT !.fam = "v4"] ELSE a

\* netip: "including IPv4-mapped IPv6 addresses".
Is6(a) == a.fam # "v4"

-----------------------------------------------------------------------------
(***************************************************************************)
(* Names and ports.                                                        *)
(***************************************************************************)

\* Lower case, without the dot of a rooted name.
Canonical(labels) ==
    LET low == [i \in DOMAIN labels |->
                   IF labels[i] \in DOMAIN Lower THEN Lower[labels[i]] ELSE labels[i]]
    IN  IF Len(low) > 1 /\ low[Len(low)] = "" THEN SubSeq(low, 1, Len(low) - 1) ELSE low

\* The labels of q after its leading "" or "*" end domain d, after at least one
\* label of d's own.
EndsIn(q, d) ==
    /\ Len(q) > 1 /\ q[1] \in {"", "*"}
    /\ Len(d) >= Len(q)
    /\ SubSeq(d, Len(d) - Len(q) + 2, Len(d)) = Tail(q)

\* Fault: names are compared as they were sent.
matchesDomainPolicyRaw(patterns, domain) ==
    \E q \in patterns : q = domain \/ EndsIn(q, domain)

matchesDomainPolicy(patterns, domain) ==
    LET d == Canonical(domain) IN
    \E p \in patterns :
        LET q == Canonical(p) IN q = d \/ EndsIn(q, d)

validateNameAndPortPolicy(p, d) ==
    /\ d.port \notin p.denyPorts
    /\ p.allowPorts # {} => d.port \in p.allowPorts
    /\ d.fqdn # NoName =>
          /\ ~matchesDomainPolicy(p.denyDomains, d.fqdn)
          /\ p.allowDomains # {} => matchesDomainPolicy(p.allowDomains, d.fqdn)

\* External: M.Socksaddr.IsValid.
IsValid(d) == d.addr # NoAddr \/ d.fqdn # NoName

\* What validateDestination tests before it resolves.
AdmitsUnresolved(p, d) == IsValid(d) /\ d.port # 0 /\ validateNameAndPortPolicy(p, d)

-----------------------------------------------------------------------------
(***************************************************************************)
(* Resolved addresses.                                                     *)
(***************************************************************************)

matchesCIDRPolicy(prefixes, a) == \E n \in prefixes : Unmap(a) \in n

isPrivateDestination(a) == Unmap(a) \in Private

needsCIDRPolicy(p) == p.allowCIDRs # {} \/ p.denyCIDRs # {} \/ ~p.allowPrivate

\* Every address is looked at: first against the denied prefixes, then for a
\* private address nobody allowed and for an allow list that it misses.
validateResolvedDestinationPolicy(p, addrs) ==
    /\ \A i \in DOMAIN addrs : ~matchesCIDRPolicy(p.denyCIDRs, addrs[i])
    /\ \A i \in DOMAIN addrs :
          LET allowedCIDR == matchesCIDRPolicy(p.allowCIDRs, addrs[i]) IN
          /\ ~(isPrivateDestination(addrs[i]) /\ ~p.allowPrivate /\ ~allowedCIDR)
          /\ ~(p.allowCIDRs # {} /\ ~allowedCIDR)

\* validateDestination on what resolveDestination returned; the policy is
\* skipped when nothing in the configuration restricts addresses.
AdmitsResolved(p, addrs) ==
    \/ p.allowPrivate /\ ~needsCIDRPolicy(p)
    \/ validateResolvedDestinationPolicy(p, addrs)

-----------------------------------------------------------------------------
(***************************************************************************)
(* interleaveAddressFamilies.                                              *)
(***************************************************************************)

\* What the loop over the addresses has appended to the list of one family.
OfFamily(six, addrs) ==
    LET kept[i \in 0 .. Len(addrs)] ==
            IF i = 0 THEN <<>>
            ELSE IF Is6(addrs[i]) = six THEN Append(kept[i - 1], addrs[i])
            ELSE kept[i - 1]
    IN  kept[Len(addrs)]

\* The family of the first address is preferred.
Preferred(addrs) == OfFamily(Is6(addrs[1]), addrs)
Alternate(addrs) == OfFamily(~Is6(addrs[1]), addrs)

\* Fault: the loop ends with the shorter of the two lists.
interleaveShort(addrs) ==
    LET P == Preferred(addrs)
        A == Alternate(addrs)
        k == IF Len(P) < Len(A) THEN Len(P) ELSE Len(A)
    IN  IF Len(addrs) < 2 \/ k = 0 THEN addrs
        ELSE [i \in 1 .. 2 * k |-> IF i % 2 = 1 THEN P[(i + 1) \div 2] ELSE A[i \div 2]]

\* The loop takes the head of each list in turn; when one is empty, the other
\* one's rest follows.
interleaveAddressFamilies(addrs) ==
    LET P == Preferred(addrs)
        A == Alternate(addrs)
        k == IF Len(P) < Len(A) THEN Len(P) ELSE Len(A)
    IN  IF Len(addrs) < 2 THEN addrs
        ELSE [i \in 1 .. Len(addrs) |->
                 IF i > 2 * k THEN IF Len(P) > k THEN P[i - k] ELSE A[i - k]
                 ELSE IF i % 2 = 1 THEN P[(i + 1) \div 2] ELSE A[i \div 2]]

=============================================================================
