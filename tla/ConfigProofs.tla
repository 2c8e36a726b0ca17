---------------------------- MODULE ConfigProofs ----------------------------
(***************************************************************************)
(* Proofs about Config, for every set of directives and JSON objects, every *)
(* set of outbound modules and Caddyfiles of any length.                   *)
(*                                                                         *)
(* The argument has three parts.  Parsing keeps the wrapper equal to what  *)
(* the directives read so far say together (FileRead).  What is decoded    *)
(* from the JSON, whichever way it came about, therefore says what was     *)
(* written (Reads).  And the checks and maps of Provision and Validate     *)
(* are compared, as functions of the decoded wrapper, with what was        *)
(* written.                                                                *)
(***************************************************************************)
EXTENDS Config, TLAPS

\* WrittenOutbounds, from the fields of a wrapper.
Declared(w) ==
    {Loaded(n, w.outboundsRaw[n]) : n \in DOMAIN w.outboundsRaw}
        \cup IF hasSingleOutbound(w) THEN {Loaded("", w.outboundRaw)} ELSE {}

\* No name and no password occurs twice.
Distinct(users) ==
    \A i, k \in DOMAIN users :
        i # k => users[i].name # users[k].name /\ users[i].password # users[k].password

\* The same users, with the same repetitions of names and passwords or with none.
SameUsers(users, written) ==
    Range(users) = Range(written) /\ (Distinct(users) <=> Distinct(written))

DirectiveUsers == {UserFromArgs(d) : d \in Directives}

\* The wrapper w says what the directives g say together.
FileReads(g, w) ==
    /\ \A f \in Scalars : w.scalar[f] = LastGiven(g, f, Zero(f))
    /\ \A f \in Lists : w.lists[f] = GivenList(g, f)
    /\ SameUsers(w.users, GivenUsers(g))
    /\ Declared(w) = GivenOutbounds(g)
    /\ w.defaultOutbound = LastGiven(g, "default_outbound", "")

\* Among the directives of a kind there is a last one.
HasLast(g, dir) ==
    Given(g, dir) # {} => \E i \in Given(g, dir) : \A k \in Given(g, dir) : k <= i

\* What a wrapper that was parsed from a Caddyfile can hold.
FileTypes(w) ==
    /\ \A f \in Scalars : w.scalar[f] # Null
    /\ \A f \in Numbers : w.scalar[f] \in Int
    /\ DOMAIN w.lists = Lists
    /\ w.users \in Seq(DirectiveUsers)
    /\ w.outboundRaw \in Modules \cup {""}
    /\ "" \notin DOMAIN w.outboundsRaw

\* Where parsing stands.
FileRead(g, w) ==
    /\ g \in Seq(Directives) /\ DirectivesOK(g)
    /\ \A f \in Scalars \cup {"default_outbound"} : HasLast(g, f)
    /\ FileTypes(w) /\ FileReads(g, w)

\* A JSON object and the directives it came from, if any.
Document(g, j) ==
    \/ g = <<>> /\ j \in JSONConfigs
    \/ \E w : FileRead(g, w) /\ j = Marshal(w)

\* The inductive invariant: what each stage has made of the document.
Stages ==
    /\ pc \in {"parse", "load", "provision", "validate", "running", "rejected"}
    /\ pc = "parse" => FileRead(given, lw)
    /\ pc \in {"load", "provision", "validate", "running"} => Document(given, json)
    /\ pc \in {"provision", "validate", "running"} => Decodes(json)
    /\ pc = "provision" => lw = FromJSON(json)
    /\ pc \in {"validate", "running"} =>
          /\ ProvisionOK(FromJSON(json))
          /\ lw = Provisioned(FromJSON(json)) /\ run = Runtime(FromJSON(json))
    /\ pc = "running" => ValidateOK(lw)
    /\ pc = "rejected" => ~WellFormed(given, json)

(***************************************************************************)
(* The kinds of directives.                                                *)
(***************************************************************************)

\* The numbers are Provision's defaults, which are positive.
LEMMA NumbersAre ==
    /\ Numbers = {"probe_timeout", "idle_timeout", "connect_timeout", "max_concurrent",
                  "max_pending_probes", "max_streams_per_session", "max_concurrent_streams"}
    /\ \A f \in Numbers : Defaults[f] \in Int /\ Defaults[f] > 0
BY DEF Numbers, Defaults

\* A directive sets a scalar, extends a list, or is one of the three others.
LEMMA KindsDiffer ==
    /\ Scalars \cap Lists = {}
    /\ \A dir \in {"user", "outbound", "default_outbound"} : dir \notin Scalars /\ dir \notin Lists
BY NumbersAre DEF Scalars, Lists, Flags, Texts, Ports, CIDRs, Domains

(***************************************************************************)
(* One more directive: what the directives say together.                   *)
(***************************************************************************)

\* What appending does to a sequence of directives.
LEMMA AppendFacts ==
    ASSUME NEW S, NEW g \in Seq(S), NEW d \in S
    PROVE  /\ Len(g) \in Nat /\ DOMAIN g = 1 .. Len(g)
           /\ Append(g, d) \in Seq(S) /\ Append(g, d) # <<>>
           /\ DOMAIN Append(g, d) = 1 .. (Len(g) + 1)
           /\ \A i \in 1 .. Len(g) : Append(g, d)[i] = g[i]
           /\ Append(g, d)[Len(g) + 1] = d
OBVIOUS

\* The directives of a kind are those there were and perhaps the new one.
LEMMA GivenAppend ==
    ASSUME NEW g \in Seq(Directives), NEW d \in Directives, NEW dir
    PROVE  /\ Given(Append(g, d), dir) = Given(g, dir) \cup IF d.dir = dir THEN {Len(g) + 1} ELSE {}
           /\ Given(g, dir) \subseteq 1 .. Len(g)
<1>1. PICK h : h = Append(g, d)
  OBVIOUS
<1>2. /\ Len(g) \in Nat /\ DOMAIN g = 1 .. Len(g) /\ DOMAIN h = 1 .. (Len(g) + 1)
      /\ \A i \in 1 .. Len(g) : h[i] = g[i]
      /\ h[Len(g) + 1] = d
  BY <1>1, AppendFacts
<1>3. Given(g, dir) \subseteq 1 .. Len(g)
  BY <1>2 DEF Given
<1>4. ASSUME NEW i PROVE i \in Given(h, dir) <=>
                         i \in Given(g, dir) \cup IF d.dir = dir THEN {Len(g) + 1} ELSE {}
  <2>1. CASE i \in 1 .. Len(g)
    BY <1>2, <2>1 DEF Given
  <2>2. CASE i = Len(g) + 1
    BY <1>2, <2>2 DEF Given
  <2>3. CASE i \notin 1 .. (Len(g) + 1)
    BY <1>2, <2>3 DEF Given
  <2> QED
    BY <1>2, <2>1, <2>2, <2>3
<1> QED
  BY <1>1, <1>3, <1>4

\* The new directive is the last of its kind and changes no other kind.
LEMMA LastAppend ==
    ASSUME NEW g \in Seq(Directives), NEW d \in Directives, NEW dir, NEW none, HasLast(g, dir)
    PROVE  /\ LastGiven(Append(g, d), dir, none) =
                 IF d.dir = dir THEN d.args[1] ELSE LastGiven(g, dir, none)
           /\ HasLast(Append(g, d), dir)
<1>1. PICK h : h = Append(g, d)
  OBVIOUS
<1>2. /\ Len(g) \in Nat
      /\ \A i \in 1 .. Len(g) : h[i] = g[i]
      /\ h[Len(g) + 1] = d
  BY <1>1, AppendFacts
<1>3. /\ Given(h, dir) = Given(g, dir) \cup IF d.dir = dir THEN {Len(g) + 1} ELSE {}
      /\ Given(g, dir) \subseteq 1 .. Len(g)
  BY <1>1, GivenAppend
<1>4. CASE d.dir = dir
  <2>1. /\ Len(g) + 1 \in Given(h, dir)
        /\ \A k \in Given(h, dir) : k <= Len(g) + 1
        /\ \A i \in Given(h, dir) : (\A k \in Given(h, dir) : k <= i) => i = Len(g) + 1
    BY <1>2, <1>3, <1>4
  <2>2. (CHOOSE i \in Given(h, dir) : \A k \in Given(h, dir) : k <= i) = Len(g) + 1
    BY <2>1
  <2>3. LastGiven(h, dir, none) = h[Len(g) + 1].args[1]
    BY <2>1, <2>2 DEF LastGiven
  <2> QED
    BY <1>1, <1>2, <1>4, <2>1, <2>3 DEF HasLast
<1>5. CASE d.dir # dir
  <2>1. Given(h, dir) = Given(g, dir)
    BY <1>3, <1>5
  <2>2. CASE Given(g, dir) = {}
    BY <1>1, <1>5, <2>1, <2>2 DEF LastGiven, HasLast
  <2>3. CASE Given(g, dir) # {}
    <3>1. PICK c : c = CHOOSE i \in Given(g, dir) : \A k \in Given(g, dir) : k <= i
      OBVIOUS
    <3>2. c \in Given(g, dir)
      BY <2>3, <3>1 DEF HasLast
    <3>3. LastGiven(h, dir, none) = h[c].args[1] /\ LastGiven(g, dir, none) = g[c].args[1]
      BY <2>1, <2>3, <3>1 DEF LastGiven
    <3>4. h[c] = g[c]
      BY <1>2, <1>3, <3>2
    <3> QED
      BY <1>1, <1>5, <2>1, <3>3, <3>4 DEF HasLast
  <2> QED
    BY <2>2, <2>3
<1> QED
  BY <1>4, <1>5

\* A list gains the arguments of a directive of its kind.
LEMMA ListAppend ==
    ASSUME NEW g \in Seq(Directives), NEW d \in Directives, NEW f
    PROVE  GivenList(Append(g, d), f) =
              GivenList(g, f) \cup IF d.dir = f THEN Range(d.args) ELSE {}
<1>1. PICK h : h = Append(g, d)
  OBVIOUS
<1>2. /\ Len(g) \in Nat
      /\ \A i \in 1 .. Len(g) : h[i] = g[i]
      /\ h[Len(g) + 1] = d
  BY <1>1, AppendFacts
<1>3. /\ Given(h, f) = Given(g, f) \cup IF d.dir = f THEN {Len(g) + 1} ELSE {}
      /\ Given(g, f) \subseteq 1 .. Len(g)
  BY <1>1, GivenAppend
<1>4. \A i \in Given(g, f) : h[i] = g[i]
  BY <1>2, <1>3
<1>5. ASSUME NEW v PROVE v \in GivenList(h, f) <=>
                         v \in GivenList(g, f) \cup IF d.dir = f THEN Range(d.args) ELSE {}
  <2>1. v \in GivenList(h, f) <=> \E i \in Given(h, f) : v \in Range(h[i].args)
    BY DEF GivenList
  <2>2. v \in GivenList(g, f) <=> \E i \in Given(g, f) : v \in Range(g[i].args)
    BY DEF GivenList
  <2>3. CASE d.dir = f
    BY <1>2, <1>3, <1>4, <2>1, <2>2, <2>3
  <2>4. CASE d.dir # f
    BY <1>3, <1>4, <2>1, <2>2, <2>4
  <2> QED
    BY <2>3, <2>4
<1> QED
  BY <1>1, <1>5

\* One more user directive is one more user.
LEMMA UsersAppend ==
    ASSUME NEW g \in Seq(Directives), NEW d \in Directives,
           NEW users \in Seq(DirectiveUsers), SameUsers(users, GivenUsers(g))
    PROVE  SameUsers(IF d.dir = "user" THEN Append(users, UserFromArgs(d)) ELSE users,
                     GivenUsers(Append(g, d)))
<1>1. PICK h : h = Append(g, d)
  OBVIOUS
<1>2. /\ Len(g) \in Nat
      /\ \A i \in 1 .. Len(g) : h[i] = g[i]
      /\ h[Len(g) + 1] = d
  BY <1>1, AppendFacts
<1>3. /\ Given(h, "user") = Given(g, "user") \cup IF d.dir = "user" THEN {Len(g) + 1} ELSE {}
      /\ Given(g, "user") \subseteq 1 .. Len(g)
  BY <1>1, GivenAppend
<1>4. \A i \in Given(g, "user") : h[i] = g[i]
  BY <1>2, <1>3
<1>5. CASE d.dir # "user"
  <2>1. GivenUsers(h) = GivenUsers(g)
    BY <1>3, <1>4, <1>5 DEF GivenUsers
  <2> QED
    BY <1>1, <1>5, <2>1
<1>6. CASE d.dir = "user"
  <2>1. PICK u : u = UserFromArgs(d)
    OBVIOUS
  <2>2. PICK more : more = Append(users, u)
    OBVIOUS
  <2>3. u \in DirectiveUsers
    BY <2>1 DEF DirectiveUsers
  <2>4. /\ Len(users) \in Nat /\ DOMAIN users = 1 .. Len(users)
        /\ DOMAIN more = 1 .. (Len(users) + 1)
        /\ \A i \in 1 .. Len(users) : more[i] = users[i]
        /\ more[Len(users) + 1] = u
    BY <2>2, <2>3, AppendFacts
  <2>5. PICK old : old = GivenUsers(g)
    OBVIOUS
  <2>6. PICK new : new = GivenUsers(h)
    OBVIOUS
  <2>7. /\ DOMAIN old = Given(g, "user") /\ DOMAIN new = DOMAIN old \cup {Len(g) + 1}
        /\ Len(g) + 1 \notin DOMAIN old
        /\ \A i \in DOMAIN old : new[i] = old[i]
        /\ new[Len(g) + 1] = u
    <3>1. DOMAIN old = Given(g, "user") /\ DOMAIN new = Given(h, "user")
      BY <2>5, <2>6 DEF GivenUsers
    <3>2. \A i \in DOMAIN old : old[i] = UserFromArgs(g[i])
      BY <2>5, <3>1 DEF GivenUsers
    <3>3. \A i \in DOMAIN new : new[i] = UserFromArgs(h[i])
      BY <2>6, <3>1 DEF GivenUsers
    <3> QED
      BY <1>2, <1>3, <1>4, <1>6, <2>1, <3>1, <3>2, <3>3
  <2>8. Range(more) = Range(users) \cup {u}
    BY <2>4 DEF Range
  <2>9. Range(new) = Range(old) \cup {u}
    BY <2>7 DEF Range
  <2>10. Distinct(more) <=>
           Distinct(users) /\ \A v \in Range(users) : v.name # u.name /\ v.password # u.password
    BY <2>4 DEF Distinct, Range
  <2>11. Distinct(new) <=>
           Distinct(old) /\ \A v \in Range(old) : v.name # u.name /\ v.password # u.password
    BY <2>7 DEF Distinct, Range
  <2>12. Range(users) = Range(old) /\ (Distinct(users) <=> Distinct(old))
    BY <2>5 DEF SameUsers
  <2>13. SameUsers(more, new)
    BY <2>8, <2>9, <2>10, <2>11, <2>12 DEF SameUsers
  <2> QED
    BY <1>1, <1>6, <2>1, <2>2, <2>6, <2>13
<1> QED
  BY <1>5, <1>6

\* An instance is known by its name and its module.
LEMMA LoadedParts == \A n, mod : Loaded(n, mod).name = n /\ Loaded(n, mod).module = mod
BY DEF Loaded

\* One more outbound directive declares one more outbound.
LEMMA OutboundsAppend ==
    ASSUME NEW g \in Seq(Directives), NEW d \in Directives
    PROVE  GivenOutbounds(Append(g, d)) =
              GivenOutbounds(g) \cup IF d.dir = "outbound" THEN {Instance(d)} ELSE {}
<1>1. PICK h : h = Append(g, d)
  OBVIOUS
<1>2. /\ Len(g) \in Nat
      /\ \A i \in 1 .. Len(g) : h[i] = g[i]
      /\ h[Len(g) + 1] = d
  BY <1>1, AppendFacts
<1>3. /\ Given(h, "outbound") =
            Given(g, "outbound") \cup IF d.dir = "outbound" THEN {Len(g) + 1} ELSE {}
      /\ Given(g, "outbound") \subseteq 1 .. Len(g)
  BY <1>1, GivenAppend
<1>4. \A i \in Given(g, "outbound") : h[i] = g[i]
  BY <1>2, <1>3
<1> QED
  BY <1>1, <1>2, <1>3, <1>4 DEF GivenOutbounds

\* One argument is not two.
LEMMA OneIsNotTwo == ASSUME NEW n, n = 1 PROVE n # 2
OBVIOUS

\* An outbound directive has one of its two forms.
LEMMA Forms ==
    ASSUME NEW d
    PROVE  /\ ~(Single(d) /\ Named(d))
           /\ Single(d) => d.dir = "outbound"
           /\ Named(d) => d.dir = "outbound"
BY OneIsNotTwo, Zenon DEF Single, Named

\* What ArgsOK says of the directives that may be given once.
LEMMA OnceArgs ==
    ASSUME NEW d, ArgsOK(d)
    PROVE  /\ d.dir = "outbound" => Single(d) \/ Named(d)
           /\ Single(d) => d.args[1] \in Modules /\ Instance(d).name = ""
           /\ Named(d) => /\ d.args[1] # "" /\ d.args[2] \in Modules
                          /\ Instance(d).name = d.args[1]
           /\ d.dir = "default_outbound" => d.args[1] # ""
<1>1. CASE d.dir = "outbound"
  <2>1. (Single(d) /\ d.args[1] \in Modules) \/
        (Named(d) /\ d.args[1] # "" /\ d.args[2] \in Modules)
    BY <1>1, KindsDiffer DEF ArgsOK, Texts, Ports, Scalars, Lists
  <2>2. Single(d) => Instance(d).name = ""
    BY Forms, LoadedParts DEF Instance
  <2>3. Named(d) => Instance(d).name = d.args[1]
    BY LoadedParts DEF Instance
  <2> QED
    BY <1>1, <2>1, <2>2, <2>3, Forms
<1>2. CASE d.dir = "default_outbound"
  BY <1>2, KindsDiffer, Forms DEF ArgsOK, Texts, Ports, Scalars, Lists
<1>3. CASE d.dir \notin {"outbound", "default_outbound"}
  BY <1>3, Forms
<1> QED
  BY <1>1, <1>2, <1>3

\* The new directive declares the same in the wrapper.
LEMMA DeclaredApplied ==
    ASSUME NEW w, NEW d \in Directives, FileTypes(w), ArgsOK(d), Once(w, d)
    PROVE  Declared(Applied(w, d)) =
              Declared(w) \cup IF d.dir = "outbound" THEN {Instance(d)} ELSE {}
<1>1. PICK x : x = Applied(w, d)
  OBVIOUS
<1>2. /\ x.outboundRaw = IF Single(d) THEN d.args[1] ELSE w.outboundRaw
      /\ x.outboundsRaw = IF Named(d)
                          THEN [n \in DOMAIN w.outboundsRaw \cup {d.args[1]} |->
                                   IF n = d.args[1] THEN d.args[2] ELSE w.outboundsRaw[n]]
                          ELSE w.outboundsRaw
  BY <1>1 DEF Applied
<1>3. CASE d.dir # "outbound"
  <2>1. x.outboundRaw = w.outboundRaw /\ x.outboundsRaw = w.outboundsRaw
    BY <1>2, <1>3, Forms
  <2>2. Declared(x) = Declared(w)
    BY <2>1 DEF Declared, hasSingleOutbound
  <2> QED
    BY <1>1, <1>3, <2>2
<1>4. CASE Single(d)
  <2>1. w.outboundRaw = "" /\ d.args[1] \in Modules
    BY <1>4, OnceArgs DEF Once
  <2>2. x.outboundRaw = d.args[1] /\ x.outboundsRaw = w.outboundsRaw
    BY <1>2, <1>4, Forms
  <2>3. hasSingleOutbound(x) /\ ~hasSingleOutbound(w)
    BY <2>1, <2>2, ModulesAssumption DEF hasSingleOutbound
  <2>4. Instance(d) = Loaded("", d.args[1])
    BY <1>4, Forms DEF Instance
  <2>5. Declared(x) = Declared(w) \cup {Instance(d)}
    BY <2>2, <2>3, <2>4 DEF Declared
  <2> QED
    BY <1>1, <1>4, <2>5, Forms
<1>5. CASE Named(d)
  <2>1. d.args[1] \notin DOMAIN w.outboundsRaw
    BY <1>5 DEF Once
  <2>2. /\ x.outboundRaw = w.outboundRaw
        /\ DOMAIN x.outboundsRaw = DOMAIN w.outboundsRaw \cup {d.args[1]}
        /\ x.outboundsRaw[d.args[1]] = d.args[2]
        /\ \A n \in DOMAIN w.outboundsRaw : x.outboundsRaw[n] = w.outboundsRaw[n]
    BY <1>2, <1>5, <2>1, Forms
  <2>3. hasSingleOutbound(x) <=> hasSingleOutbound(w)
    BY <2>2 DEF hasSingleOutbound
  <2>4. Instance(d) = Loaded(d.args[1], d.args[2])
    BY <1>5 DEF Instance
  <2>5. {Loaded(n, x.outboundsRaw[n]) : n \in DOMAIN x.outboundsRaw} =
          {Loaded(n, w.outboundsRaw[n]) : n \in DOMAIN w.outboundsRaw} \cup {Instance(d)}
    BY <2>2, <2>4
  <2>6. Declared(x) = Declared(w) \cup {Instance(d)}
    BY <2>2, <2>3, <2>5 DEF Declared
  <2> QED
    BY <1>1, <1>5, <2>6, Forms
<1> QED
  BY <1>3, <1>4, <1>5, OnceArgs

\* The names of the instances that a wrapper declares.
LEMMA DeclaredNames ==
    ASSUME NEW w, FileTypes(w)
    PROVE  /\ w.outboundRaw # "" <=> \E o \in Declared(w) : o.name = ""
           /\ \A n : n # "" => (n \in DOMAIN w.outboundsRaw <=> \E o \in Declared(w) : o.name = n)
<1>1. w.outboundRaw # "" <=> hasSingleOutbound(w)
  BY ModulesAssumption DEF FileTypes, hasSingleOutbound
<1>2. "" \notin DOMAIN w.outboundsRaw
  BY DEF FileTypes
<1>3. \A o : o \in Declared(w) <=>
               \/ \E n \in DOMAIN w.outboundsRaw : o = Loaded(n, w.outboundsRaw[n])
               \/ hasSingleOutbound(w) /\ o = Loaded("", w.outboundRaw)
  BY DEF Declared
<1>4. ASSUME NEW o \in Declared(w)
      PROVE  \/ o.name \in DOMAIN w.outboundsRaw
             \/ hasSingleOutbound(w) /\ o.name = ""
  <2>1. CASE \E n \in DOMAIN w.outboundsRaw : o = Loaded(n, w.outboundsRaw[n])
    <3>1. o.name \in DOMAIN w.outboundsRaw
      BY <2>1, LoadedParts
    <3> QED
      BY <3>1
  <2>2. CASE hasSingleOutbound(w) /\ o = Loaded("", w.outboundRaw)
    <3>1. o.name = ""
      BY <2>2, LoadedParts
    <3> QED
      BY <2>2, <3>1
  <2> QED
    BY <1>3, <2>1, <2>2
<1>5. hasSingleOutbound(w) => \E o \in Declared(w) : o.name = ""
  BY <1>3, LoadedParts
<1>6. ASSUME NEW n \in DOMAIN w.outboundsRaw PROVE \E o \in Declared(w) : o.name = n
  <2>1. Loaded(n, w.outboundsRaw[n]) \in Declared(w)
    BY <1>3
  <2>2. Loaded(n, w.outboundsRaw[n]).name = n
    BY LoadedParts
  <2> QED
    BY <2>1, <2>2
<1> QED
  BY <1>1, <1>2, <1>4, <1>5, <1>6

\* Once(w, d) finds exactly the directives that may not be repeated.
LEMMA OnceFindsClash ==
    ASSUME NEW g, NEW w, NEW d, FileRead(g, w), ArgsOK(d)
    PROVE  Once(w, d) <=> \A i \in DOMAIN g : ~Clash(g[i], d)
<1>1. /\ \A i \in DOMAIN g : ArgsOK(g[i])
      /\ FileTypes(w) /\ HasLast(g, "default_outbound")
      /\ Declared(w) = GivenOutbounds(g)
      /\ w.defaultOutbound = LastGiven(g, "default_outbound", "")
  BY DEF FileRead, FileReads, DirectivesOK
<1>2. \A i \in DOMAIN g : i \in Given(g, "outbound") <=> Single(g[i]) \/ Named(g[i])
  BY <1>1, OnceArgs, Forms DEF Given
<1>3. Given(g, "outbound") \subseteq DOMAIN g
  BY DEF Given
<1>4. CASE Single(d)
  <2>1. Once(w, d) <=> w.outboundRaw = ""
    BY <1>4, Forms DEF Once
  <2>2. w.outboundRaw # "" <=> \E o \in GivenOutbounds(g) : o.name = ""
    BY <1>1, DeclaredNames
  <2>3. \A i \in DOMAIN g : Clash(g[i], d) <=> Single(g[i])
    BY <1>4, Forms DEF Clash
  <2>4. \A i \in Given(g, "outbound") : Instance(g[i]).name = "" <=> Single(g[i])
    BY <1>1, <1>2, <1>3, OnceArgs, Forms
  <2> QED
    BY <1>2, <1>3, <2>1, <2>2, <2>3, <2>4 DEF GivenOutbounds
<1>5. CASE Named(d)
  <2>1. d.args[1] # ""
    BY <1>5, OnceArgs
  <2>2. Once(w, d) <=> d.args[1] \notin DOMAIN w.outboundsRaw
    BY <1>5, Forms DEF Once
  <2>3. d.args[1] \in DOMAIN w.outboundsRaw <=> \E o \in GivenOutbounds(g) : o.name = d.args[1]
    <3>1. PICK n : n = d.args[1]
      OBVIOUS
    <3>2. n \in DOMAIN w.outboundsRaw <=> \E o \in Declared(w) : o.name = n
      BY <1>1, <2>1, <3>1, DeclaredNames
    <3> QED
      BY <1>1, <3>1, <3>2
  <2>4. \A i \in DOMAIN g : Clash(g[i], d) <=> Named(g[i]) /\ g[i].args[1] = d.args[1]
    BY <1>5, Forms DEF Clash
  <2>5. \A i \in Given(g, "outbound") :
           Instance(g[i]).name = d.args[1] <=> Named(g[i]) /\ g[i].args[1] = d.args[1]
    BY <1>1, <1>2, <1>3, <2>1, OnceArgs, Forms
  <2> QED
    BY <1>2, <1>3, <2>2, <2>3, <2>4, <2>5 DEF GivenOutbounds
<1>6. CASE d.dir = "default_outbound"
  <2>1. Once(w, d) <=> w.defaultOutbound = ""
    BY <1>6, Forms DEF Once
  <2>2. \A i \in DOMAIN g : Clash(g[i], d) <=> i \in Given(g, "default_outbound")
    BY <1>6, Forms DEF Clash, Given
  <2>3. Given(g, "default_outbound") \subseteq DOMAIN g
    BY DEF Given
  <2>4. w.defaultOutbound = "" <=> Given(g, "default_outbound") = {}
    <3>1. CASE Given(g, "default_outbound") = {}
      BY <1>1, <3>1 DEF LastGiven
    <3>2. CASE Given(g, "default_outbound") # {}
      <4>1. PICK c : c = CHOOSE i \in Given(g, "default_outbound") :
                            \A k \in Given(g, "default_outbound") : k <= i
        OBVIOUS
      <4>2. c \in Given(g, "default_outbound")
        BY <1>1, <3>2, <4>1 DEF HasLast
      <4>3. w.defaultOutbound = g[c].args[1]
        BY <1>1, <3>2, <4>1 DEF LastGiven
      <4>4. g[c].args[1] # ""
        BY <1>1, <4>2, OnceArgs DEF Given
      <4> QED
        BY <3>2, <4>3, <4>4
    <3> QED
      BY <3>1, <3>2
  <2> QED
    BY <2>1, <2>2, <2>3, <2>4
<1>7. CASE d.dir \notin {"outbound", "default_outbound"}
  BY <1>7, Forms DEF Once, Clash
<1> QED
  BY <1>4, <1>5, <1>6, <1>7, OnceArgs

\* The directives stay acceptable exactly if the parser accepts the new one.
LEMMA DirectivesAppend ==
    ASSUME NEW g, NEW w, NEW d \in Directives, FileRead(g, w)
    PROVE  DirectivesOK(Append(g, d)) <=> ArgsOK(d) /\ Once(w, d)
<1>1. g \in Seq(Directives) /\ DirectivesOK(g)
  BY DEF FileRead
<1>2. PICK h : h = Append(g, d)
  OBVIOUS
<1>3. /\ Len(g) \in Nat /\ DOMAIN g = 1 .. Len(g) /\ DOMAIN h = 1 .. (Len(g) + 1)
      /\ \A i \in 1 .. Len(g) : h[i] = g[i]
      /\ h[Len(g) + 1] = d
  BY <1>1, <1>2, AppendFacts
<1>4. \A i \in DOMAIN h : (i \in DOMAIN g /\ h[i] = g[i]) \/ (i = Len(g) + 1 /\ h[i] = d)
  BY <1>3
<1>5. \A i \in DOMAIN g : i \in DOMAIN h /\ h[i] = g[i] /\ i # Len(g) + 1
  BY <1>3
<1>6. Len(g) + 1 \in DOMAIN h
  BY <1>3
<1>7. \A e : Clash(e, d) <=> Clash(d, e)
  BY DEF Clash
<1>8. DirectivesOK(h) <=> ArgsOK(d) /\ \A i \in DOMAIN g : ~Clash(g[i], d)
  BY <1>1, <1>3, <1>4, <1>5, <1>6, <1>7 DEF DirectivesOK
<1> QED
  BY <1>2, <1>8, OnceFindsClash

\* The value of a scalar directive that its parser accepts.
LEMMA ScalarArgs ==
    ASSUME NEW d \in Directives, ArgsOK(d), d.dir \in Scalars
    PROVE  d.args[1] # Null /\ (d.dir \in Numbers => d.args[1] \in Int)
<1>1. Len(d.args) = 1
  BY KindsDiffer, Forms, NumbersAre DEF ArgsOK, Scalars, Ports, Lists
<1>2. d.args[1] \in Range(d.args)
  <2>1. 1 \in DOMAIN d.args
    BY <1>1, DirectivesAssumption
  <2> QED
    BY <2>1 DEF Range
<1>3. d.args[1] # Null
  BY <1>2, DirectivesAssumption
<1>4. ASSUME d.dir \in Numbers PROVE d.args[1] \in Int
  <2>1. d.args[1] # Malformed
    BY <1>4, KindsDiffer, Forms, NumbersAre
       DEF ArgsOK, Scalars, Flags, Texts, Ports, Lists
  <2>2. d.args[1] = Malformed \/ d.args[1] \in Int
    BY <1>2, <1>4, DirectivesAssumption
  <2> QED
    BY <2>1, <2>2
<1> QED
  BY <1>3, <1>4

\* The types of a wrapper survive the next directive.
LEMMA TypesApplied ==
    ASSUME NEW w, NEW d \in Directives, FileTypes(w), ArgsOK(d)
    PROVE  FileTypes(Applied(w, d))
<1>1. PICK x : x = Applied(w, d)
  OBVIOUS
<1>2. \A f \in Scalars : x.scalar[f] = IF f = d.dir THEN d.args[1] ELSE w.scalar[f]
  BY <1>1 DEF Applied
<1>3. \A f \in Scalars : x.scalar[f] # Null
  BY <1>2, ScalarArgs DEF FileTypes
<1>4. \A f \in Numbers : x.scalar[f] \in Int
  <2>1. Numbers \subseteq Scalars
    BY DEF Scalars
  <2> QED
    BY <1>2, <2>1, ScalarArgs DEF FileTypes
<1>5. DOMAIN x.lists = Lists
  BY <1>1 DEF Applied
<1>6. x.users \in Seq(DirectiveUsers)
  <2>1. UserFromArgs(d) \in DirectiveUsers
    BY DEF DirectiveUsers
  <2>2. w.users \in Seq(DirectiveUsers)
    BY DEF FileTypes
  <2>3. Append(w.users, UserFromArgs(d)) \in Seq(DirectiveUsers)
    BY <2>1, <2>2, AppendFacts
  <2>4. x.users = IF d.dir = "user" THEN Append(w.users, UserFromArgs(d)) ELSE w.users
    BY <1>1 DEF Applied
  <2> QED
    BY <2>2, <2>3, <2>4
<1>7. x.outboundRaw \in Modules \cup {""}
  <2>1. x.outboundRaw = IF Single(d) THEN d.args[1] ELSE w.outboundRaw
    BY <1>1 DEF Applied
  <2> QED
    BY <2>1, OnceArgs DEF FileTypes
<1>8. "" \notin DOMAIN x.outboundsRaw
  <2>1. CASE Named(d)
    <3>1. DOMAIN x.outboundsRaw = DOMAIN w.outboundsRaw \cup {d.args[1]}
      BY <1>1, <2>1 DEF Applied
    <3>2. d.args[1] # ""
      BY <2>1, OnceArgs
    <3> QED
      BY <3>1, <3>2 DEF FileTypes
  <2>2. CASE ~Named(d)
    <3>1. x.outboundsRaw = w.outboundsRaw
      BY <1>1, <2>2 DEF Applied
    <3> QED
      BY <3>1 DEF FileTypes
  <2> QED
    BY <2>1, <2>2
<1> QED
  BY <1>1, <1>3, <1>4, <1>5, <1>6, <1>7, <1>8 DEF FileTypes

\* A new wrapper says what an empty block says.
LEMMA NothingRead == FileRead(<<>>, NewWrapper)
<1>1. /\ \A f \in Scalars : NewWrapper.scalar[f] = Zero(f)
      /\ \A f \in Lists : NewWrapper.lists[f] = {}
      /\ DOMAIN NewWrapper.lists = Lists
      /\ NewWrapper.users = <<>> /\ NewWrapper.outboundRaw = ""
      /\ DOMAIN NewWrapper.outboundsRaw = {} /\ NewWrapper.defaultOutbound = ""
  BY DEF NewWrapper
<1>2. \A dir : Given(<<>>, dir) = {}
  BY DEF Given
<1>3. \A dir, none : LastGiven(<<>>, dir, none) = none
  BY <1>2 DEF LastGiven
<1>4. \A dir : GivenList(<<>>, dir) = {}
  BY <1>2 DEF GivenList
<1>5. SameUsers(NewWrapper.users, GivenUsers(<<>>))
  <2>1. DOMAIN GivenUsers(<<>>) = {} /\ DOMAIN NewWrapper.users = {}
    <3>1. DOMAIN GivenUsers(<<>>) = {}
      BY <1>2 DEF GivenUsers
    <3>2. DOMAIN NewWrapper.users = {}
      BY DEF NewWrapper
    <3> QED
      BY <3>1, <3>2
  <2>2. ASSUME NEW s, DOMAIN s = {} PROVE Range(s) = {} /\ Distinct(s)
    BY <2>2 DEF Range, Distinct
  <2>3. /\ Range(GivenUsers(<<>>)) = {} /\ Distinct(GivenUsers(<<>>))
        /\ Range(NewWrapper.users) = {} /\ Distinct(NewWrapper.users)
    BY <2>1, <2>2
  <2> QED
    BY <2>3 DEF SameUsers
<1>6. Declared(NewWrapper) = {} /\ GivenOutbounds(<<>>) = {}
  BY <1>1, <1>2 DEF Declared, hasSingleOutbound, GivenOutbounds
<1>7. FileReads(<<>>, NewWrapper)
  BY <1>1, <1>3, <1>4, <1>5, <1>6 DEF FileReads
<1>8. FileTypes(NewWrapper)
  <2>1. \A f \in Scalars : NewWrapper.scalar[f] # Null
    BY <1>1, MarksAssumption
  <2>2. \A f \in Numbers : NewWrapper.scalar[f] \in Int
    <3>1. \A f \in Numbers : f \in Scalars /\ Zero(f) = 0
      BY NumbersAre DEF Scalars, Zero, Flags, Texts
    <3>2. ASSUME NEW f \in Numbers PROVE NewWrapper.scalar[f] = 0
      BY <1>1, <3>1
    <3> QED
      BY <3>2
  <2>3. NewWrapper.users \in Seq(DirectiveUsers)
    BY DEF NewWrapper
  <2>4. NewWrapper.outboundRaw \in Modules \cup {""} /\ "" \notin DOMAIN NewWrapper.outboundsRaw
    BY <1>1
  <2> QED
    BY <1>1, <2>1, <2>2, <2>3, <2>4, Zenon DEF FileTypes
<1>9. <<>> \in Seq(Directives) /\ DirectivesOK(<<>>)
  BY DEF DirectivesOK
<1>10. \A f : HasLast(<<>>, f)
  BY <1>2 DEF HasLast
<1> QED
  BY <1>7, <1>8, <1>9, <1>10 DEF FileRead

\* A directive that the parser accepts keeps the wrapper in step.
LEMMA FileStep ==
    ASSUME NEW g, NEW w, NEW d \in Directives, FileRead(g, w), ArgsOK(d), Once(w, d)
    PROVE  FileRead(Append(g, d), Applied(w, d))
<1>1. /\ g \in Seq(Directives) /\ FileTypes(w) /\ FileReads(g, w)
      /\ \A f \in Scalars \cup {"default_outbound"} : HasLast(g, f)
  BY DEF FileRead
<1>2. PICK h : h = Append(g, d)
  OBVIOUS
<1>3. PICK x : x = Applied(w, d)
  OBVIOUS
<1>4. h \in Seq(Directives)
  BY <1>1, <1>2, AppendFacts
<1>5. DirectivesOK(h)
  BY <1>2, DirectivesAppend
<1>6. ASSUME NEW f \in Scalars \cup {"default_outbound"}, NEW none
      PROVE  /\ HasLast(h, f)
             /\ LastGiven(h, f, none) = IF d.dir = f THEN d.args[1] ELSE LastGiven(g, f, none)
  BY <1>1, <1>2, LastAppend
<1>7. FileTypes(x)
  BY <1>1, <1>3, TypesApplied
<1>8. \A f \in Scalars : x.scalar[f] = LastGiven(h, f, Zero(f))
  <2> SUFFICES ASSUME NEW f \in Scalars PROVE x.scalar[f] = LastGiven(h, f, Zero(f))
    OBVIOUS
  <2>1. x.scalar[f] = IF f = d.dir THEN d.args[1] ELSE w.scalar[f]
    BY <1>3 DEF Applied
  <2>2. w.scalar[f] = LastGiven(g, f, Zero(f))
    BY <1>1 DEF FileReads
  <2> QED
    BY <1>6, <2>1, <2>2
<1>9. \A f \in Lists : x.lists[f] = GivenList(h, f)
  <2> SUFFICES ASSUME NEW f \in Lists PROVE x.lists[f] = GivenList(h, f)
    OBVIOUS
  <2>1. x.lists[f] = IF f = d.dir THEN w.lists[f] \cup Range(d.args) ELSE w.lists[f]
    BY <1>3 DEF Applied
  <2>2. w.lists[f] = GivenList(g, f)
    BY <1>1 DEF FileReads
  <2>3. GivenList(h, f) = GivenList(g, f) \cup IF d.dir = f THEN Range(d.args) ELSE {}
    BY <1>1, <1>2, ListAppend
  <2> QED
    BY <2>1, <2>2, <2>3
<1>10. SameUsers(x.users, GivenUsers(h))
  <2>1. x.users = IF d.dir = "user" THEN Append(w.users, UserFromArgs(d)) ELSE w.users
    BY <1>3 DEF Applied
  <2>2. w.users \in Seq(DirectiveUsers) /\ SameUsers(w.users, GivenUsers(g))
    BY <1>1 DEF FileTypes, FileReads
  <2> QED
    BY <1>1, <1>2, <2>1, <2>2, UsersAppend
<1>11. Declared(x) = GivenOutbounds(h)
  <2>1. Declared(w) = GivenOutbounds(g)
    BY <1>1 DEF FileReads
  <2>2. Declared(x) = Declared(w) \cup IF d.dir = "outbound" THEN {Instance(d)} ELSE {}
    BY <1>1, <1>3, DeclaredApplied
  <2>3. GivenOutbounds(h) = GivenOutbounds(g) \cup IF d.dir = "outbound" THEN {Instance(d)} ELSE {}
    BY <1>1, <1>2, OutboundsAppend
  <2> QED
    BY <2>1, <2>2, <2>3
<1>12. x.defaultOutbound = LastGiven(h, "default_outbound", "")
  <2>1. x.defaultOutbound = IF d.dir = "default_outbound" THEN d.args[1] ELSE w.defaultOutbound
    BY <1>3 DEF Applied
  <2>2. w.defaultOutbound = LastGiven(g, "default_outbound", "")
    BY <1>1 DEF FileReads
  <2> QED
    BY <1>6, <2>1, <2>2
<1>13. FileReads(h, x)
  BY <1>8, <1>9, <1>10, <1>11, <1>12 DEF FileReads
<1> QED
  BY <1>2, <1>3, <1>4, <1>5, <1>6, <1>7, <1>13 DEF FileRead

(***************************************************************************)
(* What is decoded from the JSON says what was written.                    *)
(***************************************************************************)

\* The wrapper w, before Provision, says what was written.  (The value of
\* fallback does not survive the adapter.)
Reads(w, g, j) ==
    /\ \A f \in Scalars \ {"fallback"} : w.scalar[f] = Written(g, j, f)
    /\ \A f \in Numbers : w.scalar[f] \in Int \/ w.scalar[f] = Malformed
    /\ \A f \in Lists : w.lists[f] = WrittenList(g, j, f)
    /\ SameUsers(w.users, WrittenUsers(g, j)) /\ DOMAIN w.users \subseteq Int
    /\ Declared(w) = WrittenOutbounds(g, j)
    /\ "" \in DOMAIN w.outboundsRaw <=> g = <<>> /\ "" \in DOMAIN j.outbounds
    /\ w.defaultOutbound = WrittenDefault(g, j)

\* The settings of a decoded wrapper ...
LEMMA FromJSONScalars ==
    ASSUME NEW j, NEW f \in Scalars
    PROVE  FromJSON(j).scalar[f] = IF f \in DOMAIN j.scalar THEN Value(f, j.scalar[f])
                                   ELSE IF f = "fallback" THEN TRUE ELSE Zero(f)
BY DEF FromJSON

\* ... its lists ...
LEMMA FromJSONLists ==
    ASSUME NEW j, NEW f \in Lists
    PROVE  FromJSON(j).lists[f] = IF f \in DOMAIN j.lists THEN j.lists[f] ELSE {}
BY DEF FromJSON

\* ... and the other fields.
LEMMA FromJSONFields ==
    ASSUME NEW j
    PROVE  /\ FromJSON(j).users = [i \in DOMAIN j.users |-> UserFromJSON(j.users[i])]
           /\ FromJSON(j).outboundRaw = j.outbound
           /\ FromJSON(j).outboundsRaw = j.outbounds
           /\ FromJSON(j).defaultOutbound = j.defaultOutbound
BY DEF FromJSON

\* The fields of the adapter's JSON.
LEMMA MarshalFields ==
    ASSUME NEW w
    PROVE  /\ DOMAIN Marshal(w).scalar = {f \in Scalars : w.scalar[f] # Zero(f)}
           /\ \A f \in DOMAIN Marshal(w).scalar : Marshal(w).scalar[f] = w.scalar[f]
           /\ Marshal(w).lists = w.lists /\ Marshal(w).users = w.users
           /\ Marshal(w).outbound = w.outboundRaw /\ Marshal(w).outbounds = w.outboundsRaw
           /\ Marshal(w).defaultOutbound = w.defaultOutbound
BY DEF Marshal

\* A user of a Caddyfile comes back from the JSON as it was.
LEMMA UserRoundTrip ==
    ASSUME NEW d PROVE UserFromJSON(UserFromArgs(d)) = UserFromArgs(d)
BY MarksAssumption DEF UserFromJSON, UserFromArgs

\* The types of the numbers and of the users, whichever way the JSON came about.
LEMMA DocumentTypes ==
    ASSUME NEW g, NEW j, Document(g, j)
    PROVE  /\ DOMAIN j.scalar \subseteq Scalars
           /\ DOMAIN j.lists \subseteq Lists
           /\ \A f \in DOMAIN j.scalar \cap Numbers :
                 j.scalar[f] = Malformed \/ j.scalar[f] = Null \/ j.scalar[f] \in Int
           /\ DOMAIN j.users \subseteq Int
<1>1. CASE j \in JSONConfigs
  <2>1. DOMAIN j.users = 1 .. Len(j.users) /\ Len(j.users) \in Nat
    BY <1>1, JSONAssumption
  <2>2. DOMAIN j.users \subseteq Int
    BY <2>1
  <2> QED
    BY <1>1, <2>2, JSONAssumption
<1>2. ASSUME NEW w, FileRead(g, w), j = Marshal(w)
      PROVE  /\ DOMAIN j.scalar \subseteq Scalars
             /\ DOMAIN j.lists \subseteq Lists
             /\ \A f \in DOMAIN j.scalar \cap Numbers :
                   j.scalar[f] = Malformed \/ j.scalar[f] = Null \/ j.scalar[f] \in Int
             /\ DOMAIN j.users \subseteq Int
  <2>1. FileTypes(w)
    BY <1>2 DEF FileRead
  <2>2. DOMAIN j.scalar \subseteq Scalars /\ \A f \in DOMAIN j.scalar : j.scalar[f] = w.scalar[f]
    BY <1>2, MarshalFields
  <2>3. DOMAIN j.lists = Lists
    BY <1>2, <2>1, MarshalFields DEF FileTypes
  <2>4. \A f \in DOMAIN j.scalar \cap Numbers : j.scalar[f] \in Int
    BY <2>1, <2>2 DEF FileTypes
  <2>5. DOMAIN j.users \subseteq Int
    <3>1. j.users \in Seq(DirectiveUsers)
      BY <1>2, <2>1, MarshalFields DEF FileTypes
    <3>2. DOMAIN j.users = 1 .. Len(j.users) /\ Len(j.users) \in Nat
      BY <3>1
    <3> QED
      BY <3>2
  <2> QED
    BY <2>2, <2>3, <2>4, <2>5
<1> QED
  BY <1>1, <1>2 DEF Document

\* The numbers of a decoded wrapper are numbers, if they are anything.
LEMMA DecodedNumbers ==
    ASSUME NEW g, NEW j, Document(g, j), NEW f \in Numbers
    PROVE  FromJSON(j).scalar[f] \in Int \/ FromJSON(j).scalar[f] = Malformed
<1>1. f \in Scalars /\ f # "fallback" /\ Zero(f) = 0
  BY NumbersAre DEF Scalars, Zero, Flags, Texts
<1>2. CASE f \in DOMAIN j.scalar
  <2>1. j.scalar[f] = Malformed \/ j.scalar[f] = Null \/ j.scalar[f] \in Int
    BY <1>2, DocumentTypes
  <2>2. FromJSON(j).scalar[f] = Value(f, j.scalar[f])
    BY <1>1, <1>2, FromJSONScalars
  <2> QED
    BY <1>1, <2>1, <2>2 DEF Value
<1>3. CASE f \notin DOMAIN j.scalar
  <2>1. FromJSON(j).scalar[f] = 0
    BY <1>1, <1>3, FromJSONScalars
  <2> QED
    BY <2>1
<1> QED
  BY <1>2, <1>3

\* JSON written by hand, or made of an empty block, is read as it stands.
LEMMA HandReads ==
    ASSUME NEW j, Document(<<>>, j) PROVE Reads(FromJSON(j), <<>>, j)
<1>1. PICK w : w = FromJSON(j)
  OBVIOUS
<1>2. \A f \in Scalars \ {"fallback"} : w.scalar[f] = Written(<<>>, j, f)
  BY <1>1, FromJSONScalars DEF Written
<1>3. \A f \in Lists : w.lists[f] = WrittenList(<<>>, j, f)
  BY <1>1, FromJSONLists DEF WrittenList
<1>4. w.users = WrittenUsers(<<>>, j)
  BY <1>1, FromJSONFields DEF WrittenUsers
<1>5. SameUsers(w.users, WrittenUsers(<<>>, j))
  BY <1>4 DEF SameUsers
<1>6. DOMAIN w.users \subseteq Int
  <2>1. DOMAIN w.users = DOMAIN j.users
    BY <1>1 DEF FromJSON
  <2> QED
    BY <2>1, DocumentTypes
<1>7. w.outboundRaw = j.outbound /\ w.outboundsRaw = j.outbounds
      /\ w.defaultOutbound = j.defaultOutbound
  BY <1>1, FromJSONFields
<1>8. Declared(w) = WrittenOutbounds(<<>>, j)
  BY <1>7 DEF Declared, WrittenOutbounds, hasSingleOutbound
<1>9. w.defaultOutbound = WrittenDefault(<<>>, j)
  BY <1>7 DEF WrittenDefault
<1>10. \A f \in Numbers : w.scalar[f] \in Int \/ w.scalar[f] = Malformed
  BY <1>1, DecodedNumbers
<1> QED
  BY <1>1, <1>2, <1>3, <1>5, <1>6, <1>7, <1>8, <1>9, <1>10 DEF Reads

\* The wrapper that was parsed comes back from the adapter's JSON, all but its
\* fallback.
LEMMA RoundTrip ==
    ASSUME NEW w, FileTypes(w)
    PROVE  /\ \A f \in Scalars \ {"fallback"} : FromJSON(Marshal(w)).scalar[f] = w.scalar[f]
           /\ \A f \in Lists : FromJSON(Marshal(w)).lists[f] = w.lists[f]
           /\ FromJSON(Marshal(w)).users = w.users
           /\ FromJSON(Marshal(w)).outboundRaw = w.outboundRaw
           /\ FromJSON(Marshal(w)).outboundsRaw = w.outboundsRaw
           /\ FromJSON(Marshal(w)).defaultOutbound = w.defaultOutbound
<1>1. PICK j : j = Marshal(w)
  OBVIOUS
<1>2. ASSUME NEW f \in Scalars \ {"fallback"} PROVE FromJSON(j).scalar[f] = w.scalar[f]
  <2>1. CASE w.scalar[f] # Zero(f)
    <3>1. f \in DOMAIN j.scalar /\ j.scalar[f] = w.scalar[f]
      BY <1>1, <2>1, MarshalFields
    <3>2. FromJSON(j).scalar[f] = Value(f, w.scalar[f])
      BY <3>1, FromJSONScalars
    <3>3. w.scalar[f] # Null
      BY DEF FileTypes
    <3> QED
      BY <3>2, <3>3 DEF Value
  <2>2. CASE w.scalar[f] = Zero(f)
    <3>1. f \notin DOMAIN j.scalar
      BY <1>1, <2>2, MarshalFields
    <3>2. f \in Scalars /\ f # "fallback"
      OBVIOUS
    <3>3. FromJSON(j).scalar[f] = Zero(f)
      BY <3>1, <3>2, FromJSONScalars
    <3> QED
      BY <2>2, <3>3
  <2> QED
    BY <2>1, <2>2
<1>3. \A f \in Lists : FromJSON(j).lists[f] = w.lists[f]
  <2>1. j.lists = w.lists /\ DOMAIN w.lists = Lists
    BY <1>1, MarshalFields DEF FileTypes
  <2> QED
    BY <2>1, FromJSONLists
<1>4. FromJSON(j).users = w.users
  <2>1. w.users \in Seq(DirectiveUsers)
    BY DEF FileTypes
  <2>2. FromJSON(j).users = [i \in DOMAIN w.users |-> UserFromJSON(w.users[i])]
    <3>1. j.users = w.users
      BY <1>1, MarshalFields
    <3>2. FromJSON(j).users = [i \in DOMAIN j.users |-> UserFromJSON(j.users[i])]
      BY FromJSONFields
    <3> QED
      BY <3>1, <3>2
  <2>3. \A i \in DOMAIN w.users : UserFromJSON(w.users[i]) = w.users[i]
    <3>1. \A i \in DOMAIN w.users : w.users[i] \in DirectiveUsers
      BY <2>1
    <3> QED
      BY <3>1, UserRoundTrip DEF DirectiveUsers
  <2>4. w.users = [i \in DOMAIN w.users |-> w.users[i]]
    BY <2>1
  <2> QED
    BY <2>2, <2>3, <2>4
<1> QED
  BY <1>1, <1>2, <1>3, <1>4, MarshalFields, FromJSONFields

\* So does a Caddyfile's, after the adapter.
LEMMA FileDocReads ==
    ASSUME NEW g, NEW v, g # <<>>, FileRead(g, v)
    PROVE  Reads(FromJSON(Marshal(v)), g, Marshal(v))
<1>1. PICK j : j = Marshal(v)
  OBVIOUS
<1>2. PICK w : w = FromJSON(j)
  OBVIOUS
<1>3. FileTypes(v) /\ FileReads(g, v)
  BY DEF FileRead
<1>4. /\ \A f \in Scalars \ {"fallback"} : w.scalar[f] = v.scalar[f]
      /\ \A f \in Lists : w.lists[f] = v.lists[f]
      /\ w.users = v.users /\ w.outboundRaw = v.outboundRaw
      /\ w.outboundsRaw = v.outboundsRaw /\ w.defaultOutbound = v.defaultOutbound
  BY <1>1, <1>2, <1>3, RoundTrip
<1>5. Document(g, j)
  BY <1>1 DEF Document
<1>6. \A f \in Scalars \ {"fallback"} : w.scalar[f] = Written(g, j, f)
  BY <1>3, <1>4 DEF Written, FileReads
<1>7. \A f \in Lists : w.lists[f] = WrittenList(g, j, f)
  BY <1>3, <1>4 DEF WrittenList, FileReads
<1>8. SameUsers(w.users, WrittenUsers(g, j))
  BY <1>3, <1>4 DEF WrittenUsers, FileReads
<1>9. DOMAIN w.users \subseteq Int
  <2>1. DOMAIN w.users = DOMAIN j.users
    BY <1>2 DEF FromJSON
  <2> QED
    BY <1>5, <2>1, DocumentTypes
<1>10. Declared(w) = WrittenOutbounds(g, j)
  <2>1. Declared(w) = Declared(v)
    BY <1>4 DEF Declared, hasSingleOutbound
  <2> QED
    BY <1>3, <2>1 DEF WrittenOutbounds, FileReads
<1>11. "" \notin DOMAIN w.outboundsRaw
  BY <1>3, <1>4 DEF FileTypes
<1>12. w.defaultOutbound = WrittenDefault(g, j)
  BY <1>3, <1>4 DEF WrittenDefault, FileReads
<1>13. \A f \in Numbers : w.scalar[f] \in Int \/ w.scalar[f] = Malformed
  BY <1>2, <1>5, DecodedNumbers
<1> QED
  BY <1>1, <1>2, <1>6, <1>7, <1>8, <1>9, <1>10, <1>11, <1>12, <1>13 DEF Reads

\* What is decoded says what was written, from either syntax.
LEMMA DecodedReads ==
    ASSUME NEW g, NEW j, Document(g, j)
    PROVE  Reads(FromJSON(j), g, j) /\ DirectivesOK(g)
<1>1. CASE g = <<>>
  <2>1. Reads(FromJSON(j), g, j)
    BY <1>1, HandReads
  <2>2. DirectivesOK(g)
    BY <1>1, NothingRead DEF FileRead
  <2> QED
    BY <2>1, <2>2
<1>2. CASE g # <<>>
  <2>1. PICK v : FileRead(g, v) /\ j = Marshal(v)
    BY <1>2 DEF Document
  <2> QED
    BY <1>2, <2>1, FileDocReads DEF FileRead
<1> QED
  BY <1>1, <1>2

\* JSON is decoded when no setting but a text, and no port, is malformed.
LEMMA DecodesWritten ==
    ASSUME NEW g, NEW j, Document(g, j)
    PROVE  Decodes(j) <=> /\ \A f \in Scalars \ Texts : Written(g, j, f) # Malformed
                          /\ \A f \in Ports : Malformed \notin WrittenList(g, j, f)
<1>1. /\ DOMAIN j.scalar \subseteq Scalars /\ DOMAIN j.lists \subseteq Lists
      /\ Ports \subseteq Lists
  BY DocumentTypes DEF Lists
<1>2. ASSUME NEW f \in Ports
      PROVE  WrittenList(g, j, f) = IF f \in DOMAIN j.lists THEN j.lists[f] ELSE {}
  <2>1. f \in Lists
    BY <1>1
  <2>2. FromJSON(j).lists[f] = WrittenList(g, j, f)
    BY <2>1, DecodedReads DEF Reads
  <2> QED
    BY <2>1, <2>2, FromJSONLists
<1>3. (\A f \in DOMAIN j.lists \cap Ports : Malformed \notin j.lists[f])
        <=> \A f \in Ports : Malformed \notin WrittenList(g, j, f)
  BY <1>2
<1>4. ASSUME NEW f \in Scalars
      PROVE  Written(g, j, f) = Malformed <=> f \in DOMAIN j.scalar /\ j.scalar[f] = Malformed
  <2>1. Zero(f) # Malformed /\ Null # Malformed
    BY MarksAssumption
  <2>2. CASE g = <<>>
    BY <2>1, <2>2 DEF Written, Value
  <2>3. CASE g # <<>>
    <3>1. PICK v : FileRead(g, v) /\ j = Marshal(v)
      BY <2>3 DEF Document
    <3>2. Written(g, j, f) = v.scalar[f]
      BY <2>3, <3>1 DEF Written, FileRead, FileReads
    <3>3. /\ f \in DOMAIN j.scalar <=> v.scalar[f] # Zero(f)
          /\ f \in DOMAIN j.scalar => j.scalar[f] = v.scalar[f]
      BY <3>1, MarshalFields
    <3> QED
      BY <2>1, <3>2, <3>3
  <2> QED
    BY <2>2, <2>3
<1>5. (\A f \in DOMAIN j.scalar \ Texts : j.scalar[f] # Malformed)
        <=> \A f \in Scalars \ Texts : Written(g, j, f) # Malformed
  BY <1>1, <1>4
<1> QED
  BY <1>3, <1>5 DEF Decodes

(***************************************************************************)
(* Provision and Validate check what was written.                          *)
(***************************************************************************)

\* The names and the modules of the instances that a wrapper declares.
LEMMA DeclaredParts ==
    ASSUME NEW w
    PROVE  /\ {o.name : o \in Declared(w)} =
                 DOMAIN w.outboundsRaw \cup IF hasSingleOutbound(w) THEN {""} ELSE {}
           /\ (\A o \in Declared(w) : o.module \in Modules \ Broken) <=>
                 /\ hasSingleOutbound(w) => w.outboundRaw \in Modules \ Broken
                 /\ Range(w.outboundsRaw) \subseteq Modules \ Broken
<1>1. \A o : o \in Declared(w) <=>
               \/ \E n \in DOMAIN w.outboundsRaw : o = Loaded(n, w.outboundsRaw[n])
               \/ hasSingleOutbound(w) /\ o = Loaded("", w.outboundRaw)
  BY DEF Declared
<1>2. ASSUME NEW n \in DOMAIN w.outboundsRaw
      PROVE  \E o \in Declared(w) : o.name = n /\ o.module = w.outboundsRaw[n]
  <2>1. Loaded(n, w.outboundsRaw[n]) \in Declared(w)
    BY <1>1
  <2> QED
    BY <2>1, LoadedParts
<1>3. ASSUME hasSingleOutbound(w)
      PROVE  \E o \in Declared(w) : o.name = "" /\ o.module = w.outboundRaw
  <2>1. Loaded("", w.outboundRaw) \in Declared(w)
    BY <1>1, <1>3
  <2>2. Loaded("", w.outboundRaw).name = "" /\ Loaded("", w.outboundRaw).module = w.outboundRaw
    BY LoadedParts
  <2> QED
    BY <2>1, <2>2, Zenon
<1>4. ASSUME NEW o \in Declared(w)
      PROVE  \/ o.name \in DOMAIN w.outboundsRaw /\ o.module = w.outboundsRaw[o.name]
             \/ hasSingleOutbound(w) /\ o.name = "" /\ o.module = w.outboundRaw
  <2>1. CASE \E n \in DOMAIN w.outboundsRaw : o = Loaded(n, w.outboundsRaw[n])
    <3>1. PICK n \in DOMAIN w.outboundsRaw : o = Loaded(n, w.outboundsRaw[n])
      BY <2>1
    <3>2. o.name = n /\ o.module = w.outboundsRaw[n]
      BY <3>1, LoadedParts
    <3> QED
      BY <3>2
  <2>2. CASE hasSingleOutbound(w) /\ o = Loaded("", w.outboundRaw)
    <3>1. o.name = "" /\ o.module = w.outboundRaw
      BY <2>2, LoadedParts
    <3> QED
      BY <2>2, <3>1
  <2> QED
    BY <1>1, <2>1, <2>2
<1>5. ASSUME NEW n
      PROVE  n \in {o.name : o \in Declared(w)} <=>
                n \in DOMAIN w.outboundsRaw \cup IF hasSingleOutbound(w) THEN {""} ELSE {}
  <2>1. n \in {o.name : o \in Declared(w)} <=> \E o \in Declared(w) : o.name = n
    OBVIOUS
  <2> QED
    BY <1>2, <1>3, <1>4, <2>1
<1>6. (\A o \in Declared(w) : o.module \in Modules \ Broken) <=>
        /\ hasSingleOutbound(w) => w.outboundRaw \in Modules \ Broken
        /\ \A n \in DOMAIN w.outboundsRaw : w.outboundsRaw[n] \in Modules \ Broken
  BY <1>2, <1>3, <1>4
<1> QED
  BY <1>5, <1>6 DEF Range

\* The outbounds load and the references are declared when OutboundsOK.
LEMMA OutboundsWritten ==
    ASSUME NEW w, NEW g, NEW j, Reads(w, g, j)
    PROVE  OutboundsLoad(w) /\ ReferencesDeclared(w) <=> OutboundsOK(g, j)
<1>1. /\ Declared(w) = WrittenOutbounds(g, j) /\ w.defaultOutbound = WrittenDefault(g, j)
      /\ Range(w.users) = Range(WrittenUsers(g, j))
      /\ "" \in DOMAIN w.outboundsRaw <=> g = <<>> /\ "" \in DOMAIN j.outbounds
  BY DEF Reads, SameUsers
<1>2. PICK names : names = {o.name : o \in WrittenOutbounds(g, j)}
  OBVIOUS
<1>3. names = DOMAIN w.outboundsRaw \cup IF hasSingleOutbound(w) THEN {""} ELSE {}
  BY <1>1, <1>2, DeclaredParts
<1>4. OutboundsLoad(w) <=> /\ names \cap {"direct", "default"} = {}
                           /\ g = <<>> => "" \notin DOMAIN j.outbounds
                           /\ \A o \in WrittenOutbounds(g, j) : o.module \in Modules \ Broken
  <2>1. DOMAIN w.outboundsRaw \cap {"", "direct", "default"} = {} <=>
          names \cap {"direct", "default"} = {} /\ "" \notin DOMAIN w.outboundsRaw
    BY <1>3
  <2> QED
    BY <1>1, <2>1, DeclaredParts DEF OutboundsLoad
<1>5. DOMAIN namedOutbounds(w) \cup {""} = names \cup {"", "direct"}
  <2>1. DOMAIN namedOutbounds(w) = DOMAIN w.outboundsRaw \cup {"direct"}
    BY DEF namedOutbounds
  <2> QED
    BY <1>3, <2>1
<1>6. ReferencesDeclared(w) <=>
        {WrittenDefault(g, j)} \cup {u.outbound : u \in Range(WrittenUsers(g, j))}
           \subseteq names \cup {"", "direct"}
  BY <1>1, <1>5 DEF ReferencesDeclared
<1> QED
  BY <1>2, <1>4, <1>6 DEF OutboundsOK

\* Provision succeeds when the outbounds, the prefixes and the padding scheme are
\* good.
LEMMA ProvisionWritten ==
    ASSUME NEW w, NEW g, NEW j, Reads(w, g, j)
    PROVE  ProvisionOK(w) <=>
              /\ \A f \in CIDRs : Malformed \notin WrittenList(g, j, f)
              /\ OutboundsOK(g, j)
              /\ Written(g, j, "padding_scheme") # Malformed
<1>1. compileCIDRPolicies(w) <=> \A f \in CIDRs : Malformed \notin WrittenList(g, j, f)
  BY DEF Reads, compileCIDRPolicies, Lists
<1>2. w.scalar["padding_scheme"] = Written(g, j, "padding_scheme")
  BY DEF Reads, Scalars, Texts
<1> QED
  BY <1>1, <1>2, OutboundsWritten DEF ProvisionOK

\* What Provision leaves of the decoded wrapper.
LEMMA ProvisionedFields ==
    ASSUME NEW j
    PROVE  /\ Provisioned(FromJSON(j)).scalar = WithDefaults(FromJSON(j))
           /\ Provisioned(FromJSON(j)).lists = FromJSON(j).lists
           /\ Provisioned(FromJSON(j)).users = FromJSON(j).users
BY DEF Provisioned, FromJSON

\* A number after Provision.
LEMMA NumberWithDefault ==
    ASSUME NEW w, NEW f \in Numbers
    PROVE  WithDefaults(w)[f] = IF w.scalar[f] = 0 THEN Defaults[f] ELSE w.scalar[f]
<1>1. f \in Scalars /\ f # "fallback" /\ f # "padding_scheme"
  BY NumbersAre DEF Scalars
<1> QED
  BY <1>1 DEF WithDefaults

\* A setting that Provision leaves alone.
LEMMA OtherSettings ==
    ASSUME NEW w, NEW f \in Scalars \ (Numbers \cup {"fallback", "padding_scheme"})
    PROVE  WithDefaults(w)[f] = w.scalar[f]
BY DEF WithDefaults

\* The users are valid when UsersOK.
LEMMA UsersWritten ==
    ASSUME NEW users, NEW g, NEW j, SameUsers(users, WrittenUsers(g, j))
    PROVE  UsersValid(users) <=> UsersOK(g, j)
<1>1. PICK written : written = WrittenUsers(g, j)
  OBVIOUS
<1>2. UsersValid(users) <=>
        (\A u \in Range(users) : u.name # "" /\ u.password # "") /\ Distinct(users)
  BY DEF UsersValid, Distinct
<1>3. UsersOK(g, j) <=>
        (\A u \in Range(written) : u.name # "" /\ u.password # "") /\ Distinct(written)
  <2>1. (\A u \in Range(written) : u.name # "" /\ u.password # "") <=>
          \A i \in DOMAIN written : written[i].name # "" /\ written[i].password # ""
    BY DEF Range
  <2>2. Distinct(written) <=>
          \A i \in DOMAIN written : \A k \in DOMAIN written \ {i} :
             written[k].name # written[i].name /\ written[k].password # written[i].password
    BY DEF Distinct
  <2> QED
    BY <1>1, <2>1, <2>2 DEF UsersOK
<1> QED
  BY <1>1, <1>2, <1>3 DEF SameUsers

\* Validate succeeds when the numbers, the lists and the users are good, given
\* that the numbers are numbers.
LEMMA ValidateWritten ==
    ASSUME NEW g, NEW j, Reads(FromJSON(j), g, j),
           \A f \in Numbers : Written(g, j, f) # Malformed
    PROVE  ValidateOK(Provisioned(FromJSON(j))) <=>
              /\ \A f \in Numbers : Written(g, j, f) >= 0
              /\ \A f \in CIDRs : Malformed \notin WrittenList(g, j, f)
              /\ \A f \in Domains : "" \notin WrittenList(g, j, f)
              /\ UsersOK(g, j)
<1>1. PICK w : w = FromJSON(j)
  OBVIOUS
<1>2. PICK p : p = Provisioned(w)
  OBVIOUS
<1>3. p.scalar = WithDefaults(w) /\ p.lists = w.lists /\ p.users = w.users
  BY <1>1, <1>2, ProvisionedFields
<1>4. ASSUME NEW f \in Numbers PROVE p.scalar[f] >= 0 <=> Written(g, j, f) >= 0
  <2>1. f \in Scalars /\ f # "fallback"
    BY NumbersAre DEF Scalars
  <2>2. w.scalar[f] = Written(g, j, f) /\ (w.scalar[f] \in Int \/ w.scalar[f] = Malformed)
    BY <1>1, <2>1 DEF Reads
  <2>3. Written(g, j, f) \in Int
    BY <2>2
  <2>4. p.scalar[f] = IF Written(g, j, f) = 0 THEN Defaults[f] ELSE Written(g, j, f)
    BY <1>3, <2>2, NumberWithDefault
  <2> QED
    BY <2>3, <2>4, NumbersAre
<1>5. compileCIDRPolicies(p) <=> \A f \in CIDRs : Malformed \notin WrittenList(g, j, f)
  BY <1>1, <1>3 DEF Reads, compileCIDRPolicies, Lists
<1>6. (\A f \in Domains : "" \notin p.lists[f]) <=>
        \A f \in Domains : "" \notin WrittenList(g, j, f)
  <2>1. \A f \in Domains : p.lists[f] = WrittenList(g, j, f)
    BY <1>1, <1>3 DEF Reads, Lists
  <2> QED
    BY <2>1
<1>7. UsersValid(p.users) <=> UsersOK(g, j)
  BY <1>1, <1>3, UsersWritten DEF Reads
<1> QED
  BY <1>1, <1>2, <1>4, <1>5, <1>6, <1>7 DEF ValidateOK

\* The stages after the parser accept exactly the well-formed documents.
LEMMA StagesAccept ==
    ASSUME NEW g, NEW j, Document(g, j)
    PROVE  WellFormed(g, j) <=> /\ Decodes(j)
                                /\ ProvisionOK(FromJSON(j))
                                /\ ValidateOK(Provisioned(FromJSON(j)))
<1>1. Reads(FromJSON(j), g, j) /\ DirectivesOK(g)
  BY DecodedReads
<1>2. Decodes(j) <=> /\ \A f \in Scalars \ Texts : Written(g, j, f) # Malformed
                     /\ \A f \in Ports : Malformed \notin WrittenList(g, j, f)
  BY DecodesWritten
<1>3. ProvisionOK(FromJSON(j)) <=> /\ \A f \in CIDRs : Malformed \notin WrittenList(g, j, f)
                                   /\ OutboundsOK(g, j)
                                   /\ Written(g, j, "padding_scheme") # Malformed
  BY <1>1, ProvisionWritten
<1>4. (\A f \in Scalars \ {"node_sni"} : Written(g, j, f) # Malformed) <=>
        /\ \A f \in Scalars \ Texts : Written(g, j, f) # Malformed
        /\ Written(g, j, "padding_scheme") # Malformed
  BY DEF Scalars, Texts
<1>5. \A f \in Numbers : f \in Scalars \ Texts
  BY NumbersAre DEF Scalars, Texts
<1>6. CASE \A f \in Scalars \ Texts : Written(g, j, f) # Malformed
  <2>1. \A f \in Numbers : Written(g, j, f) # Malformed
    BY <1>5, <1>6
  <2>2. ValidateOK(Provisioned(FromJSON(j))) <=>
              /\ \A f \in Numbers : Written(g, j, f) >= 0
              /\ \A f \in CIDRs : Malformed \notin WrittenList(g, j, f)
              /\ \A f \in Domains : "" \notin WrittenList(g, j, f)
              /\ UsersOK(g, j)
    BY <1>1, <2>1, ValidateWritten
  <2> QED
    BY <1>1, <1>2, <1>3, <1>4, <2>2 DEF WellFormed, SettingsOK, ListsOK
<1>7. CASE ~ \A f \in Scalars \ Texts : Written(g, j, f) # Malformed
  BY <1>2, <1>4, <1>7 DEF WellFormed, SettingsOK
<1> QED
  BY <1>6, <1>7

(***************************************************************************)
(* The inductive invariant, action by action.                              *)
(***************************************************************************)

\* A directive is applied, or the file is refused for it.
LEMMA CaddyfileStep ==
    ASSUME Stages, NEW d \in Directives, UnmarshalCaddyfile(d) PROVE Stages'
<1>1. FileRead(given, lw) /\ given' = Append(given, d)
  BY DEF Stages, UnmarshalCaddyfile
<1>2. CASE ArgsOK(d) /\ Once(lw, d)
  <2>1. pc' = "parse" /\ lw' = Applied(lw, d)
    BY <1>2 DEF UnmarshalCaddyfile
  <2>2. FileRead(given', lw')
    BY <1>1, <1>2, <2>1, FileStep
  <2> QED
    BY <2>1, <2>2 DEF Stages
<1>3. CASE ~(ArgsOK(d) /\ Once(lw, d))
  <2>1. pc' = "rejected"
    BY <1>3 DEF UnmarshalCaddyfile
  <2>2. ~DirectivesOK(given')
    BY <1>1, <1>3, DirectivesAppend
  <2>3. ~WellFormed(given', json')
    BY <2>2 DEF WellFormed
  <2> QED
    BY <2>1, <2>3 DEF Stages
<1> QED
  BY <1>2, <1>3

\* Either way to JSON gives a document.
LEMMA WriteStep ==
    ASSUME Stages, WriteJSON \/ Adapt PROVE Stages'
<1>1. pc' = "load" /\ Document(given', json')
  <2>1. CASE WriteJSON
    BY <2>1 DEF WriteJSON, Document
  <2>2. CASE Adapt
    BY <2>2 DEF Adapt, Stages, Document
  <2> QED
    BY <2>1, <2>2
<1> QED
  BY <1>1 DEF Stages

\* JSON that cannot be decoded is not well-formed.
LEMMA DecodeStep ==
    ASSUME Stages, UnmarshalJSON PROVE Stages'
<1>1. Document(given, json) /\ given' = given /\ json' = json
  BY DEF Stages, UnmarshalJSON
<1>2. CASE Decodes(json)
  <2>1. pc' = "provision" /\ lw' = FromJSON(json)
    BY <1>2 DEF UnmarshalJSON
  <2> QED
    BY <1>1, <1>2, <2>1 DEF Stages
<1>3. CASE ~Decodes(json)
  <2>1. pc' = "rejected"
    BY <1>3 DEF UnmarshalJSON
  <2>2. ~WellFormed(given, json)
    BY <1>1, <1>3, StagesAccept
  <2> QED
    BY <1>1, <2>1, <2>2 DEF Stages
<1> QED
  BY <1>2, <1>3

\* Provision works on what was decoded.
LEMMA ProvisionStep ==
    ASSUME Stages, Provision PROVE Stages'
<1>1. Document(given, json) /\ Decodes(json) /\ lw = FromJSON(json)
  BY DEF Stages, Provision
<1>2. /\ ProvisionOK(lw) /\ lw' = Provisioned(lw) /\ run' = Runtime(lw)
      /\ pc' = "validate" /\ given' = given /\ json' = json
  BY DEF Provision
<1> QED
  BY <1>1, <1>2 DEF Stages

\* Validate changes nothing but the stage.
LEMMA ValidateStep ==
    ASSUME Stages, Validate PROVE Stages'
<1>1. /\ Document(given, json) /\ Decodes(json) /\ ProvisionOK(FromJSON(json))
      /\ lw = Provisioned(FromJSON(json)) /\ run = Runtime(FromJSON(json))
  BY DEF Stages, Validate
<1>2. /\ ValidateOK(lw) /\ pc' = "running"
      /\ given' = given /\ json' = json /\ lw' = lw /\ run' = run
  BY DEF Validate
<1> QED
  BY <1>1, <1>2 DEF Stages

\* What either stage refuses is not well-formed.
LEMMA RefuseStep ==
    ASSUME Stages, Refuse PROVE Stages'
<1>1. pc' = "rejected" /\ given' = given /\ json' = json
  BY DEF Refuse
<1>2. CASE pc = "provision" /\ ~ProvisionOK(lw)
  <2>1. Document(given, json) /\ lw = FromJSON(json)
    BY <1>2 DEF Stages
  <2>2. ~WellFormed(given, json)
    BY <1>2, <2>1, StagesAccept
  <2> QED
    BY <1>1, <2>2 DEF Stages
<1>3. CASE pc = "validate" /\ ~ValidateOK(lw)
  <2>1. Document(given, json) /\ lw = Provisioned(FromJSON(json))
    BY <1>3 DEF Stages
  <2>2. ~WellFormed(given, json)
    BY <1>3, <2>1, StagesAccept
  <2> QED
    BY <1>1, <2>2 DEF Stages
<1> QED
  BY <1>2, <1>3 DEF Refuse

\* At every stage the wrapper is what the document so far makes of it, and what
\* was refused is not well-formed (config.go, anytls.go:Provision, Validate).
THEOREM StagesInvariant == Spec => []Stages
<1>1. Init => Stages
  <2> SUFFICES ASSUME Init PROVE Stages
    OBVIOUS
  <2>1. pc = "parse" /\ FileRead(given, lw)
    BY NothingRead DEF Init
  <2> QED
    BY <2>1 DEF Stages
<1>2. Stages /\ [Next]_vars => Stages'
  <2> SUFFICES ASSUME Stages, [Next]_vars PROVE Stages'
    OBVIOUS
  <2>1. ASSUME NEW d \in Directives, UnmarshalCaddyfile(d) PROVE Stages'
    BY <2>1, CaddyfileStep
  <2>2. CASE WriteJSON \/ Adapt
    BY <2>2, WriteStep
  <2>3. CASE UnmarshalJSON
    BY <2>3, DecodeStep
  <2>4. CASE Provision
    BY <2>4, ProvisionStep
  <2>5. CASE Validate
    BY <2>5, ValidateStep
  <2>6. CASE Refuse
    BY <2>6, RefuseStep
  <2>7. CASE UNCHANGED vars
    BY <2>7 DEF Stages, vars
  <2> QED
    BY <2>1, <2>2, <2>3, <2>4, <2>5, <2>6, <2>7 DEF Next, Terminating
<1> QED
  BY <1>1, <1>2, PTL DEF Spec

\* The stages together accept exactly the well-formed configurations, whatever
\* the order of the declarations and from either syntax (config.go,
\* anytls.go:Provision, Validate).
THEOREM AcceptsWellFormed == Spec => []AcceptedIffWellFormed
<1>1. Stages => AcceptedIffWellFormed
  <2> SUFFICES ASSUME Stages PROVE AcceptedIffWellFormed
    OBVIOUS
  <2>1. CASE pc = "running"
    <3>1. /\ Document(given, json) /\ Decodes(json) /\ ProvisionOK(FromJSON(json))
          /\ lw = Provisioned(FromJSON(json)) /\ ValidateOK(lw)
      BY <2>1 DEF Stages
    <3>2. WellFormed(given, json)
      BY <3>1, StagesAccept
    <3> QED
      BY <2>1, <3>2 DEF AcceptedIffWellFormed
  <2>2. CASE pc # "running"
    BY <2>2 DEF Stages, AcceptedIffWellFormed
  <2> QED
    BY <2>1, <2>2
<1> QED
  BY <1>1, StagesInvariant, PTL

(***************************************************************************)
(* The maps that Provision builds from valid users.                        *)
(***************************************************************************)

\* Among users of which one qualifies, the last is that one.
LEMMA LastOfOne ==
    ASSUME NEW users, NEW some, DOMAIN users \subseteq Int,
           NEW i \in DOMAIN users, users[i] \in some,
           \A k \in DOMAIN users : users[k] \in some => k = i
    PROVE  LastOf(users, some) = users[i]
<1>1. users[i] \in some /\ \A k \in DOMAIN users : users[k] \in some => k <= i
  OBVIOUS
<1>2. (CHOOSE m \in DOMAIN users :
          users[m] \in some /\ \A k \in DOMAIN users : users[k] \in some => k <= m) = i
  BY <1>1
<1> QED
  BY <1>2 DEF LastOf

\* Valid users are told apart by their names and by their passwords.
LEMMA DistinctUsers ==
    ASSUME NEW users, Distinct(users), NEW u \in Range(users), NEW v \in Range(users),
           u.name = v.name \/ u.password = v.password
    PROVE  u = v
BY DEF Distinct, Range

\* The detector knows of a user whether it is enabled.
LEMMA DetectorOf ==
    ASSUME NEW users, Distinct(users), DOMAIN users \subseteq Int, NEW u \in Range(users)
    PROVE  NewPasswordHashDetector(users)[u.password] = u.enabled
<1>1. PICK i \in DOMAIN users : users[i] = u
  BY DEF Range
<1>2. PICK same : same = {v \in Range(users) : v.password = u.password}
  OBVIOUS
<1>3. users[i] \in same /\ \A k \in DOMAIN users : users[k] \in same => k = i
  BY <1>1, <1>2 DEF Distinct, Range
<1>4. LastOf(users, same) = u
  BY <1>1, <1>3, LastOfOne
<1>5. u.password \in {v.password : v \in Range(users)}
  OBVIOUS
<1> QED
  BY <1>2, <1>4, <1>5 DEF NewPasswordHashDetector

\* The stream handler finds the outbound that a user names.
LEMMA UserOutboundOf ==
    ASSUME NEW users, NEW named, Distinct(users), DOMAIN users \subseteq Int,
           NEW u \in Range(users)
    PROVE  /\ u.name \in DOMAIN userOutbound(users, named) <=> u.outbound # ""
           /\ u.outbound # "" => userOutbound(users, named)[u.name] = named[u.outbound]
<1>1. DOMAIN userOutbound(users, named) =
        {v.name : v \in {x \in Range(users) : x.outbound # ""}}
  BY DEF userOutbound
<1>2. u.name \in DOMAIN userOutbound(users, named) <=> u.outbound # ""
  <2>1. ASSUME NEW v \in Range(users), v.outbound # "", v.name = u.name PROVE u.outbound # ""
    BY <2>1, DistinctUsers
  <2> QED
    BY <1>1, <2>1
<1>3. ASSUME u.outbound # "" PROVE userOutbound(users, named)[u.name] = named[u.outbound]
  <2>1. PICK i \in DOMAIN users : users[i] = u
    BY DEF Range
  <2>2. PICK same : same = {v \in Range(users) : v.name = u.name /\ v.outbound # ""}
    OBVIOUS
  <2>3. users[i] \in same
    BY <1>3, <2>1, <2>2
  <2>4. \A k \in DOMAIN users : users[k] \in same => k = i
    BY <2>1, <2>2 DEF Distinct
  <2>5. LastOf(users, same) = u
    BY <2>1, <2>3, <2>4, LastOfOne
  <2>6. userOutbound(users, named)[u.name] = named[LastOf(users, same).outbound]
    BY <1>1, <1>2, <1>3, <2>2 DEF userOutbound
  <2> QED
    BY <2>5, <2>6
<1> QED
  BY <1>2, <1>3

\* The wrapper of a running gateway.
LEMMA RunningWrapper ==
    ASSUME Stages, pc = "running"
    PROVE  LET w == FromJSON(json)
           IN  /\ Reads(w, given, json) /\ WellFormed(given, json)
               /\ Distinct(w.users) /\ DOMAIN w.users \subseteq Int
               /\ OutboundsLoad(w) /\ ReferencesDeclared(w)
               /\ lw.scalar = WithDefaults(w) /\ run = Runtime(w)
<1>1. PICK w : w = FromJSON(json)
  OBVIOUS
<1>2. /\ Document(given, json) /\ Decodes(json) /\ ProvisionOK(w)
      /\ lw = Provisioned(w) /\ run = Runtime(w) /\ ValidateOK(lw)
  BY <1>1 DEF Stages
<1>3. Reads(w, given, json)
  BY <1>1, <1>2, DecodedReads
<1>4. WellFormed(given, json)
  BY <1>1, <1>2, StagesAccept
<1>5. lw.users = w.users /\ lw.scalar = WithDefaults(w)
  BY <1>1, <1>2, ProvisionedFields
<1>6. Distinct(w.users)
  BY <1>2, <1>5 DEF ValidateOK, UsersValid, Distinct
<1>7. DOMAIN w.users \subseteq Int
  BY <1>3 DEF Reads
<1>8. OutboundsLoad(w) /\ ReferencesDeclared(w)
  BY <1>2 DEF ProvisionOK
<1> QED
  BY <1>1, <1>2, <1>3, <1>4, <1>5, <1>6, <1>7, <1>8

\* The detector sends to the AnyTLS path exactly the password hashes that the
\* service authenticates, each as one user (detector.go:NewPasswordHashDetector,
\* anytls.go:anyTLSUsers).
THEOREM DetectorAgrees == Spec => []DetectorMatchesService
<1>1. Stages => DetectorMatchesService
  <2> SUFFICES ASSUME Stages, pc = "running"
               PROVE  /\ \A p \in DOMAIN run.detector :
                            run.detector[p] <=> \E u \in run.service : u.password = p
                      /\ \A u \in run.service :
                            /\ u.password \in DOMAIN run.detector
                            /\ \A v \in run.service \ {u} :
                                  v.password # u.password /\ v.name # u.name
    BY DEF DetectorMatchesService
  <2>1. PICK users : users = FromJSON(json).users
    OBVIOUS
  <2>2. Distinct(users) /\ DOMAIN users \subseteq Int
    BY <2>1, RunningWrapper
  <2>3. run.detector = NewPasswordHashDetector(users) /\ run.service = anyTLSUsers(users)
    BY <2>1, RunningWrapper DEF Runtime
  <2>4. DOMAIN run.detector = {u.password : u \in Range(users)}
    BY <2>3 DEF NewPasswordHashDetector
  <2>5. ASSUME NEW u \in Range(users)
        PROVE  run.detector[u.password] <=> \E v \in run.service : v.password = u.password
    <3>1. run.detector[u.password] = u.enabled
      BY <2>2, <2>3, DetectorOf
    <3>2. (\E v \in run.service : v.password = u.password) <=> u.enabled
      BY <2>2, <2>3, DistinctUsers DEF anyTLSUsers
    <3> QED
      BY <3>1, <3>2
  <2>6. ASSUME NEW u \in run.service
        PROVE  /\ u.password \in DOMAIN run.detector
               /\ \A v \in run.service \ {u} : v.password # u.password /\ v.name # u.name
    BY <2>2, <2>3, <2>4, DistinctUsers DEF anyTLSUsers
  <2> QED
    BY <2>4, <2>5, <2>6
<1> QED
  BY <1>1, StagesInvariant, PTL

(***************************************************************************)
(* A running gateway does what was written.                                *)
(***************************************************************************)

\* Every setting has the value written last, or its default.
LEMMA SettingsRunning ==
    ASSUME NEW g, NEW j, NEW w, Reads(w, g, j), WellFormed(g, j)
    PROVE  SettingsInForce(g, j, WithDefaults(w))
<1>1. ASSUME NEW f \in Numbers
      PROVE  /\ WithDefaults(w)[f] = IF Written(g, j, f) = 0 THEN Defaults[f] ELSE Written(g, j, f)
             /\ WithDefaults(w)[f] > 0
  <2>1. f \in Scalars /\ f # "fallback" /\ f # "node_sni"
    BY NumbersAre DEF Scalars
  <2>2. w.scalar[f] = Written(g, j, f) /\ (w.scalar[f] \in Int \/ w.scalar[f] = Malformed)
    BY <2>1 DEF Reads
  <2>3. Written(g, j, f) # Malformed
    BY <2>1 DEF WellFormed, SettingsOK
  <2>4. Written(g, j, f) >= 0
    BY DEF WellFormed, SettingsOK
  <2>5. WithDefaults(w)[f] = IF Written(g, j, f) = 0 THEN Defaults[f] ELSE Written(g, j, f)
    BY <2>2, NumberWithDefault
  <2>6. Written(g, j, f) \in Int
    BY <2>2, <2>3
  <2> QED
    BY <2>4, <2>5, <2>6, NumbersAre
<1>2. ASSUME NEW f \in Scalars \ (Numbers \cup {"fallback", "padding_scheme"})
      PROVE  WithDefaults(w)[f] = Written(g, j, f)
  <2>1. w.scalar[f] = Written(g, j, f)
    BY DEF Reads
  <2> QED
    BY <2>1, OtherSettings
<1>3. WithDefaults(w)["padding_scheme"] =
        IF Written(g, j, "padding_scheme") = "" THEN DefaultPaddingScheme
                                                ELSE Written(g, j, "padding_scheme")
  <2>1. "padding_scheme" \in Scalars /\ "padding_scheme" \notin Numbers
    BY NumbersAre DEF Scalars, Texts
  <2>2. w.scalar["padding_scheme"] = Written(g, j, "padding_scheme")
    BY <2>1 DEF Reads
  <2>3. WithDefaults(w)["padding_scheme"] =
          IF w.scalar["padding_scheme"] = "" THEN DefaultPaddingScheme
                                             ELSE w.scalar["padding_scheme"]
    BY <2>1 DEF WithDefaults
  <2> QED
    BY <2>2, <2>3
<1> QED
  BY <1>1, <1>2, <1>3 DEF SettingsInForce

\* The instances that a reference to n may mean.
Target(outbounds, n) ==
    LET declared == {o \in outbounds : o.name = n}
    IN  IF declared # {} THEN declared ELSE {Direct}

\* A declared name has the instance loaded for it, and "direct" the built-in one.
LEMMA NamedTarget ==
    ASSUME NEW w, OutboundsLoad(w), NEW n \in DOMAIN namedOutbounds(w)
    PROVE  namedOutbounds(w)[n] \in Target(Declared(w), n)
<1>1. DOMAIN namedOutbounds(w) = DOMAIN w.outboundsRaw \cup {"direct"}
  BY DEF namedOutbounds
<1>2. CASE n = "direct"
  <2>1. "direct" \notin DOMAIN w.outboundsRaw
    BY DEF OutboundsLoad
  <2>2. n \notin {o.name : o \in Declared(w)}
    BY <1>2, <2>1, DeclaredParts
  <2>3. {o \in Declared(w) : o.name = n} = {}
    BY <2>2
  <2>4. namedOutbounds(w)[n] = Direct
    BY <1>1, <1>2 DEF namedOutbounds
  <2> QED
    BY <2>3, <2>4 DEF Target
<1>3. CASE n # "direct"
  <2>1. n \in DOMAIN w.outboundsRaw
    BY <1>1, <1>3
  <2>2. namedOutbounds(w)[n] = Loaded(n, w.outboundsRaw[n])
    BY <1>1, <1>3 DEF namedOutbounds
  <2>3. Loaded(n, w.outboundsRaw[n]) \in Declared(w)
    BY <2>1 DEF Declared
  <2>4. Loaded(n, w.outboundsRaw[n]).name = n
    BY LoadedParts
  <2> QED
    BY <2>2, <2>3, <2>4 DEF Target
<1> QED
  BY <1>2, <1>3

\* The default is default_outbound, the single outbound or the built-in one.
LEMMA DefaultTarget ==
    ASSUME NEW w, OutboundsLoad(w), ReferencesDeclared(w)
    PROVE  Default(w) \in Target(Declared(w), w.defaultOutbound)
<1>1. CASE w.defaultOutbound # ""
  <2>1. w.defaultOutbound \in DOMAIN namedOutbounds(w)
    BY <1>1 DEF ReferencesDeclared
  <2>2. Default(w) = namedOutbounds(w)[w.defaultOutbound]
    BY <1>1 DEF Default
  <2> QED
    BY <2>1, <2>2, NamedTarget
<1>2. CASE w.defaultOutbound = "" /\ hasSingleOutbound(w)
  <2>1. Default(w) = Loaded("", w.outboundRaw)
    BY <1>2 DEF Default
  <2>2. Loaded("", w.outboundRaw) \in Declared(w)
    BY <1>2 DEF Declared
  <2>3. Loaded("", w.outboundRaw).name = w.defaultOutbound
    BY <1>2, LoadedParts
  <2> QED
    BY <2>1, <2>2, <2>3 DEF Target
<1>3. CASE w.defaultOutbound = "" /\ ~hasSingleOutbound(w)
  <2>1. Default(w) = Direct
    BY <1>3 DEF Default
  <2>2. w.defaultOutbound \notin DOMAIN w.outboundsRaw
    BY <1>3 DEF OutboundsLoad
  <2>3. w.defaultOutbound \notin {o.name : o \in Declared(w)}
    BY <1>3, <2>2, DeclaredParts
  <2>4. {o \in Declared(w) : o.name = w.defaultOutbound} = {}
    BY <2>3
  <2> QED
    BY <2>1, <2>4 DEF Target
<1> QED
  BY <1>1, <1>2, <1>3

\* A user's traffic leaves through the outbound meant for it.
LEMMA EgressRunning ==
    ASSUME NEW g, NEW j, NEW w, Reads(w, g, j), Distinct(w.users), DOMAIN w.users \subseteq Int,
           OutboundsLoad(w), ReferencesDeclared(w)
    PROVE  EgressAsWritten(g, j, Runtime(w))
<1>1. PICK r : r = Runtime(w)
  OBVIOUS
<1>2. r.default = Default(w) /\ r.userOutbound = userOutbound(w.users, namedOutbounds(w))
  BY <1>1 DEF Runtime
<1>3. /\ Range(w.users) = Range(WrittenUsers(g, j))
      /\ Declared(w) = WrittenOutbounds(g, j) /\ w.defaultOutbound = WrittenDefault(g, j)
  BY DEF Reads, SameUsers
<1>4. ASSUME NEW u \in Range(w.users)
      PROVE  outboundForUser(r, u.name) \in
                Target(Declared(w), IF u.outbound # "" THEN u.outbound ELSE w.defaultOutbound)
  <2>1. /\ u.name \in DOMAIN r.userOutbound <=> u.outbound # ""
        /\ u.outbound # "" => r.userOutbound[u.name] = namedOutbounds(w)[u.outbound]
    <3>1. PICK users : users = w.users
      OBVIOUS
    <3>2. PICK named : named = namedOutbounds(w)
      OBVIOUS
    <3>3. /\ u.name \in DOMAIN userOutbound(users, named) <=> u.outbound # ""
          /\ u.outbound # "" => userOutbound(users, named)[u.name] = named[u.outbound]
      BY <3>1, UserOutboundOf, Zenon
    <3> QED
      BY <1>2, <3>1, <3>2, <3>3
  <2>2. CASE u.outbound # ""
    <3>1. u.outbound \in DOMAIN namedOutbounds(w)
      BY <2>2 DEF ReferencesDeclared
    <3>2. outboundForUser(r, u.name) = namedOutbounds(w)[u.outbound]
      BY <2>1, <2>2 DEF outboundForUser
    <3> QED
      BY <2>2, <3>1, <3>2, NamedTarget
  <2>3. CASE u.outbound = ""
    <3>1. outboundForUser(r, u.name) = Default(w)
      BY <1>2, <2>1, <2>3 DEF outboundForUser
    <3> QED
      BY <2>3, <3>1, DefaultTarget
  <2> QED
    BY <2>2, <2>3
<1> QED
  BY <1>1, <1>3, <1>4 DEF EgressAsWritten, Target

\* A running wrapper has the settings that were written, or their defaults, every
\* limit and timeout positive, and sends each user's traffic through the outbound
\* meant for it (anytls.go:Provision, provisionNamedOutbounds,
\* handler.go:outboundForUser).
THEOREM RunsAsWritten == Spec => []RunningAsWritten
<1>1. Stages => RunningAsWritten
  <2> SUFFICES ASSUME Stages, pc = "running"
               PROVE  /\ SettingsInForce(given, json, lw.scalar)
                      /\ EgressAsWritten(given, json, run)
    BY DEF RunningAsWritten
  <2>1. PICK w : w = FromJSON(json)
    OBVIOUS
  <2>2. /\ Reads(w, given, json) /\ WellFormed(given, json)
        /\ Distinct(w.users) /\ DOMAIN w.users \subseteq Int
        /\ OutboundsLoad(w) /\ ReferencesDeclared(w)
        /\ lw.scalar = WithDefaults(w) /\ run = Runtime(w)
    BY <2>1, RunningWrapper
  <2> QED
    BY <2>2, SettingsRunning, EgressRunning
<1> QED
  BY <1>1, StagesInvariant, PTL

\* What becomes of the option fallback, for which RunningAsWritten makes an
\* exception: JSON written by hand keeps an explicit value, a missing one is true
\* (config.go:277); a Caddyfile's false does not survive the adapter.
FallbackInForce ==
    pc = "running" =>
        /\ given = <<>> =>
              /\ "fallback" \notin DOMAIN json.scalar => lw.scalar["fallback"] = TRUE
              /\ \A b \in BOOLEAN : "fallback" \in DOMAIN json.scalar /\ json.scalar["fallback"] = b
                                       => lw.scalar["fallback"] = b
        /\ given # <<>> /\ Written(given, json, "fallback") \in BOOLEAN =>
              lw.scalar["fallback"] = TRUE

\* fallback after Provision, from the JSON it was decoded from.
LEMMA FallbackDecoded ==
    ASSUME NEW j
    PROVE  /\ "fallback" \notin DOMAIN j.scalar =>
                 WithDefaults(FromJSON(j))["fallback"] = TRUE
           /\ \A b \in BOOLEAN : "fallback" \in DOMAIN j.scalar /\ j.scalar["fallback"] = b
                                    => WithDefaults(FromJSON(j))["fallback"] = b
<1>1. "fallback" \in Scalars /\ "fallback" \notin Numbers /\ "fallback" \in Flags
  BY NumbersAre DEF Scalars, Flags
<1>2. PICK w : w = FromJSON(j)
  OBVIOUS
<1>3. WithDefaults(w)["fallback"] = (w.scalar["fallback"] \/ ~w.fallbackSet)
  BY <1>1 DEF WithDefaults
<1>4. w.fallbackSet = ("fallback" \in DOMAIN j.scalar)
  BY <1>2 DEF FromJSON
<1>5. CASE "fallback" \notin DOMAIN j.scalar
  BY <1>2, <1>3, <1>4, <1>5
<1>6. ASSUME NEW b \in BOOLEAN, "fallback" \in DOMAIN j.scalar, j.scalar["fallback"] = b
      PROVE  WithDefaults(w)["fallback"] = b
  <2>1. w.scalar["fallback"] = Value("fallback", b)
    BY <1>1, <1>2, <1>6, FromJSONScalars
  <2>2. Value("fallback", b) = b
    <3>1. Zero("fallback") = FALSE /\ Null # TRUE
      BY <1>1, MarksAssumption DEF Zero
    <3>2. CASE b = TRUE
      BY <3>1, <3>2 DEF Value
    <3>3. CASE b = FALSE
      BY <3>1, <3>3 DEF Value
    <3> QED
      BY <3>2, <3>3
  <2> QED
    BY <1>3, <1>4, <1>6, <2>1, <2>2
<1> QED
  BY <1>2, <1>5, <1>6

\* From JSON the option fallback arrives as written, from a Caddyfile it is always
\* on (anytls.go:45, config.go:UnmarshalJSON).
THEOREM FallbackOnlyFromJSON == Spec => []FallbackInForce
<1>1. Stages => FallbackInForce
  <2> SUFFICES ASSUME Stages, pc = "running"
               PROVE  /\ given = <<>> =>
                           /\ "fallback" \notin DOMAIN json.scalar => lw.scalar["fallback"] = TRUE
                           /\ \A b \in BOOLEAN :
                                 "fallback" \in DOMAIN json.scalar /\ json.scalar["fallback"] = b
                                    => lw.scalar["fallback"] = b
                      /\ given # <<>> /\ Written(given, json, "fallback") \in BOOLEAN =>
                            lw.scalar["fallback"] = TRUE
    BY DEF FallbackInForce
  <2>1. lw.scalar = WithDefaults(FromJSON(json)) /\ Document(given, json)
    BY RunningWrapper DEF Stages
  <2>2. /\ "fallback" \notin DOMAIN json.scalar => lw.scalar["fallback"] = TRUE
        /\ \A b \in BOOLEAN : "fallback" \in DOMAIN json.scalar /\ json.scalar["fallback"] = b
                                 => lw.scalar["fallback"] = b
    BY <2>1, FallbackDecoded
  <2>3. ASSUME given # <<>>, Written(given, json, "fallback") \in BOOLEAN
        PROVE  lw.scalar["fallback"] = TRUE
    <3>1. "fallback" \in Scalars /\ Zero("fallback") = FALSE
      BY DEF Scalars, Flags, Zero
    <3>2. PICK v : FileRead(given, v) /\ json = Marshal(v)
      BY <2>1, <2>3 DEF Document
    <3>3. v.scalar["fallback"] \in BOOLEAN
      BY <2>3, <3>1, <3>2 DEF Written, FileRead, FileReads
    <3>4. /\ "fallback" \in DOMAIN json.scalar <=> v.scalar["fallback"] # FALSE
          /\ "fallback" \in DOMAIN json.scalar => json.scalar["fallback"] = v.scalar["fallback"]
      <4>1. ASSUME NEW f \in Scalars
            PROVE  /\ f \in DOMAIN json.scalar <=> v.scalar[f] # Zero(f)
                   /\ f \in DOMAIN json.scalar => json.scalar[f] = v.scalar[f]
        BY <3>2, MarshalFields
      <4> QED
        BY <3>1, <4>1
    <3> QED
      BY <2>2, <3>3, <3>4
  <2> QED
    BY <2>2, <2>3
<1> QED
  BY <1>1, StagesInvariant, PTL

=============================================================================
