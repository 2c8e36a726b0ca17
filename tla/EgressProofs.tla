---------------------------- MODULE EgressProofs ----------------------------
(***************************************************************************)
(* What a stream contacts, for every policy, destination and sequence of   *)
(* resolver answers, of any length: the tests of policy.go are the         *)
(* described policy (AdmitsIffPermits, PassesIffPermits), but for the      *)
(* disputed destinations, the dialled list is the checked answer,          *)
(* its families in turn (InterleavedOrder), and so ContactsPermitted,      *)
(* RefusalsJustified, DialOrder, FamiliesAlternate and PacketsFresh hold   *)
(* in every state.                                                         *)
(***************************************************************************)
EXTENDS Egress, FiniteSetTheorems, SequenceTheorems, WellFoundedInduction, TLAPS

(***************************************************************************)
(* Induction over the naturals, for a set in place of a predicate.         *)
(***************************************************************************)

LEMMA LeastElement ==
    ASSUME NEW T \in SUBSET Nat, T # {}
    PROVE  \E x \in T : \A y \in T : ~(y < x)
<1> DEFINE R == OpToRel(<, Nat)
<1>1. IsWellFoundedOn(R, Nat)
  BY NatLessThanWellFounded
<1>2. \E x \in T : \A y \in T : ~(<<y, x>> \in R)
  <2> HIDE DEF R
  <2> QED
    BY <1>1, WFMin
<1> QED
  BY <1>2 DEF OpToRel

LEMMA SetInduction ==
    ASSUME NEW T, 0 \in T, \A n \in Nat : n \in T => n + 1 \in T
    PROVE  \A n \in Nat : n \in T
<1> DEFINE U == {n \in Nat : n \notin T}
<1> SUFFICES ASSUME U # {} PROVE FALSE
  OBVIOUS
<1>1. PICK x \in U : \A y \in U : ~(y < x)
  BY LeastElement
<1>2. x \in Nat /\ x # 0 /\ x - 1 \in Nat
  OBVIOUS
<1>3. x - 1 \in T
  BY <1>1, <1>2
<1> QED
  BY <1>2, <1>3

-----------------------------------------------------------------------------
(***************************************************************************)
(* The addresses of one family.                                            *)
(***************************************************************************)

\* One round of the loop that sorts the addresses: the list of the family after
\* i addresses, g being the lists after fewer.
Round(six, s, g, i) ==
    IF i = 0 THEN <<>>
    ELSE IF Is6(s[i]) = six THEN Append(g[i - 1], s[i]) ELSE g[i - 1]

Kept(six, s) == CHOOSE g : g = [i \in 0 .. Len(s) |-> Round(six, s, g, i)]

LEMMA OfFamilyKept ==
    ASSUME NEW six, NEW s
    PROVE  OfFamily(six, s) = Kept(six, s)[Len(s)]
  BY DEF OfFamily, Kept, Round

\* The loop defines the lists: the function that OfFamily chooses exists.
LEMMA KeptRounds ==
    ASSUME NEW six, NEW s, Len(s) \in Nat
    PROVE  \A i \in 0 .. Len(s) : Kept(six, s)[i] = Round(six, s, Kept(six, s), i)
<1> DEFINE T == {n \in Nat : \E g : \A i \in 0 .. n : g[i] = Round(six, s, g, i)}
<1>1. 0 \in T
  <2>1. \A i \in 0 .. 0 : [j \in 0 .. 0 |-> <<>>][i] = Round(six, s, [j \in 0 .. 0 |-> <<>>], i)
    BY DEF Round
  <2> QED
    BY <2>1
<1>2. ASSUME NEW n \in Nat, n \in T PROVE n + 1 \in T
  <2>1. PICK g : \A i \in 0 .. n : g[i] = Round(six, s, g, i)
    BY <1>2
  <2> DEFINE h == [i \in 0 .. n + 1 |-> IF i <= n THEN g[i] ELSE Round(six, s, g, i)]
  <2>2. ASSUME NEW i \in 0 .. n + 1 PROVE h[i] = Round(six, s, g, i)
    BY <2>1
  <2>3. ASSUME NEW i \in 0 .. n + 1 PROVE Round(six, s, h, i) = Round(six, s, g, i)
    BY DEF Round
  <2>4. \A i \in 0 .. n + 1 : h[i] = Round(six, s, h, i)
    BY <2>2, <2>3
  <2> HIDE DEF h
  <2> QED
    BY <2>4
<1>3. Len(s) \in T
  <2> HIDE DEF T
  <2> QED
    BY <1>1, <1>2, SetInduction
<1>4. PICK g : \A i \in 0 .. Len(s) : g[i] = Round(six, s, g, i)
  BY <1>3
<1> DEFINE f == [i \in 0 .. Len(s) |-> g[i]]
<1>5. ASSUME NEW i \in 0 .. Len(s) PROVE Round(six, s, f, i) = Round(six, s, g, i)
  BY DEF Round
<1>6. f = [i \in 0 .. Len(s) |-> Round(six, s, f, i)]
  BY <1>4, <1>5
<1>7. \E k : k = [i \in 0 .. Len(s) |-> Round(six, s, k, i)]
  <2> HIDE DEF f
  <2> QED
    BY <1>6
<1>8. Kept(six, s) = [i \in 0 .. Len(s) |-> Round(six, s, Kept(six, s), i)]
  BY <1>7 DEF Kept
<1> QED
  BY <1>8

\* Q is a list of addresses of the family, all out of the answer s.
ListOf(six, s, Q) ==
    /\ Q \in Seq(Addresses)
    /\ \A j \in 1 .. Len(Q) : Is6(Q[j]) = six
    /\ \A j \in 1 .. Len(Q) : \E i \in 1 .. Len(s) : Q[j] = s[i]

LEMMA KeptType ==
    ASSUME NEW six, NEW s \in Seq(Addresses)
    PROVE  \A n \in 0 .. Len(s) : ListOf(six, s, Kept(six, s)[n])
<1>0. Len(s) \in Nat
  OBVIOUS
<1>1. PICK K : K = Kept(six, s)
  OBVIOUS
<1>2. \A i \in 0 .. Len(s) : K[i] = Round(six, s, K, i)
  BY <1>0, <1>1, KeptRounds
<1> DEFINE T == {n \in Nat : n <= Len(s) =>
                    /\ K[n] \in Seq(Addresses)
                    /\ \A j \in 1 .. Len(K[n]) :
                          Is6(K[n][j]) = six /\ \E i \in 1 .. Len(s) : K[n][j] = s[i]}
<1>3. 0 \in T
  <2>1. K[0] = <<>>
    BY <1>0, <1>2 DEF Round
  <2>2. K[0] \in Seq(Addresses) /\ Len(K[0]) = 0
    BY <2>1
  <2> QED
    BY <2>2
<1>4. ASSUME NEW n \in Nat, n \in T PROVE n + 1 \in T
  <2> SUFFICES ASSUME n + 1 <= Len(s)
               PROVE  /\ K[n + 1] \in Seq(Addresses)
                      /\ \A j \in 1 .. Len(K[n + 1]) :
                            /\ Is6(K[n + 1][j]) = six
                            /\ \E i \in 1 .. Len(s) : K[n + 1][j] = s[i]
    OBVIOUS
  <2>1. /\ K[n] \in Seq(Addresses)
        /\ \A j \in 1 .. Len(K[n]) :
              Is6(K[n][j]) = six /\ \E i \in 1 .. Len(s) : K[n][j] = s[i]
    BY <1>0, <1>4
  <2>2. s[n + 1] \in Addresses /\ n + 1 \in 1 .. Len(s)
    BY <1>0
  <2>3. K[n + 1] = IF Is6(s[n + 1]) = six THEN Append(K[n], s[n + 1]) ELSE K[n]
    BY <1>0, <1>2 DEF Round
  <2>4. CASE Is6(s[n + 1]) = six
    <3>1. /\ K[n + 1] \in Seq(Addresses) /\ Len(K[n + 1]) = Len(K[n]) + 1
          /\ \A j \in 1 .. Len(K[n]) : K[n + 1][j] = K[n][j]
          /\ K[n + 1][Len(K[n]) + 1] = s[n + 1]
      BY <2>1, <2>2, <2>3, <2>4, AppendProperties
    <3>2. ASSUME NEW j \in 1 .. Len(K[n + 1])
          PROVE  Is6(K[n + 1][j]) = six /\ \E i \in 1 .. Len(s) : K[n + 1][j] = s[i]
      <4>1. CASE j = Len(K[n]) + 1
        BY <2>2, <2>4, <3>1, <4>1
      <4>2. CASE j \in 1 .. Len(K[n])
        BY <2>1, <3>1, <4>2
      <4> QED
        BY <2>1, <3>1, <4>1, <4>2
    <3> QED
      BY <3>1, <3>2
  <2>5. CASE Is6(s[n + 1]) # six
    BY <2>1, <2>3, <2>5
  <2> QED
    BY <2>4, <2>5
<1>5. \A n \in Nat : n \in T
  <2> HIDE DEF T
  <2> QED
    BY <1>3, <1>4, SetInduction
<1> QED
  BY <1>0, <1>1, <1>5 DEF ListOf

\* Every address is of one of the two families.
Complementary(six, other) == \A a \in Addresses : (Is6(a) = six) <=> (Is6(a) # other)

\* No address is in neither of the two lists, or in both.
LEMMA KeptLengths ==
    ASSUME NEW six, NEW other, Complementary(six, other), NEW s \in Seq(Addresses)
    PROVE  Len(OfFamily(six, s)) + Len(OfFamily(other, s)) = Len(s)
<1>0. Len(s) \in Nat
  OBVIOUS
<1>1. PICK K : K = Kept(six, s)
  OBVIOUS
<1>2. PICK M : M = Kept(other, s)
  OBVIOUS
<1>3. /\ \A i \in 0 .. Len(s) : K[i] = Round(six, s, K, i)
      /\ \A i \in 0 .. Len(s) : M[i] = Round(other, s, M, i)
  <2>1. \A i \in 0 .. Len(s) : K[i] = Round(six, s, K, i)
    BY <1>0, <1>1, KeptRounds
  <2>2. \A i \in 0 .. Len(s) : M[i] = Round(other, s, M, i)
    BY <1>0, <1>2, KeptRounds
  <2> QED
    BY <2>1, <2>2
<1>4. \A i \in 0 .. Len(s) : K[i] \in Seq(Addresses)
  BY <1>1, KeptType DEF ListOf
<1>5. \A i \in 0 .. Len(s) : M[i] \in Seq(Addresses)
  BY <1>2, KeptType DEF ListOf
<1> DEFINE T == {n \in Nat : n <= Len(s) =>
                    \E a \in Nat, b \in Nat : Len(K[n]) = a /\ Len(M[n]) = b /\ a + b = n}
<1>6. 0 \in T
  <2>1. K[0] = <<>> /\ M[0] = <<>>
    BY <1>0, <1>3 DEF Round
  <2>2. Len(K[0]) = 0 /\ Len(M[0]) = 0 /\ 0 + 0 = 0
    BY <2>1
  <2> QED
    BY <2>2
<1>7. ASSUME NEW n \in Nat, n \in T PROVE n + 1 \in T
  <2> SUFFICES ASSUME n + 1 <= Len(s)
               PROVE  \E a \in Nat, b \in Nat :
                         Len(K[n + 1]) = a /\ Len(M[n + 1]) = b /\ a + b = n + 1
    OBVIOUS
  <2>1. n <= Len(s) /\ n \in 0 .. Len(s) /\ n + 1 \in 1 .. Len(s)
    BY <1>0
  <2>2. PICK a \in Nat, b \in Nat : Len(K[n]) = a /\ Len(M[n]) = b /\ a + b = n
    BY <1>7, <2>1
  <2>3. K[n] \in Seq(Addresses) /\ M[n] \in Seq(Addresses) /\ s[n + 1] \in Addresses
    BY <1>4, <1>5, <2>1
  <2>4. /\ K[n + 1] = IF Is6(s[n + 1]) = six THEN Append(K[n], s[n + 1]) ELSE K[n]
        /\ M[n + 1] = IF Is6(s[n + 1]) = other THEN Append(M[n], s[n + 1]) ELSE M[n]
    BY <1>0, <1>3 DEF Round
  <2>5. /\ Len(Append(K[n], s[n + 1])) = a + 1
        /\ Len(Append(M[n], s[n + 1])) = b + 1
    BY <2>2, <2>3
  <2>6. CASE Is6(s[n + 1]) = six
    <3>1. Is6(s[n + 1]) # other
      BY <2>3, <2>6 DEF Complementary
    <3>2. Len(K[n + 1]) = a + 1 /\ Len(M[n + 1]) = b /\ (a + 1) + b = n + 1
      BY <2>2, <2>4, <2>5, <2>6, <3>1
    <3> QED
      BY <3>2
  <2>7. CASE Is6(s[n + 1]) # six
    <3>1. Is6(s[n + 1]) = other
      BY <2>3, <2>7 DEF Complementary
    <3>2. Len(K[n + 1]) = a /\ Len(M[n + 1]) = b + 1 /\ a + (b + 1) = n + 1
      BY <2>2, <2>4, <2>5, <2>7, <3>1
    <3> QED
      BY <3>2
  <2> QED
    BY <2>6, <2>7
<1>8. \A n \in Nat : n \in T
  <2> HIDE DEF T
  <2> QED
    BY <1>6, <1>7, SetInduction
<1>9. PICK a \in Nat, b \in Nat : Len(K[Len(s)]) = a /\ Len(M[Len(s)]) = b /\ a + b = Len(s)
  BY <1>0, <1>8
<1> QED
  BY <1>1, <1>2, <1>9, OfFamilyKept

\* The preferred list starts with the answer's first address.
LEMMA KeptFirst ==
    ASSUME NEW s \in Seq(Addresses), s # <<>>
    PROVE  Len(Preferred(s)) > 0 /\ Preferred(s)[1] = s[1]
<1>0. Len(s) \in Nat /\ Len(s) > 0 /\ s[1] \in Addresses
  OBVIOUS
<1>1. PICK six : six = Is6(s[1])
  OBVIOUS
<1>2. PICK K : K = Kept(six, s)
  OBVIOUS
<1>3. \A i \in 0 .. Len(s) : K[i] = Round(six, s, K, i)
  BY <1>0, <1>2, KeptRounds
<1>4. \A i \in 0 .. Len(s) : K[i] \in Seq(Addresses)
  BY <1>2, KeptType DEF ListOf
<1> DEFINE T == {n \in Nat : n > 0 /\ n <= Len(s) => Len(K[n]) > 0 /\ K[n][1] = s[1]}
<1>5. 0 \in T
  OBVIOUS
<1>6. ASSUME NEW n \in Nat, n \in T PROVE n + 1 \in T
  <2> SUFFICES ASSUME n + 1 <= Len(s) PROVE Len(K[n + 1]) > 0 /\ K[n + 1][1] = s[1]
    OBVIOUS
  <2>1. K[n] \in Seq(Addresses) /\ s[n + 1] \in Addresses
    BY <1>0, <1>4
  <2>2. K[n + 1] = IF Is6(s[n + 1]) = six THEN Append(K[n], s[n + 1]) ELSE K[n]
    BY <1>0, <1>3 DEF Round
  <2>3. /\ Len(Append(K[n], s[n + 1])) = Len(K[n]) + 1 /\ Len(K[n]) \in Nat
        /\ \A i \in 1 .. Len(K[n]) : Append(K[n], s[n + 1])[i] = K[n][i]
        /\ Append(K[n], s[n + 1])[Len(K[n]) + 1] = s[n + 1]
    BY <2>1, AppendProperties
  <2>4. CASE n = 0
    <3>1. Len(K[0]) = 0
      BY <1>0, <1>3 DEF Round
    <3>2. K[1] = Append(K[0], s[1])
      BY <1>1, <2>2, <2>4
    <3> QED
      BY <2>3, <2>4, <3>1, <3>2
  <2>5. CASE n > 0
    <3>1. Len(K[n]) > 0 /\ K[n][1] = s[1]
      BY <1>0, <1>6, <2>5
    <3> QED
      BY <2>2, <2>3, <3>1
  <2> QED
    BY <2>4, <2>5
<1>7. \A n \in Nat : n \in T
  <2> HIDE DEF T
  <2> QED
    BY <1>5, <1>6, SetInduction
<1>8. Preferred(s) = K[Len(s)]
  BY <1>1, <1>2, OfFamilyKept DEF Preferred
<1> QED
  BY <1>0, <1>7, <1>8

LEMMA FamilyLists ==
    ASSUME NEW six, NEW s \in Seq(Addresses)
    PROVE  ListOf(six, s, OfFamily(six, s))
<1>1. Len(s) \in 0 .. Len(s)
  OBVIOUS
<1>2. ListOf(six, s, Kept(six, s)[Len(s)])
  BY <1>1, KeptType, Zenon
<1> QED
  BY <1>2, OfFamilyKept, Zenon

\* A list is sorted into Q if, address by address, it either continues Q or is of
\* the other family; c counts how much of Q has been met.
SortsInto(six, l, Q, c) ==
    /\ l \in Seq(Addresses) /\ Q \in Seq(Addresses)
    /\ \A j \in 1 .. Len(Q) : Is6(Q[j]) = six
    /\ c \in [0 .. Len(l) -> 0 .. Len(Q)] /\ c[0] = 0 /\ c[Len(l)] = Len(Q)
    /\ \A m \in 1 .. Len(l) : \/ c[m] = c[m - 1] + 1 /\ l[m] = Q[c[m]]
                              \/ c[m] = c[m - 1] /\ Is6(l[m]) # six

LEMMA SortedInto ==
    ASSUME NEW six, NEW l, NEW Q, NEW c, SortsInto(six, l, Q, c)
    PROVE  OfFamily(six, l) = Q
<1> USE DEF SortsInto
<1>0. Len(l) \in Nat /\ Len(Q) \in Nat
  OBVIOUS
<1>1. PICK K : K = Kept(six, l)
  OBVIOUS
<1>2. \A i \in 0 .. Len(l) : K[i] = Round(six, l, K, i)
  BY <1>0, <1>1, KeptRounds
<1> DEFINE T == {m \in Nat : m <= Len(l) => K[m] = SubSeq(Q, 1, c[m])}
<1>3. 0 \in T
  <2>1. K[0] = <<>>
    BY <1>0, <1>2 DEF Round
  <2>2. SubSeq(Q, 1, 0) = <<>>
    OBVIOUS
  <2> QED
    BY <2>1, <2>2
<1>4. ASSUME NEW n \in Nat, n \in T PROVE n + 1 \in T
  <2> SUFFICES ASSUME n + 1 <= Len(l) PROVE K[n + 1] = SubSeq(Q, 1, c[n + 1])
    OBVIOUS
  <2>1. n \in 0 .. Len(l) /\ n + 1 \in 1 .. Len(l) /\ n + 1 \in 0 .. Len(l) /\ (n + 1) - 1 = n
    BY <1>0
  <2>2. K[n] = SubSeq(Q, 1, c[n])
    BY <1>4, <2>1
  <2>3. K[n + 1] = IF Is6(l[n + 1]) = six THEN Append(K[n], l[n + 1]) ELSE K[n]
    BY <1>0, <1>2 DEF Round
  <2>4. c[n] \in 0 .. Len(Q) /\ c[n + 1] \in 0 .. Len(Q)
    BY <2>1
  <2>5. CASE c[n + 1] = c[n] + 1 /\ l[n + 1] = Q[c[n + 1]]
    <3>1. PICK j \in Nat : j = c[n] /\ j + 1 \in 1 .. Len(Q) /\ l[n + 1] = Q[j + 1]
      BY <2>4, <2>5
    <3>2. Is6(l[n + 1]) = six
      BY <3>1
    <3>3. SubSeq(Q, 1, j) \in Seq(Addresses) /\ Q[j + 1] \in Addresses
      BY <3>1
    <3>4. 1 \in 1 .. Len(Q) /\ j + 1 \in 1 .. Len(Q) /\ (j + 1) - 1 = j
      BY <3>1
    <3>5. SubSeq(Q, 1, j + 1) = SubSeq(Q, 1, (j + 1) - 1) \o <<Q[j + 1]>>
      BY <3>4, SubSeqRecursiveSecond, Zenon
    <3>6. SubSeq(Q, 1, j + 1) = Append(SubSeq(Q, 1, j), Q[j + 1])
      BY <3>3, <3>4, <3>5, AppendIsConcat, Zenon
    <3> QED
      BY <2>2, <2>3, <2>5, <3>1, <3>2, <3>6
  <2>6. CASE c[n + 1] = c[n] /\ Is6(l[n + 1]) # six
    BY <2>2, <2>3, <2>6
  <2> QED
    BY <2>1, <2>5, <2>6
<1>5. Len(l) \in T
  <2> HIDE DEF T
  <2> QED
    BY <1>0, <1>3, <1>4, SetInduction
<1>6. K[Len(l)] = SubSeq(Q, 1, Len(Q))
  BY <1>0, <1>5
<1> QED
  BY <1>1, <1>6, OfFamilyKept, SubSeqFull

LEMMA OddHalf ==
    ASSUME NEW i \in Nat, i % 2 = 1
    PROVE  \E h \in Nat : i = 2 * h + 1 /\ (i + 1) \div 2 = h + 1 /\ i \div 2 = h
<1>1. i \div 2 \in Nat /\ i = 2 * (i \div 2) + 1
  OBVIOUS
<1>2. PICK h \in Nat : h = i \div 2 /\ i = 2 * h + 1
  BY <1>1
<1>3. (i + 1) \div 2 = h + 1
  BY <1>2
<1> QED
  BY <1>2, <1>3

LEMMA EvenHalf ==
    ASSUME NEW i \in Nat, i % 2 = 0
    PROVE  \E h \in Nat : i = 2 * h /\ (i + 1) \div 2 = h /\ i \div 2 = h
<1>1. i \div 2 \in Nat /\ i = 2 * (i \div 2)
  OBVIOUS
<1>2. PICK h \in Nat : h = i \div 2 /\ i = 2 * h
  BY <1>1
<1>3. (i + 1) \div 2 = h
  BY <1>2
<1> QED
  BY <1>2, <1>3

\* Where the i-th address of the interleaved list is from.
TakenFrom(i, l, P, A, k) ==
    \/ i <= 2 * k /\ i % 2 = 1 /\ (i + 1) \div 2 \in 1 .. Len(P) /\ l[i] = P[(i + 1) \div 2]
    \/ i <= 2 * k /\ i % 2 = 0 /\ i \div 2 \in 1 .. Len(A) /\ l[i] = A[i \div 2]
    \/ i > 2 * k /\ Len(P) > k /\ i - k \in 1 .. Len(P) /\ l[i] = P[i - k]
    \/ i > 2 * k /\ Len(P) <= k /\ i - k \in 1 .. Len(A) /\ l[i] = A[i - k]

\* The rounds of the loop, the list it makes, and what the list is shown to be.
Shorter(P, A) == IF Len(P) < Len(A) THEN Len(P) ELSE Len(A)
InTurn(P, A, k, n) ==
    [i \in 1 .. n |-> IF i > 2 * k THEN IF Len(P) > k THEN P[i - k] ELSE A[i - k]
                      ELSE IF i % 2 = 1 THEN P[(i + 1) \div 2] ELSE A[i \div 2]]
Interleaved(l, P, A, k) ==
    /\ l \in Seq(Addresses) /\ Len(l) = Len(P) + Len(A)
    /\ \A i \in 1 .. Len(l) : TakenFrom(i, l, P, A, k)

LEMMA InterleavedInTurn ==
    ASSUME NEW s
    PROVE  interleaveAddressFamilies(s) =
              IF Len(s) < 2 THEN s
              ELSE InTurn(Preferred(s), Alternate(s), Shorter(Preferred(s), Alternate(s)), Len(s))
  BY Zenon DEF interleaveAddressFamilies, InTurn, Shorter

\* Where the addresses of the interleaved list come from: from the two lists in
\* turn as long as both last, k rounds, and then from the longer one.
LEMMA InterleavedPositions ==
    ASSUME NEW P \in Seq(Addresses), NEW A \in Seq(Addresses), NEW k \in Nat,
           k = Shorter(P, A), NEW l, l = InTurn(P, A, k, Len(P) + Len(A))
    PROVE  Interleaved(l, P, A, k)
<1> USE DEF Shorter, InTurn, Interleaved
<1>1. PICK p \in Nat, a \in Nat : p = Len(P) /\ a = Len(A)
  OBVIOUS
<1>2. k <= p /\ k <= a /\ (k = p \/ k = a)
  BY <1>1
<1>3. ASSUME NEW i \in 1 .. p + a PROVE TakenFrom(i, l, P, A, k)
  <2>1. CASE i > 2 * k
    BY <1>1, <1>2, <2>1 DEF TakenFrom
  <2>2. CASE i <= 2 * k /\ i % 2 = 1
    <3>0. PICK h \in Nat : i = 2 * h + 1 /\ (i + 1) \div 2 = h + 1
      BY <2>2, OddHalf
    <3>1. (i + 1) \div 2 \in 1 .. p
      BY <1>2, <2>2, <3>0
    <3>2. l[i] = P[(i + 1) \div 2]
      BY <1>1, <2>2
    <3> QED
      BY <1>1, <2>2, <3>1, <3>2 DEF TakenFrom
  <2>3. CASE i <= 2 * k /\ i % 2 = 0
    <3>1. i \div 2 \in 1 .. a
      BY <1>2, <2>3
    <3>2. l[i] = A[i \div 2]
      BY <1>1, <2>3
    <3> QED
      BY <1>1, <2>3, <3>1, <3>2 DEF TakenFrom
  <2> QED
    BY <2>1, <2>2, <2>3
<1>4. ASSUME NEW i \in 1 .. p + a PROVE l[i] \in Addresses
  BY <1>1, <1>3 DEF TakenFrom
<1>5. l \in Seq(Addresses) /\ Len(l) = p + a
  BY <1>1, <1>4
<1> QED
  BY <1>1, <1>3, <1>5

\* How many of the first m addresses of the interleaved list are from the
\* preferred list, of length p, and from the alternate one.
FromP(m, p, k) == IF m <= 2 * k THEN (m + 1) \div 2 ELSE IF p > k THEN m - k ELSE k
FromA(m, p, k) == IF m <= 2 * k THEN m \div 2 ELSE IF p > k THEN k ELSE m - k

LEMMA Parity ==
    ASSUME NEW i \in Nat
    PROVE  /\ i % 2 = 0 \/ i % 2 = 1
           /\ i % 2 = 0 <=> (i + 1) % 2 = 1
           /\ i % 2 = 1 <=> (i + 1) % 2 = 0
           /\ (2 * i) % 2 = 0
  OBVIOUS

LEMMA FromLate ==
    ASSUME NEW m \in Nat, NEW p \in Nat, NEW k \in Nat, m >= 2 * k
    PROVE  /\ FromP(m, p, k) = IF p > k THEN m - k ELSE k
           /\ FromA(m, p, k) = IF p > k THEN k ELSE m - k
<1>1. CASE m = 2 * k
  <2>1. m % 2 = 0
    BY <1>1, Parity
  <2>2. PICK h \in Nat : m = 2 * h /\ (m + 1) \div 2 = h /\ m \div 2 = h
    BY <2>1, EvenHalf
  <2>3. h = k /\ m - k = k
    BY <1>1, <2>2
  <2> QED
    BY <1>1, <2>2, <2>3 DEF FromP, FromA
<1>2. CASE m > 2 * k
  BY <1>2 DEF FromP, FromA
<1> QED
  BY <1>1, <1>2

LEMMA EarlyOdd ==
    ASSUME NEW m \in Nat, NEW p \in Nat, NEW k \in Nat, m <= 2 * k, m % 2 = 1
    PROVE  \E h \in Nat : m = 2 * h + 1 /\ FromP(m, p, k) = h + 1 /\ FromA(m, p, k) = h
<1>1. FromP(m, p, k) = (m + 1) \div 2 /\ FromA(m, p, k) = m \div 2
  BY DEF FromP, FromA
<1> QED
  BY <1>1, OddHalf

LEMMA EarlyEven ==
    ASSUME NEW m \in Nat, NEW p \in Nat, NEW k \in Nat, m <= 2 * k, m % 2 = 0
    PROVE  \E h \in Nat : m = 2 * h /\ FromP(m, p, k) = h /\ FromA(m, p, k) = h
<1>1. FromP(m, p, k) = (m + 1) \div 2 /\ FromA(m, p, k) = m \div 2
  BY DEF FromP, FromA
<1> QED
  BY <1>1, EvenHalf

\* The counts over the whole list ...
CountsWhole(p, a, k) ==
    /\ \A m \in 0 .. p + a : FromP(m, p, k) \in 0 .. p /\ FromA(m, p, k) \in 0 .. a
    /\ FromP(0, p, k) = 0 /\ FromA(0, p, k) = 0
    /\ FromP(p + a, p, k) = p /\ FromA(p + a, p, k) = a

LEMMA FromCounts ==
    ASSUME NEW p \in Nat, NEW a \in Nat, NEW k \in Nat, k <= p, k <= a, k = p \/ k = a
    PROVE  CountsWhole(p, a, k)
<1>1. ASSUME NEW m \in 0 .. p + a PROVE FromP(m, p, k) \in 0 .. p /\ FromA(m, p, k) \in 0 .. a
  <2>1. m \in Nat /\ m <= p + a /\ (m % 2 = 0 \/ m % 2 = 1)
    BY Parity
  <2>2. CASE m >= 2 * k
    BY <2>1, <2>2, FromLate
  <2>3. CASE m <= 2 * k /\ m % 2 = 1
    <3>1. PICK h \in Nat : m = 2 * h + 1 /\ FromP(m, p, k) = h + 1 /\ FromA(m, p, k) = h
      BY <2>1, <2>3, EarlyOdd
    <3> QED
      BY <2>3, <3>1
  <2>4. CASE m <= 2 * k /\ m % 2 = 0
    <3>1. PICK h \in Nat : m = 2 * h /\ FromP(m, p, k) = h /\ FromA(m, p, k) = h
      BY <2>1, <2>4, EarlyEven
    <3> QED
      BY <2>4, <3>1
  <2> QED
    BY <2>1, <2>2, <2>3, <2>4
<1>2. FromP(0, p, k) = 0 /\ FromA(0, p, k) = 0
  BY DEF FromP, FromA
<1>3. p + a \in Nat /\ p + a >= 2 * k
  OBVIOUS
<1>4. /\ FromP(p + a, p, k) = IF p > k THEN (p + a) - k ELSE k
      /\ FromA(p + a, p, k) = IF p > k THEN k ELSE (p + a) - k
  BY <1>3, FromLate
<1> QED
  BY <1>1, <1>2, <1>4 DEF CountsWhole

LEMMA FromOdd ==
    ASSUME NEW m \in Nat, NEW p \in Nat, NEW k \in Nat, m <= 2 * k, m % 2 = 1
    PROVE  /\ FromP(m, p, k) = (m + 1) \div 2 /\ FromP(m, p, k) = FromP(m - 1, p, k) + 1
           /\ FromA(m, p, k) = FromA(m - 1, p, k)
<1>1. PICK h \in Nat : m = 2 * h + 1 /\ FromP(m, p, k) = h + 1 /\ FromA(m, p, k) = h
  BY EarlyOdd
<1>2. m - 1 \in Nat /\ m - 1 = 2 * h /\ m - 1 <= 2 * k
  BY <1>1
<1>3. (m - 1) % 2 = 0
  BY <1>2, Parity
<1>4. PICK g \in Nat : m - 1 = 2 * g /\ FromP(m - 1, p, k) = g /\ FromA(m - 1, p, k) = g
  BY <1>2, <1>3, EarlyEven
<1>5. g = h
  BY <1>2, <1>4
<1> QED
  BY <1>1, <1>4, <1>5 DEF FromP

LEMMA FromEven ==
    ASSUME NEW m \in Nat \ {0}, NEW p \in Nat, NEW k \in Nat, m <= 2 * k, m % 2 = 0
    PROVE  /\ FromA(m, p, k) = m \div 2 /\ FromA(m, p, k) = FromA(m - 1, p, k) + 1
           /\ FromP(m, p, k) = FromP(m - 1, p, k)
<1>0. m \in Nat
  OBVIOUS
<1>1. PICK h \in Nat : m = 2 * h /\ FromP(m, p, k) = h /\ FromA(m, p, k) = h
  BY <1>0, EarlyEven
<1>2. m - 1 \in Nat /\ m - 1 <= 2 * k /\ (m - 1) + 1 = m
  BY <1>1
<1>3. (m - 1) % 2 = 1
  BY <1>2, Parity
<1>4. PICK g \in Nat : m - 1 = 2 * g + 1 /\ FromP(m - 1, p, k) = g + 1 /\ FromA(m - 1, p, k) = g
  BY <1>2, <1>3, EarlyOdd
<1>5. h = g + 1
  BY <1>1, <1>4
<1> QED
  BY <1>1, <1>4, <1>5 DEF FromA

LEMMA FromRest ==
    ASSUME NEW m \in Nat, NEW p \in Nat, NEW k \in Nat, m > 2 * k
    PROVE  /\ p > k => /\ FromP(m, p, k) = m - k /\ FromP(m, p, k) = FromP(m - 1, p, k) + 1
                       /\ FromA(m, p, k) = FromA(m - 1, p, k)
           /\ p <= k => /\ FromA(m, p, k) = m - k /\ FromA(m, p, k) = FromA(m - 1, p, k) + 1
                        /\ FromP(m, p, k) = FromP(m - 1, p, k)
<1>1. m - 1 \in Nat /\ m - 1 >= 2 * k /\ m >= 2 * k
  OBVIOUS
<1>2. /\ FromP(m, p, k) = IF p > k THEN m - k ELSE k
      /\ FromA(m, p, k) = IF p > k THEN k ELSE m - k
  BY <1>1, FromLate
<1>3. /\ FromP(m - 1, p, k) = IF p > k THEN (m - 1) - k ELSE k
      /\ FromA(m - 1, p, k) = IF p > k THEN k ELSE (m - 1) - k
  BY <1>1, FromLate
<1> QED
  BY <1>2, <1>3

\* ... and one address further on.
CountsOne(m, l, P, A, p, k) ==
    \/ /\ FromP(m, p, k) = FromP(m - 1, p, k) + 1 /\ FromA(m, p, k) = FromA(m - 1, p, k)
       /\ FromP(m, p, k) \in 1 .. Len(P) /\ l[m] = P[FromP(m, p, k)]
    \/ /\ FromA(m, p, k) = FromA(m - 1, p, k) + 1 /\ FromP(m, p, k) = FromP(m - 1, p, k)
       /\ FromA(m, p, k) \in 1 .. Len(A) /\ l[m] = A[FromA(m, p, k)]

LEMMA TakenCounts ==
    ASSUME NEW P \in Seq(Addresses), NEW A \in Seq(Addresses), NEW k \in Nat, NEW l,
           NEW m \in Nat \ {0}, TakenFrom(m, l, P, A, k), NEW p \in Nat, p = Len(P)
    PROVE  CountsOne(m, l, P, A, p, k)
<1>0. m \in Nat
  OBVIOUS
<1>1. CASE m <= 2 * k /\ m % 2 = 1 /\ (m + 1) \div 2 \in 1 .. Len(P) /\ l[m] = P[(m + 1) \div 2]
  <2>1. /\ FromP(m, p, k) = (m + 1) \div 2 /\ FromP(m, p, k) = FromP(m - 1, p, k) + 1
        /\ FromA(m, p, k) = FromA(m - 1, p, k)
    BY <1>0, <1>1, FromOdd
  <2> QED
    BY <1>1, <2>1 DEF CountsOne
<1>2. CASE m <= 2 * k /\ m % 2 = 0 /\ m \div 2 \in 1 .. Len(A) /\ l[m] = A[m \div 2]
  <2>1. /\ FromA(m, p, k) = m \div 2 /\ FromA(m, p, k) = FromA(m - 1, p, k) + 1
        /\ FromP(m, p, k) = FromP(m - 1, p, k)
    BY <1>2, FromEven
  <2> QED
    BY <1>2, <2>1 DEF CountsOne
<1>3. CASE m > 2 * k /\ p > k /\ m - k \in 1 .. Len(P) /\ l[m] = P[m - k]
  <2>1. /\ FromP(m, p, k) = m - k /\ FromP(m, p, k) = FromP(m - 1, p, k) + 1
        /\ FromA(m, p, k) = FromA(m - 1, p, k)
    BY <1>0, <1>3, FromRest
  <2> QED
    BY <1>3, <2>1 DEF CountsOne
<1>4. CASE m > 2 * k /\ p <= k /\ m - k \in 1 .. Len(A) /\ l[m] = A[m - k]
  <2>1. /\ FromA(m, p, k) = m - k /\ FromA(m, p, k) = FromA(m - 1, p, k) + 1
        /\ FromP(m, p, k) = FromP(m - 1, p, k)
    BY <1>0, <1>4, FromRest
  <2> QED
    BY <1>4, <2>1 DEF CountsOne
<1> QED
  BY <1>1, <1>2, <1>3, <1>4 DEF TakenFrom

\* Sorting the interleaved list gives the two lists back ...
SortedBack(l, six, P, other, A) == OfFamily(six, l) = P /\ OfFamily(other, l) = A

LEMMA InterleavedSorted ==
    ASSUME NEW P, NEW A, NEW k \in Nat, k = Shorter(P, A), NEW s,
           NEW six, NEW other, six # other, ListOf(six, s, P), ListOf(other, s, A),
           NEW l, Interleaved(l, P, A, k)
    PROVE  SortedBack(l, six, P, other, A)
<1> USE DEF Shorter, ListOf, Interleaved, SortedBack
<1>0. PICK p \in Nat, a \in Nat : p = Len(P) /\ a = Len(A) /\ Len(l) = p + a
  OBVIOUS
<1>1. k <= p /\ k <= a /\ (k = p \/ k = a)
  BY <1>0
<1>2. CountsWhole(p, a, k)
  BY <1>0, <1>1, FromCounts, Zenon
<1>3. ASSUME NEW m \in 1 .. Len(l)
      PROVE  \/ /\ FromP(m, p, k) = FromP(m - 1, p, k) + 1 /\ FromA(m, p, k) = FromA(m - 1, p, k)
                /\ Is6(l[m]) = six /\ l[m] = P[FromP(m, p, k)]
             \/ /\ FromA(m, p, k) = FromA(m - 1, p, k) + 1 /\ FromP(m, p, k) = FromP(m - 1, p, k)
                /\ Is6(l[m]) = other /\ l[m] = A[FromA(m, p, k)]
  <2>1. TakenFrom(m, l, P, A, k) /\ m \in Nat \ {0}
    BY <1>0
  <2>2. CountsOne(m, l, P, A, p, k)
    BY <1>0, <2>1, TakenCounts, Zenon
  <2> QED
    BY <2>2 DEF CountsOne
<1>4. OfFamily(six, l) = P
  <2>1. PICK c : c = [m \in 0 .. Len(l) |-> FromP(m, p, k)]
    OBVIOUS
  <2>2. c \in [0 .. Len(l) -> 0 .. Len(P)] /\ c[0] = 0 /\ c[Len(l)] = Len(P)
    BY <1>0, <1>2, <2>1 DEF CountsWhole
  <2>3. ASSUME NEW m \in 1 .. Len(l)
        PROVE  \/ c[m] = c[m - 1] + 1 /\ l[m] = P[c[m]]
               \/ c[m] = c[m - 1] /\ Is6(l[m]) # six
    <3>1. c[m] = FromP(m, p, k) /\ c[m - 1] = FromP(m - 1, p, k)
      BY <1>0, <2>1
    <3> QED
      BY <1>3, <3>1
  <2>4. SortsInto(six, l, P, c)
    BY <2>2, <2>3 DEF SortsInto
  <2> QED
    BY <2>4, SortedInto, Zenon
<1>5. OfFamily(other, l) = A
  <2>1. PICK c : c = [m \in 0 .. Len(l) |-> FromA(m, p, k)]
    OBVIOUS
  <2>2. c \in [0 .. Len(l) -> 0 .. Len(A)] /\ c[0] = 0 /\ c[Len(l)] = Len(A)
    BY <1>0, <1>2, <2>1 DEF CountsWhole
  <2>3. ASSUME NEW m \in 1 .. Len(l)
        PROVE  \/ c[m] = c[m - 1] + 1 /\ l[m] = A[c[m]]
               \/ c[m] = c[m - 1] /\ Is6(l[m]) # other
    <3>1. c[m] = FromA(m, p, k) /\ c[m - 1] = FromA(m - 1, p, k)
      BY <1>0, <2>1
    <3> QED
      BY <1>3, <3>1
  <2>4. SortsInto(other, l, A, c)
    BY <2>2, <2>3 DEF SortsInto
  <2> QED
    BY <2>4, SortedInto, Zenon
<1> QED
  BY <1>4, <1>5

\* ... and as long as both last the families alternate.
LEMMA InterleavedAlternates ==
    ASSUME NEW P, NEW A, NEW k \in Nat, NEW s,
           NEW six, NEW other, six # other, ListOf(six, s, P), ListOf(other, s, A),
           NEW l, NEW i \in Nat, i < 2 * k,
           TakenFrom(i, l, P, A, k), TakenFrom(i + 1, l, P, A, k)
    PROVE  Is6(l[i]) # Is6(l[i + 1])
<1> USE DEF ListOf
<1>1. /\ i % 2 = 0 \/ i % 2 = 1
      /\ i % 2 = 0 => (i + 1) % 2 = 1
      /\ i % 2 = 1 => (i + 1) % 2 = 0
  BY Parity
<1>2. i <= 2 * k /\ i + 1 <= 2 * k /\ ~(i > 2 * k) /\ ~(i + 1 > 2 * k)
  OBVIOUS
<1>3. CASE i % 2 = 1
  <2>1. Is6(l[i]) = six
    BY <1>2, <1>3 DEF TakenFrom
  <2>2. Is6(l[i + 1]) = other
    BY <1>1, <1>2, <1>3 DEF TakenFrom
  <2> QED
    BY <2>1, <2>2
<1>4. CASE i % 2 = 0
  <2>1. Is6(l[i]) = other
    BY <1>2, <1>4 DEF TakenFrom
  <2>2. Is6(l[i + 1]) = six
    BY <1>1, <1>2, <1>4 DEF TakenFrom
  <2> QED
    BY <2>1, <2>2
<1> QED
  BY <1>1, <1>3, <1>4

\* What DialOrder and FamiliesAlternate say of the dialled list l and the answer s,
\* and that l has no address that s has not.
Ordered(l, s) ==
    /\ l \in Seq(Addresses) /\ Len(l) = Len(s) /\ l[1] = s[1]
    /\ \A i \in 1 .. Len(l) : \E j \in 1 .. Len(s) : l[i] = s[j]
    /\ \A six \in BOOLEAN : OfFamily(six, l) = OfFamily(six, s)
    /\ \A i \in 1 .. Len(l) - 1 :
          (\A six \in BOOLEAN : i < 2 * Len(OfFamily(six, s))) => Is6(l[i]) # Is6(l[i + 1])

\* The two families, that of the first address and the other one.
LEMMA TwoFamilies ==
    ASSUME NEW a
    PROVE  \E six \in BOOLEAN, other \in BOOLEAN :
              /\ six = Is6(a) /\ other = ~Is6(a) /\ six # other
              /\ \A b \in BOOLEAN : b = six \/ b = other
              /\ Complementary(six, other)
<1>1. Is6(a) \in BOOLEAN /\ (~Is6(a)) \in BOOLEAN /\ Is6(a) # ~Is6(a)
  BY DEF Is6
<1>2. \A b \in BOOLEAN : b = Is6(a) \/ b = ~Is6(a)
  BY DEF Is6
<1>3. Complementary(Is6(a), ~Is6(a))
  BY DEF Is6, Complementary
<1> QED
  BY <1>1, <1>2, <1>3, Zenon

LEMMA InterleavedOrder ==
    ASSUME NEW s \in Seq(Addresses), s # <<>>
    PROVE  Ordered(interleaveAddressFamilies(s), s)
<1>0. PICK n \in Nat : n = Len(s) /\ n > 0
  OBVIOUS
<1>1. CASE n < 2
  <2>1. interleaveAddressFamilies(s) = s
    BY <1>0, <1>1 DEF interleaveAddressFamilies
  <2> QED
    BY <1>0, <1>1, <2>1 DEF Ordered
<1>2. CASE n >= 2
  <2>1. PICK six \in BOOLEAN, other \in BOOLEAN :
           /\ six = Is6(s[1]) /\ other = ~Is6(s[1]) /\ six # other
           /\ \A b \in BOOLEAN : b = six \/ b = other
           /\ Complementary(six, other)
    BY TwoFamilies
  <2>2. PICK P : P = OfFamily(six, s)
    OBVIOUS
  <2>3. PICK A : A = OfFamily(other, s)
    OBVIOUS
  <2>4. P = Preferred(s) /\ A = Alternate(s)
    BY <2>1, <2>2, <2>3 DEF Preferred, Alternate
  <2>5. ListOf(six, s, P)
    BY <2>2, FamilyLists, Zenon
  <2>6. ListOf(other, s, A)
    BY <2>3, FamilyLists, Zenon
  <2>7. Len(P) + Len(A) = Len(s)
    BY <2>1, <2>2, <2>3, KeptLengths, Zenon
  <2>8. Len(P) > 0 /\ P[1] = s[1]
    BY <2>4, KeptFirst, Zenon
  <2>9. PICK k \in Nat : k = Shorter(P, A) /\ k <= Len(A) /\ (k = Len(P) \/ k = Len(A))
    BY <2>5, <2>6 DEF ListOf, Shorter
  <2>10. PICK l : l = interleaveAddressFamilies(s)
    OBVIOUS
  <2>11. l = InTurn(P, A, k, Len(P) + Len(A))
    BY <1>0, <1>2, <2>4, <2>7, <2>9, <2>10, InterleavedInTurn
  <2>12. Interleaved(l, P, A, k)
    <3>1. P \in Seq(Addresses) /\ A \in Seq(Addresses)
      BY <2>5, <2>6 DEF ListOf
    <3> QED
      BY <2>9, <2>11, <3>1, InterleavedPositions, Zenon
  <2>13. OfFamily(six, l) = P /\ OfFamily(other, l) = A
    <3>1. k \in Nat /\ k = Shorter(P, A) /\ six # other
      BY <2>1, <2>9
    <3> SUFFICES SortedBack(l, six, P, other, A)
      BY DEF SortedBack
    <3> QED
      BY <2>5, <2>6, <2>12, <3>1, InterleavedSorted, Zenon
  <2>14. l[1] = s[1]
    <3>1. 1 \in 1 .. Len(l)
      BY <1>0, <2>7, <2>12 DEF Interleaved
    <3>2. TakenFrom(1, l, P, A, k)
      BY <2>12, <3>1 DEF Interleaved
    <3>3. k = 0 \/ 1 <= 2 * k
      BY <2>9
    <3>4. (1 + 1) \div 2 = 1 /\ 1 % 2 = 1
      OBVIOUS
    <3>5. l[1] = P[1]
      BY <2>5, <2>6, <2>8, <2>9, <3>2, <3>3, <3>4 DEF TakenFrom, ListOf
    <3> QED
      BY <2>8, <3>5
  <2>15. ASSUME NEW i \in 1 .. Len(l) PROVE \E j \in 1 .. Len(s) : l[i] = s[j]
    <3>1. TakenFrom(i, l, P, A, k)
      BY <2>12 DEF Interleaved
    <3>2. \/ \E j \in 1 .. Len(P) : l[i] = P[j]
          \/ \E j \in 1 .. Len(A) : l[i] = A[j]
      BY <3>1, Zenon DEF TakenFrom
    <3> QED
      BY <2>5, <2>6, <3>2, Zenon DEF ListOf
  <2>16. ASSUME NEW i \in 1 .. Len(l) - 1, \A b \in BOOLEAN : i < 2 * Len(OfFamily(b, s))
         PROVE  Is6(l[i]) # Is6(l[i + 1])
    <3>1. i < 2 * Len(P) /\ i < 2 * Len(A)
      BY <2>2, <2>3, <2>16
    <3>2. i \in Nat /\ i < 2 * k /\ i \in 1 .. Len(l) /\ i + 1 \in 1 .. Len(l)
      BY <2>5, <2>6, <2>9, <2>12, <3>1 DEF ListOf, Interleaved
    <3>3. TakenFrom(i, l, P, A, k) /\ TakenFrom(i + 1, l, P, A, k)
      BY <2>12, <3>2 DEF Interleaved
    <3> QED
      BY <2>1, <2>5, <2>6, <2>9, <3>2, <3>3, InterleavedAlternates, Zenon
  <2>17. \A b \in BOOLEAN : OfFamily(b, l) = OfFamily(b, s)
    BY <2>1, <2>2, <2>3, <2>13, Zenon
  <2>18. Ordered(l, s)
    BY <2>7, <2>12, <2>14, <2>15, <2>16, <2>17, Zenon DEF Ordered, Interleaved
  <2> QED
    BY <2>10, <2>18
<1> QED
  BY <1>0, <1>1, <1>2

-----------------------------------------------------------------------------
(***************************************************************************)
(* The policy's tests and its description.                                 *)
(***************************************************************************)

LEMMA CanonicalType ==
    ASSUME NEW labels \in Names
    PROVE  Canonical(labels) \in Seq(STRING)
<1> DEFINE low == [i \in DOMAIN labels |->
                     IF labels[i] \in DOMAIN Lower THEN Lower[labels[i]] ELSE labels[i]]
<1>1. Len(labels) \in Nat /\ DOMAIN labels = 1 .. Len(labels)
  BY DEF Names
<1>2. ASSUME NEW i \in 1 .. Len(labels) PROVE low[i] \in STRING
  BY <1>1, <1>2, LowerAssumption DEF Names
<1>3. low \in Seq(STRING) /\ Len(low) = Len(labels)
  BY <1>1, <1>2
<1>4. Canonical(labels) = IF Len(low) > 1 /\ low[Len(low)] = ""
                          THEN SubSeq(low, 1, Len(low) - 1) ELSE low
  BY DEF Canonical
<1> HIDE DEF low
<1>5. ASSUME Len(low) > 1 PROVE SubSeq(low, 1, Len(low) - 1) \in Seq(STRING)
  <2>0. Len(low) - 1 \in Nat /\ Len(low) - 1 <= Len(low)
    BY <1>1, <1>3, <1>5
  <2>1. PICK m \in Nat : m = Len(low) - 1 /\ m <= Len(low)
    BY <2>0
  <2>2. SubSeq(low, 1, m) \in Seq(STRING)
    BY <1>3, <2>1
  <2> QED
    BY <2>1, <2>2
<1> QED
  BY <1>3, <1>4, <1>5

\* The suffix test at one position finds the suffix at any position.
LEMMA EndsInSuffix ==
    ASSUME NEW q \in Seq(STRING), NEW d \in Seq(STRING)
    PROVE  EndsIn(q, d) <=>
              /\ q[1] \in {"", "*"} /\ Len(q) > 1
              /\ \E i \in 1 .. Len(d) - 1 : SubSeq(d, i + 1, Len(d)) = Tail(q)
<1>0. Len(q) \in Nat /\ Len(d) \in Nat
  OBVIOUS
<1>1. ASSUME EndsIn(q, d)
      PROVE  \E i \in 1 .. Len(d) - 1 : SubSeq(d, i + 1, Len(d)) = Tail(q)
  <2>0. Len(q) > 1 /\ Len(d) >= Len(q)
    BY <1>1 DEF EndsIn
  <2>1. Len(d) - Len(q) + 1 \in 1 .. Len(d) - 1
    BY <1>0, <2>0
  <2>2. (Len(d) - Len(q) + 1) + 1 = Len(d) - Len(q) + 2
    BY <1>0
  <2>3. SubSeq(d, (Len(d) - Len(q) + 1) + 1, Len(d)) = Tail(q)
    BY <1>1, <2>2 DEF EndsIn
  <2> QED
    BY <2>1, <2>3, Zenon
<1>2. ASSUME Len(q) > 1, NEW i \in 1 .. Len(d) - 1, SubSeq(d, i + 1, Len(d)) = Tail(q)
      PROVE  /\ Len(d) >= Len(q)
             /\ SubSeq(d, Len(d) - Len(q) + 2, Len(d)) = Tail(q)
  <2>1. Len(Tail(q)) = Len(q) - 1
    BY <1>0, <1>2
  <2>2. Len(SubSeq(d, i + 1, Len(d))) = Len(d) - i
    BY <1>0
  <2>3. i = Len(d) - Len(q) + 1
    BY <1>0, <1>2, <2>1, <2>2
  <2>4. Len(d) - Len(q) + 2 = i + 1 /\ Len(d) >= Len(q)
    BY <1>0, <2>3
  <2> QED
    BY <1>2, <2>4
<1> QED
  BY <1>1, <1>2 DEF EndsIn

LEMMA MatchesIffCovers ==
    ASSUME NEW patterns \in SUBSET Names, NEW name \in Names
    PROVE  matchesDomainPolicy(patterns, name) <=> \E q \in patterns : Covers(q, name)
<1>1. ASSUME NEW q \in patterns
      PROVE  Covers(q, name) <=>
                Canonical(q) = Canonical(name) \/ EndsIn(Canonical(q), Canonical(name))
  <2>1. PICK b \in Seq(STRING) : b = Canonical(q)
    BY CanonicalType
  <2>2. PICK n \in Seq(STRING) : n = Canonical(name)
    BY CanonicalType
  <2>3. Covers(q, name) <=> \/ n = b
                            \/ /\ b[1] \in {"", "*"} /\ Len(b) > 1
                               /\ \E i \in 1 .. Len(n) - 1 : SubSeq(n, i + 1, Len(n)) = Tail(b)
    BY <2>1, <2>2 DEF Covers
  <2> QED
    BY <2>1, <2>2, <2>3, EndsInSuffix
<1> QED
  BY <1>1, Zenon DEF matchesDomainPolicy

\* A destination goes on to be resolved: the description permits it, or it is
\* disputed and its port is permitted.
Passes(p, d) == PermitsPort(p, d) /\ (Disputed(p, d) \/ PermitsDest(p, d))

\* What validateDestination tests before it resolves.
LEMMA AdmitsIffPermits ==
    ASSUME NEW p \in Policies, NEW d \in Dests
    PROVE  AdmitsUnresolved(p, d) <=> Passes(p, d)
<1>1. /\ p.denyDomains \in SUBSET Names /\ p.allowDomains \in SUBSET Names
      /\ d.fqdn \in Names
  BY PoliciesAssumption, DestsAssumption
<1>2. /\ matchesDomainPolicy(p.denyDomains, d.fqdn) <=>
            \E q \in p.denyDomains : Covers(q, d.fqdn)
      /\ matchesDomainPolicy(p.allowDomains, d.fqdn) <=>
            \E q \in p.allowDomains : Covers(q, d.fqdn)
  BY <1>1, MatchesIffCovers
<1> QED
  BY <1>2, Zenon DEF AdmitsUnresolved, Passes, PermitsPort, PermitsDest, Disputed, Listed,
                     IsValid, validateNameAndPortPolicy

\* What it tests of the resolved addresses is what its description says of them.
LEMMA PassesIffPermits ==
    ASSUME NEW p \in Policies, NEW ans, ans # <<>>
    PROVE  AdmitsResolved(p, ans) <=> PermitsAnswer(p, ans)
<1>1. \A prefixes, a : matchesCIDRPolicy(prefixes, a) <=> Unmap(a) \in UNION prefixes
  BY Zenon DEF matchesCIDRPolicy
<1>2. p.allowPrivate \in BOOLEAN
  BY PoliciesAssumption
<1>3. ASSUME NEW a
      PROVE  PermitsAddr(p, a) <=>
                /\ ~matchesCIDRPolicy(p.denyCIDRs, a)
                /\ ~(isPrivateDestination(a) /\ ~p.allowPrivate
                     /\ ~matchesCIDRPolicy(p.allowCIDRs, a))
                /\ ~(p.allowCIDRs # {} /\ ~matchesCIDRPolicy(p.allowCIDRs, a))
  BY <1>1, Zenon DEF PermitsAddr, isPrivateDestination
<1>4. validateResolvedDestinationPolicy(p, ans) <=> PermitsAnswer(p, ans)
  BY <1>3, Zenon DEF validateResolvedDestinationPolicy, PermitsAnswer
<1>5. ASSUME p.allowPrivate, ~needsCIDRPolicy(p)
      PROVE  PermitsAnswer(p, ans)
  <2>1. p.allowCIDRs = {} /\ p.denyCIDRs = {}
    BY <1>5, Zenon DEF needsCIDRPolicy
  <2>2. \A a : PermitsAddr(p, a)
    BY <1>5, <2>1, Zenon DEF PermitsAddr
  <2> QED
    BY <2>2, Zenon DEF PermitsAnswer
<1> QED
  BY <1>4, <1>5, Zenon DEF AdmitsResolved

-----------------------------------------------------------------------------
(***************************************************************************)
(* The inductive invariant.                                                *)
(***************************************************************************)

\* Lookups, for a stream of kind k.
AnswersTo(k, d) == IF d.addr # NoAddr THEN {<<d.addr>>} ELSE Answers[k]

\* Destination d passed the policy p with the answer ans, or the first half of it.
HalfChecked(p, d, ans, c) == d \in Dests /\ Passes(p, d) /\ ans = NoAnswer /\ c = NoContact
Checked(p, k, d, ans) ==
    d \in Dests /\ Passes(p, d) /\ ans \in AnswersTo(k, d) /\ PermitsAnswer(p, ans)

\* An entry of the cache is the first address of a checked answer.
Entry(p, k, d, e) ==
    /\ Checked(p, k, d, e.answer) /\ e.addr = e.answer[1]
    /\ e.at \in Nat /\ e.expiresAt = e.at + TTL

\* A contact is to an address of a checked answer; if the stream has only one
\* destination, to that one, and a dial to the answer it is dialling.
Justified(c, p, k, d, ans) ==
    /\ Checked(p, k, c.dest, c.answer)
    /\ c.addr \in {c.answer[i] : i \in DOMAIN c.answer}
    /\ k # "packets" => c.dest = d
    /\ k = "tcp" => c.answer = ans

\* What is left to dial is from the answer, in order until the first dial.
Dialling(l, ans, c) ==
    /\ l \in Seq(Addresses)
    /\ \A i \in 1 .. Len(l) : \E j \in 1 .. Len(ans) : l[i] = ans[j]
    /\ c = NoContact => Ordered(l, ans)

Types ==
    /\ policy \in Policies /\ now \in Nat
    /\ pc \in {"new", "resolve", "dial", "read", "lookup", "refused", "closed"}
    /\ pc # "new" => kind \in Kinds

\* How far the destination has been checked, by the point the stream is at.
Stages ==
    /\ pc = "new" => answer = NoAnswer /\ last = NoContact /\ DOMAIN cache = {}
    /\ pc = "resolve" => HalfChecked(policy, dest, answer, last) /\ DOMAIN cache = {}
    /\ pc = "dial" => kind = "tcp" /\ Checked(policy, kind, dest, answer) /\ Dialling(list, answer, last)
    /\ pc \in {"read", "lookup"} => kind # "tcp"
    /\ pc = "lookup" => HalfChecked(policy, dest, answer, last)

CacheChecked == \A d \in DOMAIN cache : Entry(policy, kind, d, cache[d])
CacheBounded == IsFiniteSet(DOMAIN cache) /\ Cardinality(DOMAIN cache) <= MaxCached

ContactJustified ==
    last # NoContact => /\ Justified(last, policy, kind, dest, answer)
                        /\ now - last.at <= TTL

IndInv == /\ Types /\ Stages /\ CacheChecked /\ CacheBounded /\ ContactJustified
          /\ RefusalsJustified

\* An answer is never the marker for none, and has addresses only.
LEMMA AnswersType ==
    ASSUME NEW k \in Kinds, NEW d \in Dests, NEW ans \in AnswersTo(k, d)
    PROVE  ans \in Seq(Addresses) /\ ans # NoAnswer
<1>1. ans \in Seq(Addresses)
  <2>1. CASE d.addr # NoAddr
    <3>1. d.addr \in Addresses /\ ans = <<d.addr>>
      BY <2>1, DestsAssumption DEF AnswersTo
    <3> QED
      BY <3>1
  <2>2. CASE d.addr = NoAddr
    BY <2>2, AnswersAssumption, Zenon DEF AnswersTo
  <2> QED
    BY <2>1, <2>2
<1>2. NoAddr \notin Addresses
  BY DEF NoAddr, Addresses
<1>3. NoAnswer \notin Seq(Addresses)
  <2>1. Len(NoAnswer) = 1 /\ NoAnswer[1] = NoAddr
    BY DEF NoAnswer
  <2>2. \A s \in Seq(Addresses) : Len(s) = 1 => s[1] \in Addresses
    OBVIOUS
  <2> QED
    BY <1>2, <2>1, <2>2, Zenon
<1> QED
  BY <1>1, <1>3

LEMMA InitIndInv == Init => IndInv
<1> SUFFICES ASSUME Init PROVE IndInv
  OBVIOUS
<1>1. DOMAIN cache = {}
  BY DEF Init
<1>2. IsFiniteSet(DOMAIN cache) /\ Cardinality(DOMAIN cache) <= MaxCached
  BY <1>1, FS_EmptySet, BoundsAssumption
<1>3. Types /\ Stages
  BY <1>1 DEF Init, Types, Stages
<1>4. CacheChecked /\ CacheBounded
  BY <1>1, <1>2 DEF CacheChecked, CacheBounded
<1>5. ContactJustified /\ RefusalsJustified
  BY DEF Init, ContactJustified, RefusalsJustified
<1> QED
  BY <1>3, <1>4, <1>5 DEF IndInv

LEMMA OpenIndInv ==
    ASSUME IndInv, NEW k \in Kinds, NEW d \in Dests, Open(k, d)
    PROVE  IndInv'
<1>1. pc = "new" /\ answer = NoAnswer /\ last = NoContact /\ DOMAIN cache = {} /\ policy \in Policies
  BY DEF Open, IndInv, Types, Stages
<1>2. AdmitsUnresolved(policy, d) <=> Passes(policy, d)
  BY <1>1, AdmitsIffPermits
<1>3. /\ kind' = k /\ dest' = d /\ UNCHANGED <<policy, answer, list, cache, now, last>>
      /\ pc' = IF Passes(policy, d) THEN "resolve" ELSE "refused"
  BY <1>2, Zenon DEF Open
<1>4. Types'
  BY <1>3 DEF IndInv, Types
<1>5. Stages'
  BY <1>1, <1>3 DEF Stages, HalfChecked
<1>6. CacheChecked' /\ CacheBounded'
  BY <1>1, <1>3 DEF IndInv, CacheChecked, CacheBounded
<1>7. ContactJustified'
  BY <1>1, <1>3 DEF ContactJustified
<1>8. RefusalsJustified'
  BY <1>1, <1>3 DEF RefusalsJustified, Passes, PermitsDest
<1> QED
  BY <1>4, <1>5, <1>6, <1>7, <1>8 DEF IndInv

LEMMA OpenPacketsIndInv ==
    ASSUME IndInv, OpenPackets
    PROVE  IndInv'
<1>1. pc = "new" /\ answer = NoAnswer /\ last = NoContact /\ DOMAIN cache = {}
  BY DEF OpenPackets, IndInv, Stages
<1>2. Types'
  BY DEF OpenPackets, IndInv, Types
<1>3. Stages'
  BY DEF OpenPackets, Stages
<1>4. CacheChecked' /\ CacheBounded'
  BY <1>1 DEF OpenPackets, IndInv, CacheChecked, CacheBounded
<1>5. ContactJustified' /\ RefusalsJustified'
  BY <1>1 DEF OpenPackets, ContactJustified, RefusalsJustified
<1> QED
  BY <1>2, <1>3, <1>4, <1>5 DEF IndInv

\* The answer that passes is dialled, or forgotten; the one that does not ends the
\* stream.
LEMMA ResolveIndInv ==
    ASSUME IndInv, kind \in Kinds, NEW ans \in Lookups(dest), Resolve(ans)
    PROVE  IndInv'
<1>1. /\ pc = "resolve" /\ policy \in Policies /\ dest \in Dests /\ Passes(policy, dest)
      /\ last = NoContact /\ DOMAIN cache = {}
  BY DEF Resolve, IndInv, Types, Stages, HalfChecked
<1>2. ans \in AnswersTo(kind, dest)
  BY Zenon DEF Lookups, AnswersTo
<1>3. ans \in Seq(Addresses) /\ ans # NoAnswer
  BY <1>1, <1>2, AnswersType
<1>4. (ans # <<>> /\ AdmitsResolved(policy, ans)) <=> PermitsAnswer(policy, ans)
  BY <1>1, PassesIffPermits, Zenon DEF PermitsAnswer
<1>5. /\ answer' = ans /\ UNCHANGED <<policy, kind, dest, cache, now, last>>
      /\ PermitsAnswer(policy, ans) =>
            IF kind = "tcp" THEN pc' = "dial" /\ list' = interleaveAddressFamilies(ans)
            ELSE pc' = "read"
      /\ ~PermitsAnswer(policy, ans) => pc' = "refused"
  BY <1>4, Zenon DEF Resolve
<1>6. PermitsAnswer(policy, ans) => Ordered(interleaveAddressFamilies(ans), ans)
  BY <1>3, InterleavedOrder DEF PermitsAnswer
<1>7. Types'
  BY <1>5 DEF IndInv, Types
<1>8. Stages'
  <2>1. CASE PermitsAnswer(policy, ans) /\ kind = "tcp"
    <3>1. Checked(policy, kind, dest, ans)
      BY <1>1, <1>2, <2>1 DEF Checked
    <3>2. Dialling(interleaveAddressFamilies(ans), ans, last)
      BY <1>6, <2>1 DEF Dialling, Ordered
    <3>3. /\ pc' = "dial" /\ kind' = "tcp" /\ Checked(policy', kind', dest', answer')
          /\ Dialling(list', answer', last')
      BY <1>5, <2>1, <3>1, <3>2
    <3> QED
      BY <3>3 DEF Stages
  <2>2. CASE PermitsAnswer(policy, ans) /\ kind # "tcp"
    BY <1>5, <2>2 DEF Stages
  <2>3. CASE ~PermitsAnswer(policy, ans)
    BY <1>5, <2>3 DEF Stages
  <2> QED
    BY <2>1, <2>2, <2>3
<1>9. CacheChecked' /\ CacheBounded'
  BY <1>1, <1>5 DEF IndInv, CacheChecked, CacheBounded
<1>10. ContactJustified'
  BY <1>1, <1>5 DEF ContactJustified
<1>11. RefusalsJustified'
  BY <1>3, <1>5 DEF RefusalsJustified
<1> QED
  BY <1>7, <1>8, <1>9, <1>10, <1>11 DEF IndInv

LEMMA LaunchDialIndInv ==
    ASSUME IndInv, LaunchDial
    PROVE  IndInv'
<1>1. /\ pc = "dial" /\ kind = "tcp" /\ Checked(policy, kind, dest, answer)
      /\ Dialling(list, answer, last) /\ list # <<>> /\ now \in Nat
  BY DEF LaunchDial, IndInv, Types, Stages
<1>2. list \in Seq(Addresses) /\ list[1] \in Addresses /\ 1 \in 1 .. Len(list)
  BY <1>1 DEF Dialling
<1>3. PICK c : c = Contact(dest, list[1], answer, now)
  OBVIOUS
<1>4. /\ last' = c /\ list' = Tail(list)
      /\ UNCHANGED <<policy, pc, kind, dest, answer, cache, now>>
  BY <1>3 DEF LaunchDial
<1>5. c.dest = dest /\ c.addr = list[1] /\ c.answer = answer /\ c.at = now
  BY <1>3 DEF Contact
<1>6. c # NoContact
  <2>1. NoContact.addr = NoAddr /\ NoAddr \notin Addresses
    BY DEF NoContact, Contact, NoAddr, Addresses
  <2> QED
    BY <1>2, <1>5, <2>1
<1>7. Dialling(Tail(list), answer, c)
  <2>1. Tail(list) \in Seq(Addresses) /\ Len(Tail(list)) = Len(list) - 1 /\ Len(list) \in Nat
    BY <1>1, <1>2
  <2>2. ASSUME NEW i \in 1 .. Len(Tail(list))
        PROVE  \E j \in 1 .. Len(answer) : Tail(list)[i] = answer[j]
    <3>1. i + 1 \in 1 .. Len(list) /\ Tail(list)[i] = list[i + 1]
      BY <1>1, <1>2, <2>1
    <3> QED
      BY <1>1, <3>1 DEF Dialling
  <2> QED
    BY <1>6, <2>1, <2>2 DEF Dialling
<1>8. Justified(c, policy, kind, dest, answer)
  <2>1. PICK j \in 1 .. Len(answer) : list[1] = answer[j]
    BY <1>1, <1>2 DEF Dialling
  <2>2. answer \in Seq(Addresses)
    BY <1>1, AnswersType DEF Checked, IndInv, Types
  <2>3. c.addr \in {c.answer[i] : i \in DOMAIN c.answer}
    BY <1>5, <2>1, <2>2
  <2> QED
    BY <1>1, <1>5, <2>3 DEF Justified
<1>9. now - c.at <= TTL
  BY <1>1, <1>5, BoundsAssumption
<1>10. Types' /\ CacheChecked' /\ CacheBounded'
  BY <1>4 DEF IndInv, Types, CacheChecked, CacheBounded
<1>11. Stages'
  BY <1>1, <1>4, <1>7 DEF Stages
<1>12. ContactJustified' /\ RefusalsJustified'
  BY <1>1, <1>4, <1>8, <1>9 DEF ContactJustified, RefusalsJustified
<1> QED
  BY <1>10, <1>11, <1>12 DEF IndInv

LEMMA PacketHitIndInv ==
    ASSUME IndInv, NEW d \in Dests, PacketHit(d)
    PROVE  IndInv'
<1>1. /\ pc = "read" /\ kind # "tcp" /\ kind \in Kinds /\ now \in Nat
      /\ kind = "connect" => d = dest
      /\ d \in DOMAIN cache /\ now <= cache[d].expiresAt
  BY DEF PacketHit, Addressed, Cached, IndInv, Types, Stages
<1>2. PICK e : e = cache[d] /\ Entry(policy, kind, d, e)
  BY <1>1 DEF IndInv, CacheChecked
<1>3. PICK c : c = Contact(d, e.addr, e.answer, e.at)
  OBVIOUS
<1>4. last' = c /\ UNCHANGED <<policy, pc, kind, dest, answer, list, cache, now>>
  BY <1>2, <1>3 DEF PacketHit
<1>5. c.dest = d /\ c.addr = e.addr /\ c.answer = e.answer /\ c.at = e.at
  BY <1>3 DEF Contact
<1>6. Justified(c, policy, kind, dest, answer)
  <2>1. e.answer \in Seq(Addresses) /\ e.answer # <<>>
    BY <1>1, <1>2, AnswersType DEF Entry, Checked, PermitsAnswer
  <2>2. c.addr \in {c.answer[i] : i \in DOMAIN c.answer}
    BY <1>2, <1>5, <2>1 DEF Entry
  <2>3. Checked(policy, kind, c.dest, c.answer)
    BY <1>2, <1>5 DEF Entry
  <2>4. kind # "packets" => c.dest = dest
    BY <1>1, <1>5, KindsAssumption
  <2> QED
    BY <1>1, <2>2, <2>3, <2>4 DEF Justified
<1>7. now - c.at <= TTL
  BY <1>1, <1>2, <1>5, BoundsAssumption DEF Entry
<1>8. Types' /\ CacheChecked' /\ CacheBounded'
  BY <1>4 DEF IndInv, Types, CacheChecked, CacheBounded
<1>9. Stages'
  BY <1>1, <1>4 DEF Stages
<1>10. ContactJustified' /\ RefusalsJustified'
  BY <1>1, <1>4, <1>6, <1>7 DEF ContactJustified, RefusalsJustified
<1> QED
  BY <1>8, <1>9, <1>10 DEF IndInv

LEMMA PacketMissIndInv ==
    ASSUME IndInv, NEW d \in Dests, PacketMiss(d)
    PROVE  IndInv'
<1>1. pc = "read" /\ kind # "tcp" /\ policy \in Policies
  BY DEF PacketMiss, IndInv, Types, Stages
<1>2. AdmitsUnresolved(policy, d) <=> Passes(policy, d)
  BY <1>1, AdmitsIffPermits
<1>3. /\ dest' = d /\ answer' = NoAnswer /\ last' = NoContact
      /\ UNCHANGED <<policy, kind, list, cache, now>>
      /\ pc' = IF Passes(policy, d) THEN "lookup" ELSE "refused"
  BY <1>2, Zenon DEF PacketMiss
<1>4. Types' /\ CacheChecked' /\ CacheBounded'
  BY <1>1, <1>3 DEF IndInv, Types, CacheChecked, CacheBounded
<1>5. Stages'
  BY <1>1, <1>3 DEF Stages, HalfChecked
<1>6. ContactJustified' /\ RefusalsJustified'
  BY <1>3 DEF ContactJustified, RefusalsJustified, Passes, PermitsDest
<1> QED
  BY <1>4, <1>5, <1>6 DEF IndInv

\* The cache is emptied before it would hold one entry too many.
LEMMA PacketResolvedIndInv ==
    ASSUME IndInv, kind \in Kinds, NEW ans \in Lookups(dest), PacketResolved(ans)
    PROVE  IndInv'
<1>1. /\ pc = "lookup" /\ kind # "tcp" /\ policy \in Policies /\ dest \in Dests
      /\ Passes(policy, dest) /\ now \in Nat
  BY DEF PacketResolved, IndInv, Types, Stages, HalfChecked
<1>2. ans \in AnswersTo(kind, dest)
  BY Zenon DEF Lookups, AnswersTo
<1>3. ans \in Seq(Addresses) /\ ans # NoAnswer
  BY <1>1, <1>2, AnswersType
<1>4. (ans # <<>> /\ AdmitsResolved(policy, ans)) <=> PermitsAnswer(policy, ans)
  BY <1>1, PassesIffPermits, Zenon DEF PermitsAnswer
<1>5. answer' = ans /\ UNCHANGED <<policy, kind, dest, list, now>>
  BY DEF PacketResolved
<1>6. CASE PermitsAnswer(policy, ans)
  <2>1. PICK c : c = Contact(dest, ans[1], ans, now)
    OBVIOUS
  <2>2. PICK e : e = [addr |-> ans[1], expiresAt |-> now + TTL, answer |-> ans, at |-> now]
    OBVIOUS
  <2>3. PICK room : room = RoomInCache
    OBVIOUS
  <2>4. /\ pc' = "read" /\ last' = c
        /\ cache' = [d \in DOMAIN room \cup {dest} |-> IF d # dest THEN room[d] ELSE e]
    BY <1>4, <1>6, <2>1, <2>2, <2>3, Zenon DEF PacketResolved
  <2>5. Checked(policy, kind, dest, ans) /\ ans # <<>>
    BY <1>1, <1>2, <1>6 DEF Checked, PermitsAnswer
  <2>6. Entry(policy, kind, dest, e)
    BY <1>1, <2>2, <2>5 DEF Entry
  <2>7. /\ \A d \in DOMAIN room : Entry(policy, kind, d, room[d])
        /\ IsFiniteSet(DOMAIN room) /\ Cardinality(DOMAIN room) < MaxCached
    <3>1. CASE Cardinality(DOMAIN cache) >= MaxCached
      <4>1. room = <<>>
        BY <2>3, <3>1 DEF RoomInCache
      <4>2. DOMAIN room = {}
        BY <4>1
      <4>3. IsFiniteSet(DOMAIN room) /\ Cardinality(DOMAIN room) = 0
        BY <4>2, FS_EmptySet, Zenon
      <4> QED
        BY <4>2, <4>3, BoundsAssumption
    <3>2. CASE ~(Cardinality(DOMAIN cache) >= MaxCached)
      <4>1. room = cache
        BY <2>3, <3>2 DEF RoomInCache
      <4>2. IsFiniteSet(DOMAIN cache)
        BY DEF IndInv, CacheBounded
      <4>3. Cardinality(DOMAIN cache) \in Nat
        BY <4>2, FS_CardinalityType, Zenon
      <4>4. Cardinality(DOMAIN cache) < MaxCached
        BY <3>2, <4>3, BoundsAssumption
      <4> QED
        BY <4>1, <4>2, <4>4, Zenon DEF IndInv, CacheChecked
    <3> QED
      BY <3>1, <3>2
  <2>8. DOMAIN cache' = DOMAIN room \cup {dest}
    BY <2>4
  <2>9. CacheChecked'
    <3>1. \A d \in DOMAIN cache' : Entry(policy, kind, d, cache'[d])
      BY <2>4, <2>6, <2>7, <2>8
    <3> QED
      BY <1>5, <3>1, Zenon DEF CacheChecked
  <2>10. CacheBounded'
    <3>1. Cardinality(DOMAIN room) \in Nat
      BY <2>7, FS_CardinalityType, Zenon
    <3>2. /\ IsFiniteSet(DOMAIN room \cup {dest})
          /\ Cardinality(DOMAIN room \cup {dest}) \in {Cardinality(DOMAIN room), Cardinality(DOMAIN room) + 1}
      BY <2>7, FS_AddElement
    <3>3. IsFiniteSet(DOMAIN cache') /\ Cardinality(DOMAIN cache') <= MaxCached
      BY <2>7, <2>8, <3>1, <3>2, BoundsAssumption
    <3> QED
      BY <3>3 DEF CacheBounded
  <2>11. c.dest = dest /\ c.addr = ans[1] /\ c.answer = ans /\ c.at = now
    BY <2>1 DEF Contact
  <2>12. Justified(c, policy, kind, dest, ans)
    <3>1. c.addr \in {c.answer[i] : i \in DOMAIN c.answer}
      BY <1>3, <2>5, <2>11
    <3> QED
      BY <1>1, <2>5, <2>11, <3>1 DEF Justified
  <2>13. now - c.at <= TTL
    BY <1>1, <2>11, BoundsAssumption
  <2>14. Types' /\ Stages'
    BY <1>1, <1>5, <2>4 DEF IndInv, Types, Stages
  <2>15. ContactJustified' /\ RefusalsJustified'
    BY <1>5, <2>4, <2>12, <2>13 DEF ContactJustified, RefusalsJustified
  <2> QED
    BY <2>9, <2>10, <2>14, <2>15 DEF IndInv
<1>7. CASE ~PermitsAnswer(policy, ans)
  <2>1. pc' = "refused" /\ cache' = cache /\ last' = NoContact
    BY <1>4, <1>7, Zenon DEF PacketResolved
  <2>2. Types' /\ Stages' /\ CacheChecked' /\ CacheBounded'
    BY <1>1, <1>5, <2>1 DEF IndInv, Types, Stages, CacheChecked, CacheBounded
  <2>3. ContactJustified' /\ RefusalsJustified'
    BY <1>3, <1>5, <1>7, <2>1 DEF ContactJustified, RefusalsJustified
  <2> QED
    BY <2>2, <2>3 DEF IndInv
<1> QED
  BY <1>6, <1>7

LEMMA OtherIndInv ==
    ASSUME IndInv, Tick \/ End \/ UNCHANGED vars
    PROVE  IndInv'
<1>1. CASE Tick
  <2>1. Types' /\ Stages' /\ CacheChecked' /\ CacheBounded'
    BY <1>1 DEF Tick, IndInv, Types, Stages, CacheChecked, CacheBounded, HalfChecked
  <2>2. ContactJustified' /\ RefusalsJustified'
    BY <1>1 DEF Tick, ContactJustified, RefusalsJustified
  <2> QED
    BY <2>1, <2>2 DEF IndInv
<1>2. CASE End
  <2>1. Types' /\ Stages' /\ CacheChecked' /\ CacheBounded'
    BY <1>2 DEF End, IndInv, Types, Stages, CacheChecked, CacheBounded
  <2>2. ContactJustified' /\ RefusalsJustified'
    BY <1>2 DEF End, ContactJustified, RefusalsJustified
  <2> QED
    BY <2>1, <2>2 DEF IndInv
<1>3. CASE UNCHANGED vars
  BY <1>3 DEF vars, IndInv, Types, Stages, CacheChecked, CacheBounded, ContactJustified,
              RefusalsJustified
<1> QED
  BY <1>1, <1>2, <1>3

\* What a stream has checked, keeps and contacts agree in every state.
THEOREM InductiveInvariant == Spec => []IndInv
<1>1. Init => IndInv
  BY InitIndInv
<1>2. IndInv /\ [Next]_vars => IndInv'
  <2> SUFFICES ASSUME IndInv, [Next]_vars PROVE IndInv'
    OBVIOUS
  <2>1. ASSUME NEW k \in Kinds, NEW d \in Dests, Open(k, d) PROVE IndInv'
    BY <2>1, OpenIndInv
  <2>2. CASE OpenPackets
    BY <2>2, OpenPacketsIndInv
  <2>3. ASSUME kind \in Kinds, NEW ans \in Lookups(dest), Resolve(ans) PROVE IndInv'
    BY <2>3, ResolveIndInv
  <2>4. ASSUME kind \in Kinds, NEW ans \in Lookups(dest), PacketResolved(ans) PROVE IndInv'
    BY <2>4, PacketResolvedIndInv
  <2>5. CASE LaunchDial
    BY <2>5, LaunchDialIndInv
  <2>6. ASSUME NEW d \in Dests, PacketHit(d) PROVE IndInv'
    BY <2>6, PacketHitIndInv
  <2>7. ASSUME NEW d \in Dests, PacketMiss(d) PROVE IndInv'
    BY <2>7, PacketMissIndInv
  <2>8. CASE Tick \/ End \/ UNCHANGED vars
    BY <2>8, OtherIndInv
  <2> QED
    BY <2>1, <2>2, <2>3, <2>4, <2>5, <2>6, <2>7, <2>8, Zenon DEF Next, Terminating
<1> QED
  BY <1>1, <1>2, PTL DEF Spec

\* Whatever the resolver answers and whenever it is asked, a dial or a datagram
\* goes to an address of an answer that passed the policy as a whole.
THEOREM ContactsAreChecked == Spec => []ContactsPermitted
<1>1. IndInv => ContactsPermitted
  <2>1. Lookups(last.dest) = AnswersTo(kind, last.dest)
    BY Zenon DEF Lookups, AnswersTo
  <2> QED
    BY <2>1, Zenon DEF IndInv, ContactJustified, Justified, Checked, Passes, ContactsPermitted
<1> QED
  BY <1>1, InductiveInvariant, PTL

\* validateDestination refuses nothing that the described policy permits.
THEOREM RefusalsAreRight == Spec => []RefusalsJustified
<1>1. IndInv => RefusalsJustified
  BY DEF IndInv
<1> QED
  BY <1>1, InductiveInvariant, PTL

\* The addresses of any answer, however long, are dialled starting with the first,
\* each once, and those of a family in the order of the answer.
THEOREM DialsInOrder == Spec => []DialOrder
<1>1. IndInv => DialOrder
  BY Zenon DEF IndInv, Stages, Dialling, Ordered, DialOrder
<1> QED
  BY <1>1, InductiveInvariant, PTL

\* How handler.go:dialContext mixes the families: as long as both have an address
\* left they alternate.  README.md:179 and docs/examples.md:170 say so;
\* docs/technical-design.md:80 speaks of the order of the resolver's answer.
FamiliesAlternate ==
    pc = "dial" /\ last = NoContact =>
        \A i \in 1 .. Len(list) - 1 :
            (\A six \in BOOLEAN : i < 2 * Len(OfFamily(six, answer))) =>
                Is6(list[i]) # Is6(list[i + 1])

\* The addresses of any answer are dialled with their families in turn.
THEOREM FamiliesInTurn == Spec => []FamiliesAlternate
<1>1. IndInv => FamiliesAlternate
  BY Zenon DEF IndInv, Stages, Dialling, Ordered, FamiliesAlternate
<1> QED
  BY <1>1, InductiveInvariant, PTL

\* No datagram follows an answer older than the cache's life time, and the cache
\* keeps to its size.
THEOREM DatagramsFresh == Spec => []PacketsFresh
<1>1. IndInv => PacketsFresh
  BY Zenon DEF IndInv, ContactJustified, CacheBounded, PacketsFresh
<1> QED
  BY <1>1, InductiveInvariant, PTL

=============================================================================
