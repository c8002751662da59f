----------------------------- MODULE Foundations -----------------------------
(***************************************************************************)
(* Facts about data that the proofs of several components rest on: the     *)
(* least and the greatest element of a set of natural numbers, which the   *)
(* coordinator takes for its deadlines, its mailbox and its stack and the  *)
(* notification runtime for its timer and its loops; tables, which are     *)
(* functions on some of their keys; and the elements of a sequence.        *)
(* Least elements come from the well-foundedness of <, the bound of a      *)
(* finite set from the least place at which an enumeration of it has none. *)
(***************************************************************************)
EXTENDS Integers, Sequences, FiniteSets, FiniteSetsExt, Functions, KeyedTables,
        FiniteSetTheorems, SequenceTheorems, WellFoundedInduction,
        TLAPS

(* A non-empty set of naturals has a least element. *)
LEMMA LeastNatural ==
    ASSUME NEW S \in SUBSET Nat, S # {}
    PROVE  \E m \in S : \A n \in S : m <= n
<1> DEFINE R == OpToRel(<, Nat)
<1>1. PICK m \in S : \A n \in S : ~ (<<n, m>> \in R)
  BY NatLessThanWellFounded, WFMin
<1>2. \A n \in S : ~(n < m)
  <2> TAKE n \in S
  <2>1. n \in Nat /\ m \in Nat
    OBVIOUS
  <2>2. n < m => <<n, m>> \in R
    BY <2>1 DEF OpToRel
  <2> QED BY <1>1, <2>2, Zenon
<1>3. \A n \in S : m <= n
  BY <1>2
<1> QED
  BY <1>3

(* Min is that element. *)
LEMMA MinOfNaturals ==
    ASSUME NEW S \in SUBSET Nat, S # {}
    PROVE  Min(S) \in S /\ \A n \in S : Min(S) <= n
BY LeastNatural DEF Min

(* A finite set of naturals has an upper bound. *)
LEMMA FiniteHasBound ==
    ASSUME NEW S \in SUBSET Nat, IsFiniteSet(S)
    PROVE  \E n \in Nat : \A x \in S : x <= n
<1>0. PICK N \in Nat : ExistsSurjection(1..N, S)
  BY FS_NatSurjection
<1>1. PICK f \in Surjection(1..N, S) : TRUE
  BY <1>0 DEF ExistsSurjection
<1> DEFINE Bad == {k \in 0..N : ~ \E n \in Nat : \A i \in 1..k : f[i] <= n}
<1>3. CASE Bad = {}
  <2>0. N \in 0..N BY <1>0
  <2>1. PICK n \in Nat : \A i \in 1..N : f[i] <= n
    BY <2>0, <1>3
  <2>2. \A x \in S : \E i \in 1..N : f[i] = x
    BY <1>1 DEF Surjection
  <2> QED BY <2>1, <2>2
<1>4. CASE Bad # {}
  <2>0. Bad \in SUBSET Nat BY <1>0
  <2> HIDE DEF Bad
  <2>1. PICK k \in Bad : \A n \in Bad : k <= n
    BY <1>4, <2>0, LeastNatural
  <2>2. /\ k \in 0..N
        /\ ~ \E n \in Nat : \A i \in 1..k : f[i] <= n
    BY <2>1 DEF Bad
  <2>3. k # 0
    <3>1. \A i \in 1..0 : f[i] <= 0
      OBVIOUS
    <3> QED BY <2>2, <3>1
  <2>4. k - 1 \in 0..N /\ ~(k <= k - 1)
    BY <2>2, <2>3
  <2>5. k - 1 \notin Bad
    BY <2>1, <2>4
  <2>6. PICK n \in Nat : \A i \in 1..(k - 1) : f[i] <= n
    BY <2>4, <2>5 DEF Bad
  <2>7. \A i \in 1..k : f[i] \in Nat
    <3> TAKE i \in 1..k
    <3>1. i \in 1..N BY <2>2
    <3> QED BY <3>1, <1>1 DEF Surjection
  <2>8. k \in 1..k
    BY <2>2, <2>3
  <2> DEFINE bound == IF f[k] > n THEN f[k] ELSE n
  <2>9. bound \in Nat /\ f[k] <= bound /\ n <= bound
    BY <2>7, <2>8
  <2>10. \A i \in 1..k : f[i] <= bound
    <3> TAKE i \in 1..k
    <3>1. i = k \/ i \in 1..(k - 1)
      BY <2>2
    <3>2. f[i] \in Nat
      BY <2>7
    <3> HIDE DEF bound
    <3>3. CASE i = k
      BY <3>3, <2>9
    <3>4. CASE i \in 1..(k - 1)
      BY <3>2, <3>4, <2>6, <2>9
    <3> QED BY <3>1, <3>3, <3>4
  <2> QED BY <2>2, <2>9, <2>10
<1> QED BY <1>3, <1>4

(* Max of a finite non-empty set of naturals is its greatest element. *)
LEMMA MaxOfNaturals ==
    ASSUME NEW S \in SUBSET Nat, IsFiniteSet(S), S # {}
    PROVE  Max(S) \in S /\ \A n \in S : n <= Max(S)
<1>1. PICK b \in Nat : \A x \in S : x <= b
  BY FiniteHasBound
<1> DEFINE Gaps == {d \in Nat : \E x \in S : d = b - x}
<1>2. \A x \in S : b - x \in Gaps
  BY <1>1
<1>3. Gaps \in SUBSET Nat /\ Gaps # {}
  BY <1>2
<1> HIDE DEF Gaps
<1>4. PICK m \in Gaps : \A n \in Gaps : m <= n
  BY <1>3, LeastNatural
<1>5. PICK y \in S : m = b - y
  BY <1>4 DEF Gaps
<1>6. \A x \in S : x <= y
  BY <1>2, <1>4, <1>5
<1> QED
  BY <1>6 DEF Max

(***************************************************************************)
(* Functions from some of A to B, which most tables are.                   *)
(***************************************************************************)
Partial(A, B) == UNION {[S -> B] : S \in SUBSET A}

LEMMA PartialParts ==
    ASSUME NEW A, NEW B, NEW f \in Partial(A, B)
    PROVE  /\ DOMAIN f \in SUBSET A
           /\ f \in [DOMAIN f -> B]
           /\ \A x \in DOMAIN f : f[x] \in B
BY DEF Partial

LEMMA IsPartial ==
    ASSUME NEW A, NEW B, NEW S \in SUBSET A, NEW f \in [S -> B]
    PROVE  f \in Partial(A, B) /\ DOMAIN f = S
BY DEF Partial

LEMMA PutDomain ==
    ASSUME NEW x, NEW v, NEW f
    PROVE  DOMAIN Put(f, x, v) = DOMAIN f \cup {x}
BY DEF Put

LEMMA PutValues ==
    ASSUME NEW x, NEW v, NEW f
    PROVE  Put(f, x, v)[x] = v /\ \A y \in DOMAIN f : y # x => Put(f, x, v)[y] = f[y]
BY DEF Put

LEMMA AddedPartial ==
    ASSUME NEW A, NEW B, NEW f \in Partial(A, B), NEW x \in A, NEW v \in B
    PROVE  Put(f, x, v) \in Partial(A, B)
<1>1. DOMAIN f \in SUBSET A /\ \A y \in DOMAIN f : f[y] \in B
  BY PartialParts
<1>2. Put(f, x, v) \in [DOMAIN f \cup {x} -> B]
  BY <1>1 DEF Put
<1> QED BY <1>1, <1>2, IsPartial

LEMMA Restricted ==
    ASSUME NEW f, NEW S
    PROVE  DOMAIN Restrict(f, S) = S /\ \A x \in S : Restrict(f, S)[x] = f[x]
BY DEF Restrict

LEMMA RestrictedPartial ==
    ASSUME NEW A, NEW B, NEW f \in Partial(A, B), NEW S \in SUBSET (DOMAIN f)
    PROVE  Restrict(f, S) \in Partial(A, B)
<1>1. DOMAIN f \in SUBSET A /\ \A y \in DOMAIN f : f[y] \in B
  BY PartialParts
<1>2. Restrict(f, S) \in [S -> B]
  BY <1>1 DEF Restrict
<1> QED BY <1>1, <1>2, IsPartial

LEMMA ChangedPartial ==
    ASSUME NEW A, NEW B, NEW f \in Partial(A, B), NEW x, NEW v,
           x \in DOMAIN f => v \in B
    PROVE  [f EXCEPT ![x] = v] \in Partial(A, B)
<1>1. DOMAIN f \in SUBSET A /\ \A y \in DOMAIN f : f[y] \in B
  BY PartialParts
<1>2. [f EXCEPT ![x] = v] \in [DOMAIN f -> B]
  BY <1>1, PartialParts
<1> QED BY <1>1, <1>2, IsPartial

LEMMA SamePartial ==
    ASSUME NEW A, NEW B, NEW f \in Partial(A, B), NEW g \in Partial(A, B), DOMAIN f = DOMAIN g,
           \A x \in DOMAIN f : f[x] = g[x]
    PROVE  f = g
<1>1. f \in [DOMAIN f -> B] /\ g \in [DOMAIN f -> B]
  BY PartialParts
<1> QED BY <1>1

LEMMA EmptyPartial ==
    ASSUME NEW A, NEW B
    PROVE  <<>> \in Partial(A, B) /\ DOMAIN <<>> = {}
<1>1. DOMAIN <<>> = {} /\ <<>> \in [{} -> B]
  OBVIOUS
<1> QED BY <1>1, IsPartial

LEMMA NoneLeft ==
    ASSUME NEW A, NEW B, NEW f \in Partial(A, B)
    PROVE  f = <<>> <=> DOMAIN f = {}
<1>1. <<>> \in Partial(A, B) /\ DOMAIN <<>> = {}
  BY EmptyPartial
<1> QED BY <1>1, SamePartial

LEMMA OverDomain ==
    ASSUME NEW f, NEW g
    PROVE  DOMAIN Over(g, f) = DOMAIN g \cup DOMAIN f
BY DEF Over

LEMMA OverValues ==
    ASSUME NEW f, NEW g
    PROVE  /\ \A x \in DOMAIN g : Over(g, f)[x] = g[x]
           /\ \A x \in DOMAIN f : x \notin DOMAIN g => Over(g, f)[x] = f[x]
BY DEF Over

LEMMA OverPartial ==
    ASSUME NEW A, NEW B, NEW f \in Partial(A, B), NEW g \in Partial(A, B)
    PROVE  Over(g, f) \in Partial(A, B)
<1>1. DOMAIN g \cup DOMAIN f \in SUBSET A
  BY PartialParts
<1>2. \A x \in DOMAIN g \cup DOMAIN f : Over(g, f)[x] \in B
  BY OverValues, PartialParts
<1>3. Over(g, f) \in [DOMAIN g \cup DOMAIN f -> B]
  BY <1>2 DEF Over
<1> QED BY <1>1, <1>3, IsPartial

LEMMA OmitDomain ==
    ASSUME NEW f, NEW S
    PROVE  DOMAIN Omit(f, S) = DOMAIN f \ S
BY Restricted DEF Omit

LEMMA OmitValues ==
    ASSUME NEW f, NEW S
    PROVE  \A x \in DOMAIN f : x \notin S => Omit(f, S)[x] = f[x]
BY Restricted DEF Omit

LEMMA OmitPartial ==
    ASSUME NEW A, NEW B, NEW f \in Partial(A, B), NEW S
    PROVE  Omit(f, S) \in Partial(A, B)
<1>1. DOMAIN f \ S \in SUBSET (DOMAIN f)
  OBVIOUS
<1> QED BY <1>1, RestrictedPartial DEF Omit

LEMMA OmitNone ==
    ASSUME NEW A, NEW B, NEW f \in Partial(A, B), NEW S, DOMAIN f \cap S = {}
    PROVE  Omit(f, S) = f
<1>1. DOMAIN f \ S = DOMAIN f
  OBVIOUS
<1>2. DOMAIN Omit(f, S) = DOMAIN f /\ \A x \in DOMAIN Omit(f, S) : Omit(f, S)[x] = f[x]
  BY <1>1, OmitDomain, OmitValues
<1>3. Omit(f, S) \in Partial(A, B)
  BY OmitPartial
<1> QED BY <1>2, <1>3, SamePartial

(***************************************************************************)
(* The elements of a sequence.                                             *)
(***************************************************************************)
LEMMA Appended ==
    ASSUME NEW S, NEW s \in Seq(S), NEW e \in S
    PROVE  /\ Append(s, e) \in Seq(S)
           /\ \A i \in DOMAIN Append(s, e) :
                 \/ i \in DOMAIN s /\ Append(s, e)[i] = s[i]
                 \/ i = Len(s) + 1 /\ Append(s, e)[i] = e
           /\ Append(s, e)[Len(s) + 1] = e /\ Len(s) + 1 \in DOMAIN Append(s, e)
           /\ \A i \in DOMAIN s : i \in DOMAIN Append(s, e) /\ Append(s, e)[i] = s[i]
OBVIOUS

LEMMA TailOf ==
    ASSUME NEW S, NEW s \in Seq(S), s # <<>>
    PROVE  /\ Tail(s) \in Seq(S) /\ Head(s) \in S /\ 1 \in DOMAIN s /\ Head(s) = s[1]
           /\ \A i \in DOMAIN Tail(s) : i + 1 \in DOMAIN s \ {1} /\ Tail(s)[i] = s[i + 1]
           /\ \A i \in DOMAIN s \ {1} : i - 1 \in DOMAIN Tail(s) /\ Tail(s)[i - 1] = s[i]
OBVIOUS

LEMMA Joined ==
    ASSUME NEW S, NEW s \in Seq(S), NEW t \in Seq(S)
    PROVE  /\ s \o t \in Seq(S)
           /\ \A i \in DOMAIN (s \o t) :
                 \/ i \in DOMAIN s /\ (s \o t)[i] = s[i]
                 \/ i - Len(s) \in DOMAIN t /\ (s \o t)[i] = t[i - Len(s)]
           /\ \A i \in DOMAIN s : i \in DOMAIN (s \o t) /\ (s \o t)[i] = s[i]
           /\ \A i \in DOMAIN t : i + Len(s) \in DOMAIN (s \o t) /\ (s \o t)[i + Len(s)] = t[i]
OBVIOUS

LEMMA Singleton ==
    ASSUME NEW S, NEW e \in S
    PROVE  Append(<<>>, e) = <<e>>
OBVIOUS

LEMMA Pair ==
    ASSUME NEW S, NEW d \in S, NEW e \in S
    PROVE  Append(<<d>>, e) = <<d, e>>
<1>1. <<d>> \in Seq(S)
  OBVIOUS
<1>2. Append(<<d>>, e) \in Seq(S) /\ Len(Append(<<d>>, e)) = 2
  BY <1>1
<1>3. <<d, e>> \in Seq(S) /\ Len(<<d, e>>) = 2
  BY <1>1
<1>4. Append(<<d>>, e)[1] = d
  BY <1>1
<1>5. Append(<<d>>, e)[2] = e
  BY <1>1
<1>6. \A i \in 1..2 : Append(<<d>>, e)[i] = <<d, e>>[i]
  BY <1>4, <1>5
<1> QED BY <1>2, <1>3, <1>6, SeqEqual

(* A finite set can be put in a row without repetitions, and such a row of  *)
(* its length leaves nothing out.                                           *)
LEMMA Enumerable ==
    ASSUME NEW S, IsFiniteSet(S)
    PROVE  \E f \in [1..Cardinality(S) -> S] : IsInjective(f)
<1>1. PICK f \in Bijection(1..Cardinality(S), S) : TRUE
  BY FS_CardinalityType DEF ExistsBijection
<1>2. f \in [1..Cardinality(S) -> S]
      /\ \A i, j \in 1..Cardinality(S) : f[i] = f[j] => i = j
  BY <1>1 DEF Bijection, Injection, IsInjective
<1>3. IsInjective(f)
  BY <1>2 DEF IsInjective
<1> QED BY <1>2, <1>3

LEMMA EnumeratesAll ==
    ASSUME NEW S, IsFiniteSet(S), NEW f \in [1..Cardinality(S) -> S], IsInjective(f)
    PROVE  /\ f \in Seq(S) /\ Len(f) = Cardinality(S) /\ Cardinality(S) \in Nat
           /\ \A x \in S : \E i \in DOMAIN f : f[i] = x
           /\ \A i, j \in DOMAIN f : f[i] = f[j] => i = j
<1> DEFINE n == Cardinality(S)
<1>1. n \in Nat
  BY FS_CardinalityType
<1>2. IsFiniteSet(1..n) /\ Cardinality(1..n) = n
  BY <1>1, FS_Interval
<1>3. \A i, j \in 1..n : f[i] = f[j] => i = j
  BY DEF IsInjective
<1>4. f \in Injection(1..n, S)
  BY <1>3 DEF Injection, IsInjective
<1>5. f \in Surjection(1..n, S)
  BY <1>2, <1>4, FS_Injection
<1>6. \A x \in S : \E i \in 1..n : f[i] = x
  BY <1>5 DEF Surjection
<1>7. f \in Seq(S) /\ Len(f) = n
  BY <1>1
<1>8. DOMAIN f = 1..n
  OBVIOUS
<1> QED BY <1>1, <1>3, <1>6, <1>7, <1>8
=============================================================================
