----------------------------- MODULE InOrderProofs ----------------------------
(* InOrder(S) is the one increasing sequence of the numbers of S.  From that   *)
(* follow the two facts the components need: what comes after goes behind, and *)
(* what comes first is the beginning.                                          *)
EXTENDS InOrder, TLAPS, FunctionTheorems, FiniteSetTheorems, SequenceTheorems

Increasing(s) == \A i, j \in 1 .. Len(s) : i < j => s[i] < s[j]
IsListOf(s, S) == Len(s) \in Nat /\ s \in [1 .. Len(s) -> S] /\ \A x \in S : \E i \in 1 .. Len(s) : s[i] = x

\* A higher number has a higher place.
LEMMA PlaceGrows ==
    ASSUME NEW S \in SUBSET Nat, IsFiniteSet(S), NEW x \in S, NEW y \in S, x < y
    PROVE  Place(x, S) < Place(y, S)
<1> DEFINE low == {z \in S : z <= x}
           high == {z \in S : z <= y}
<1>1. high \subseteq S /\ low \subseteq high /\ y \in high /\ y \notin low
  <2>1. x \in Nat /\ y \in Nat /\ \A z \in S : z \in Nat
    OBVIOUS
  <2>2. (\A z \in S : z <= x => z <= y) /\ y <= y /\ ~ (y <= x)
    BY <2>1
  <2> QED  BY <2>2
<1>2. IsFiniteSet(high)
  BY <1>1, FS_Subset
<1>3. IsFiniteSet(low) /\ Cardinality(low) <= Cardinality(high)
      /\ (Cardinality(high) = Cardinality(low) => high = low)
  BY <1>1, <1>2, FS_Subset
<1>4. Cardinality(low) \in Nat /\ Cardinality(high) \in Nat
  BY <1>2, <1>3, FS_CardinalityType
<1>5. Cardinality(low) < Cardinality(high)
  BY <1>1, <1>3, <1>4
<1> QED  BY <1>5 DEF Place

\* Places go from one to the number of elements, and each is somebody's.
LEMMA PlacesAreTaken ==
    ASSUME NEW S \in SUBSET Nat, IsFiniteSet(S)
    PROVE  /\ Cardinality(S) \in Nat
           /\ \A x \in S : Place(x, S) \in 1 .. Cardinality(S)
           /\ \A i \in 1 .. Cardinality(S) : \E x \in S : Place(x, S) = i
           /\ \A x, y \in S : Place(x, S) = Place(y, S) => x = y
<1>1. Cardinality(S) \in Nat
  BY FS_CardinalityType
<1>2. ASSUME NEW x \in S
      PROVE  Place(x, S) \in 1 .. Cardinality(S)
  <2> DEFINE low == {y \in S : y <= x}
  <2>1. low \subseteq S /\ x \in low
    OBVIOUS
  <2>2. IsFiniteSet(low) /\ Cardinality(low) <= Cardinality(S)
    BY <2>1, FS_Subset
  <2>3. Cardinality(low) \in Nat /\ Cardinality(low) # 0
    BY <2>1, <2>2, FS_CardinalityType, FS_EmptySet
  <2>4. Cardinality(low) \in 1 .. Cardinality(S)
    BY <1>1, <2>2, <2>3
  <2> QED  BY <2>4 DEF Place
<1>3. ASSUME NEW x \in S, NEW y \in S, Place(x, S) = Place(y, S)
      PROVE  x = y
  <2>1. x \in Nat /\ y \in Nat /\ Place(x, S) \in Nat /\ Place(y, S) \in Nat
    BY <1>1, <1>2
  <2>2. ~ (x < y) /\ ~ (y < x)
    BY <1>3, <2>1, PlaceGrows
  <2> QED  BY <2>1, <2>2
<1>4. PICK place : place = [x \in S |-> Place(x, S)]
  OBVIOUS
<1>5. place \in Injection(S, 1 .. Cardinality(S))
  <2>1. place \in [S -> 1 .. Cardinality(S)]
    BY <1>2, <1>4
  <2>2. \A x, y \in S : place[x] = place[y] => x = y
    BY <1>3, <1>4
  <2> QED  BY <2>1, <2>2 DEF Injection, IsInjective
<1>6. IsFiniteSet(1 .. Cardinality(S)) /\ Cardinality(1 .. Cardinality(S)) = Cardinality(S)
  BY <1>1, FS_Interval
<1>7. place \in Surjection(S, 1 .. Cardinality(S))
  BY <1>5, <1>6, FS_Injection
<1>8. \A i \in 1 .. Cardinality(S) : \E x \in S : place[x] = i
  BY <1>7 DEF Surjection
<1> QED  BY <1>1, <1>2, <1>3, <1>4, <1>8

\* InOrder lists the elements, each at its place, from low to high.
LEMMA InOrderLists ==
    ASSUME NEW S \in SUBSET Nat, IsFiniteSet(S)
    PROVE  /\ InOrder(S) \in Seq(S)
           /\ Len(InOrder(S)) = Cardinality(S)
           /\ IsListOf(InOrder(S), S)
           /\ Increasing(InOrder(S))
           /\ \A i \in 1 .. Len(InOrder(S)) : Place(InOrder(S)[i], S) = i
<1> DEFINE n == Cardinality(S)
<1>1. n \in Nat
  BY PlacesAreTaken
<1>2. ASSUME NEW i \in 1 .. n
      PROVE  InOrder(S)[i] \in S /\ Place(InOrder(S)[i], S) = i
  <2>1. \E x \in S : Place(x, S) = i
    BY PlacesAreTaken
  <2>2. InOrder(S)[i] = CHOOSE x \in S : Place(x, S) = i
    BY DEF InOrder
  <2> QED  BY <2>1, <2>2
<1>3. InOrder(S) \in [1 .. n -> S]
  BY <1>2 DEF InOrder
<1>4. InOrder(S) \in Seq(S) /\ Len(InOrder(S)) = n
  BY <1>1, <1>3
<1>5. IsListOf(InOrder(S), S)
  <2>1. ASSUME NEW x \in S
        PROVE  \E i \in 1 .. n : InOrder(S)[i] = x
    <3>1. PICK i \in 1 .. n : i = Place(x, S)
      BY PlacesAreTaken
    <3>2. InOrder(S)[i] \in S /\ Place(InOrder(S)[i], S) = Place(x, S)
      BY <1>2, <3>1
    <3>3. InOrder(S)[i] = x
      BY <3>2, PlacesAreTaken
    <3> QED  BY <3>3
  <2> QED  BY <1>1, <1>3, <1>4, <2>1 DEF IsListOf
<1>6. Increasing(InOrder(S))
  <2> SUFFICES ASSUME NEW i \in 1 .. n, NEW j \in 1 .. n, i < j
               PROVE  InOrder(S)[i] < InOrder(S)[j]
    BY <1>4 DEF Increasing
  <2>1. PICK x \in S, y \in S : x = InOrder(S)[i] /\ y = InOrder(S)[j]
    BY <1>2
  <2>2. Place(x, S) = i /\ Place(y, S) = j
    BY <1>2, <2>1
  <2>3. ~ (y < x) /\ x # y
    BY <2>2, PlaceGrows
  <2> QED  BY <2>1, <2>3
<1> QED  BY <1>2, <1>4, <1>5, <1>6

\* No other sequence does.
LEMMA InOrderIsTheOne ==
    ASSUME NEW S \in SUBSET Nat, NEW s, IsListOf(s, S), Increasing(s)
    PROVE  IsFiniteSet(S) /\ s = InOrder(S)
<1>1. /\ Len(s) \in Nat /\ s \in [1 .. Len(s) -> S]
      /\ \A i \in 1 .. Len(s) : s[i] \in S /\ s[i] \in Nat
      /\ \A i, j \in 1 .. Len(s) : i < j => s[i] < s[j]
  BY DEF IsListOf, Increasing
<1>2. ASSUME NEW i \in 1 .. Len(s), NEW T, T = {s[j] : j \in 1 .. i}
      PROVE  IsFiniteSet(T) /\ Cardinality(T) = i
  <2>1. PICK f : f = [j \in 1 .. i |-> s[j]]
    OBVIOUS
  <2>2. \A j, k \in 1 .. i : s[j] = s[k] => j = k
    <3> SUFFICES ASSUME NEW j \in 1 .. i, NEW k \in 1 .. i, s[j] = s[k], j # k
                 PROVE  FALSE
      OBVIOUS
    <3>1. j \in 1 .. Len(s) /\ k \in 1 .. Len(s) /\ (j < k \/ k < j)
      BY <1>1, <1>2
    <3>2. s[j] < s[k] \/ s[k] < s[j]
      BY <1>1, <3>1
    <3> QED  BY <1>1, <3>1, <3>2
  <2>3. f \in [1 .. i -> T] /\ (\A x \in T : \E j \in 1 .. i : f[j] = x)
    BY <1>2, <2>1
  <2>4. f \in Bijection(1 .. i, T)
    BY <2>1, <2>2, <2>3 DEF Bijection, Injection, IsInjective, Surjection
  <2>5. IsFiniteSet(1 .. i) /\ Cardinality(1 .. i) = i
    BY FS_Interval
  <2> QED  BY <2>4, <2>5, FS_Bijection DEF ExistsBijection
<1>3. IsFiniteSet(S) /\ Cardinality(S) = Len(s)
  <2>1. CASE Len(s) = 0
    <3>1. S = {}
      BY <2>1 DEF IsListOf
    <3> QED  BY <2>1, <3>1, FS_EmptySet
  <2>2. CASE Len(s) # 0
    <3>1. Len(s) \in 1 .. Len(s)
      BY <1>1, <2>2
    <3>2. S = {s[j] : j \in 1 .. Len(s)}
      BY <1>1 DEF IsListOf
    <3> QED  BY <1>2, <3>1, <3>2
  <2> QED  BY <2>1, <2>2
<1>4. ASSUME NEW i \in 1 .. Len(s)
      PROVE  s[i] = InOrder(S)[i]
  <2>1. {y \in S : y <= s[i]} = {s[j] : j \in 1 .. i}
    <3>1. ASSUME NEW y \in S, y <= s[i]
          PROVE  \E j \in 1 .. i : y = s[j]
      <4>1. PICK j \in 1 .. Len(s) : y = s[j]
        BY DEF IsListOf
      <4>2. ~ (i < j)
        <5>1. i < j => s[i] < s[j] /\ s[i] \in Nat /\ s[j] \in Nat
          BY <1>1, <4>1
        <5> QED  BY <3>1, <4>1, <5>1
      <4> QED  BY <1>1, <4>1, <4>2
    <3>2. ASSUME NEW j \in 1 .. i
          PROVE  s[j] \in S /\ s[j] <= s[i]
      <4>1. j \in 1 .. Len(s) /\ s[j] \in S /\ s[j] \in Nat /\ s[i] \in Nat
        BY <1>1
      <4>2. j = i \/ s[j] < s[i]
        BY <1>1, <4>1
      <4> QED  BY <4>1, <4>2
    <3> QED  BY <3>1, <3>2
  <2>2. Place(s[i], S) = i
    BY <1>2, <2>1 DEF Place
  <2>3. Place(InOrder(S)[i], S) = i /\ InOrder(S)[i] \in S
    <3>1. i \in 1 .. Len(InOrder(S)) /\ InOrder(S) \in [1 .. Len(InOrder(S)) -> S]
      BY <1>3, InOrderLists DEF IsListOf
    <3> QED  BY <1>3, <3>1, InOrderLists
  <2>4. s[i] \in S /\ Place(s[i], S) = Place(InOrder(S)[i], S)
    BY <1>1, <2>2, <2>3
  <2> QED  BY <1>3, <2>3, <2>4, PlacesAreTaken
<1>5. InOrder(S) \in [1 .. Len(s) -> S]
  BY <1>3, InOrderLists DEF IsListOf
<1> QED  BY <1>1, <1>3, <1>4, <1>5

\* What comes after goes behind: a loop that goes on where it stopped.
LEMMA InOrderGoesOn ==
    ASSUME NEW P \in SUBSET Nat, NEW Q \in SUBSET Nat, IsFiniteSet(P), IsFiniteSet(Q),
           \A p \in P, q \in Q : p < q
    PROVE  InOrder(P \cup Q) = InOrder(P) \o InOrder(Q)
<1>1. PICK s, t : s = InOrder(P) /\ t = InOrder(Q)
  OBVIOUS
<1>2. /\ Len(s) \in Nat /\ s \in [1 .. Len(s) -> P] /\ Increasing(s) /\ s \in Seq(Nat)
      /\ Len(t) \in Nat /\ t \in [1 .. Len(t) -> Q] /\ Increasing(t) /\ t \in Seq(Nat)
      /\ (\A x \in P : \E i \in 1 .. Len(s) : s[i] = x)
      /\ (\A x \in Q : \E i \in 1 .. Len(t) : t[i] = x)
  <2>1. IsListOf(s, P) /\ Increasing(s) /\ IsListOf(t, Q) /\ Increasing(t)
    BY <1>1, InOrderLists
  <2>2. /\ s \in [1 .. Len(s) -> P] /\ Len(s) \in Nat
        /\ t \in [1 .. Len(t) -> Q] /\ Len(t) \in Nat
    BY <2>1 DEF IsListOf
  <2>3. s \in Seq(Nat) /\ t \in Seq(Nat)
    <3>1. s \in [1 .. Len(s) -> Nat] /\ t \in [1 .. Len(t) -> Nat]
      BY <2>2
    <3> QED  BY <2>2, <3>1
  <2> QED  BY <2>1, <2>3 DEF IsListOf
<1>3. PICK u : u = s \o t
  OBVIOUS
<1>4. /\ u \in Seq(Nat) /\ Len(u) = Len(s) + Len(t)
      /\ \A i \in 1 .. Len(s) + Len(t) : u[i] = IF i <= Len(s) THEN s[i] ELSE t[i - Len(s)]
  BY <1>2, <1>3, ConcatProperties
<1>5. \A i \in 1 .. Len(s) : u[i] = s[i]
  BY <1>2, <1>4
<1>6. ASSUME NEW i \in 1 .. Len(t)
      PROVE  u[i + Len(s)] = t[i]
  <2>1. PICK k \in 1 .. Len(s) + Len(t) : k = i + Len(s)
    BY <1>2
  <2>2. ~ (k <= Len(s)) /\ k - Len(s) = i
    BY <1>2, <2>1
  <2> QED  BY <1>4, <2>1, <2>2
<1>7. IsListOf(u, P \cup Q)
  <2>1. \A i \in 1 .. Len(u) : u[i] \in P \cup Q
    <3> SUFFICES ASSUME NEW i \in 1 .. Len(u) PROVE u[i] \in P \cup Q
      OBVIOUS
    <3>1. CASE i <= Len(s)
      <4>1. i \in 1 .. Len(s)
        BY <1>2, <1>4, <3>1
      <4> QED  BY <1>2, <1>5, <4>1
    <3>2. CASE ~ (i <= Len(s))
      <4>1. i - Len(s) \in 1 .. Len(t)
        BY <1>2, <1>4, <3>2
      <4> QED  BY <1>2, <1>4, <3>2, <4>1
    <3> QED  BY <3>1, <3>2
  <2>2. \A x \in P \cup Q : \E i \in 1 .. Len(u) : u[i] = x
    <3>1. ASSUME NEW x \in P
          PROVE  \E i \in 1 .. Len(u) : u[i] = x
      <4>1. PICK i \in 1 .. Len(s) : s[i] = x
        BY <1>2
      <4> QED  BY <1>2, <1>4, <1>5, <4>1
    <3>2. ASSUME NEW x \in Q
          PROVE  \E i \in 1 .. Len(u) : u[i] = x
      <4>1. PICK i \in 1 .. Len(t) : t[i] = x
        BY <1>2
      <4>2. i + Len(s) \in 1 .. Len(u)
        BY <1>2, <1>4, <4>1
      <4> QED  BY <1>6, <4>1, <4>2
    <3> QED  BY <3>1, <3>2
  <2> QED  BY <1>2, <1>4, <2>1, <2>2 DEF IsListOf
<1>8. Increasing(u)
  <2> SUFFICES ASSUME NEW i \in 1 .. Len(u), NEW j \in 1 .. Len(u), i < j
               PROVE  u[i] < u[j]
    BY DEF Increasing
  <2>1. CASE j <= Len(s)
    BY <1>2, <1>5, <2>1, <1>4 DEF Increasing
  <2>2. CASE i <= Len(s) /\ ~ (j <= Len(s))
    <3>1. i \in 1 .. Len(s) /\ j - Len(s) \in 1 .. Len(t)
      BY <1>2, <1>4, <2>2
    <3> QED  BY <1>2, <1>4, <2>2, <3>1
  <2>3. CASE ~ (i <= Len(s))
    <3>1. i - Len(s) \in 1 .. Len(t) /\ j - Len(s) \in 1 .. Len(t) /\ i - Len(s) < j - Len(s)
          /\ ~ (j <= Len(s))
      BY <1>2, <1>4, <2>3
    <3> QED  BY <1>2, <1>4, <2>3, <3>1 DEF Increasing
  <2> QED  BY <1>2, <1>4, <2>1, <2>2, <2>3
<1>9. P \cup Q \in SUBSET Nat
  OBVIOUS
<1> QED  BY <1>1, <1>3, <1>7, <1>8, <1>9, InOrderIsTheOne

\* What comes first is the beginning: a page is all there is up to its last id.
LEMMA InOrderBegins ==
    ASSUME NEW S \in SUBSET Nat, IsFiniteSet(S), NEW m \in 1 .. Len(InOrder(S))
    PROVE  SubSeq(InOrder(S), 1, m) = InOrder({x \in S : x <= InOrder(S)[m]})
<1>1. PICK s : s = InOrder(S)
  OBVIOUS
<1>2. /\ Len(s) \in Nat /\ s \in [1 .. Len(s) -> S] /\ Increasing(s) /\ m \in 1 .. Len(s)
      /\ \A x \in S : \E i \in 1 .. Len(s) : s[i] = x
  BY <1>1, InOrderLists DEF IsListOf
<1>3. PICK u : u = SubSeq(s, 1, m)
  OBVIOUS
<1>4. Len(u) = m /\ u \in Seq(Nat) /\ \A i \in 1 .. m : u[i] = s[i]
  <2>1. ASSUME NEW i \in 1 .. m PROVE s[i] \in Nat
    <3>1. i \in 1 .. Len(s)
      BY <1>2
    <3> QED  BY <1>2, <3>1
  <2> QED  BY <1>2, <1>3, <2>1, SubSeqProperties
<1>5. PICK T : T = {x \in S : x <= s[m]}
  OBVIOUS
<1>6. IsListOf(u, T)
  <2>1. ASSUME NEW i \in 1 .. m
        PROVE  u[i] \in T
    <3>1. i = m \/ s[i] < s[m]
      BY <1>2 DEF Increasing
    <3> QED  BY <1>2, <1>4, <1>5, <3>1
  <2>2. ASSUME NEW x \in T
        PROVE  \E i \in 1 .. m : u[i] = x
    <3>1. PICK i \in 1 .. Len(s) : s[i] = x
      BY <1>2, <1>5
    <3>2. ~ (m < i)
      <4>1. m < i => s[m] < s[i] /\ s[m] \in Nat /\ s[i] \in Nat
        BY <1>2, <3>1 DEF Increasing
      <4> QED  BY <1>5, <3>1, <4>1
    <3> QED  BY <1>2, <1>4, <3>1, <3>2
  <2> QED  BY <1>2, <1>4, <2>1, <2>2 DEF IsListOf
<1>7. Increasing(u)
  BY <1>2, <1>4 DEF Increasing
<1>8. T \in SUBSET Nat
  BY <1>5
<1> QED  BY <1>1, <1>3, <1>5, <1>6, <1>7, <1>8, InOrderIsTheOne

\* No number at all.
LEMMA EmptyInOrder == InOrder({}) = << >>
<1>1. {} \in SUBSET Nat /\ IsFiniteSet({}) /\ Cardinality({}) = 0
  BY FS_EmptySet
<1>2. InOrder({}) \in Seq({}) /\ Len(InOrder({})) = 0
  BY <1>1, InOrderLists
<1> QED  BY <1>2
==============================================================================
