------------------------- MODULE RequestPathProofs -------------------------
(***************************************************************************)
(* Proofs about Ctap2's translations and RequestPath for every request the *)
(* host may compose: any menu of values, any lists and maps in them.       *)
(***************************************************************************)
EXTENDS RequestPath, SequenceTheorems, FiniteSetTheorems, TLAPS

-----------------------------------------------------------------------------
(* Places in a strict total order.                                         *)

StrictOrder(S, R) ==
    /\ \A i \in S : <<i, i>> \notin R
    /\ \A i, j, k \in S : <<i, j>> \in R /\ <<j, k>> \in R => <<i, k>> \in R
    /\ \A i, j \in S : i # j => <<i, j>> \in R \/ <<j, i>> \in R

Below(S, R, i) == {j \in S : <<j, i>> \in R}

LEMMA BelowGrows ==
    ASSUME NEW S, IsFiniteSet(S), NEW R, StrictOrder(S, R)
    PROVE  /\ \A i \in S : Cardinality(Below(S, R, i)) \in 0..(Cardinality(S) - 1)
           /\ \A i, k \in S : <<i, k>> \in R =>
                 Cardinality(Below(S, R, i)) < Cardinality(Below(S, R, k))
  <1>1. ASSUME NEW i \in S
        PROVE  /\ IsFiniteSet(Below(S, R, i)) /\ i \notin Below(S, R, i)
               /\ Cardinality(Below(S, R, i)) \in Nat
               /\ Cardinality(Below(S, R, i) \cup {i}) = Cardinality(Below(S, R, i)) + 1
    <2> DEFINE B == Below(S, R, i)
    <2>1. B \in SUBSET S /\ i \notin B
      BY DEF StrictOrder, Below
    <2> HIDE DEF B
    <2>2. IsFiniteSet(B) /\ Cardinality(B) \in Nat
      BY <2>1, FS_Subset, FS_CardinalityType
    <2>3. Cardinality(B \cup {i}) = Cardinality(B) + 1
      BY <2>1, <2>2, FS_AddElement
    <2> QED
      BY <2>1, <2>2, <2>3 DEF B
  <1>2. ASSUME NEW i \in S, NEW T, IsFiniteSet(T), Below(S, R, i) \cup {i} \subseteq T
        PROVE  Cardinality(Below(S, R, i)) < Cardinality(T)
    <2> DEFINE U == Below(S, R, i) \cup {i}
    <2>1. Cardinality(U) <= Cardinality(T)
      BY <1>2, FS_Subset
    <2>2. Cardinality(T) \in Nat /\ Cardinality(U) = Cardinality(Below(S, R, i)) + 1
          /\ Cardinality(Below(S, R, i)) \in Nat
      BY <1>1, <1>2, FS_CardinalityType
    <2> HIDE DEF U
    <2> QED
      BY <2>1, <2>2
  <1>3. ASSUME NEW i \in S PROVE Cardinality(Below(S, R, i)) \in 0..(Cardinality(S) - 1)
    <2>1. Cardinality(Below(S, R, i)) < Cardinality(S)
      BY <1>2 DEF Below
    <2>2. Cardinality(Below(S, R, i)) \in Nat /\ Cardinality(S) \in Nat
      BY <1>1, FS_CardinalityType
    <2> QED
      BY <2>1, <2>2
  <1>4. ASSUME NEW i \in S, NEW k \in S, <<i, k>> \in R
        PROVE  Cardinality(Below(S, R, i)) < Cardinality(Below(S, R, k))
    <2>1. Below(S, R, i) \cup {i} \subseteq Below(S, R, k)
      BY <1>4 DEF StrictOrder, Below
    <2> QED
      BY <1>1, <1>2, <2>1
  <1> QED
    BY <1>3, <1>4

(* Nth counts through S in the order of R.                                 *)
LEMMA Counted ==
    ASSUME NEW S, IsFiniteSet(S), NEW R, StrictOrder(S, R)
    PROVE  /\ Cardinality(S) \in Nat
           /\ \A n \in 1..Cardinality(S) :
                 /\ Nth(S, R, n) \in S
                 /\ Cardinality(Below(S, R, Nth(S, R, n))) = n - 1
           /\ \A i \in S : LET n == Cardinality(Below(S, R, i)) + 1
                           IN n \in 1..Cardinality(S) /\ i = Nth(S, R, n)
           /\ \A n, m \in 1..Cardinality(S) :
                 n < m => <<Nth(S, R, n), Nth(S, R, m)>> \in R
  <1> DEFINE k == Cardinality(S)
             place == [i \in S |-> Cardinality(Below(S, R, i)) + 1]
  <1>1. k \in Nat
    BY FS_CardinalityType
  <1>2. \A i \in S : Cardinality(Below(S, R, i)) \in 0..(k - 1)
    BY BelowGrows
  <1>3. \A i, j \in S : <<i, j>> \in R =>
            Cardinality(Below(S, R, i)) < Cardinality(Below(S, R, j))
    BY BelowGrows
  <1>4. IsFiniteSet(1..k) /\ Cardinality(1..k) = k
    <2>1. IsFiniteSet(1..k) /\ Cardinality(1..k) = IF 1 > k THEN 0 ELSE k - 1 + 1
      BY <1>1, FS_Interval
    <2> QED
      BY <1>1, <2>1
  <1> HIDE DEF k
  <1>5. place \in [S -> 1..k]
    BY <1>1, <1>2
  <1>6. ASSUME NEW i \in S, NEW j \in S, place[i] = place[j] PROVE i = j
    <2>1. Cardinality(Below(S, R, i)) \in Nat /\ Cardinality(Below(S, R, j)) \in Nat
      BY <1>1, <1>2
    <2>2. Cardinality(Below(S, R, i)) = Cardinality(Below(S, R, j))
      BY <1>6, <2>1
    <2>3. <<i, j>> \notin R /\ <<j, i>> \notin R
      BY <1>3, <2>1, <2>2
    <2> QED
      BY <2>3 DEF StrictOrder
  <1>7. place \in Injection(S, 1..k)
    BY <1>5, <1>6 DEF Injection, IsInjective
  <1>8. place \in Surjection(S, 1..k)
    BY <1>4, <1>7, FS_Injection DEF k
  <1>9. ASSUME NEW n \in 1..k
        PROVE  Nth(S, R, n) \in S /\ Cardinality(Below(S, R, Nth(S, R, n))) = n - 1
    <2>1. PICK i \in S : place[i] = n
      BY <1>8 DEF Surjection
    <2>2. Cardinality(Below(S, R, i)) = n - 1
      BY <1>1, <1>2, <2>1
    <2> QED
      BY <2>2 DEF Nth, Below
  <1>10. ASSUME NEW i \in S PROVE i = Nth(S, R, place[i]) /\ place[i] \in 1..k
    <2>1. place[i] \in 1..k
      BY <1>5
    <2>2. /\ Nth(S, R, place[i]) \in S
          /\ Cardinality(Below(S, R, Nth(S, R, place[i]))) = place[i] - 1
      BY <1>9, <2>1
    <2>3. place[Nth(S, R, place[i])] = place[i]
      BY <1>1, <2>1, <2>2
    <2> QED
      BY <1>6, <2>1, <2>2, <2>3
  <1>11. ASSUME NEW n \in 1..k, NEW m \in 1..k, n < m
         PROVE  <<Nth(S, R, n), Nth(S, R, m)>> \in R
    <2> DEFINE x == Nth(S, R, n)
               y == Nth(S, R, m)
    <2>1. /\ x \in S /\ Cardinality(Below(S, R, x)) = n - 1
          /\ y \in S /\ Cardinality(Below(S, R, y)) = m - 1
      BY <1>9
    <2> HIDE DEF x, y
    <2>2. x # y /\ <<y, x>> \notin R
      BY <1>1, <1>3, <1>11, <2>1
    <2>3. <<x, y>> \in R
      BY <2>1, <2>2 DEF StrictOrder
    <2> QED
      BY <2>3 DEF x, y
  <1> QED
    BY <1>1, <1>9, <1>10, <1>11 DEF k

-----------------------------------------------------------------------------
(* Selections.                                                             *)

Ascending(I) == {e \in I \X I : e[1] < e[2]}

Place(I, n) == Nth(I, Ascending(I), n)

LEMMA AscendingOrder ==
    ASSUME NEW I \in SUBSET Nat
    PROVE  /\ \A i, j \in I : <<i, j>> \in Ascending(I) <=> i < j
           /\ StrictOrder(I, Ascending(I))
  <1>1. \A i, j \in I : <<i, j>> \in Ascending(I) <=> i < j
    BY DEF Ascending
  <1>2. \A i \in I : i \in Nat
    OBVIOUS
  <1> QED
    BY <1>1, <1>2 DEF StrictOrder

LEMMA Places ==
    ASSUME NEW I \in SUBSET Nat, IsFiniteSet(I)
    PROVE  /\ Cardinality(I) \in Nat
           /\ \A n \in 1..Cardinality(I) :
                 /\ Place(I, n) \in I
                 /\ Cardinality({j \in I : j < Place(I, n)}) = n - 1
           /\ \A i \in I : LET n == Cardinality({j \in I : j < i}) + 1
                           IN n \in 1..Cardinality(I) /\ i = Place(I, n)
           /\ \A n, m \in 1..Cardinality(I) : n < m => Place(I, n) < Place(I, m)
  <1> DEFINE R == Ascending(I)
  <1>1. /\ StrictOrder(I, R)
        /\ \A i, j \in I : <<i, j>> \in R <=> i < j
    BY AscendingOrder
  <1> HIDE DEF R
  <1>2. \A i \in I : Below(I, R, i) = {j \in I : j < i}
    BY <1>1 DEF Below
  <1>3. /\ Cardinality(I) \in Nat
        /\ \A n \in 1..Cardinality(I) :
              /\ Nth(I, R, n) \in I
              /\ Cardinality(Below(I, R, Nth(I, R, n))) = n - 1
        /\ \A i \in I : LET n == Cardinality(Below(I, R, i)) + 1
                        IN n \in 1..Cardinality(I) /\ i = Nth(I, R, n)
        /\ \A n, m \in 1..Cardinality(I) :
              n < m => <<Nth(I, R, n), Nth(I, R, m)>> \in R
    BY <1>1, Counted
  <1>4. \A n : Place(I, n) = Nth(I, R, n)
    BY DEF Place, R
  <1> QED
    BY <1>1, <1>2, <1>3, <1>4

LEMMA SameCardinality ==
    ASSUME NEW S, IsFiniteSet(S), NEW T, NEW f \in [S -> T],
           \A x, y \in S : f[x] = f[y] => x = y,
           \A z \in T : \E x \in S : z = f[x]
    PROVE  IsFiniteSet(T) /\ Cardinality(T) = Cardinality(S)
  <1>1. f \in Surjection(S, T) /\ f \in Injection(S, T)
    BY DEF Surjection, Injection, IsInjective
  <1> QED
    BY <1>1, FS_Surjection

(* Picking among what was picked.                                          *)
PlacesIn(I, P) == {Place(I, p) : p \in P}

LEMMA PickedTwice ==
    ASSUME NEW I \in SUBSET Nat, IsFiniteSet(I),
           NEW P \in SUBSET (1..Cardinality(I))
    PROVE  LET J == PlacesIn(I, P) IN
           /\ Cardinality(J) = Cardinality(P) /\ IsFiniteSet(J)
           /\ \A n \in 1..Cardinality(P) : Place(J, n) = Place(I, Place(P, n))
  <1> DEFINE J == PlacesIn(I, P)
             k == Cardinality(I)
             f == [p \in 1..k |-> Place(I, p)]
  <1>1. /\ k \in Nat
        /\ \A p \in 1..k : f[p] \in I
        /\ \A p, q \in 1..k : p < q => f[p] < f[q]
    BY Places
  <1>2. J = {f[p] : p \in P} /\ \A p \in P : f[p] = Place(I, p)
    BY DEF PlacesIn
  <1>3. IsFiniteSet(P)
    <2>1. 1 \in Int /\ k \in Int /\ P \in SUBSET (1..k)
      BY <1>1
    <2> HIDE DEF k
    <2>2. IsFiniteSet(1..k)
      BY <2>1, FS_Interval
    <2> QED
      BY <2>1, <2>2, FS_Subset
  <1> HIDE DEF k, f, J
  <1>4. \A p \in P : p \in 1..k /\ f[p] \in Nat
    BY <1>1 DEF k
  <1>5. \A p, q \in P : /\ f[p] = f[q] => p = q
                        /\ f[p] < f[q] <=> p < q
    BY <1>1, <1>4
  <1>6. IsFiniteSet(J) /\ Cardinality(J) = Cardinality(P)
    <2> DEFINE g == [p \in P |-> f[p]]
    <2>1. /\ g \in [P -> J]
          /\ \A x, y \in P : g[x] = g[y] => x = y
          /\ \A z \in J : \E x \in P : z = g[x]
      BY <1>2, <1>5
    <2> HIDE DEF g
    <2>2. g \in Surjection(P, J) /\ g \in Injection(P, J)
      BY <2>1 DEF Surjection, Injection, IsInjective
    <2> QED
      BY <1>3, <2>2, FS_Surjection
  <1>7. J \in SUBSET Nat /\ P \in SUBSET Nat
    BY <1>2, <1>4
  <1>8. ASSUME NEW n \in 1..Cardinality(P) PROVE Place(J, n) = f[Place(P, n)]
    <2> DEFINE p == Place(P, n)
               B == {q \in P : q < p}
               C == {j \in J : j < f[p]}
               g == [q \in B |-> f[q]]
    <2>1. p \in P /\ Cardinality(B) = n - 1
      BY <1>3, <1>7, Places
    <2>2. f[p] \in J
      BY <1>2, <2>1
    <2> HIDE DEF p
    <2>3. /\ g \in [B -> C]
          /\ \A x, y \in B : g[x] = g[y] => x = y
          /\ \A z \in C : \E x \in B : z = g[x]
      BY <1>2, <1>5, <2>1
    <2>4. IsFiniteSet(B)
      BY <1>3, FS_Subset
    <2> HIDE DEF g, B
    <2>5. Cardinality(C) = n - 1
      BY <2>1, <2>3, <2>4, SameCardinality
    <2>6. f[p] = Place(J, Cardinality(C) + 1)
      BY <1>6, <1>7, <2>2, Places
    <2>7. n - 1 + 1 = n
      BY <1>3, FS_CardinalityType
    <2> QED
      BY <2>5, <2>6, <2>7 DEF p
  <1>9. ASSUME NEW n \in 1..Cardinality(P) PROVE f[Place(P, n)] = Place(I, Place(P, n))
    BY <1>2, <1>3, <1>7, Places
  <1>10. \A n \in 1..Cardinality(P) : Place(J, n) = Place(I, Place(P, n))
    BY <1>8, <1>9
  <1> QED
    BY <1>6, <1>10 DEF J

LEMMA PickedProperties ==
    ASSUME NEW V, NEW s \in Seq(V), NEW I \in SUBSET (DOMAIN s)
    PROVE  /\ I \in SUBSET Nat /\ IsFiniteSet(I) /\ Cardinality(I) \in Nat
           /\ Picked(s, I) \in Seq(V) /\ Len(Picked(s, I)) = Cardinality(I)
           /\ DOMAIN Picked(s, I) = 1..Cardinality(I)
           /\ \A n \in 1..Cardinality(I) :
                 Place(I, n) \in I /\ Picked(s, I)[n] = s[Place(I, n)]
           /\ \A i \in I : \E n \in 1..Cardinality(I) : i = Place(I, n)
  <1>1. Len(s) \in Nat /\ DOMAIN s = 1..Len(s) /\ \A i \in DOMAIN s : s[i] \in V
    BY LenProperties, ElementOfSeq
  <1>2. I \in SUBSET Nat /\ IsFiniteSet(I)
    <2>1. 1 \in Int /\ Len(s) \in Int /\ I \in SUBSET (1..Len(s))
      BY <1>1
    <2>2. IsFiniteSet(1..Len(s))
      BY <2>1, FS_Interval
    <2> QED
      BY <2>1, <2>2, FS_Subset
  <1>3. /\ Cardinality(I) \in Nat
        /\ \A n \in 1..Cardinality(I) : Place(I, n) \in I
        /\ \A i \in I : LET n == Cardinality({j \in I : j < i}) + 1
                        IN n \in 1..Cardinality(I) /\ i = Place(I, n)
    BY <1>2, Places
  <1> DEFINE k == Cardinality(I)
             t == [n \in 1..k |-> s[Place(I, n)]]
  <1>4. Picked(s, I) = t
    BY DEF Picked, Place, Ascending
  <1>5. \A n \in 1..k : s[Place(I, n)] \in V
    BY <1>1, <1>3
  <1>6. t \in [1..k -> V] /\ k \in Nat
    BY <1>3, <1>5
  <1>7. \A n \in 1..k : t[n] = s[Place(I, n)]
    OBVIOUS
  <1> HIDE DEF k, t
  <1>8. t \in Seq(V) /\ Len(t) = k /\ DOMAIN t = 1..k
    BY <1>6
  <1>9. \A i \in I : \E n \in 1..k : i = Place(I, n)
    BY <1>3 DEF k
  <1> QED
    BY <1>2, <1>3, <1>4, <1>7, <1>8, <1>9 DEF k

-----------------------------------------------------------------------------
(* Sorting.                                                                *)

Ranked(m) == \A i \in DOMAIN m : KeyRank(m[i][1]) \in Int

LEMMA SortedProperties ==
    ASSUME NEW V, NEW m \in Seq(V), Ranked(m)
    PROVE  /\ Sorted(m) \in Seq(V) /\ Len(Sorted(m)) = Len(m)
           /\ DOMAIN m = 1..Len(m) /\ DOMAIN Sorted(m) = 1..Len(m) /\ Len(m) \in Nat
           /\ \A n \in 1..Len(m) : \E i \in 1..Len(m) : Sorted(m)[n] = m[i]
           /\ \A i \in 1..Len(m) : \E n \in 1..Len(m) : Sorted(m)[n] = m[i]
           /\ (\A i, j \in 1..Len(m) : i # j => KeyRank(m[i][1]) # KeyRank(m[j][1])) =>
                 \A n, p \in 1..Len(m) :
                    n < p => KeyRank(Sorted(m)[n][1]) < KeyRank(Sorted(m)[p][1])
  <1> DEFINE D == DOMAIN m
             k == Len(m)
             rank == [i \in D |-> KeyRank(m[i][1])]
             R == Order(m)
             t == Sorted(m)
  <1>1. k \in Nat /\ D = 1..k /\ \A i \in D : m[i] \in V
    BY LenProperties, ElementOfSeq
  <1>2. \A i \in D : rank[i] = KeyRank(m[i][1]) /\ rank[i] \in Int
    BY DEF Ranked
  <1>3. \A i, j \in D : <<i, j>> \in R <=>
            rank[i] < rank[j] \/ (rank[i] = rank[j] /\ i < j)
    BY DEF Order
  <1>4. \A n \in D : t[n] = m[Nth(D, R, n)]
    BY DEF Sorted
  <1>5. DOMAIN t = D
    BY DEF Sorted
  <1> HIDE DEF rank, R
  <1>6. IsFiniteSet(D) /\ Cardinality(D) = k
    <2>1. 1 \in Int /\ k \in Int
      BY <1>1
    <2> HIDE DEF k, D
    <2>2. IsFiniteSet(1..k) /\ Cardinality(1..k) = IF 1 > k THEN 0 ELSE k - 1 + 1
      BY <2>1, FS_Interval
    <2> QED
      BY <1>1, <2>2
  <1>7. StrictOrder(D, R)
    <2>1. \A i \in D : i \in Int
      BY <1>1
    <2> QED
      BY <1>2, <1>3, <2>1 DEF StrictOrder
  <1> HIDE DEF k, D
  <1>8. /\ \A n \in 1..k : Nth(D, R, n) \in D
        /\ \A i \in D : LET n == Cardinality(Below(D, R, i)) + 1
                        IN n \in 1..k /\ i = Nth(D, R, n)
        /\ \A n, p \in 1..k : n < p => <<Nth(D, R, n), Nth(D, R, p)>> \in R
    BY <1>6, <1>7, Counted
  <1>9. t \in Seq(V) /\ Len(t) = k
    <2>1. \A n \in 1..k : t[n] \in V
      BY <1>1, <1>4, <1>8
    <2>2. t = [n \in 1..k |-> t[n]]
      <3>1. t = [n \in D |-> t[n]]
        BY DEF Sorted, D
      <3> QED
        BY <1>1, <3>1
    <2>3. t \in [1..k -> V]
      BY <2>1, <2>2
    <2> HIDE DEF t
    <2> QED
      BY <1>1, <2>3
  <1>10. \A n \in 1..k : \E i \in 1..k : t[n] = m[i]
    BY <1>1, <1>4, <1>8
  <1>11. \A i \in 1..k : \E n \in 1..k : t[n] = m[i]
    <2> TAKE i \in 1..k
    <2> DEFINE n == Cardinality(Below(D, R, i)) + 1
    <2>1. n \in 1..k /\ i = Nth(D, R, n)
      BY <1>1, <1>8
    <2> HIDE DEF n
    <2>2. t[n] = m[i]
      BY <1>1, <1>4, <2>1
    <2> QED
      BY <2>1, <2>2
  <1>12. ASSUME \A i, j \in 1..k : i # j => KeyRank(m[i][1]) # KeyRank(m[j][1]),
                NEW n \in 1..k, NEW p \in 1..k, n < p
         PROVE  KeyRank(t[n][1]) < KeyRank(t[p][1])
    <2> DEFINE x == Nth(D, R, n)
               y == Nth(D, R, p)
    <2>1. x \in D /\ y \in D /\ <<x, y>> \in R /\ t[n] = m[x] /\ t[p] = m[y]
      BY <1>1, <1>4, <1>8, <1>12
    <2> HIDE DEF x, y, t
    <2>2. rank[x] < rank[y] \/ (rank[x] = rank[y] /\ x < y)
      BY <1>3, <2>1
    <2>3. x < y => x # y
      BY <1>1, <2>1
    <2> QED
      BY <1>1, <1>2, <1>12, <2>1, <2>2, <2>3
  <1> QED
    BY <1>1, <1>5, <1>9, <1>10, <1>11, <1>12 DEF k, D

(* The value under a key of a sorted map is the one it had before.         *)
LEMMA FieldOf ==
    ASSUME NEW s, NEW key
    PROVE  /\ (\A i \in DOMAIN s : s[i][1] # key) => Field(Map(s), key) = Absent
           /\ \A i \in DOMAIN s :
                 s[i][1] = key /\ (\A j \in DOMAIN s : s[j][1] = key => s[j][2] = s[i][2])
                 => Field(Map(s), key) = s[i][2]
  <1>1. Entries(Map(s)) = s
    BY DEF Entries, Map, Is
  <1> QED
    BY <1>1 DEF Field

LEMMA FieldOfSorted ==
    ASSUME NEW V, NEW m \in Seq(V), Ranked(m), NEW key
    PROVE  /\ (\A i \in DOMAIN m : m[i][1] # key) => Field(SortedMap(m), key) = Absent
           /\ \A i \in DOMAIN m :
                 m[i][1] = key /\ (\A j \in DOMAIN m : m[j][1] = key => m[j][2] = m[i][2])
                 => Field(SortedMap(m), key) = m[i][2]
  <1> DEFINE t == Sorted(m)
  <1>1. /\ DOMAIN m = 1..Len(m) /\ DOMAIN t = 1..Len(m)
        /\ \A n \in 1..Len(m) : \E i \in 1..Len(m) : t[n] = m[i]
        /\ \A i \in 1..Len(m) : \E n \in 1..Len(m) : t[n] = m[i]
    BY SortedProperties
  <1>2. SortedMap(m) = Map(t)
    BY DEF SortedMap
  <1> HIDE DEF t
  <1>3. ASSUME \A i \in DOMAIN m : m[i][1] # key PROVE Field(Map(t), key) = Absent
    <2>1. ASSUME NEW n \in DOMAIN t PROVE t[n][1] # key
      <3>1. PICK i \in DOMAIN m : t[n] = m[i]
        BY <1>1
      <3> QED
        BY <1>3, <3>1
    <2> QED
      BY <2>1, FieldOf
  <1>4. ASSUME NEW i \in DOMAIN m, m[i][1] = key,
               \A j \in DOMAIN m : m[j][1] = key => m[j][2] = m[i][2]
        PROVE  Field(Map(t), key) = m[i][2]
    <2>1. PICK n \in DOMAIN t : t[n] = m[i]
      BY <1>1
    <2>2. ASSUME NEW p \in DOMAIN t, t[p][1] = key PROVE t[p][2] = t[n][2]
      <3>1. PICK j \in DOMAIN m : t[p] = m[j]
        BY <1>1
      <3> QED
        BY <1>4, <2>1, <2>2, <3>1
    <2> QED
      BY <1>4, <2>1, <2>2, FieldOf
  <1> QED
    BY <1>2, <1>3, <1>4

-----------------------------------------------------------------------------
(* Credential descriptors.                                                 *)

LEMMA Ranks ==
    /\ KeyRank(Text("id")) = 30 /\ KeyRank(Text("rk")) = 31
    /\ KeyRank(Text("up")) = 32 /\ KeyRank(Text("uv")) = 33
    /\ KeyRank(Text("alg")) = 40 /\ KeyRank(Text("icon")) = 50
    /\ KeyRank(Text("name")) = 51 /\ KeyRank(Text("type")) = 52
    /\ KeyRank(Text("transports")) = 60 /\ KeyRank(Text("displayName")) = 61
    /\ \A n : KeyRank(Num(n)) = n
  BY DEF KeyRank, Is, Text, Num

(* A rank belongs to one key.                                              *)
LEMMA RankTellsKey ==
    /\ \A a \in Keys : KeyRank(a) \in Int
    /\ \A a, b \in Keys : KeyRank(a) = KeyRank(b) => a = b
  <1> DEFINE Names == {"id", "rk", "up", "uv", "alg", "icon", "name", "type",
                       "transports", "displayName"}
             Rank(name) == KeyRank(Text(name))
  <1>1. \A name \in Names : Rank(name) \in 30..61
    BY Ranks
  <1>2. \A x, y \in Names : Rank(x) = Rank(y) => x = y
    BY Ranks
  <1>3. \A a \in Keys : \/ \E k \in 0..23 : a = Num(k)
                         \/ \E name \in Names : a = Text(name)
    BY DEF Keys
  <1> HIDE DEF Names
  <1>4. ASSUME NEW a \in Keys
        PROVE  \/ \E k \in 0..23 : a = Num(k) /\ KeyRank(a) = k
               \/ \E name \in Names : a = Text(name) /\ KeyRank(a) = Rank(name)
                                       /\ Rank(name) \in 30..61
    BY <1>1, <1>3, Ranks
  <1> HIDE DEF Rank
  <1>5. \A a \in Keys : KeyRank(a) \in Int
    BY <1>4
  <1>6. ASSUME NEW a \in Keys, NEW b \in Keys, KeyRank(a) = KeyRank(b) PROVE a = b
    BY <1>2, <1>4, <1>6
  <1> QED
    BY <1>5, <1>6

(* A map of two entries.                                                   *)
LEMMA Pair ==
    ASSUME NEW a, NEW b, NEW x, NEW y, KeyRank(a) \in Int, KeyRank(b) \in Int,
           KeyRank(a) # KeyRank(b)
    PROVE  LET v == SortedMap(<<<<a, x>>, <<b, y>>>>) IN
           /\ Is("map", v)
           /\ Field(v, a) = x /\ Field(v, b) = y
           /\ \A key : key \notin {a, b} => Field(v, key) = Absent
           /\ CanonicalMap(v)
  <1> DEFINE m == <<<<a, x>>, <<b, y>>>>
             t == Sorted(m)
             V == {<<a, x>>, <<b, y>>}
  <1>1. /\ m \in Seq(V) /\ Len(m) = 2 /\ DOMAIN m = 1..2
        /\ m[1] = <<a, x>> /\ m[2] = <<b, y>>
    OBVIOUS
  <1> HIDE DEF m, V
  <1>2. m[1][1] = a /\ m[1][2] = x /\ m[2][1] = b /\ m[2][2] = y /\ 1 \in 1..2 /\ 2 \in 1..2
    BY <1>1
  <1>3. \A i \in 1..2 : i = 1 \/ i = 2
    OBVIOUS
  <1>4. Ranked(m) /\ a # b
    BY <1>1, <1>2, <1>3 DEF Ranked
  <1>5. Field(SortedMap(m), a) = x /\ Field(SortedMap(m), b) = y
    BY <1>1, <1>2, <1>3, <1>4, FieldOfSorted
  <1>6. ASSUME NEW key, key \notin {a, b} PROVE Field(SortedMap(m), key) = Absent
    BY <1>1, <1>2, <1>3, <1>4, <1>6, FieldOfSorted
  <1>7. CanonicalMap(SortedMap(m))
    <2>1. \A i, j \in 1..2 : i # j => KeyRank(m[i][1]) # KeyRank(m[j][1])
      BY <1>2, <1>3
    <2>2. /\ DOMAIN t = 1..2
          /\ \A n, p \in 1..2 : n < p => KeyRank(t[n][1]) < KeyRank(t[p][1])
      <3>1. /\ DOMAIN t = 1..Len(m)
            /\ (\A i, j \in 1..Len(m) : i # j => KeyRank(m[i][1]) # KeyRank(m[j][1])) =>
                 \A n, p \in 1..Len(m) :
                    n < p => KeyRank(t[n][1]) < KeyRank(t[p][1])
        BY <1>1, <1>4, SortedProperties
      <3> HIDE DEF t
      <3> QED
        BY <1>1, <2>1, <3>1
    <2>3. Entries(SortedMap(m)) = t
      BY DEF SortedMap, Entries, Map, Is
    <2> HIDE DEF t
    <2> QED
      BY <2>2, <2>3 DEF CanonicalMap
  <1>8. Is("map", SortedMap(m))
    BY DEF SortedMap, Map, Is
  <1> QED
    BY <1>5, <1>6, <1>7, <1>8 DEF m

(* What is rebuilt of a descriptor.                                        *)
LEMMA Rebuilt ==
    ASSUME NEW id, NEW type
    PROVE  LET desc == Descriptor(id, type) IN
           /\ desc # Absent
           /\ Field(desc, Text("id")) = id
           /\ Field(desc, Text("transports")) = Absent
           /\ CanonicalMap(desc)
  <1>1. /\ KeyRank(Text("id")) \in Int /\ KeyRank(Text("type")) \in Int
        /\ KeyRank(Text("id")) # KeyRank(Text("type"))
    BY Ranks
  <1>2. Text("transports") \notin {Text("id"), Text("type")}
    BY DEF Text
  <1>3. ~Is("map", Absent)
    BY DEF Is, Absent
  <1> QED
    BY <1>1, <1>2, <1>3, Pair DEF Descriptor

LEMMA Sanitized ==
    ASSUME NEW desc
    PROVE  LET id == Field(desc, Text("id"))
               new == sanitize_credential_descriptor(desc)
           IN /\ new = Absent <=> id = Absent
              /\ new # Absent =>
                    /\ Field(new, Text("id")) = id
                    /\ Field(new, Text("transports")) = Absent
                    /\ CanonicalMap(new)
  BY Rebuilt DEF sanitize_credential_descriptor
-----------------------------------------------------------------------------
(* Lists of descriptors.                                                   *)

WithId(s) == {i \in DOMAIN s : Field(s[i], Text("id")) # Absent}
WithBytesId(s) == {i \in DOMAIN s : HasBytesId(s[i])}

LEMMA IdsOf ==
    ASSUME NEW V, NEW s \in Seq(V), NEW list, Items(list) = s
    PROVE  CredentialIds(list) =
              [n \in 1..Cardinality(WithBytesId(s)) |->
                  Field(s[Place(WithBytesId(s), n)], Text("id"))[2]]
  <1> DEFINE J == WithBytesId(s)
             t == Picked(s, J)
  <1>1. /\ DOMAIN t = 1..Cardinality(J)
        /\ \A n \in 1..Cardinality(J) : t[n] = s[Place(J, n)]
    BY PickedProperties DEF WithBytesId
  <1>2. CredentialIds(list) = [n \in DOMAIN t |-> Field(t[n], Text("id"))[2]]
    BY DEF CredentialIds, MapSeq, Selected, WithBytesId
  <1> HIDE DEF t, J
  <1>3. CredentialIds(list) =
           [n \in 1..Cardinality(J) |-> Field(s[Place(J, n)], Text("id"))[2]]
    BY <1>1, <1>2
  <1> QED
    BY <1>3 DEF J

LEMMA NoIds ==
    ASSUME NEW list, Items(list) = <<>>
    PROVE  CredentialIds(list) = <<>>
  <1> DEFINE s == Items(list)
             J == WithBytesId(s)
             ids == CredentialIds(list)
  <1>1. s \in Seq({}) /\ DOMAIN s = {}
    OBVIOUS
  <1>2. J = {}
    BY <1>1 DEF WithBytesId
  <1>3. ids = [n \in 1..Cardinality(J) |-> Field(s[Place(J, n)], Text("id"))[2]]
    BY <1>1, IdsOf
  <1> HIDE DEF s, J, ids
  <1>4. Cardinality(J) = 0
    BY <1>2, FS_EmptySet
  <1>5. 1..0 = {}
    OBVIOUS
  <1>6. ids = <<>>
    BY <1>3, <1>4, <1>5
  <1> QED
    BY <1>6 DEF ids

(* The sanitised list: the descriptors with an id, rebuilt.                *)
LEMMA SanitizedItems ==
    ASSUME NEW V, NEW list, Items(list) \in Seq(V)
    PROVE  LET s == Items(list)
               I == WithId(s)
               t == SanitizedList(list)
           IN /\ I \in SUBSET Nat /\ IsFiniteSet(I) /\ Cardinality(I) \in Nat
              /\ t \in Seq({sanitize_credential_descriptor(s[i]) : i \in I})
              /\ Len(t) = Cardinality(I) /\ DOMAIN t = 1..Cardinality(I)
              /\ \A n \in 1..Cardinality(I) :
                    /\ Place(I, n) \in I
                    /\ t[n] = sanitize_credential_descriptor(s[Place(I, n)])
              /\ \A i \in I : \E n \in 1..Cardinality(I) : i = Place(I, n)
  <1> DEFINE s == Items(list)
             I == WithId(s)
             u == Picked(s, I)
             t == SanitizedList(list)
             W == {sanitize_credential_descriptor(s[i]) : i \in I}
  <1>1. /\ I \in SUBSET Nat /\ IsFiniteSet(I) /\ Cardinality(I) \in Nat
        /\ DOMAIN u = 1..Cardinality(I)
        /\ \A n \in 1..Cardinality(I) : Place(I, n) \in I /\ u[n] = s[Place(I, n)]
        /\ \A i \in I : \E n \in 1..Cardinality(I) : i = Place(I, n)
    <2>1. I \in SUBSET (DOMAIN s) /\ s \in Seq(V)
      BY DEF WithId
    <2> HIDE DEF I, s
    <2>2. /\ I \in SUBSET Nat /\ IsFiniteSet(I) /\ Cardinality(I) \in Nat
          /\ DOMAIN Picked(s, I) = 1..Cardinality(I)
          /\ \A n \in 1..Cardinality(I) :
                Place(I, n) \in I /\ Picked(s, I)[n] = s[Place(I, n)]
          /\ \A i \in I : \E n \in 1..Cardinality(I) : i = Place(I, n)
      BY <2>1, PickedProperties
    <2> QED
      BY <2>2
  <1>2. I = {i \in DOMAIN s : sanitize_credential_descriptor(s[i]) # Absent}
    BY Sanitized DEF WithId
  <1>3. t = [n \in DOMAIN u |-> sanitize_credential_descriptor(u[n])]
    BY <1>2 DEF SanitizedList, MapSeq, Selected
  <1> HIDE DEF s, I, u, t
  <1>4. t = [n \in 1..Cardinality(I) |-> sanitize_credential_descriptor(s[Place(I, n)])]
    BY <1>1, <1>3
  <1>5. \A n \in 1..Cardinality(I) : sanitize_credential_descriptor(s[Place(I, n)]) \in W
    BY <1>1
  <1> HIDE DEF W
  <1>6. t \in [1..Cardinality(I) -> W]
    BY <1>4, <1>5
  <1>7. t \in Seq(W) /\ Len(t) = Cardinality(I) /\ DOMAIN t = 1..Cardinality(I)
    BY <1>1, <1>6
  <1> QED
    BY <1>1, <1>4, <1>7 DEF s, I, t, W

LEMMA IdsKept ==
    ASSUME NEW V, NEW list, Items(list) \in Seq(V)
    PROVE  /\ CredentialIds(Array(SanitizedList(list))) = CredentialIds(list)
           /\ SanitizedList(list) = <<>> => CredentialIds(list) = <<>>
           /\ \A n \in DOMAIN SanitizedList(list) :
                 /\ CanonicalMap(SanitizedList(list)[n])
                 /\ Field(SanitizedList(list)[n], Text("transports")) = Absent
  <1> DEFINE s == Items(list)
             I == WithId(s)
             t == SanitizedList(list)
             P == WithBytesId(t)
             J == WithBytesId(s)
             ids == CredentialIds(list)
             kept == CredentialIds(Array(t))
             id(desc) == Field(desc, Text("id"))
  <1>1. /\ I \in SUBSET Nat /\ IsFiniteSet(I) /\ Cardinality(I) \in Nat
        /\ t \in Seq({sanitize_credential_descriptor(s[i]) : i \in I})
        /\ DOMAIN t = 1..Cardinality(I)
        /\ \A n \in 1..Cardinality(I) :
              /\ Place(I, n) \in I
              /\ t[n] = sanitize_credential_descriptor(s[Place(I, n)])
        /\ \A i \in I : \E n \in 1..Cardinality(I) : i = Place(I, n)
    BY SanitizedItems
  <1>2. ASSUME NEW n \in 1..Cardinality(I)
        PROVE  /\ id(t[n]) = id(s[Place(I, n)])
               /\ CanonicalMap(t[n])
               /\ Field(t[n], Text("transports")) = Absent
    <2>1. id(s[Place(I, n)]) # Absent
      BY <1>1 DEF WithId
    <2> QED
      BY <1>1, <2>1, Sanitized
  <1>3. ids = [n \in 1..Cardinality(J) |-> id(s[Place(J, n)])[2]]
    BY IdsOf
  <1>4. kept = [n \in 1..Cardinality(P) |-> id(t[Place(P, n)])[2]]
    <2>1. Items(Array(t)) = t
      BY DEF Items, Array, Is
    <2> QED
      BY <1>1, <2>1, IdsOf
  <1>5. ~Is("bytes", Absent)
    BY DEF Is, Absent
  <1> HIDE DEF s, t, ids, kept
  <1>6. P = {p \in 1..Cardinality(I) : Is("bytes", id(s[Place(I, p)]))}
    BY <1>1, <1>2 DEF WithBytesId, HasBytesId
  <1>7. J = {i \in I : Is("bytes", id(s[i]))}
    BY <1>5 DEF WithBytesId, HasBytesId, WithId
  <1> HIDE DEF I, P, J
  <1>8. J = {Place(I, p) : p \in P}
    BY <1>1, <1>6, <1>7
  <1>9. P \in SUBSET (1..Cardinality(I))
    BY <1>6
  <1>10. /\ Cardinality(J) = Cardinality(P)
         /\ \A n \in 1..Cardinality(P) : Place(J, n) = Place(I, Place(P, n))
    <2>1. I \in SUBSET Nat /\ IsFiniteSet(I)
      BY <1>1
    <2>2. J = PlacesIn(I, P)
      BY <1>8 DEF PlacesIn
    <2> QED
      BY <2>1, <2>2, <1>9, PickedTwice
  <1>11. \A n \in 1..Cardinality(P) : Place(P, n) \in P
    <2>1. IsFiniteSet(P) /\ P \in SUBSET Nat
      <3>1. 1 \in Int /\ Cardinality(I) \in Int
        BY <1>1
      <3>2. IsFiniteSet(1..Cardinality(I))
        BY <3>1, FS_Interval
      <3>3. IsFiniteSet(P)
        BY <1>9, <3>2, FS_Subset
      <3> QED
        BY <1>1, <1>9, <3>3
    <2> QED
      BY <2>1, Places
  <1>12. ASSUME NEW n \in 1..Cardinality(P)
         PROVE  id(t[Place(P, n)])[2] = id(s[Place(J, n)])[2]
    BY <1>2, <1>9, <1>10, <1>11
  <1>13. kept = ids
    BY <1>3, <1>4, <1>10, <1>12
  <1>14. t = <<>> => ids = <<>>
    <2>1. Items(Array(t)) = t
      BY DEF Items, Array, Is
    <2>2. t = <<>> => kept = <<>>
      BY <2>1, NoIds DEF kept
    <2> QED
      BY <1>13, <2>2
  <1> QED
    BY <1>1, <1>2, <1>13, <1>14 DEF t, ids, kept

-----------------------------------------------------------------------------
(* Maps with distinct keys.                                                *)

Distinct(m) ==
    /\ Ranked(m)
    /\ \A i, j \in DOMAIN m : i # j => KeyRank(m[i][1]) # KeyRank(m[j][1])

LEMMA DistinctKeys ==
    ASSUME NEW v, WellFormed(v)
    PROVE  Distinct(Entries(v))
  BY RankTellsKey DEF WellFormed, Distinct, Ranked

LEMMA SortedMapProperties ==
    ASSUME NEW V, NEW m \in Seq(V), Distinct(m)
    PROVE  LET v == SortedMap(m) IN
           /\ Is("map", v) /\ CanonicalMap(v)
           /\ \A n \in DOMAIN Entries(v) : \E i \in DOMAIN m : Entries(v)[n] = m[i]
           /\ \A i \in DOMAIN m : Field(v, m[i][1]) = m[i][2]
           /\ \A key : (\A i \in DOMAIN m : m[i][1] # key) => Field(v, key) = Absent
  <1> DEFINE t == Sorted(m)
  <1>1. Ranked(m)
    BY DEF Distinct
  <1>2. /\ DOMAIN m = 1..Len(m) /\ DOMAIN t = 1..Len(m)
        /\ \A n \in 1..Len(m) : \E i \in 1..Len(m) : t[n] = m[i]
        /\ (\A i, j \in 1..Len(m) : i # j => KeyRank(m[i][1]) # KeyRank(m[j][1])) =>
              \A n, p \in 1..Len(m) : n < p => KeyRank(t[n][1]) < KeyRank(t[p][1])
    BY <1>1, SortedProperties
  <1>3. Is("map", SortedMap(m)) /\ Entries(SortedMap(m)) = t
    BY DEF SortedMap, Entries, Map, Is
  <1> HIDE DEF t
  <1>4. CanonicalMap(SortedMap(m))
    BY <1>2, <1>3 DEF CanonicalMap, Distinct
  <1>5. ASSUME NEW i \in DOMAIN m PROVE Field(SortedMap(m), m[i][1]) = m[i][2]
    <2>1. \A j \in DOMAIN m : m[j][1] = m[i][1] => j = i
      BY DEF Distinct
    <2> QED
      BY <1>1, <2>1, FieldOfSorted
  <1>6. \A key : (\A i \in DOMAIN m : m[i][1] # key) => Field(SortedMap(m), key) = Absent
    BY <1>1, FieldOfSorted
  <1> QED
    BY <1>2, <1>3, <1>4, <1>5, <1>6

LEMMA DistinctPicked ==
    ASSUME NEW V, NEW s \in Seq(V), Distinct(s), NEW I \in SUBSET (DOMAIN s)
    PROVE  Distinct(Picked(s, I))
  <1> DEFINE t == Picked(s, I)
             k == Cardinality(I)
  <1>1. /\ I \in SUBSET Nat /\ IsFiniteSet(I) /\ k \in Nat /\ DOMAIN t = 1..k
        /\ \A n \in 1..k : Place(I, n) \in I /\ t[n] = s[Place(I, n)]
    BY PickedProperties
  <1>2. \A n, p \in 1..k : n < p => Place(I, n) < Place(I, p)
    BY <1>1, Places
  <1> HIDE DEF t, k
  <1>3. ASSUME NEW n \in 1..k, NEW p \in 1..k, n # p
        PROVE  Place(I, n) # Place(I, p)
    <2>1. n < p \/ p < n
      BY <1>1, <1>3
    <2>2. Place(I, n) \in Nat /\ Place(I, p) \in Nat
      BY <1>1
    <2> QED
      BY <1>2, <2>1, <2>2
  <1>4. Ranked(t)
    BY <1>1 DEF Distinct, Ranked
  <1>5. ASSUME NEW n \in 1..k, NEW p \in 1..k, n # p
        PROVE  KeyRank(t[n][1]) # KeyRank(t[p][1])
    <2>1. /\ t[n] = s[Place(I, n)] /\ Place(I, n) \in DOMAIN s
          /\ t[p] = s[Place(I, p)] /\ Place(I, p) \in DOMAIN s
      BY <1>1
    <2> QED
      BY <1>3, <1>5, <2>1 DEF Distinct
  <1>6. Distinct(t)
    BY <1>1, <1>4, <1>5 DEF Distinct
  <1> QED
    BY <1>6 DEF t

LEMMA DistinctConcat ==
    ASSUME NEW V, NEW s \in Seq(V), NEW t \in Seq(V), Distinct(s), Distinct(t),
           \A i \in DOMAIN s, j \in DOMAIN t : KeyRank(s[i][1]) # KeyRank(t[j][1])
    PROVE  /\ s \o t \in Seq(V) /\ Distinct(s \o t)
           /\ \A i \in DOMAIN s : i \in DOMAIN (s \o t) /\ (s \o t)[i] = s[i]
           /\ \A j \in DOMAIN t : \E n \in DOMAIN (s \o t) : (s \o t)[n] = t[j]
           /\ \A n \in DOMAIN (s \o t) :
                 \/ n \in DOMAIN s /\ (s \o t)[n] = s[n]
                 \/ \E j \in DOMAIN t : (s \o t)[n] = t[j]
  <1> DEFINE u == s \o t
             a == Len(s)
             b == Len(t)
  <1>1. /\ a \in Nat /\ b \in Nat /\ DOMAIN s = 1..a /\ DOMAIN t = 1..b
    BY LenProperties
  <1>2. /\ u \in Seq(V) /\ Len(u) = a + b
        /\ \A n \in 1..(a + b) : u[n] = IF n <= a THEN s[n] ELSE t[n - a]
    BY ConcatProperties
  <1>3. DOMAIN u = 1..(a + b)
    BY <1>2, LenProperties
  <1> HIDE DEF u, a, b
  <1>4. \A i \in 1..a : i \in 1..(a + b) /\ u[i] = s[i]
    BY <1>1, <1>2
  <1>5. \A j \in 1..b : j + a \in 1..(a + b) /\ u[j + a] = t[j]
    BY <1>1, <1>2
  <1>6. \A n \in 1..(a + b) :
           \/ n \in 1..a /\ u[n] = s[n]
           \/ n - a \in 1..b /\ n > a /\ u[n] = t[n - a]
    BY <1>1, <1>2
  <1>7. Ranked(u)
    BY <1>1, <1>3, <1>6 DEF Ranked, Distinct
  <1>8. ASSUME NEW n \in 1..(a + b), NEW p \in 1..(a + b), n # p
        PROVE  KeyRank(u[n][1]) # KeyRank(u[p][1])
    <2>1. CASE n \in 1..a /\ p \in 1..a
      BY <1>1, <1>4, <1>8, <2>1 DEF Distinct
    <2>2. CASE n \in 1..a /\ p \notin 1..a
      <3>1. u[n] = s[n] /\ p - a \in 1..b /\ u[p] = t[p - a]
        BY <1>4, <1>6, <2>2
      <3> QED
        BY <1>1, <2>2, <3>1
    <2>3. CASE n \notin 1..a /\ p \in 1..a
      <3>1. u[p] = s[p] /\ n - a \in 1..b /\ u[n] = t[n - a]
        BY <1>4, <1>6, <2>3
      <3> QED
        BY <1>1, <2>3, <3>1
    <2>4. CASE n \notin 1..a /\ p \notin 1..a
      <3>1. /\ n - a \in 1..b /\ u[n] = t[n - a]
            /\ p - a \in 1..b /\ u[p] = t[p - a]
        BY <1>6, <2>4
      <3>2. n - a # p - a
        BY <1>1, <1>8
      <3> QED
        BY <1>1, <3>1, <3>2 DEF Distinct
    <2> QED
      BY <2>1, <2>2, <2>3, <2>4
  <1>9. Distinct(u)
    BY <1>3, <1>7, <1>8 DEF Distinct
  <1>10. \A j \in DOMAIN t : \E n \in DOMAIN u : u[n] = t[j]
    BY <1>1, <1>3, <1>5
  <1>11. \A n \in DOMAIN u : \/ n \in DOMAIN s /\ u[n] = s[n]
                             \/ \E j \in DOMAIN t : u[n] = t[j]
    BY <1>1, <1>3, <1>6
  <1>12. \A i \in DOMAIN s : i \in DOMAIN u /\ u[i] = s[i]
    BY <1>1, <1>3, <1>4
  <1> QED
    BY <1>2, <1>9, <1>10, <1>11, <1>12 DEF u

(* Two groups of entries, sorted.                                          *)
Apart(s, x) ==
    \A i \in DOMAIN s, j \in DOMAIN x : KeyRank(s[i][1]) # KeyRank(x[j][1])

LEMMA Assembled ==
    ASSUME NEW W, NEW s \in Seq(W), NEW x \in Seq(W), Distinct(s), Distinct(x),
           Apart(s, x)
    PROVE  LET v == SortedMap(s \o x) IN
           /\ Is("map", v) /\ CanonicalMap(v)
           /\ \A n \in DOMAIN Entries(v) :
                 \/ \E i \in DOMAIN s : Entries(v)[n] = s[i]
                 \/ \E j \in DOMAIN x : Entries(v)[n] = x[j]
           /\ \A i \in DOMAIN s : Field(v, s[i][1]) = s[i][2]
           /\ \A j \in DOMAIN x : Field(v, x[j][1]) = x[j][2]
           /\ \A key : /\ \A i \in DOMAIN s : s[i][1] # key
                       /\ \A j \in DOMAIN x : x[j][1] # key
                       => Field(v, key) = Absent
  <1> DEFINE u == s \o x
             v == SortedMap(u)
  <1>1. /\ u \in Seq(W) /\ Distinct(u)
        /\ \A i \in DOMAIN s : i \in DOMAIN u /\ u[i] = s[i]
        /\ \A j \in DOMAIN x : \E n \in DOMAIN u : u[n] = x[j]
        /\ \A n \in DOMAIN u : \/ n \in DOMAIN s /\ u[n] = s[n]
                               \/ \E j \in DOMAIN x : u[n] = x[j]
    BY DistinctConcat DEF Apart
  <1> HIDE DEF u
  <1>2. /\ Is("map", v) /\ CanonicalMap(v)
        /\ \A n \in DOMAIN Entries(v) : \E i \in DOMAIN u : Entries(v)[n] = u[i]
        /\ \A i \in DOMAIN u : Field(v, u[i][1]) = u[i][2]
        /\ \A key : (\A i \in DOMAIN u : u[i][1] # key) => Field(v, key) = Absent
    BY <1>1, SortedMapProperties
  <1> HIDE DEF v
  <1>3. ASSUME NEW n \in DOMAIN Entries(v)
        PROVE  \/ \E i \in DOMAIN s : Entries(v)[n] = s[i]
               \/ \E j \in DOMAIN x : Entries(v)[n] = x[j]
    <2>1. PICK p \in DOMAIN u : Entries(v)[n] = u[p]
      BY <1>2
    <2>2. CASE p \in DOMAIN s /\ u[p] = s[p]
      BY <2>1, <2>2
    <2>3. CASE \E j \in DOMAIN x : u[p] = x[j]
      BY <2>1, <2>3
    <2> QED
      BY <1>1, <2>2, <2>3
  <1>4. \A i \in DOMAIN s : Field(v, s[i][1]) = s[i][2]
    BY <1>1, <1>2
  <1>5. \A j \in DOMAIN x : Field(v, x[j][1]) = x[j][2]
    BY <1>1, <1>2
  <1>6. ASSUME NEW key, \A i \in DOMAIN s : s[i][1] # key, \A j \in DOMAIN x : x[j][1] # key
        PROVE  Field(v, key) = Absent
    <2>1. \A n \in DOMAIN u : u[n][1] # key
      BY <1>1, <1>6
    <2> QED
      BY <1>2, <2>1
  <1> QED
    BY <1>2, <1>3, <1>4, <1>5, <1>6 DEF v, u

(* Entries I of es, rewritten by g.                                        *)
SameKeys(I, g, es) == DOMAIN g = I /\ \A i \in I : g[i][1] = es[i][1]

Images(I, g) == {g[i] : i \in I}

Lists(s, I, g) ==
    /\ \A n \in DOMAIN s : \E i \in I : s[n] = g[i]
    /\ \A i \in I : \E n \in DOMAIN s : s[n] = g[i]

Placed(I, g) == [n \in 1..Cardinality(I) |-> g[Place(I, n)]]

LEMMA Rewritten ==
    ASSUME NEW V, NEW es \in Seq(V), Distinct(es), NEW I \in SUBSET (DOMAIN es),
           NEW g, SameKeys(I, g, es)
    PROVE  /\ Placed(I, g) \in Seq(Images(I, g)) /\ Distinct(Placed(I, g))
           /\ Lists(Placed(I, g), I, g)
  <1> DEFINE t == Picked(es, I)
             k == Cardinality(I)
             W == {g[i] : i \in I}
             s == [n \in 1..k |-> g[Place(I, n)]]
  <1>0. s = Placed(I, g)
    BY DEF Placed
  <1>1. /\ k \in Nat /\ DOMAIN t = 1..k
        /\ \A n \in 1..k : Place(I, n) \in I /\ t[n] = es[Place(I, n)]
        /\ \A i \in I : \E n \in 1..k : i = Place(I, n)
    BY PickedProperties
  <1>2. Distinct(t)
    BY DistinctPicked
  <1> HIDE DEF t, k
  <1>3. /\ DOMAIN s = 1..k
        /\ \A n \in 1..k : s[n] = g[Place(I, n)] /\ s[n] \in W /\ s[n][1] = t[n][1]
    BY <1>1 DEF SameKeys
  <1>4. s \in [1..k -> W]
    BY <1>3
  <1> HIDE DEF s
  <1>5. s \in Seq(W)
    BY <1>1, <1>4, IsASeq
  <1>6. Distinct(s)
    <2>1. \A n \in 1..k : KeyRank(s[n][1]) = KeyRank(t[n][1])
      BY <1>3
    <2>2. /\ \A n \in 1..k : KeyRank(t[n][1]) \in Int
          /\ \A n, p \in 1..k : n # p => KeyRank(t[n][1]) # KeyRank(t[p][1])
      BY <1>1, <1>2 DEF Distinct, Ranked
    <2>3. /\ \A n \in 1..k : KeyRank(s[n][1]) \in Int
          /\ \A n, p \in 1..k : n # p => KeyRank(s[n][1]) # KeyRank(s[p][1])
      BY <2>1, <2>2
    <2>4. DOMAIN s = 1..k
      BY <1>3
    <2> QED
      BY <2>3, <2>4 DEF Distinct, Ranked
  <1>7. \A n \in DOMAIN s : \E i \in I : s[n] = g[i]
    BY <1>1, <1>3
  <1>8. ASSUME NEW i \in I PROVE \E n \in DOMAIN s : s[n] = g[i]
    <2>1. PICK n \in 1..k : i = Place(I, n)
      BY <1>1
    <2> QED
      BY <1>3, <2>1
  <1> QED
    BY <1>0, <1>5, <1>6, <1>7, <1>8 DEF Images, Lists

(* Rewritten entries and others, sorted.                                   *)
BuiltFrom(v, es, I, g, x) ==
    /\ Is("map", v) /\ CanonicalMap(v)
    /\ \A n \in DOMAIN Entries(v) :
          \/ \E i \in I : Entries(v)[n] = g[i]
          \/ \E j \in DOMAIN x : Entries(v)[n] = x[j]
    /\ \A i \in I : Field(v, es[i][1]) = g[i][2]
    /\ \A j \in DOMAIN x : Field(v, x[j][1]) = x[j][2]
    /\ \A key : (\A i \in I : es[i][1] # key) /\ (\A j \in DOMAIN x : x[j][1] # key)
                   => Field(v, key) = Absent

LEMMA Built ==
    ASSUME NEW V, NEW es \in Seq(V), Distinct(es), NEW I \in SUBSET (DOMAIN es),
           NEW g, SameKeys(I, g, es),
           NEW X, NEW x \in Seq(X), Distinct(x), Apart(g, x)
    PROVE  BuiltFrom(SortedMap(Placed(I, g) \o x), es, I, g, x)
  <1> DEFINE s == Placed(I, g)
             v == SortedMap(s \o x)
             G == Images(I, g)
             W == G \cup X
  <1>0. s \in Seq(G) /\ Distinct(s) /\ Lists(s, I, g)
    BY Rewritten
  <1>1. /\ s \in Seq(G) /\ Distinct(s)
        /\ \A n \in DOMAIN s : \E i \in I : s[n] = g[i]
        /\ \A i \in I : \E n \in DOMAIN s : s[n] = g[i]
    BY <1>0 DEF Lists
  <1> HIDE DEF s, G
  <1>2. \A n \in DOMAIN s : \E i \in I : s[n] = g[i] /\ s[n][1] = es[i][1]
    <2> TAKE n \in DOMAIN s
    <2>1. PICK i \in I : s[n] = g[i]
      BY <1>1
    <2>2. g[i][1] = es[i][1]
      BY DEF SameKeys
    <2> QED
      BY <2>1, <2>2
  <1>3. Apart(s, x)
    <2>1. DOMAIN g = I
      BY DEF SameKeys
    <2> QED
      BY <1>1, <2>1 DEF Apart
  <1>4. /\ Is("map", v) /\ CanonicalMap(v)
        /\ \A n \in DOMAIN Entries(v) :
              \/ \E i \in DOMAIN s : Entries(v)[n] = s[i]
              \/ \E j \in DOMAIN x : Entries(v)[n] = x[j]
        /\ \A i \in DOMAIN s : Field(v, s[i][1]) = s[i][2]
        /\ \A j \in DOMAIN x : Field(v, x[j][1]) = x[j][2]
        /\ \A key : /\ \A i \in DOMAIN s : s[i][1] # key
                    /\ \A j \in DOMAIN x : x[j][1] # key
                    => Field(v, key) = Absent
    <2>1. s \in Seq(W) /\ x \in Seq(W) /\ Distinct(s)
      BY <1>1
    <2> HIDE DEF W
    <2> QED
      BY <1>3, <2>1, Assembled
  <1> HIDE DEF v
  <1>5. ASSUME NEW i \in I PROVE Field(v, es[i][1]) = g[i][2]
    <2>1. PICK n \in DOMAIN s : s[n] = g[i]
      BY <1>1
    <2>2. s[n][1] = es[i][1]
      BY <2>1 DEF SameKeys
    <2> QED
      BY <1>4, <2>1, <2>2
  <1>6. ASSUME NEW n \in DOMAIN Entries(v)
        PROVE  \/ \E i \in I : Entries(v)[n] = g[i]
               \/ \E j \in DOMAIN x : Entries(v)[n] = x[j]
    <2>1. CASE \E p \in DOMAIN s : Entries(v)[n] = s[p]
      BY <1>1, <2>1
    <2> QED
      BY <1>4, <2>1
  <1>7. ASSUME NEW key, \A i \in I : es[i][1] # key, \A j \in DOMAIN x : x[j][1] # key
        PROVE  Field(v, key) = Absent
    <2>1. \A n \in DOMAIN s : s[n][1] # key
      BY <1>2, <1>7
    <2> QED
      BY <1>4, <1>7, <2>1
  <1> QED
    BY <1>4, <1>5, <1>6, <1>7 DEF v, s, BuiltFrom

(* Fixed entries c in front of those of es that are kept.                  *)
LEMMA Completed ==
    ASSUME NEW V, NEW es \in Seq(V), Distinct(es), NEW I \in SUBSET (DOMAIN es),
           NEW W, NEW c \in Seq(W), Distinct(c),
           \A i \in I, j \in DOMAIN c : KeyRank(es[i][1]) # KeyRank(c[j][1])
    PROVE  LET v == SortedMap(c \o Picked(es, I)) IN
           /\ Is("map", v) /\ CanonicalMap(v)
           /\ \A j \in DOMAIN c : Field(v, c[j][1]) = c[j][2]
  <1> DEFINE t == Picked(es, I)
             k == Cardinality(I)
  <1>1. /\ DOMAIN t = 1..k /\ t \in Seq(V)
        /\ \A n \in 1..k : Place(I, n) \in I /\ t[n] = es[Place(I, n)]
    BY PickedProperties
  <1>2. Distinct(t)
    BY DistinctPicked
  <1> HIDE DEF t, k
  <1>3. t \in Seq(V \cup W) /\ c \in Seq(V \cup W)
    BY <1>1
  <1>4. Apart(c, t)
    BY <1>1 DEF Apart
  <1>5. /\ Is("map", SortedMap(c \o t)) /\ CanonicalMap(SortedMap(c \o t))
        /\ \A j \in DOMAIN c : Field(SortedMap(c \o t), c[j][1]) = c[j][2]
    BY <1>2, <1>3, <1>4, Assembled
  <1> QED
    BY <1>5 DEF t

-----------------------------------------------------------------------------
(* The host's message.                                                     *)

Choices(command) == UNION {{Num(key)} \X Menu[command][key] : key \in DOMAIN Menu[command]}

(* What the host has composed: entries of the menu in the order of their   *)
(* keys, or what is no CBOR.                                               *)
BodyOK(command, body) ==
    body # Absent =>
        /\ body = Map(Entries(body))
        /\ Entries(body) \in Seq(Choices(command))
        /\ \A i, j \in DOMAIN Entries(body) :
              i < j => Entries(body)[i][1][2] < Entries(body)[j][1][2]

LEMMA BodyProperties ==
    ASSUME NEW command \in Commands, NEW body, BodyOK(command, body)
    PROVE  LET es == Entries(body) IN
           /\ Is("map", body) <=> body # Absent
           /\ body = Absent => DOMAIN es = {}
           /\ body # Absent => es \in Seq(Choices(command)) /\ Distinct(es)
           /\ \A i \in DOMAIN es :
                 /\ es[i] = <<es[i][1], es[i][2]>>
                 /\ WellFormed(es[i][2])
                 /\ \E key \in DOMAIN Menu[command] :
                       key \in 1..7 /\ es[i][1] = Num(key) /\ es[i][2] \in Menu[command][key]
                 /\ Field(body, es[i][1]) = es[i][2]
           /\ \A key : (\A i \in DOMAIN es : es[i][1] # key) => Field(body, key) = Absent
  <1> DEFINE es == Entries(body)
  <1>1. ~Is("map", Absent) /\ Is("map", Map(es)) /\ Entries(Absent) = <<>>
    BY DEF Is, Absent, Map, Entries
  <1>2. Is("map", body) <=> body # Absent
    BY <1>1 DEF BodyOK
  <1>3. CASE body = Absent
    <2>1. DOMAIN es = {}
      BY <1>1, <1>3
    <2>2. \A key : Field(body, key) = Absent
      BY <2>1 DEF Field
    <2> QED
      BY <1>2, <1>3, <2>1, <2>2
  <1>4. CASE body # Absent
    <2>1. /\ body = Map(es) /\ es \in Seq(Choices(command))
          /\ \A i, j \in DOMAIN es : i < j => es[i][1][2] < es[j][1][2]
      BY <1>4 DEF BodyOK
    <2> HIDE DEF es
    <2>2. DOMAIN es = 1..Len(es) /\ \A i \in DOMAIN es : es[i] \in Choices(command)
      BY <2>1, LenProperties, ElementOfSeq
    <2>3. ASSUME NEW i \in DOMAIN es
          PROVE  /\ es[i] = <<es[i][1], es[i][2]>>
                 /\ WellFormed(es[i][2])
                 /\ \E key \in DOMAIN Menu[command] :
                       key \in 1..7 /\ es[i][1] = Num(key) /\ es[i][2] \in Menu[command][key]
      <3>1. PICK key \in DOMAIN Menu[command] : es[i] \in {Num(key)} \X Menu[command][key]
        BY <2>2 DEF Choices
      <3>2. /\ es[i] = <<es[i][1], es[i][2]>> /\ es[i][1] = Num(key)
            /\ es[i][2] \in Menu[command][key]
        BY <3>1
      <3> QED
        BY <3>2, RequestPathAssumption DEF RequestPathAssumption
    <2>4. ASSUME NEW i \in DOMAIN es
          PROVE  KeyRank(es[i][1]) = es[i][1][2] /\ es[i][1][2] \in Int
      <3>1. PICK key \in 1..7 : es[i][1] = Num(key)
        BY <2>3
      <3>2. Num(key)[2] = key /\ KeyRank(Num(key)) = key
        BY Ranks DEF Num
      <3> QED
        BY <3>1, <3>2
    <2>5. Distinct(es)
      <3>1. Ranked(es)
        BY <2>4 DEF Ranked
      <3>2. ASSUME NEW i \in DOMAIN es, NEW j \in DOMAIN es, i # j
            PROVE  KeyRank(es[i][1]) # KeyRank(es[j][1])
        <4>1. i \in Int /\ j \in Int
          BY <2>2
        <4>2. i < j \/ j < i
          BY <3>2, <4>1
        <4>3. es[i][1][2] # es[j][1][2]
          BY <2>1, <2>4, <4>2
        <4> QED
          BY <2>4, <4>3
      <3> QED
        BY <3>1, <3>2 DEF Distinct
    <2>6. ASSUME NEW i \in DOMAIN es PROVE Field(body, es[i][1]) = es[i][2]
      <3>1. \A j \in DOMAIN es : es[j][1] = es[i][1] => j = i
        BY <2>5 DEF Distinct
      <3> QED
        BY <2>1, <3>1, FieldOf
    <2>7. \A key : (\A i \in DOMAIN es : es[i][1] # key) => Field(body, key) = Absent
      BY <2>1, FieldOf
    <2> QED
      BY <1>2, <1>4, <2>1, <2>3, <2>5, <2>6, <2>7 DEF es
  <1> QED
    BY <1>3, <1>4

-----------------------------------------------------------------------------
(* The relying party and the account.                                      *)

LEMMA OthersOf ==
    ASSUME NEW v, WellFormed(v), NEW names,
           \A n \in names : Text(n) \in Keys
    PROVE  \E I \in SUBSET (DOMAIN Entries(v)) :
              /\ Others(v, names) = Picked(Entries(v), I)
              /\ \A i \in I : \A n \in names :
                    KeyRank(Entries(v)[i][1]) # KeyRank(Text(n))
  <1> DEFINE es == Entries(v)
             I == {i \in DOMAIN es : es[i][1] \notin {Text(n) : n \in names}}
  <1>1. Others(v, names) = Picked(es, I)
    BY DEF Others, Selected
  <1>2. \A i \in DOMAIN es : es[i][1] \in Keys
    BY DEF WellFormed
  <1> HIDE DEF es
  <1>3. \A i \in I : \A n \in names : KeyRank(es[i][1]) # KeyRank(Text(n))
    BY <1>2, RankTellsKey
  <1>4. I \in SUBSET (DOMAIN es)
    OBVIOUS
  <1> HIDE DEF I
  <1> QED
    BY <1>1, <1>3, <1>4 DEF es

(* Sequences of two and three entries.                                     *)
LEMMA TwoEntries ==
    ASSUME NEW a, NEW b, NEW x, NEW y, KeyRank(a) \in Int, KeyRank(b) \in Int,
           KeyRank(a) # KeyRank(b)
    PROVE  LET m == <<<<a, x>>, <<b, y>>>> IN
           /\ m \in Seq({<<a, x>>, <<b, y>>}) /\ Distinct(m) /\ DOMAIN m = 1..2
           /\ m[1] = <<a, x>> /\ m[2] = <<b, y>>
  <1> DEFINE m == <<<<a, x>>, <<b, y>>>>
  <1>1. /\ m \in Seq({<<a, x>>, <<b, y>>}) /\ DOMAIN m = 1..2
        /\ m[1] = <<a, x>> /\ m[2] = <<b, y>>
    OBVIOUS
  <1>2. m[1][1] = a /\ m[2][1] = b
    BY <1>1
  <1>3. \A i \in 1..2 : i = 1 \/ i = 2
    OBVIOUS
  <1> HIDE DEF m
  <1>4. Distinct(m)
    BY <1>1, <1>2, <1>3 DEF Distinct, Ranked
  <1> QED
    BY <1>1, <1>4 DEF m

LEMMA ThreeEntries ==
    ASSUME NEW a, NEW b, NEW c, NEW x, NEW y, NEW z,
           KeyRank(a) \in Int, KeyRank(b) \in Int, KeyRank(c) \in Int,
           KeyRank(a) # KeyRank(b), KeyRank(a) # KeyRank(c), KeyRank(b) # KeyRank(c)
    PROVE  LET m == <<<<a, x>>, <<b, y>>, <<c, z>>>> IN
           /\ m \in Seq({<<a, x>>, <<b, y>>, <<c, z>>}) /\ Distinct(m) /\ DOMAIN m = 1..3
           /\ m[1] = <<a, x>> /\ m[2] = <<b, y>> /\ m[3] = <<c, z>>
  <1> DEFINE m == <<<<a, x>>, <<b, y>>, <<c, z>>>>
  <1>1. /\ m \in Seq({<<a, x>>, <<b, y>>, <<c, z>>}) /\ DOMAIN m = 1..3
        /\ m[1] = <<a, x>> /\ m[2] = <<b, y>> /\ m[3] = <<c, z>>
    OBVIOUS
  <1>2. m[1][1] = a /\ m[2][1] = b /\ m[3][1] = c
    BY <1>1
  <1>3. \A i \in 1..3 : i = 1 \/ i = 2 \/ i = 3
    OBVIOUS
  <1> HIDE DEF m
  <1>4. Distinct(m)
    BY <1>1, <1>2, <1>3 DEF Distinct, Ranked
  <1> QED
    BY <1>1, <1>4 DEF m

RpId(rp) ==
    NonEmpty(Field(rp, Text("id")), NonEmpty(Field(rp, Text("name")), "webauthn"))

LEMMA PreparedRpProperties ==
    ASSUME NEW rp, WellFormed(rp)
    PROVE  /\ CanonicalMap(PreparedRp(rp))
           /\ Field(PreparedRp(rp), Text("id")) = Text(RpId(rp))
           /\ RpId(rp) # ""
  <1> DEFINE a == <<Text("id"), Text(RpId(rp))>>
             b == <<Text("name"), Text(NonEmpty(Field(rp, Text("name")), RpId(rp)))>>
             c == <<a, b>>
  <1>1. PreparedRp(rp) = SortedMap(c \o Others(rp, {"id", "name"}))
    BY DEF PreparedRp, RpId
  <1>2. /\ c \in Seq({a, b}) /\ Distinct(c) /\ DOMAIN c = 1..2 /\ c[1] = a /\ c[2] = b
    BY Ranks, TwoEntries
  <1>3. PICK I \in SUBSET (DOMAIN Entries(rp)) :
           /\ Others(rp, {"id", "name"}) = Picked(Entries(rp), I)
           /\ \A i \in I : \A n \in {"id", "name"} :
                 KeyRank(Entries(rp)[i][1]) # KeyRank(Text(n))
    BY OthersOf DEF Keys
  <1>4. a[1] = Text("id") /\ b[1] = Text("name") /\ a[2] = Text(RpId(rp))
    OBVIOUS
  <1> HIDE DEF a, b, c
  <1>5. \A i \in I, j \in DOMAIN c : KeyRank(Entries(rp)[i][1]) # KeyRank(c[j][1])
    BY <1>2, <1>3, <1>4
  <1>6. Entries(rp) \in Seq({Entries(rp)[i] : i \in DOMAIN Entries(rp)}) /\ Distinct(Entries(rp))
    BY DistinctKeys DEF WellFormed
  <1>7. /\ CanonicalMap(PreparedRp(rp))
        /\ \A j \in DOMAIN c : Field(PreparedRp(rp), c[j][1]) = c[j][2]
    BY <1>1, <1>2, <1>3, <1>5, <1>6, Completed
  <1>8. Field(PreparedRp(rp), Text("id")) = Text(RpId(rp))
    BY <1>2, <1>4, <1>7
  <1>9. RpId(rp) # ""
    BY DEF RpId, NonEmpty
  <1> QED
    BY <1>7, <1>8, <1>9

LEMMA PreparedUserCanonical ==
    ASSUME NEW user, WellFormed(user)
    PROVE  CanonicalMap(PreparedUser(user))
  <1> DEFINE display == Field(user, Text("displayName"))
             name == NonEmpty(Field(user, Text("name")), NonEmpty(display, "user"))
             id == Field(user, Text("id"))
             x == IF id = Absent THEN Bytes(name) ELSE id
             a == <<Text("id"), x>>
             b == <<Text("name"), Text(name)>>
             d == <<Text("displayName"), Text(NonEmpty(display, name))>>
             c == <<a, b, d>>
             names == {"id", "name", "displayName"}
  <1>1. PreparedUser(user) = SortedMap(c \o Others(user, names))
    BY DEF PreparedUser
  <1>2. /\ c \in Seq({a, b, d}) /\ Distinct(c) /\ DOMAIN c = 1..3
        /\ c[1] = a /\ c[2] = b /\ c[3] = d
    <2> HIDE DEF x, name, display, id
    <2> QED
      BY Ranks, ThreeEntries
  <1>3. PICK I \in SUBSET (DOMAIN Entries(user)) :
           /\ Others(user, names) = Picked(Entries(user), I)
           /\ \A i \in I : \A n \in names :
                 KeyRank(Entries(user)[i][1]) # KeyRank(Text(n))
    BY OthersOf DEF Keys
  <1>4. a[1] = Text("id") /\ b[1] = Text("name") /\ d[1] = Text("displayName")
    OBVIOUS
  <1> HIDE DEF a, b, c, d
  <1>5. \A i \in I, j \in DOMAIN c : KeyRank(Entries(user)[i][1]) # KeyRank(c[j][1])
    BY <1>2, <1>3, <1>4
  <1>6. Entries(user) \in Seq({Entries(user)[i] : i \in DOMAIN Entries(user)})
        /\ Distinct(Entries(user))
    <2>1. Distinct(Entries(user))
      BY DistinctKeys
    <2> QED
      BY <2>1 DEF WellFormed
  <1> QED
    <2> DEFINE es == Entries(user)
               V == {es[i] : i \in DOMAIN es}
    <2>1. es \in Seq(V) /\ Distinct(es) /\ I \in SUBSET (DOMAIN es)
      BY <1>3, <1>6
    <2>2. \A i \in I, j \in DOMAIN c : KeyRank(es[i][1]) # KeyRank(c[j][1])
      BY <1>5
    <2>3. PreparedUser(user) = SortedMap(c \o Picked(es, I))
      BY <1>1, <1>3
    <2> HIDE DEF es, V
    <2> QED
      BY <1>2, <2>1, <2>2, <2>3, Completed

-----------------------------------------------------------------------------
(* The prepared messages.                                                  *)

GetBody(body) ==
    SortedMap(MapSeq(PreparedGetEntry, Selected(Entries(body), KeptInGet))
              \o <<<<Num(5), GetOptions(body)>>>>)

MakeBody(body) ==
    SortedMap(MapSeq(PreparedMakeEntry, Selected(Entries(body), KeptInMake))
              \o InjectedOptions(body))

ListOf(list) ==
    IF SanitizedList(list) = <<>> THEN Absent ELSE Array(SanitizedList(list))

LEMMA OneEntry ==
    ASSUME NEW a, NEW x, KeyRank(a) \in Int
    PROVE  LET m == <<<<a, x>>>> IN
           /\ m \in Seq({<<a, x>>}) /\ Distinct(m) /\ DOMAIN m = {1} /\ m[1] = <<a, x>>
  <1> DEFINE m == <<<<a, x>>>>
  <1>1. m \in Seq({<<a, x>>}) /\ DOMAIN m = {1} /\ m[1] = <<a, x>>
    OBVIOUS
  <1>2. m[1][1] = a
    BY <1>1
  <1> HIDE DEF m
  <1>3. Distinct(m)
    BY <1>1, <1>2 DEF Distinct, Ranked
  <1> QED
    BY <1>1, <1>3 DEF m

(* Nothing comes of a list that is none or missing.                        *)
LEMMA NoList == SanitizedList(Absent) = <<>>
  <1> DEFINE t == SanitizedList(Absent)
  <1>1. Items(Absent) = <<>> /\ <<>> \in Seq({}) /\ DOMAIN <<>> = {}
    BY DEF Items, Is, Absent
  <1>2. WithId(Items(Absent)) = {}
    BY <1>1 DEF WithId
  <1>3. t \in Seq({sanitize_credential_descriptor(Items(Absent)[i]) : i \in {}})
        /\ Len(t) = Cardinality({})
    BY <1>1, <1>2, SanitizedItems
  <1>4. Cardinality({}) = 0
    BY FS_EmptySet
  <1> HIDE DEF t
  <1>5. t = <<>>
    BY <1>3, <1>4, EmptySeq
  <1> QED
    BY <1>5 DEF t

LEMMA GetBodyProperties ==
    ASSUME NEW body, BodyOK("GetAssertion", body), body # Absent
    PROVE  LET v == GetBody(body) IN
           /\ Is("map", v) /\ CanonicalMap(v)
           /\ Field(v, Num(1)) = Field(body, Num(1))
           /\ Field(v, Num(3)) = ListOf(Field(body, Num(3)))
           /\ Field(v, Num(4)) = Absent
           /\ Field(v, Num(5)) = GetOptions(body)
           /\ \A n \in DOMAIN Entries(v) :
                 LET x == Entries(v)[n][2] IN
                 \/ x = GetOptions(body)
                 \/ \E list : x = Array(list)
                 \/ \E key \in {1, 2} \cap DOMAIN Menu["GetAssertion"] :
                       x \in Menu["GetAssertion"][key]
  <1> DEFINE es == Entries(body)
             I == {i \in DOMAIN es : KeptInGet(es[i])}
             g == [i \in I |-> PreparedGetEntry(es[i])]
             options == <<Num(5), GetOptions(body)>>
             V == Choices("GetAssertion")
             x == <<options>>
             t == Picked(es, I)
             v == GetBody(body)
  <1>1. /\ es \in Seq(Choices("GetAssertion")) /\ Distinct(es)
        /\ \A i \in DOMAIN es :
              /\ es[i] = <<es[i][1], es[i][2]>>
              /\ \E key \in DOMAIN Menu["GetAssertion"] :
                    key \in 1..7 /\ es[i][1] = Num(key) /\ es[i][2] \in Menu["GetAssertion"][key]
              /\ Field(body, es[i][1]) = es[i][2]
        /\ \A key : (\A i \in DOMAIN es : es[i][1] # key) => Field(body, key) = Absent
    BY BodyProperties DEF Commands
  <1>2. \A i \in I :
           /\ g[i] = <<es[i][1], g[i][2]>> /\ g[i][1] = es[i][1]
           /\ g[i][2] = IF es[i][1] = Num(3) THEN Array(SanitizedList(es[i][2])) ELSE es[i][2]
    BY DEF PreparedGetEntry
  <1>3. /\ x \in Seq({options}) /\ Distinct(x) /\ DOMAIN x = {1} /\ x[1] = options
    BY Ranks, OneEntry
  <1>4. /\ DOMAIN t = 1..Cardinality(I)
        /\ \A n \in 1..Cardinality(I) : Place(I, n) \in I /\ t[n] = es[Place(I, n)]
    BY <1>1, PickedProperties
  <1>5. v = SortedMap([n \in DOMAIN t |-> PreparedGetEntry(t[n])] \o x)
    BY DEF GetBody, MapSeq, Selected
  <1>6. options[1] = Num(5) /\ options[2] = GetOptions(body)
    OBVIOUS
  <1>7. \A i \in I : g[i] = PreparedGetEntry(es[i])
    OBVIOUS
  <1>8. \A i \in I : /\ i \in DOMAIN es
                     /\ \/ es[i][1] \in {Num(1), Num(2)}
                        \/ es[i][1] = Num(3) /\ SanitizedList(es[i][2]) # <<>>
    BY DEF KeptInGet
  <1>9. \A i \in DOMAIN es :
           \/ es[i][1] \in {Num(1), Num(2)}
           \/ es[i][1] = Num(3) /\ SanitizedList(es[i][2]) # <<>>
           => i \in I
    BY DEF KeptInGet
  <1>10. I \in SUBSET (DOMAIN es) /\ DOMAIN g = I
    OBVIOUS
  <1>11. V = Choices("GetAssertion")
    OBVIOUS
  <1> HIDE DEF es, I, g, V, options, x, t, v
  <1>12. v = SortedMap(Placed(I, g) \o x)
    <2>1. \A n \in 1..Cardinality(I) : PreparedGetEntry(t[n]) = g[Place(I, n)]
      BY <1>4, <1>7, <1>10
    <2>2. [n \in DOMAIN t |-> PreparedGetEntry(t[n])] = Placed(I, g)
      BY <1>4, <2>1 DEF Placed
    <2> QED
      BY <1>5, <2>2
  <1>13. Apart(g, x)
    <2>1. DOMAIN g = I /\ \A i \in I : g[i][1] = es[i][1]
      BY <1>2, <1>10
    <2>2. \A i \in I, j \in DOMAIN x : KeyRank(es[i][1]) # KeyRank(x[j][1])
      BY <1>3, <1>6, <1>8, Ranks
    <2> QED
      BY <2>1, <2>2 DEF Apart
  <1>14. /\ Is("map", v) /\ CanonicalMap(v)
         /\ \A n \in DOMAIN Entries(v) :
               \/ \E i \in I : Entries(v)[n] = g[i]
               \/ \E j \in DOMAIN x : Entries(v)[n] = x[j]
         /\ \A i \in I : Field(v, es[i][1]) = g[i][2]
         /\ \A j \in DOMAIN x : Field(v, x[j][1]) = x[j][2]
         /\ \A key : (\A i \in I : es[i][1] # key) /\ (\A j \in DOMAIN x : x[j][1] # key)
                        => Field(v, key) = Absent
    <2>1. /\ es \in Seq(V) /\ Distinct(es) /\ I \in SUBSET (DOMAIN es)
          /\ x \in Seq({options}) /\ Distinct(x)
      BY <1>1, <1>3, <1>10, <1>11
    <2>2. SameKeys(I, g, es)
      BY <1>2, <1>10 DEF SameKeys
    <2>3. BuiltFrom(SortedMap(Placed(I, g) \o x), es, I, g, x)
      BY <1>13, <2>1, <2>2, Built
    <2> QED
      BY <1>12, <2>3 DEF BuiltFrom
  <1>15. Num(1) # Num(3) /\ Num(1) # Num(5) /\ Num(2) # Num(3) /\ Num(3) # Num(5)
         /\ Num(4) \notin {Num(1), Num(2), Num(3), Num(5)}
    BY DEF Num
  <1>16. Field(v, Num(5)) = GetOptions(body)
    BY <1>3, <1>6, <1>14
  <1>17. Field(v, Num(4)) = Absent
    BY <1>3, <1>6, <1>8, <1>14, <1>15
  <1>18. Field(v, Num(1)) = Field(body, Num(1))
    <2>1. CASE \E i \in DOMAIN es : es[i][1] = Num(1)
      <3>1. PICK i \in DOMAIN es : es[i][1] = Num(1)
        BY <2>1
      <3>2. i \in I /\ g[i][2] = es[i][2]
        BY <1>2, <1>9, <1>15, <3>1
      <3> QED
        BY <1>1, <1>14, <3>1, <3>2
    <2>2. CASE \A i \in DOMAIN es : es[i][1] # Num(1)
      BY <1>1, <1>3, <1>6, <1>8, <1>14, <1>15, <2>2
    <2> QED
      BY <2>1, <2>2
  <1>19. Field(v, Num(3)) = ListOf(Field(body, Num(3)))
    <2>1. CASE \E i \in DOMAIN es : es[i][1] = Num(3)
      <3>1. PICK i \in DOMAIN es : es[i][1] = Num(3)
        BY <2>1
      <3>2. Field(body, Num(3)) = es[i][2]
        BY <1>1, <3>1
      <3>3. CASE i \in I
        <4>1. /\ SanitizedList(es[i][2]) # <<>>
              /\ g[i][2] = Array(SanitizedList(es[i][2]))
          BY <1>2, <1>8, <1>15, <3>1, <3>3
        <4> QED
          BY <1>14, <3>1, <3>2, <3>3, <4>1 DEF ListOf
      <3>4. CASE i \notin I
        <4>1. SanitizedList(es[i][2]) = <<>>
          BY <1>9, <3>1, <3>4
        <4>2. \A j \in I : es[j][1] # Num(3)
          BY <1>1, <1>10, <3>1, <3>4 DEF Distinct
        <4>3. Field(v, Num(3)) = Absent
          BY <1>3, <1>6, <1>14, <1>15, <4>2
        <4> QED
          BY <3>2, <4>1, <4>3 DEF ListOf
      <3> QED
        BY <3>3, <3>4
    <2>2. CASE \A i \in DOMAIN es : es[i][1] # Num(3)
      <3>1. Field(v, Num(3)) = Absent
        BY <1>3, <1>6, <1>8, <1>14, <1>15, <2>2
      <3>2. Field(body, Num(3)) = Absent
        BY <1>1, <2>2
      <3> QED
        BY <3>1, <3>2, NoList DEF ListOf
    <2> QED
      BY <2>1, <2>2
  <1>20. ASSUME NEW n \in DOMAIN Entries(v)
         PROVE  \/ Entries(v)[n][2] = GetOptions(body)
                \/ \E list : Entries(v)[n][2] = Array(list)
                \/ \E key \in {1, 2} \cap DOMAIN Menu["GetAssertion"] :
                      Entries(v)[n][2] \in Menu["GetAssertion"][key]
    <2>1. CASE \E j \in DOMAIN x : Entries(v)[n] = x[j]
      BY <1>3, <1>6, <2>1
    <2>2. CASE \E i \in I : Entries(v)[n] = g[i]
      <3>1. PICK i \in I : Entries(v)[n] = g[i]
        BY <2>2
      <3>2. CASE es[i][1] = Num(3)
        BY <1>2, <1>8, <3>1, <3>2
      <3>3. CASE es[i][1] # Num(3)
        <4>1. es[i][1] \in {Num(1), Num(2)} /\ g[i][2] = es[i][2]
          BY <1>2, <1>8, <3>3
        <4>2. PICK key \in DOMAIN Menu["GetAssertion"] :
                 es[i][1] = Num(key) /\ es[i][2] \in Menu["GetAssertion"][key]
          BY <1>1, <1>8
        <4>3. key \in {1, 2}
          BY <4>1, <4>2 DEF Num
        <4> QED
          BY <3>1, <4>1, <4>2, <4>3
      <3> QED
        BY <3>2, <3>3
    <2> QED
      BY <1>14, <2>1, <2>2
  <1> QED
    BY <1>14, <1>16, <1>17, <1>18, <1>19, <1>20 DEF v

-----------------------------------------------------------------------------
(* What prepare_make_credential_for_cable makes of the entries it keeps.   *)
LEMMA PreparedMakeValues ==
    ASSUME NEW x
    PROVE  /\ PreparedMakeEntry(<<Num(1), x>>) = <<Num(1), x>>
           /\ PreparedMakeEntry(<<Num(2), x>>) = <<Num(2), PreparedRp(x)>>
           /\ PreparedMakeEntry(<<Num(3), x>>) = <<Num(3), PreparedUser(x)>>
           /\ PreparedMakeEntry(<<Num(4), x>>) = <<Num(4), PreparedParams(x)>>
           /\ PreparedMakeEntry(<<Num(5), x>>) = <<Num(5), Array(SanitizedList(x))>>
           /\ PreparedMakeEntry(<<Num(7), x>>) = <<Num(7), MakeOptions>>
  <1>1. \A i, j \in 1..7 : Num(i) = Num(j) <=> i = j
    BY DEF Num
  <1>2. PreparedMakeEntry(<<Num(1), x>>) = <<Num(1), x>>
    BY <1>1 DEF PreparedMakeEntry
  <1>3. PreparedMakeEntry(<<Num(2), x>>) = <<Num(2), PreparedRp(x)>>
    BY <1>1 DEF PreparedMakeEntry
  <1>4. PreparedMakeEntry(<<Num(3), x>>) = <<Num(3), PreparedUser(x)>>
    BY <1>1 DEF PreparedMakeEntry
  <1>5. PreparedMakeEntry(<<Num(4), x>>) = <<Num(4), PreparedParams(x)>>
    BY <1>1 DEF PreparedMakeEntry
  <1>6. PreparedMakeEntry(<<Num(5), x>>) = <<Num(5), Array(SanitizedList(x))>>
    BY <1>1 DEF PreparedMakeEntry
  <1>7. PreparedMakeEntry(<<Num(7), x>>) = <<Num(7), MakeOptions>>
    BY <1>1 DEF PreparedMakeEntry
  <1> QED
    BY <1>2, <1>3, <1>4, <1>5, <1>6, <1>7

LEMMA InjectedProperties ==
    ASSUME NEW body
    PROVE  LET o == <<Num(7), MakeOptions>>
               x == InjectedOptions(body)
           IN /\ x \in Seq({o}) /\ Distinct(x)
              /\ \A j \in DOMAIN x : x[j][1] = Num(7) /\ x[j][2] = MakeOptions
              /\ DOMAIN x # {} => Field(body, Num(7)) = Absent
  <1> DEFINE o == <<Num(7), MakeOptions>>
             x == InjectedOptions(body)
             one == <<o>>
  <1>1. CASE Field(body, Num(7)) = Absent
    <2>1. x = one
      BY <1>1 DEF InjectedOptions
    <2>2. one \in Seq({o}) /\ Distinct(one) /\ DOMAIN one = {1} /\ one[1] = o
      BY Ranks, OneEntry
    <2>3. o[1] = Num(7) /\ o[2] = MakeOptions
      OBVIOUS
    <2> HIDE DEF o, x, one
    <2>4. \A j \in DOMAIN x : x[j][1] = Num(7) /\ x[j][2] = MakeOptions
      BY <2>1, <2>2, <2>3
    <2> QED
      BY <1>1, <2>1, <2>2, <2>4 DEF o, x
  <1>2. CASE Field(body, Num(7)) # Absent
    <2>1. x = <<>>
      BY <1>2 DEF InjectedOptions
    <2>2. <<>> \in Seq({o}) /\ DOMAIN <<>> = {}
      OBVIOUS
    <2> HIDE DEF o, x
    <2>3. x \in Seq({o}) /\ DOMAIN x = {}
      BY <2>1, <2>2
    <2>4. Distinct(x)
      BY <2>3 DEF Distinct, Ranked
    <2> QED
      BY <2>3, <2>4 DEF o, x
  <1> QED
    BY <1>1, <1>2
Present(v, new) == IF v = Absent THEN Absent ELSE new

LEMMA MakeBodyProperties ==
    ASSUME NEW body, BodyOK("MakeCredential", body), body # Absent
    PROVE  LET v == MakeBody(body) IN
           /\ Is("map", v) /\ CanonicalMap(v)
           /\ Field(v, Num(2)) = Present(Field(body, Num(2)), PreparedRp(Field(body, Num(2))))
           /\ Field(v, Num(4)) = Present(Field(body, Num(4)), PreparedParams(Field(body, Num(4))))
           /\ Field(v, Num(5)) = ListOf(Field(body, Num(5)))
           /\ Field(v, Num(6)) = Absent
           /\ Field(v, Num(7)) = MakeOptions
           /\ \A n \in DOMAIN Entries(v) :
                 LET x == Entries(v)[n][2] IN
                 \/ x = MakeOptions
                 \/ \E list : x = Array(list)
                 \/ \E rp : WellFormed(rp) /\ x = PreparedRp(rp)
                 \/ \E user : WellFormed(user) /\ x = PreparedUser(user)
                 \/ \E key \in {1, 4} \cap DOMAIN Menu["MakeCredential"] :
                       x \in Menu["MakeCredential"][key]
  <1> DEFINE es == Entries(body)
             I == {i \in DOMAIN es : KeptInMake(es[i])}
             g == [i \in I |-> PreparedMakeEntry(es[i])]
             V == Choices("MakeCredential")
             o == <<Num(7), MakeOptions>>
             x == InjectedOptions(body)
             t == Picked(es, I)
             v == MakeBody(body)
  <1>1. /\ es \in Seq(V) /\ Distinct(es)
        /\ \A i \in DOMAIN es :
              /\ es[i] = <<es[i][1], es[i][2]>>
              /\ WellFormed(es[i][2])
              /\ \E key \in DOMAIN Menu["MakeCredential"] :
                    key \in 1..7 /\ es[i][1] = Num(key) /\ es[i][2] \in Menu["MakeCredential"][key]
              /\ Field(body, es[i][1]) = es[i][2]
        /\ \A key : (\A i \in DOMAIN es : es[i][1] # key) => Field(body, key) = Absent
    BY BodyProperties DEF Commands
  <1>2. I \in SUBSET (DOMAIN es) /\ DOMAIN g = I
    OBVIOUS
  <1>3. \A i \in I : g[i] = PreparedMakeEntry(es[i])
    OBVIOUS
  <1>4. \A i \in I : \/ es[i][1] \in {Num(1), Num(2), Num(3), Num(4), Num(7)}
                     \/ es[i][1] = Num(5) /\ SanitizedList(es[i][2]) # <<>>
    BY DEF KeptInMake
  <1>5. \A i \in DOMAIN es :
           \/ es[i][1] \in {Num(2), Num(4), Num(7)}
           \/ es[i][1] = Num(5) /\ SanitizedList(es[i][2]) # <<>>
           => i \in I
    BY DEF KeptInMake
  <1>6. /\ x \in Seq({o}) /\ Distinct(x)
        /\ \A j \in DOMAIN x : x[j][1] = Num(7) /\ x[j][2] = MakeOptions
        /\ DOMAIN x # {} => Field(body, Num(7)) = Absent
    BY InjectedProperties
  <1>7. /\ DOMAIN t = 1..Cardinality(I)
        /\ \A n \in 1..Cardinality(I) : Place(I, n) \in I /\ t[n] = es[Place(I, n)]
    BY <1>1, PickedProperties
  <1>8. v = SortedMap([n \in DOMAIN t |-> PreparedMakeEntry(t[n])] \o x)
    BY DEF MakeBody, MapSeq, Selected
  <1>9. \A key \in {1, 2, 3, 4, 6, 7} : Num(key) # Num(5)
        /\ Num(2) # Num(7) /\ Num(4) # Num(7) /\ Num(5) # Num(7)
        /\ Num(6) \notin {Num(1), Num(2), Num(3), Num(4), Num(5), Num(7)}
    BY DEF Num
  <1>10. \A i \in I : i \in DOMAIN es
    OBVIOUS
  <1>11. \A i \in DOMAIN es : es[i][2] # Absent
    BY <1>1 DEF WellFormed
  <1> HIDE DEF es, I, g, V, o, x, t, v
  <1>12. \A i \in I :
            LET e == es[i] IN
            /\ g[i][1] = e[1]
            /\ e[1] = Num(1) => g[i][2] = e[2]
            /\ e[1] = Num(2) => g[i][2] = PreparedRp(e[2])
            /\ e[1] = Num(3) => g[i][2] = PreparedUser(e[2])
            /\ e[1] = Num(4) => g[i][2] = PreparedParams(e[2])
            /\ e[1] = Num(5) => g[i][2] = Array(SanitizedList(e[2]))
            /\ e[1] = Num(7) => g[i][2] = MakeOptions
    <2> TAKE i \in I
    <2>1. es[i] = <<es[i][1], es[i][2]>> /\ g[i] = PreparedMakeEntry(es[i])
      BY <1>1, <1>3, <1>10
    <2>2. \/ es[i][1] = Num(1) \/ es[i][1] = Num(2) \/ es[i][1] = Num(3)
          \/ es[i][1] = Num(4) \/ es[i][1] = Num(5) \/ es[i][1] = Num(7)
      BY <1>4
    <2>3. \A a, b \in 1..7 : Num(a) = Num(b) <=> a = b
      BY DEF Num
    <2> DEFINE y == es[i][2]
    <2>4. es[i] = <<es[i][1], y>>
      BY <2>1
    <2> HIDE DEF y
    <2>5. CASE es[i][1] = Num(1)
      <3>1. g[i] = <<Num(1), y>>
        <4>1. g[i] = PreparedMakeEntry(<<Num(1), y>>)
          BY <2>1, <2>4, <2>5
        <4> QED
          BY <4>1, PreparedMakeValues
      <3> QED
        BY <2>3, <2>5, <3>1 DEF y
    <2>6. CASE es[i][1] = Num(2)
      <3>1. g[i] = <<Num(2), PreparedRp(y)>>
        <4>1. g[i] = PreparedMakeEntry(<<Num(2), y>>)
          BY <2>1, <2>4, <2>6
        <4> QED
          BY <4>1, PreparedMakeValues
      <3> QED
        BY <2>3, <2>6, <3>1 DEF y
    <2>7. CASE es[i][1] = Num(3)
      <3>1. g[i] = <<Num(3), PreparedUser(y)>>
        <4>1. g[i] = PreparedMakeEntry(<<Num(3), y>>)
          BY <2>1, <2>4, <2>7
        <4> QED
          BY <4>1, PreparedMakeValues
      <3> QED
        BY <2>3, <2>7, <3>1 DEF y
    <2>8. CASE es[i][1] = Num(4)
      <3>1. g[i] = <<Num(4), PreparedParams(y)>>
        <4>1. g[i] = PreparedMakeEntry(<<Num(4), y>>)
          BY <2>1, <2>4, <2>8
        <4> QED
          BY <4>1, PreparedMakeValues
      <3> QED
        BY <2>3, <2>8, <3>1 DEF y
    <2>9. CASE es[i][1] = Num(5)
      <3>1. g[i] = <<Num(5), Array(SanitizedList(y))>>
        <4>1. g[i] = PreparedMakeEntry(<<Num(5), y>>)
          BY <2>1, <2>4, <2>9
        <4> QED
          BY <4>1, PreparedMakeValues
      <3> QED
        BY <2>3, <2>9, <3>1 DEF y
    <2>10. CASE es[i][1] = Num(7)
      <3>1. g[i] = <<Num(7), MakeOptions>>
        <4>1. g[i] = PreparedMakeEntry(<<Num(7), y>>)
          BY <2>1, <2>4, <2>10
        <4> QED
          BY <4>1, PreparedMakeValues
      <3> QED
        BY <2>3, <2>10, <3>1 DEF y
    <2> QED
      BY <2>2, <2>5, <2>6, <2>7, <2>8, <2>9, <2>10
  <1>13. v = SortedMap(Placed(I, g) \o x)
    <2>1. \A n \in 1..Cardinality(I) : PreparedMakeEntry(t[n]) = g[Place(I, n)]
      BY <1>3, <1>7
    <2>2. [n \in DOMAIN t |-> PreparedMakeEntry(t[n])] = Placed(I, g)
      BY <1>7, <2>1 DEF Placed
    <2> QED
      BY <1>8, <2>2
  <1>14. Apart(g, x)
    <2>1. ASSUME NEW i \in I, NEW j \in DOMAIN x
          PROVE  KeyRank(g[i][1]) # KeyRank(x[j][1])
      <3>1. Field(body, Num(7)) = Absent /\ x[j][1] = Num(7)
        BY <1>6
      <3>2. es[i][1] # Num(7)
        BY <1>1, <1>10, <1>11, <3>1
      <3>3. g[i][1] \in {Num(1), Num(2), Num(3), Num(4), Num(5)}
        BY <1>4, <1>12, <3>2
      <3> QED
        BY <3>1, <3>3, Ranks
    <2> QED
      BY <1>2, <2>1 DEF Apart
  <1>15. /\ Is("map", v) /\ CanonicalMap(v)
         /\ \A n \in DOMAIN Entries(v) :
               \/ \E i \in I : Entries(v)[n] = g[i]
               \/ \E j \in DOMAIN x : Entries(v)[n] = x[j]
         /\ \A i \in I : Field(v, es[i][1]) = g[i][2]
         /\ \A j \in DOMAIN x : Field(v, x[j][1]) = x[j][2]
         /\ \A key : (\A i \in I : es[i][1] # key) /\ key # Num(7) => Field(v, key) = Absent
    <2>1. es \in Seq(V) /\ Distinct(es) /\ x \in Seq({o}) /\ Distinct(x)
      BY <1>1, <1>6
    <2>2. SameKeys(I, g, es)
      BY <1>2, <1>12 DEF SameKeys
    <2>3. BuiltFrom(SortedMap(Placed(I, g) \o x), es, I, g, x)
      BY <1>2, <1>14, <2>1, <2>2, Built
    <2> QED
      BY <1>6, <1>13, <2>3 DEF BuiltFrom
  <1>16. ASSUME NEW key \in {2, 4, 5}, \A i \in DOMAIN es : es[i][1] # Num(key)
         PROVE  Field(v, Num(key)) = Absent /\ Field(body, Num(key)) = Absent
    BY <1>1, <1>9, <1>10, <1>15, <1>16
  <1>17. Field(v, Num(2)) = Present(Field(body, Num(2)), PreparedRp(Field(body, Num(2))))
    <2>1. CASE \E i \in DOMAIN es : es[i][1] = Num(2)
      <3>1. PICK i \in DOMAIN es : es[i][1] = Num(2)
        BY <2>1
      <3>2. Field(body, Num(2)) = es[i][2] /\ es[i][2] # Absent
        BY <1>1, <1>11, <3>1
      <3>3. Field(v, Num(2)) = PreparedRp(es[i][2])
        BY <1>5, <1>12, <1>15, <3>1
      <3> QED
        BY <3>2, <3>3 DEF Present
    <2>2. CASE \A i \in DOMAIN es : es[i][1] # Num(2)
      BY <1>16, <2>2 DEF Present
    <2> QED
      BY <2>1, <2>2
  <1>18. Field(v, Num(4)) = Present(Field(body, Num(4)), PreparedParams(Field(body, Num(4))))
    <2>1. CASE \E i \in DOMAIN es : es[i][1] = Num(4)
      <3>1. PICK i \in DOMAIN es : es[i][1] = Num(4)
        BY <2>1
      <3>2. Field(body, Num(4)) = es[i][2] /\ es[i][2] # Absent
        BY <1>1, <1>11, <3>1
      <3>3. Field(v, Num(4)) = PreparedParams(es[i][2])
        BY <1>5, <1>12, <1>15, <3>1
      <3> QED
        BY <3>2, <3>3 DEF Present
    <2>2. CASE \A i \in DOMAIN es : es[i][1] # Num(4)
      BY <1>16, <2>2 DEF Present
    <2> QED
      BY <2>1, <2>2
  <1>19. Field(v, Num(5)) = ListOf(Field(body, Num(5)))
    <2>1. CASE \E i \in DOMAIN es : es[i][1] = Num(5)
      <3>1. PICK i \in DOMAIN es : es[i][1] = Num(5)
        BY <2>1
      <3>2. Field(body, Num(5)) = es[i][2]
        BY <1>1, <3>1
      <3>3. CASE i \in I
        <4>1. SanitizedList(es[i][2]) # <<>>
          BY <1>4, <1>9, <3>1, <3>3
        <4>2. Field(v, Num(5)) = Array(SanitizedList(es[i][2]))
          BY <1>12, <1>15, <3>1, <3>3
        <4> QED
          BY <3>2, <4>1, <4>2 DEF ListOf
      <3>4. CASE i \notin I
        <4>1. SanitizedList(es[i][2]) = <<>>
          BY <1>5, <3>1, <3>4
        <4>2. \A j \in I : es[j][1] # Num(5)
          BY <1>1, <1>10, <3>1, <3>4 DEF Distinct
        <4>3. Field(v, Num(5)) = Absent
          BY <1>9, <1>15, <4>2
        <4> QED
          BY <3>2, <4>1, <4>3 DEF ListOf
      <3> QED
        BY <3>3, <3>4
    <2>2. CASE \A i \in DOMAIN es : es[i][1] # Num(5)
      BY <1>16, <2>2, NoList DEF ListOf
    <2> QED
      BY <2>1, <2>2
  <1>20. Field(v, Num(6)) = Absent
    BY <1>4, <1>9, <1>15
  <1>21. ASSUME NEW n \in DOMAIN Entries(v)
         PROVE  LET e == Entries(v)[n][2] IN
                \/ e = MakeOptions
                \/ \E list : e = Array(list)
                \/ \E rp : WellFormed(rp) /\ e = PreparedRp(rp)
                \/ \E user : WellFormed(user) /\ e = PreparedUser(user)
                \/ \E key \in {1, 4} \cap DOMAIN Menu["MakeCredential"] :
                      e \in Menu["MakeCredential"][key]
    <2>1. CASE \E j \in DOMAIN x : Entries(v)[n] = x[j]
      BY <1>6, <2>1
    <2>2. CASE \E i \in I : Entries(v)[n] = g[i]
      <3>1. PICK i \in I : Entries(v)[n] = g[i]
        BY <2>2
      <3>2. i \in DOMAIN es /\ WellFormed(es[i][2])
        BY <1>1, <1>10
      <3>3. CASE es[i][1] \in {Num(2), Num(3), Num(5), Num(7)}
        BY <1>12, <3>1, <3>2, <3>3
      <3>4. CASE es[i][1] \in {Num(1), Num(4)}
        <4>1. PICK key \in DOMAIN Menu["MakeCredential"] :
                 es[i][1] = Num(key) /\ es[i][2] \in Menu["MakeCredential"][key]
          BY <1>1, <3>2
        <4>2. key \in {1, 4}
          BY <3>4, <4>1 DEF Num
        <4>3. g[i][2] = es[i][2] \/ g[i][2] = Array(<<Es256Param>>)
          BY <1>12, <3>4 DEF PreparedParams
        <4> QED
          BY <3>1, <4>1, <4>2, <4>3
      <3> QED
        BY <1>4, <3>3, <3>4
    <2> QED
      BY <1>15, <2>1, <2>2
  <1>22. Field(v, Num(7)) = MakeOptions
    <2>1. CASE \E i \in DOMAIN es : es[i][1] = Num(7)
      <3>1. PICK i \in DOMAIN es : es[i][1] = Num(7)
        BY <2>1
      <3>2. i \in I /\ g[i][2] = MakeOptions
        BY <1>5, <1>12, <3>1
      <3> QED
        BY <1>15, <3>1, <3>2
    <2>2. CASE \A i \in DOMAIN es : es[i][1] # Num(7)
      <3>1. Field(body, Num(7)) = Absent
        BY <1>1, <2>2
      <3>2. x = <<o>>
        BY <3>1 DEF x, o, InjectedOptions
      <3>3. 1 \in DOMAIN x
        BY <3>2
      <3> QED
        BY <1>6, <1>15, <3>3
    <2> QED
      BY <2>1, <2>2
  <1> QED
    BY <1>15, <1>17, <1>18, <1>19, <1>20, <1>21, <1>22 DEF v

-----------------------------------------------------------------------------
(* The options, the algorithms and the lists of a prepared request.        *)

LEMMA OptionsProperties ==
    /\ CanonicalMap(MakeOptions) /\ Field(Es256Param, Text("alg")) = ES256
    /\ Field(MakeOptions, Text("rk")) = Bool(TRUE)
    /\ Field(MakeOptions, Text("uv")) = Bool(TRUE)
    /\ Field(MakeOptions, Text("up")) = Absent
    /\ \A body : /\ CanonicalMap(GetOptions(body))
                 /\ Field(GetOptions(body), Text("up")) = Bool(TRUE)
                 /\ Field(GetOptions(body), Text("uv")) = Bool(Option(body, "uv", TRUE))
  <1>1. /\ CanonicalMap(MakeOptions)
        /\ Field(MakeOptions, Text("rk")) = Bool(TRUE)
        /\ Field(MakeOptions, Text("uv")) = Bool(TRUE)
        /\ Field(MakeOptions, Text("up")) = Absent
    <2>1. /\ KeyRank(Text("rk")) \in Int /\ KeyRank(Text("uv")) \in Int
          /\ KeyRank(Text("rk")) # KeyRank(Text("uv"))
      BY Ranks
    <2>2. Text("up") \notin {Text("rk"), Text("uv")}
      BY DEF Text
    <2> DEFINE yes == Bool(TRUE)
               v == SortedMap(<<<<Text("rk"), yes>>, <<Text("uv"), yes>>>>)
    <2>3. MakeOptions = v
      BY DEF MakeOptions
    <2> HIDE DEF yes
    <2>4. /\ CanonicalMap(v) /\ Field(v, Text("rk")) = yes /\ Field(v, Text("uv")) = yes
          /\ \A key : key \notin {Text("rk"), Text("uv")} => Field(v, key) = Absent
      BY <2>1, Pair
    <2> HIDE DEF v
    <2> QED
      BY <2>2, <2>3, <2>4 DEF yes
  <1>2. Field(Es256Param, Text("alg")) = ES256
    <2>1. /\ KeyRank(Text("alg")) \in Int /\ KeyRank(Text("type")) \in Int
          /\ KeyRank(Text("alg")) # KeyRank(Text("type"))
      BY Ranks
    <2> QED
      BY <2>1, Pair DEF Es256Param
  <1>3. ASSUME NEW body
        PROVE  /\ CanonicalMap(GetOptions(body))
               /\ Field(GetOptions(body), Text("up")) = Bool(TRUE)
               /\ Field(GetOptions(body), Text("uv")) = Bool(Option(body, "uv", TRUE))
    <2>1. /\ KeyRank(Text("up")) \in Int /\ KeyRank(Text("uv")) \in Int
          /\ KeyRank(Text("up")) # KeyRank(Text("uv"))
      BY Ranks
    <2> DEFINE up == Bool(TRUE)
               uv == Bool(Option(body, "uv", TRUE))
               v == SortedMap(<<<<Text("up"), up>>, <<Text("uv"), uv>>>>)
    <2>2. GetOptions(body) = v
      BY DEF GetOptions
    <2> HIDE DEF up, uv
    <2>3. CanonicalMap(v) /\ Field(v, Text("up")) = up /\ Field(v, Text("uv")) = uv
      BY <2>1, Pair
    <2> QED
      BY <2>2, <2>3 DEF up, uv
  <1> QED
    BY <1>1, <1>2, <1>3

LEMMA AlgorithmsNarrowed ==
    /\ Algorithms(Absent) = {}
    /\ \A params : Algorithms(PreparedParams(params)) \subseteq Algorithms(params)
  <1>1. Algorithms(Absent) = {}
    <2>1. Items(Absent) = <<>> /\ DOMAIN <<>> = {}
      BY DEF Items, Is, Absent
    <2> QED
      BY <2>1 DEF Algorithms
  <1>2. ASSUME NEW params, ES256 \in Algorithms(params)
        PROVE  Algorithms(PreparedParams(params)) \subseteq Algorithms(params)
    <2> DEFINE one == <<Es256Param>>
    <2>1. PreparedParams(params) = Array(one) /\ Items(Array(one)) = one
      BY <1>2 DEF PreparedParams, Array, Items, Is
    <2>2. DOMAIN one = {1} /\ one[1] = Es256Param
      OBVIOUS
    <2> HIDE DEF one
    <2>3. Algorithms(PreparedParams(params)) = {Field(one[i], Text("alg")) : i \in {1}}
      BY <2>1, <2>2 DEF Algorithms
    <2>4. Field(one[1], Text("alg")) = ES256
      BY <2>2, OptionsProperties
    <2> QED
      BY <1>2, <2>3, <2>4
  <1>3. ASSUME NEW params, ES256 \notin Algorithms(params)
        PROVE  PreparedParams(params) = params
    BY <1>3 DEF PreparedParams
  <1> QED
    BY <1>1, <1>2, <1>3

(* The list that is sent names the credentials the host listed.            *)
LEMMA KeptList ==
    ASSUME NEW list, list = Absent \/ WellFormed(list)
    PROVE  LET sent == ListOf(list) IN
           /\ CredentialIds(sent) = CredentialIds(list)
           /\ sent = Absent => CredentialIds(list) = <<>>
           /\ \A i \in DOMAIN Items(sent) :
                 /\ CanonicalMap(Items(sent)[i])
                 /\ Field(Items(sent)[i], Text("transports")) = Absent
  <1> DEFINE t == SanitizedList(list)
  <1>1. Items(Absent) = <<>> /\ <<>> \in Seq({}) /\ DOMAIN <<>> = {}
    <2>1. Items(Absent) = <<>>
      BY DEF Items, Is, Absent
    <2> QED
      BY <2>1
  <1>2. \E V : Items(list) \in Seq(V)
    BY <1>1 DEF WellFormed
  <1>3. PICK V : Items(list) \in Seq(V)
    BY <1>2
  <1>4. /\ CredentialIds(Array(t)) = CredentialIds(list)
        /\ t = <<>> => CredentialIds(list) = <<>>
        /\ \A n \in DOMAIN t : /\ CanonicalMap(t[n])
                               /\ Field(t[n], Text("transports")) = Absent
    BY <1>3, IdsKept
  <1>5. Items(Array(t)) = t /\ Array(t) # Absent
    BY DEF Items, Array, Is, Absent
  <1>6. ListOf(list) = IF t = <<>> THEN Absent ELSE Array(t)
    BY DEF ListOf
  <1> HIDE DEF t
  <1>7. CASE t = <<>>
    <2>1. ListOf(list) = Absent /\ CredentialIds(Absent) = <<>>
      BY <1>1, <1>6, <1>7, NoIds
    <2> QED
      BY <1>1, <1>4, <1>7, <2>1
  <1>8. CASE t # <<>>
    <2>1. ListOf(list) = Array(t)
      BY <1>6, <1>8
    <2> QED
      BY <1>4, <1>5, <2>1
  <1> QED
    BY <1>7, <1>8

LEMMA FieldWellFormed ==
    ASSUME NEW command \in Commands, NEW body, BodyOK(command, body), NEW key
    PROVE  Field(body, key) = Absent \/ WellFormed(Field(body, key))
  <1> DEFINE es == Entries(body)
  <1>1. /\ \A i \in DOMAIN es : WellFormed(es[i][2]) /\ Field(body, es[i][1]) = es[i][2]
        /\ (\A i \in DOMAIN es : es[i][1] # key) => Field(body, key) = Absent
    BY BodyProperties
  <1> HIDE DEF es
  <1>2. CASE \E i \in DOMAIN es : es[i][1] = key
    BY <1>1, <1>2
  <1> QED
    BY <1>1, <1>2

-----------------------------------------------------------------------------
(* The invariant: the message is the host's, and what is on its way to the *)
(* phone is what the handler of its command made of it.                    *)

OnItsWay ==
    stage = "cable" =>
        /\ request.command = "GetAssertion" =>
              /\ payload = prepare_get_assertion_for_cable(request)
              /\ rp_id = parse_assertion_request(request).rp_id
        /\ request.command = "MakeCredential" =>
              /\ payload = prepare_make_credential_for_cable(request)
              /\ rp_id = extract_make_credential_rp_id(payload)
              /\ rp_id \notin DummyRpIds

IInv ==
    /\ TypeOK
    /\ request = [command |-> request.command, body |-> request.body]
    /\ BodyOK(request.command, request.body)
    /\ OnItsWay
    /\ signed # Absent => stage = "answered"
    /\ AnswerIsListed

LEMMA PreparedMessages ==
    ASSUME NEW command, NEW body
    PROVE  LET raw == [command |-> command, body |-> body]
               get == prepare_get_assertion_for_cable(raw)
               make == prepare_make_credential_for_cable(raw)
           IN /\ raw.command = command /\ raw.body = body
              /\ get.command = command /\ make.command = command
              /\ get.body = IF Is("map", body) THEN GetBody(body) ELSE body
              /\ make.body = IF Is("map", body) THEN MakeBody(body) ELSE body
  BY DEF prepare_get_assertion_for_cable, prepare_make_credential_for_cable, GetBody, MakeBody

(* What is on its way to the phone, part by part.                          *)
LEMMA SentToPhone ==
    ASSUME IInv, stage = "cable", Is("map", payload.body)
    PROVE  /\ request.body # Absent
           /\ request.command = "GetAssertion" =>
                 payload.body = GetBody(request.body)
           /\ request.command = "MakeCredential" =>
                 payload.body = MakeBody(request.body)
  <1>1. /\ request = [command |-> request.command, body |-> request.body]
        /\ BodyOK(request.command, request.body) /\ request.command \in Commands
        /\ request.command = "GetAssertion" =>
              payload = prepare_get_assertion_for_cable(request)
        /\ request.command = "MakeCredential" =>
              payload = prepare_make_credential_for_cable(request)
    BY DEF IInv, OnItsWay, TypeOK
  <1> DEFINE c == request.command
             b == request.body
  <1>2. /\ c = "GetAssertion" => payload.body = IF Is("map", b) THEN GetBody(b) ELSE b
        /\ c = "MakeCredential" => payload.body = IF Is("map", b) THEN MakeBody(b) ELSE b
    BY <1>1, PreparedMessages
  <1>3. c \in {"GetAssertion", "MakeCredential"}
    BY <1>1 DEF Commands
  <1>4. ~Is("map", Absent)
    BY DEF Is, Absent
  <1> HIDE DEF c, b
  <1>5. Is("map", b)
    BY <1>2, <1>3
  <1>6. b # Absent
    BY <1>4, <1>5
  <1> QED
    BY <1>2, <1>5, <1>6 DEF c, b

-----------------------------------------------------------------------------
(* The host's steps.                                                       *)

LEMMA EmptyBody == \A command : BodyOK(command, Map(<<>>))
  <1>1. Entries(Map(<<>>)) = <<>>
    BY DEF Entries, Map, Is
  <1>2. \A V : <<>> \in Seq(V)
    OBVIOUS
  <1>3. DOMAIN <<>> = {}
    OBVIOUS
  <1> QED
    BY <1>1, <1>2, <1>3 DEF BodyOK

LEMMA EntryAdded ==
    ASSUME NEW command \in Commands, NEW body, BodyOK(command, body),
           NEW key \in DOMAIN Menu[command], NEW value \in Menu[command][key],
           \A i \in DOMAIN Entries(body) : Entries(body)[i][1][2] < key
    PROVE  BodyOK(command, Map(Append(Entries(body), <<Num(key), value>>)))
  <1> DEFINE V == Choices(command)
             es == Entries(body)
             e == <<Num(key), value>>
             new == Append(es, e)
  <1>1. es \in Seq(V)
    <2>1. CASE body = Absent
      <3>1. es = <<>>
        BY <2>1 DEF Entries, Is, Absent
      <3> QED
        BY <3>1
    <2>2. CASE body # Absent
      BY <2>2 DEF BodyOK
    <2> QED
      BY <2>1, <2>2
  <1>2. \A i, j \in DOMAIN es : i < j => es[i][1][2] < es[j][1][2]
    <2>1. CASE body = Absent
      <3>1. es = <<>>
        BY <2>1 DEF Entries, Is, Absent
      <3>2. DOMAIN <<>> = {}
        OBVIOUS
      <3> QED
        BY <3>1, <3>2
    <2>2. CASE body # Absent
      BY <2>2 DEF BodyOK
    <2> QED
      BY <2>1, <2>2
  <1>3. e \in V
    BY DEF Choices
  <1>4. e[1][2] = key
    BY DEF Num
  <1>5. Entries(Map(new)) = new
    BY DEF Entries, Map, Is
  <1>6. \A i \in DOMAIN es : es[i][1][2] < key
    OBVIOUS
  <1> HIDE DEF V, es, e
  <1>7. /\ new \in Seq(V) /\ Len(new) = Len(es) + 1 /\ new[Len(es) + 1] = e
        /\ \A i \in 1..Len(es) : new[i] = es[i]
    BY <1>1, <1>3, AppendProperties
  <1>8. DOMAIN new = 1..(Len(es) + 1) /\ DOMAIN es = 1..Len(es) /\ Len(es) \in Nat
    BY <1>1, <1>7, LenProperties
  <1> HIDE DEF new
  <1>9. \A i, j \in DOMAIN new : i < j => new[i][1][2] < new[j][1][2]
    <2> TAKE i, j \in DOMAIN new
    <2> HAVE i < j
    <2>1. i \in DOMAIN es /\ new[i] = es[i]
      BY <1>7, <1>8
    <2>2. CASE j \in DOMAIN es
      BY <1>2, <1>7, <1>8, <2>1, <2>2
    <2>3. CASE j \notin DOMAIN es
      <3>1. j = Len(es) + 1
        BY <1>8, <2>3
      <3> QED
        BY <1>4, <1>6, <1>7, <2>1, <3>1
    <2> QED
      BY <2>2, <2>3
  <1> QED
    BY <1>5, <1>7, <1>9 DEF BodyOK, V, new, es, e

LEMMA InitEstablishesIInv ==
    ASSUME Init
    PROVE  IInv
  <1>1. PICK c \in Commands : request = [command |-> c, body |-> Map(<<>>)]
    BY DEF Init
  <1>2. /\ request.command = c /\ request.body = Map(<<>>)
        /\ stage = "composing" /\ payload = Nothing /\ signed = Absent /\ cached = Absent
    BY <1>1 DEF Init
  <1>3. TypeOK
    BY <1>2 DEF TypeOK, Nothing, Is, Absent
  <1>4. BodyOK(request.command, request.body)
    BY <1>2, EmptyBody
  <1>5. OnItsWay
    BY <1>2 DEF OnItsWay
  <1>6. AnswerIsListed
    BY <1>2 DEF AnswerIsListed
  <1> QED
    BY <1>1, <1>2, <1>3, <1>4, <1>5, <1>6 DEF IInv

LEMMA AddEntryPreserves ==
    ASSUME IInv, NEW key \in DOMAIN Menu[request.command],
           NEW value \in Menu[request.command][key], AddEntry(key, value)
    PROVE  IInv'
  <1> DEFINE c == request.command
             b == request.body
             new == Map(Append(Entries(b), <<Num(key), value>>))
  <1>1. /\ TypeOK /\ request = [command |-> c, body |-> b] /\ BodyOK(c, b)
        /\ (signed # Absent => stage = "answered")
    BY DEF IInv
  <1>2. c \in Commands
    BY <1>1 DEF TypeOK
  <1>3. /\ stage = "composing" /\ stage' = stage /\ payload' = payload
        /\ signed' = signed /\ cached' = cached
        /\ \A i \in DOMAIN Entries(b) : Entries(b)[i][1][2] < key
    BY DEF AddEntry
  <1>4. request' = [command |-> c, body |-> new]
    BY <1>1 DEF AddEntry
  <1>5. BodyOK(c, new)
    BY <1>1, <1>2, <1>3, EntryAdded
  <1> HIDE DEF c, b, new
  <1>6. request'.command = c /\ request'.body = new
    BY <1>4
  <1>7. TypeOK'
    BY <1>1, <1>2, <1>3, <1>6 DEF TypeOK
  <1>8. BodyOK(request.command, request.body)'
    BY <1>5, <1>6
  <1>9. OnItsWay' /\ AnswerIsListed' /\ (signed # Absent => stage = "answered")'
    BY <1>1, <1>3 DEF OnItsWay, AnswerIsListed
  <1> QED
    BY <1>4, <1>6, <1>7, <1>8, <1>9 DEF IInv

LEMMA SendPreserves ==
    ASSUME IInv, Send
    PROVE  IInv'
  <1> DEFINE c == request.command
             b == request.body
  <1>1. /\ TypeOK /\ request = [command |-> c, body |-> b] /\ BodyOK(c, b)
        /\ (signed # Absent => stage = "answered")
    BY DEF IInv
  <1>2. /\ stage = "composing" /\ stage' = "sent" /\ payload' = payload
        /\ signed' = signed /\ cached' = cached
    BY DEF Send
  <1>3. request' = [command |-> c, body |-> b] \/ request' = [command |-> c, body |-> Absent]
    BY <1>1 DEF Send
  <1> DEFINE new == request'.body
  <1>4. /\ request' = [command |-> c, body |-> new] /\ request'.command = c
        /\ new = b \/ new = Absent
    BY <1>3
  <1> HIDE DEF c, b
  <1>5. BodyOK(c, new)
    BY <1>1, <1>4 DEF BodyOK
  <1>6. TypeOK'
    BY <1>1, <1>2, <1>4 DEF TypeOK, c
  <1>7. OnItsWay' /\ AnswerIsListed' /\ (signed # Absent => stage = "answered")'
    BY <1>1, <1>2 DEF OnItsWay, AnswerIsListed
  <1>8. (request = [command |-> request.command, body |-> request.body])'
    BY <1>4
  <1>9. BodyOK(request.command, request.body)'
    BY <1>4, <1>5
  <1> QED
    BY <1>6, <1>7, <1>8, <1>9 DEF IInv

LEMMA NextRequestPreserves ==
    ASSUME IInv, NextRequest
    PROVE  IInv'
  <1>1. PICK c \in Commands : request' = [command |-> c, body |-> Map(<<>>)]
    BY DEF NextRequest
  <1>2. /\ request'.command = c /\ request'.body = Map(<<>>)
        /\ stage' = "composing" /\ payload' = Nothing
        /\ signed' = Absent /\ cached' = Absent
    BY <1>1 DEF NextRequest
  <1>3. TypeOK'
    BY <1>2 DEF TypeOK, Nothing, Is, Absent
  <1>4. BodyOK(request.command, request.body)'
    BY <1>2, EmptyBody
  <1>5. OnItsWay' /\ AnswerIsListed' /\ (signed # Absent => stage = "answered")'
    BY <1>2 DEF OnItsWay, AnswerIsListed
  <1>6. (request = [command |-> request.command, body |-> request.body])'
    BY <1>1, <1>2
  <1> QED
    BY <1>3, <1>4, <1>5, <1>6 DEF IInv

-----------------------------------------------------------------------------
(* The handlers.                                                           *)

LEMMA AnswerPreserves ==
    ASSUME IInv, NEW r, Answer(r)
    PROVE  IInv'
  <1>1. /\ stage' = "answered"
        /\ UNCHANGED <<request, payload, rp_id, signed, cached>>
    BY DEF Answer
  <1>2. TypeOK'
    BY <1>1 DEF IInv, TypeOK
  <1>3. OnItsWay'
    BY <1>1 DEF OnItsWay
  <1>4. AnswerIsListed'
    BY <1>1 DEF IInv, AnswerIsListed
  <1> QED
    BY <1>1, <1>2, <1>3, <1>4 DEF IInv

LEMMA StartAssertionPreserves ==
    ASSUME IInv, StartAssertion
    PROVE  IInv'
  <1> DEFINE c == request.command
             b == request.body
  <1>1. /\ TypeOK /\ request = [command |-> c, body |-> b] /\ BodyOK(c, b)
        /\ (signed # Absent => stage = "answered")
    BY DEF IInv
  <1>2. /\ stage = "sent" /\ c = "GetAssertion" /\ stage' = "cable"
        /\ payload' = prepare_get_assertion_for_cable(request)
        /\ rp_id' = parse_assertion_request(request).rp_id
        /\ UNCHANGED <<request, signed, cached>>
    BY DEF StartAssertion, StartCable
  <1>3. payload'.command = c
    BY <1>1, <1>2, PreparedMessages
  <1>4. TypeOK'
    BY <1>1, <1>2, <1>3 DEF TypeOK, c
  <1>5. OnItsWay'
    BY <1>2 DEF OnItsWay, c
  <1>6. AnswerIsListed'
    BY <1>1, <1>2 DEF AnswerIsListed
  <1> QED
    BY <1>1, <1>2, <1>4, <1>5, <1>6 DEF IInv

LEMMA HandleMakeCredentialPreserves ==
    ASSUME IInv, HandleMakeCredential
    PROVE  IInv'
  <1> DEFINE c == request.command
             b == request.body
             prepared == prepare_make_credential_for_cable(request)
             rp == extract_make_credential_rp_id(prepared)
  <1>1. /\ TypeOK /\ request = [command |-> c, body |-> b] /\ BodyOK(c, b)
        /\ (signed # Absent => stage = "answered")
    BY DEF IInv
  <1>2. /\ stage = "sent" /\ c = "MakeCredential"
        /\ \/ Answer(<<"status", "CTAP2_ERR_OPERATION_DENIED">>)
           \/ rp \notin DummyRpIds /\ StartCable(prepared, rp)
    BY DEF HandleMakeCredential
  <1>3. prepared.command = c
    BY <1>1, PreparedMessages
  <1> HIDE DEF prepared
  <1>4. CASE rp \notin DummyRpIds /\ StartCable(prepared, rp)
    <2>1. /\ stage' = "cable" /\ payload' = prepared /\ rp_id' = rp
          /\ UNCHANGED <<request, signed, cached>>
      BY <1>4 DEF StartCable
    <2>2. TypeOK'
      BY <1>1, <1>3, <2>1 DEF TypeOK, c
    <2>3. OnItsWay'
      BY <1>2, <1>4, <2>1 DEF OnItsWay, c, prepared
    <2>4. AnswerIsListed'
      BY <1>1, <1>2, <2>1 DEF AnswerIsListed
    <2> QED
      BY <1>1, <1>2, <2>1, <2>2, <2>3, <2>4 DEF IInv
  <1> QED
    BY <1>2, <1>4, AnswerPreserves

-----------------------------------------------------------------------------
(* The phone.                                                              *)

(* The id in an assertion, if it names one.                                *)
LEMMA IdInAnswer ==
    ASSUME NEW id
    PROVE  /\ extract_assertion_credential_id(
                  Map(<<<<Num(1), Descriptor(Bytes(id), PublicKey)>>>>)) = Bytes(id)
           /\ extract_assertion_credential_id(Map(<<>>)) = Absent
  <1> DEFINE desc == Descriptor(Bytes(id), PublicKey)
             m == <<<<Num(1), desc>>>>
  <1>1. m \in Seq({<<Num(1), desc>>}) /\ DOMAIN m = {1} /\ m[1] = <<Num(1), desc>>
    OBVIOUS
  <1>2. m[1][1] = Num(1) /\ m[1][2] = desc
    BY <1>1
  <1>3. Entries(Map(m)) = m /\ Entries(Map(<<>>)) = <<>>
    BY DEF Entries, Map, Is
  <1>4. Field(desc, Text("id")) = Bytes(id)
    BY Rebuilt
  <1>5. Is("bytes", Bytes(id)) /\ ~Is("bytes", Absent) /\ Entries(Absent) = <<>>
    BY DEF Is, Bytes, Absent, Entries
  <1>6. DOMAIN <<>> = {}
    OBVIOUS
  <1> HIDE DEF m, desc
  <1>7. Field(Map(m), Num(1)) = desc
    <2>1. {i \in DOMAIN Entries(Map(m)) : Entries(Map(m))[i][1] = Num(1)} = {1}
      BY <1>1, <1>2, <1>3
    <2>2. (CHOOSE i \in {1} : TRUE) = 1
      OBVIOUS
    <2> QED
      BY <1>2, <1>3, <2>1, <2>2 DEF Field
  <1>8. Field(Map(<<>>), Num(1)) = Absent /\ Field(Absent, Text("id")) = Absent
    BY <1>3, <1>5, <1>6 DEF Field
  <1>9. extract_assertion_credential_id(Map(m)) = Bytes(id)
    BY <1>4, <1>5, <1>7 DEF extract_assertion_credential_id
  <1>10. extract_assertion_credential_id(Map(<<>>)) = Absent
    BY <1>5, <1>8 DEF extract_assertion_credential_id
  <1> QED
    BY <1>9, <1>10 DEF m, desc

LEMMA PhoneAssertsPreserves ==
    ASSUME IInv, NEW id \in Held, PhoneAsserts(id)
    PROVE  IInv'
  <1> DEFINE b == request.body
             list == Field(b, Num(3))
             sent == Field(payload.body, Num(3))
  <1>1. /\ TypeOK /\ request = [command |-> request.command, body |-> b]
        /\ BodyOK(request.command, b)
    BY DEF IInv
  <1>2. /\ stage = "cable" /\ payload.command = "GetAssertion" /\ Is("map", payload.body)
        /\ sent # Absent => id \in Ids(sent)
        /\ signed' = Bytes(id) /\ stage' = "answered"
        /\ UNCHANGED <<request, payload, rp_id>>
    BY DEF PhoneAsserts
  <1>3. cached' \in {Bytes(id), Absent}
    <2>1. \E resp \in {Map(<<<<Num(1), Descriptor(Bytes(id), PublicKey)>>>>), Map(<<>>)} :
             CacheAssertion(resp)
      BY DEF PhoneAsserts
    <2> QED
      BY <2>1, IdInAnswer DEF CacheAssertion
  <1>4. request.command = "GetAssertion"
    BY <1>1, <1>2 DEF TypeOK
  <1>5. b # Absent /\ payload.body = GetBody(b)
    BY <1>2, <1>4, SentToPhone
  <1>6. sent = ListOf(list)
    BY <1>1, <1>4, <1>5, GetBodyProperties
  <1>7. list = Absent \/ WellFormed(list)
    BY <1>1, <1>4, FieldWellFormed DEF Commands
  <1>8. /\ CredentialIds(sent) = CredentialIds(list)
        /\ sent = Absent => CredentialIds(list) = <<>>
    BY <1>6, <1>7, KeptList
  <1>9. Ids(list) = {} \/ id \in Ids(list)
    <2>1. CASE sent = Absent
      <3>1. CredentialIds(list) = <<>> /\ DOMAIN <<>> = {}
        BY <1>8, <2>1
      <3> QED
        BY <3>1 DEF Ids
    <2>2. CASE sent # Absent
      BY <1>2, <1>8, <2>2 DEF Ids
    <2> QED
      BY <2>1, <2>2
  <1>10. Bytes(id)[2] = id /\ Is("bytes", Bytes(id)) /\ Is("absent", Absent)
    BY DEF Bytes, Is, Absent
  <1>11. TypeOK'
    BY <1>1, <1>2, <1>3, <1>10 DEF TypeOK
  <1>12. OnItsWay'
    BY <1>2 DEF OnItsWay
  <1>13. AnswerIsListed'
    BY <1>2, <1>3, <1>9, <1>10 DEF AnswerIsListed
  <1> QED
    BY <1>1, <1>2, <1>11, <1>12, <1>13 DEF IInv

LEMMA PhoneRegistersPreserves ==
    ASSUME IInv, PhoneRegisters
    PROVE  IInv'
  <1>1. /\ stage = "cable" /\ payload.command = "MakeCredential"
        /\ stage' = "answered" /\ signed' = Bytes("new")
        /\ UNCHANGED <<request, payload, rp_id, cached>>
    BY DEF PhoneRegisters
  <1>2. TypeOK /\ request.command = "MakeCredential"
    BY <1>1 DEF IInv, TypeOK
  <1>3. TypeOK'
    BY <1>1, <1>2 DEF TypeOK, Bytes, Is
  <1>4. OnItsWay'
    BY <1>1 DEF OnItsWay
  <1>5. AnswerIsListed'
    BY <1>1, <1>2 DEF AnswerIsListed
  <1> QED
    BY <1>1, <1>3, <1>4, <1>5 DEF IInv

LEMMA StepPreservesIInv ==
    ASSUME IInv, [Next]_vars
    PROVE  IInv'
  <1>1. CASE \E key \in DOMAIN Menu[request.command] :
                \E value \in Menu[request.command][key] : AddEntry(key, value)
    BY <1>1, AddEntryPreserves
  <1>2. CASE Send
    BY <1>2, SendPreserves
  <1>3. CASE NoResidentCredential
    BY <1>3, AnswerPreserves DEF NoResidentCredential
  <1>4. CASE SilentAssertion
    BY <1>4, AnswerPreserves DEF SilentAssertion
  <1>5. CASE StartAssertion
    BY <1>5, StartAssertionPreserves
  <1>6. CASE HandleMakeCredential
    BY <1>6, HandleMakeCredentialPreserves
  <1>7. CASE \E id \in Held : PhoneAsserts(id)
    BY <1>7, PhoneAssertsPreserves
  <1>8. CASE PhoneRegisters
    BY <1>8, PhoneRegistersPreserves
  <1>9. CASE PhoneRefuses
    BY <1>9, AnswerPreserves DEF PhoneRefuses
  <1>10. CASE NextRequest
    BY <1>10, NextRequestPreserves
  <1>11. CASE UNCHANGED vars
    <2>1. TypeOK'
      BY <1>11 DEF vars, IInv, TypeOK
    <2>2. OnItsWay'
      BY <1>11 DEF vars, IInv, OnItsWay
    <2>3. AnswerIsListed'
      BY <1>11 DEF vars, IInv, AnswerIsListed
    <2> QED
      BY <1>11, <2>1, <2>2, <2>3 DEF vars, IInv
  <1> QED
    BY <1>1, <1>2, <1>3, <1>4, <1>5, <1>6, <1>7, <1>8, <1>9, <1>10, <1>11 DEF Next

LEMMA AlwaysIInv == Spec => []IInv
  <1>1. Init => IInv
    BY InitEstablishesIInv
  <1>2. IInv /\ [Next]_vars => IInv'
    BY StepPreservesIInv
  <1> QED
    BY <1>1, <1>2, PTL DEF Spec

-----------------------------------------------------------------------------
(* What the phone is asked for, and what the host gets back.               *)

(* The type invariant: what is on its way to the phone is a request of the *)
(* host's command (engine.rs:185-216, 261-312), and the credential an      *)
(* answer names and the one cached are byte strings or missing.            *)
THEOREM RequestPathTypeCorrect == Spec => []TypeOK
  <1>1. IInv => TypeOK
    BY DEF IInv
  <1> QED
    BY <1>1, AlwaysIInv, PTL

(* A host whose list named a usable credential gets an assertion signed    *)
(* with one of those, whatever the list's other descriptors are, and the   *)
(* engine caches that credential or none (ctap2.rs:625-643, 744-762,       *)
(* engine.rs:404-415).                                                     *)
THEOREM AnswersAreListed == Spec => []AnswerIsListed
  <1>1. IInv => AnswerIsListed
    BY DEF IInv
  <1> QED
    BY <1>1, AlwaysIInv, PTL

(* The sanitising of any allowList or excludeList keeps exactly the ids of *)
(* the host's descriptors, in their order, and leaves the list out only if *)
(* it named none (ctap2.rs:397-426, 625-643, 744-762).                     *)
THEOREM ListsKept == Spec => []CredentialsKept
  <1>1. IInv => CredentialsKept
    <2> SUFFICES ASSUME IInv, NEW command \in Commands, OnCable(command)
                 PROVE  LET host  == Field(request.body, Num(ListKey(command)))
                            phone == Field(payload.body, Num(ListKey(command)))
                        IN /\ CredentialIds(phone) = CredentialIds(host)
                           /\ phone = Absent => CredentialIds(host) = <<>>
      BY DEF CredentialsKept
    <2> DEFINE b == request.body
               host == Field(b, Num(ListKey(command)))
    <2>1. /\ stage = "cable" /\ Is("map", payload.body) /\ request.command = command
          /\ BodyOK(command, b)
      BY DEF OnCable, IInv
    <2>2. Field(payload.body, Num(ListKey(command))) = ListOf(host)
      <3>1. CASE command = "GetAssertion"
        <4>1. b # Absent /\ payload.body = GetBody(b) /\ ListKey(command) = 3
          BY <2>1, <3>1, SentToPhone DEF ListKey
        <4> QED
          BY <2>1, <3>1, <4>1, GetBodyProperties
      <3>2. CASE command = "MakeCredential"
        <4>1. b # Absent /\ payload.body = MakeBody(b) /\ ListKey(command) = 5
          BY <2>1, <3>2, SentToPhone DEF ListKey
        <4> QED
          BY <2>1, <3>2, <4>1, MakeBodyProperties
      <3> QED
        BY <3>1, <3>2 DEF Commands
    <2>3. host = Absent \/ WellFormed(host)
      BY <2>1, FieldWellFormed
    <2> QED
      BY <2>2, <2>3, KeptList
  <1> QED
    BY <1>1, AlwaysIInv, PTL

(* The phone is asked to verify the user whenever the host asks for it or  *)
(* leaves it open, always to be present for an assertion and to verify the *)
(* user and keep the credential for a registration, and to use no          *)
(* algorithm the host did not offer (ctap2.rs:587-624, 649-676, 767-790).  *)
THEOREM PolicyIsKept == Spec => []PolicyKept
  <1>1. IInv => PolicyKept
    <2> SUFFICES ASSUME IInv PROVE PolicyKept
      OBVIOUS
    <2> DEFINE b == request.body
    <2>1. ASSUME OnCable("GetAssertion")
          PROVE  /\ Option(payload.body, "up", FALSE)
                 /\ Option(b, "uv", TRUE) => Option(payload.body, "uv", FALSE)
      <3>1. BodyOK("GetAssertion", b) /\ b # Absent /\ payload.body = GetBody(b)
        BY <2>1, SentToPhone DEF OnCable, IInv
      <3>2. Field(payload.body, Num(5)) = GetOptions(b)
        BY <3>1, GetBodyProperties
      <3>3. \A x, d : Payload(Bool(x), "bool", d) = x
        BY DEF Payload, Bool, Is
      <3>4. Option(payload.body, "up", FALSE) = TRUE
        BY <3>2, <3>3, OptionsProperties DEF Option
      <3> DEFINE uv == Option(b, "uv", TRUE)
                 sent == Field(GetOptions(b), Text("uv"))
      <3>5. Option(payload.body, "uv", FALSE) = Payload(sent, "bool", FALSE)
        BY <3>2 DEF Option
      <3>6. sent = Bool(uv)
        BY OptionsProperties
      <3> HIDE DEF uv, sent
      <3>7. Option(payload.body, "uv", FALSE) = uv
        BY <3>3, <3>5, <3>6
      <3> QED
        BY <3>4, <3>7, Zenon DEF uv
    <2>2. ASSUME OnCable("MakeCredential")
          PROVE  LET options == Field(payload.body, Num(7)) IN
                 /\ Field(options, Text("rk")) = Bool(TRUE)
                 /\ Field(options, Text("uv")) = Bool(TRUE)
                 /\ Field(options, Text("up")) = Absent
                 /\ Algorithms(Field(payload.body, Num(4)))
                       \subseteq Algorithms(Field(b, Num(4)))
      <3>1. BodyOK("MakeCredential", b) /\ b # Absent /\ payload.body = MakeBody(b)
        BY <2>2, SentToPhone DEF OnCable, IInv
      <3>2. Field(payload.body, Num(4))
               = Present(Field(b, Num(4)), PreparedParams(Field(b, Num(4))))
        BY <3>1, MakeBodyProperties
      <3>3. Field(payload.body, Num(7)) = MakeOptions
        BY <3>1, MakeBodyProperties
      <3> QED
        BY <3>2, <3>3, AlgorithmsNarrowed, OptionsProperties DEF Present
    <2> QED
      BY <2>1, <2>2 DEF PolicyKept
  <1> QED
    BY <1>1, AlwaysIInv, PTL

LEMMA NoField == \A key : Field(Absent, key) = Absent
  <1>1. Entries(Absent) = <<>>
    BY DEF Entries, Is, Absent
  <1>2. DOMAIN <<>> = {}
    OBVIOUS
  <1> QED
    BY <1>1, <1>2 DEF Field

(* A text that is not empty is taken as it is.                             *)
LEMMA TextChosen ==
    ASSUME NEW text, text # ""
    PROVE  Text(text)[2] = text /\ \A default : NonEmpty(Text(text), default) = text
  <1>1. Is("text", Text(text)) /\ Text(text)[2] = text
    BY DEF Is, Text
  <1> QED
    BY <1>1 DEF NonEmpty

(* The party the user is shown is the one the phone is asked for, and no   *)
(* touch probe reaches the phone, whatever parties count as probes         *)
(* (ctap2.rs:230-271, 481-527, engine.rs:206-210).                         *)
THEOREM PartyIsKept == Spec => []SameParty
  <1>1. IInv => SameParty
    <2> SUFFICES ASSUME IInv PROVE SameParty
      OBVIOUS
    <2> DEFINE b == request.body
    <2>1. ASSUME OnCable("GetAssertion"), Is("text", Field(payload.body, Num(1)))
          PROVE  rp_id = Field(payload.body, Num(1))[2]
      <3>1. BodyOK("GetAssertion", b) /\ b # Absent /\ payload.body = GetBody(b)
        BY <2>1, SentToPhone DEF OnCable, IInv
      <3>2. Field(payload.body, Num(1)) = Field(b, Num(1))
        BY <3>1, GetBodyProperties
      <3>3. rp_id = parse_assertion_request(request).rp_id
        BY <2>1 DEF OnCable, IInv, OnItsWay
      <3>4. rp_id = Payload(Field(b, Num(1)), "text", "Passkey Authentication")
        BY <3>3 DEF parse_assertion_request
      <3> QED
        BY <2>1, <3>2, <3>4 DEF Payload
    <2>2. ASSUME OnCable("MakeCredential")
          PROVE  /\ Field(payload.body, Num(2)) # Absent
                       => rp_id = Field(Field(payload.body, Num(2)), Text("id"))[2]
                 /\ Field(Field(b, Num(2)), Text("id")) \notin {Text(rp) : rp \in DummyRpIds}
      <3> DEFINE rp == Field(b, Num(2))
                 sent == Field(payload.body, Num(2))
      <3>1. BodyOK("MakeCredential", b) /\ b # Absent /\ payload.body = MakeBody(b)
        BY <2>2, SentToPhone DEF OnCable, IInv
      <3>2. sent = Present(rp, PreparedRp(rp))
        BY <3>1, MakeBodyProperties
      <3>3. /\ rp_id = extract_make_credential_rp_id(payload)
            /\ rp_id \notin DummyRpIds
        BY <2>2 DEF OnCable, IInv, OnItsWay
      <3>4. rp_id = NonEmpty(Field(sent, Text("id")),
                             NonEmpty(Field(sent, Text("name")), "Passkey Registration"))
        BY <3>3 DEF extract_make_credential_rp_id
      <3>5. rp = Absent \/ WellFormed(rp)
        BY <3>1, FieldWellFormed DEF Commands
      <3> HIDE DEF rp, sent
      <3>6. CASE rp = Absent
        <4>1. Field(rp, Text("id")) = Absent
          BY <3>6, NoField
        <4>2. \A n : Text(n) # Absent
          BY DEF Text, Absent
        <4> QED
          BY <3>2, <3>6, <4>1, <4>2 DEF Present, rp, sent
      <3>7. CASE rp # Absent
        <4>1. sent = PreparedRp(rp)
          BY <3>2, <3>7 DEF Present
        <4>2. Field(sent, Text("id")) = Text(RpId(rp)) /\ RpId(rp) # ""
          BY <3>5, <3>7, <4>1, PreparedRpProperties
        <4>3. rp_id = RpId(rp) /\ Text(RpId(rp))[2] = RpId(rp)
          BY <3>4, <4>2, TextChosen
        <4>4. ASSUME NEW dummy \in DummyRpIds, Field(rp, Text("id")) = Text(dummy)
              PROVE  FALSE
          <5>1. dummy # ""
            BY RequestPathAssumption DEF RequestPathAssumption
          <5>2. RpId(rp) = dummy
            BY <4>4, <5>1, TextChosen DEF RpId
          <5> QED
            BY <3>3, <4>3, <5>2
        <4> QED
          BY <4>2, <4>3, <4>4 DEF rp, sent
      <3> QED
        BY <3>6, <3>7
    <2> QED
      BY <2>1, <2>2 DEF SameParty
  <1> QED
    BY <1>1, AlwaysIInv, PTL

-----------------------------------------------------------------------------
(* Canonical order.  Client data hash, relying party id and algorithms are *)
(* passed on as they came; as bytes, a text and an array they are no maps. *)

PassedOnCanonical ==
    /\ \A key \in {1, 2} \cap DOMAIN Menu["GetAssertion"] :
          \A value \in Menu["GetAssertion"][key] : CanonicalMap(value)
    /\ \A key \in {1, 4} \cap DOMAIN Menu["MakeCredential"] :
          \A value \in Menu["MakeCredential"][key] : CanonicalMap(value)

LEMMA ArraysAreNoMaps == \A list : CanonicalMap(Array(list))
  <1>1. \A list : Entries(Array(list)) = <<>>
    BY DEF Entries, Array, Is
  <1>2. DOMAIN <<>> = {}
    OBVIOUS
  <1> QED
    BY <1>1, <1>2 DEF CanonicalMap

(* Whatever the host's maps hold and leave out, the request for the phone  *)
(* and every map rebuilt in it are in canonical order, and nothing in it   *)
(* was meant for USB or is an extension (ctap2.rs:219-227, 428-439).       *)
THEOREM SentCanonical ==
    ASSUME PassedOnCanonical
    PROVE  Spec => []Canonical
  <1>1. IInv => Canonical
    <2> SUFFICES ASSUME IInv, NEW command \in Commands, OnCable(command)
                 PROVE  LET list == Field(payload.body, Num(ListKey(command))) IN
                        /\ CanonicalMap(payload.body)
                        /\ \A i \in DOMAIN Entries(payload.body) :
                              CanonicalMap(Entries(payload.body)[i][2])
                        /\ \A i \in DOMAIN Items(list) :
                              /\ CanonicalMap(Items(list)[i])
                              /\ Field(Items(list)[i], Text("transports")) = Absent
                        /\ Field(payload.body,
                                 Num(IF command = "GetAssertion" THEN 4 ELSE 6)) = Absent
      BY DEF Canonical
    <2> DEFINE b == request.body
               host == Field(b, Num(ListKey(command)))
    <2>1. /\ stage = "cable" /\ Is("map", payload.body) /\ request.command = command
          /\ BodyOK(command, b)
      BY DEF OnCable, IInv
    <2>2. host = Absent \/ WellFormed(host)
      BY <2>1, FieldWellFormed
    <2>3. \A i \in DOMAIN Items(ListOf(host)) :
             /\ CanonicalMap(Items(ListOf(host))[i])
             /\ Field(Items(ListOf(host))[i], Text("transports")) = Absent
      BY <2>2, KeptList
    <2>4. CASE command = "GetAssertion"
      <3>1. b # Absent /\ payload.body = GetBody(b) /\ ListKey(command) = 3
        BY <2>1, <2>4, SentToPhone DEF ListKey
      <3>2. /\ CanonicalMap(payload.body)
            /\ Field(payload.body, Num(3)) = ListOf(Field(b, Num(3)))
            /\ Field(payload.body, Num(4)) = Absent
            /\ \A i \in DOMAIN Entries(payload.body) :
                  LET x == Entries(payload.body)[i][2] IN
                  \/ x = GetOptions(b)
                  \/ \E list : x = Array(list)
                  \/ \E key \in {1, 2} \cap DOMAIN Menu["GetAssertion"] :
                        x \in Menu["GetAssertion"][key]
        BY <2>1, <2>4, <3>1, GetBodyProperties
      <3>3. \A i \in DOMAIN Entries(payload.body) : CanonicalMap(Entries(payload.body)[i][2])
        BY <3>2, ArraysAreNoMaps, OptionsProperties DEF PassedOnCanonical
      <3> QED
        BY <2>3, <2>4, <3>1, <3>2, <3>3
    <2>5. CASE command = "MakeCredential"
      <3>1. b # Absent /\ payload.body = MakeBody(b) /\ ListKey(command) = 5
        BY <2>1, <2>5, SentToPhone DEF ListKey
      <3>2. /\ CanonicalMap(payload.body)
            /\ Field(payload.body, Num(5)) = ListOf(Field(b, Num(5)))
            /\ Field(payload.body, Num(6)) = Absent
            /\ \A i \in DOMAIN Entries(payload.body) :
                  LET x == Entries(payload.body)[i][2] IN
                  \/ x = MakeOptions
                  \/ \E list : x = Array(list)
                  \/ \E rp : WellFormed(rp) /\ x = PreparedRp(rp)
                  \/ \E user : WellFormed(user) /\ x = PreparedUser(user)
                  \/ \E key \in {1, 4} \cap DOMAIN Menu["MakeCredential"] :
                        x \in Menu["MakeCredential"][key]
        BY <2>1, <2>5, <3>1, MakeBodyProperties
      <3>3. \A i \in DOMAIN Entries(payload.body) : CanonicalMap(Entries(payload.body)[i][2])
        BY <3>2, ArraysAreNoMaps, OptionsProperties, PreparedRpProperties,
           PreparedUserCanonical DEF PassedOnCanonical
      <3> QED
        BY <2>3, <2>5, <3>1, <3>2, <3>3
    <2> QED
      BY <2>4, <2>5 DEF Commands
  <1> QED
    BY <1>1, AlwaysIInv, PTL
=============================================================================
