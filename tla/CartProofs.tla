----------------------------- MODULE CartProofs -----------------------------
(***************************************************************************)
(* Theorems about carts and the consents bound to them, for any lines,     *)
(* charges and number of lines: a consent matches the cart it was given    *)
(* for, in any order of its lines, and no cart that differs in what is     *)
(* hashed.                                                                 *)
(***************************************************************************)
EXTENDS CartBinding, FiniteSetTheorems, TLAPS

-----------------------------------------------------------------------------
(* Sorting.                                                                *)

\* What is hashed of a line.
HashedType ==
  [ product : STRING, sku : Int, quantity : Nat \ {0}, unit : Nat \ {0}, discount : Nat,
    total : Int ]

Lists(n) == [1 .. n -> LineType \cup HashedType]

\* What is hashed of the lines that may be put into a cart.
HashedOf == {CanonicalLine(l) : l \in CartLines}

\* The positions among the first n that hold line l.
Holding(s, n, l) == {i \in 1 .. n : s[i] = l}

\* The lines that are sorted in front of line i.
Ahead(s, i) == {j \in DOMAIN s : Precedes(s, j, i)}

(***************************************************************************)
(* Order by sku and then by position is a strict total order.              *)
(***************************************************************************)
LEMMA PrecedesIsOrder ==
  ASSUME NEW n \in Nat, NEW s \in Lists(n)
  PROVE  /\ \A i \in 1 .. n : ~ Precedes(s, i, i)
         /\ \A i, j \in 1 .. n : i # j => Precedes(s, i, j) \/ Precedes(s, j, i)
         /\ \A i, j, k \in 1 .. n : Precedes(s, i, j) /\ Precedes(s, j, k) => Precedes(s, i, k)
<1>1. \A i \in 1 .. n : s[i].sku \in Int
  BY DEF Lists, LineType, HashedType
<1> QED BY <1>1 DEF Precedes

(***************************************************************************)
(* Positions are finitely many.                                            *)
(***************************************************************************)
LEMMA PositionsAreFinite ==
  ASSUME NEW n \in Nat
  PROVE  /\ IsFiniteSet(1 .. n) /\ Cardinality(1 .. n) = n
         /\ \A S \in SUBSET (1 .. n) : IsFiniteSet(S) /\ Cardinality(S) \in Nat /\ Cardinality(S) <= n
<1> DEFINE N == 1 .. n
<1>1. IsFiniteSet(N) /\ Cardinality(N) = n
  BY FS_Interval
<1> HIDE DEF N
<1>2. \A S \in SUBSET N : IsFiniteSet(S) /\ Cardinality(S) \in Nat /\ Cardinality(S) <= n
  BY <1>1, FS_Subset, FS_CardinalityType
<1> QED BY <1>1, <1>2 DEF N

(***************************************************************************)
(* Lines keep their order in their places.                                 *)
(***************************************************************************)
LEMMA PlacesKeepOrder ==
  ASSUME NEW n \in Nat, NEW s \in Lists(n), NEW i \in 1 .. n
  PROVE  /\ Place(s, i) \in 1 .. n
         /\ \A j \in 1 .. n : Precedes(s, j, i) => Place(s, j) < Place(s, i)
<1>1. \A j \in 1 .. n : Ahead(s, j) \in SUBSET (1 .. n) /\ j \notin Ahead(s, j)
  BY PrecedesIsOrder DEF Ahead, Lists
<1>2. \A j \in 1 .. n : /\ IsFiniteSet(Ahead(s, j) \cup {j}) /\ Cardinality(Ahead(s, j)) \in Nat
                        /\ Cardinality(Ahead(s, j) \cup {j}) = Cardinality(Ahead(s, j)) + 1
  <2> TAKE j \in 1 .. n
  <2>1. IsFiniteSet(Ahead(s, j)) /\ Cardinality(Ahead(s, j)) \in Nat
    BY <1>1, PositionsAreFinite
  <2> QED BY <1>1, <2>1, FS_AddElement
<1>3. \A j \in 1 .. n : Place(s, j) = 1 + Cardinality(Ahead(s, j))
  BY DEF Place, Ahead
<1>4. Place(s, i) \in 1 .. n
  <2>1. Ahead(s, i) \cup {i} \in SUBSET (1 .. n)
    BY <1>1
  <2>2. Cardinality(Ahead(s, i) \cup {i}) <= n
    BY <2>1, PositionsAreFinite
  <2>3. Cardinality(Ahead(s, i)) \in Nat /\ Cardinality(Ahead(s, i)) + 1 <= n
    BY <1>2, <2>2
  <2> QED BY <1>3, <2>3
<1>5. ASSUME NEW j \in 1 .. n, Precedes(s, j, i) PROVE Place(s, j) < Place(s, i)
  <2>1. Ahead(s, j) \cup {j} \in SUBSET Ahead(s, i)
    BY <1>5, PrecedesIsOrder DEF Ahead, Lists
  <2>2. IsFiniteSet(Ahead(s, i))
    BY <1>1, PositionsAreFinite
  <2>3. Cardinality(Ahead(s, j) \cup {j}) <= Cardinality(Ahead(s, i))
    BY <2>1, <2>2, FS_Subset
  <2>4. /\ Cardinality(Ahead(s, i)) \in Nat /\ Cardinality(Ahead(s, j)) \in Nat
        /\ Cardinality(Ahead(s, j)) + 1 <= Cardinality(Ahead(s, i))
    BY <1>2, <2>3
  <2> QED BY <1>3, <2>4
<1> QED BY <1>4, <1>5

(***************************************************************************)
(* No place is taken twice and, as there are as many places as lines, none *)
(* is left empty.                                                          *)
(***************************************************************************)
LEMMA PlacesAreTaken ==
  ASSUME NEW n \in Nat, NEW s \in Lists(n)
  PROVE  /\ \A i, j \in 1 .. n : Place(s, i) = Place(s, j) => i = j
         /\ \A p \in 1 .. n : \E i \in 1 .. n : Place(s, i) = p
<1>1. \A i, j \in 1 .. n : Place(s, i) = Place(s, j) => i = j
  <2> SUFFICES ASSUME NEW i \in 1 .. n, NEW j \in 1 .. n, i # j PROVE Place(s, i) # Place(s, j)
    OBVIOUS
  <2>1. Place(s, i) \in 1 .. n /\ Place(s, j) \in 1 .. n
    BY PlacesKeepOrder
  <2>2. Place(s, i) < Place(s, j) \/ Place(s, j) < Place(s, i)
    BY PrecedesIsOrder, PlacesKeepOrder
  <2> QED BY <2>1, <2>2
<1>2. PICK N : N = 1 .. n
  OBVIOUS
<1>3. IsFiniteSet(N)
  BY <1>2, PositionsAreFinite
<1> DEFINE f == [i \in N |-> Place(s, i)]
<1>4. f \in Injection(N, N)
  BY <1>1, <1>2, PlacesKeepOrder DEF Injection, IsInjective
<1>5. f \in Surjection(N, N)
  BY <1>3, <1>4, FS_Injection
<1> QED BY <1>1, <1>2, <1>5 DEF Surjection

(***************************************************************************)
(* The sorted list has the same lines, each in its place.                  *)
(***************************************************************************)
LEMMA SortedIs ==
  ASSUME NEW n \in Nat, NEW s \in Lists(n)
  PROVE  /\ Sorted(s) \in Lists(n)
         /\ \A i \in 1 .. n : Sorted(s)[Place(s, i)] = s[i]
<1>1. DOMAIN s = 1 .. n
  BY DEF Lists
<1>2. ASSUME NEW p \in 1 .. n
      PROVE  \E i \in 1 .. n : Sorted(s)[p] = s[i] /\ Place(s, i) = p
  <2>1. PICK i : i = CHOOSE j \in DOMAIN s : Place(s, j) = p
    OBVIOUS
  <2>2. \E j \in 1 .. n : Place(s, j) = p
    BY PlacesAreTaken
  <2>3. i \in 1 .. n /\ Place(s, i) = p
    BY <1>1, <2>1, <2>2
  <2> QED BY <1>1, <2>1, <2>3 DEF Sorted
<1>3. Sorted(s) \in Lists(n)
  BY <1>1, <1>2 DEF Lists, Sorted
<1>4. ASSUME NEW i \in 1 .. n PROVE Sorted(s)[Place(s, i)] = s[i]
  <2>1. Place(s, i) \in 1 .. n
    BY PlacesKeepOrder
  <2> QED BY <1>2, <2>1, PlacesAreTaken
<1> QED BY <1>3, <1>4

(***************************************************************************)
(* Sorting neither loses nor repeats a line.                               *)
(***************************************************************************)
LEMMA SortedKeepsCopies ==
  ASSUME NEW n \in Nat, NEW s \in Lists(n), NEW l
  PROVE  Cardinality(Holding(s, n, l)) = Cardinality(Holding(Sorted(s), n, l))
<1>1. PICK A : A = Holding(s, n, l) /\ A = {i \in 1 .. n : s[i] = l}
  BY DEF Holding
<1>2. PICK B : B = Holding(Sorted(s), n, l) /\ B = {i \in 1 .. n : Sorted(s)[i] = l}
  BY DEF Holding
<1> DEFINE f == [i \in A |-> Place(s, i)]
<1>3. f \in [A -> B]
  BY <1>1, <1>2, SortedIs, PlacesKeepOrder
<1>4. \A i, j \in A : f[i] = f[j] => i = j
  BY <1>1, PlacesAreTaken
<1>5. \A p \in B : \E i \in A : f[i] = p
  <2> SUFFICES ASSUME NEW p \in B PROVE \E i \in A : f[i] = p
    OBVIOUS
  <2>1. PICK i \in 1 .. n : Place(s, i) = p
    BY <1>2, PlacesAreTaken
  <2>2. Sorted(s)[p] = s[i]
    BY <2>1, SortedIs
  <2> QED BY <1>1, <1>2, <2>1, <2>2
<1>6. f \in Bijection(A, B)
  <2> HIDE DEF f
  <2> QED BY <1>3, <1>4, <1>5 DEF Bijection, Injection, Surjection, IsInjective
<1>7. IsFiniteSet(A)
  BY <1>1, PositionsAreFinite
<1> QED BY <1>1, <1>2, <1>6, <1>7, FS_Bijection DEF ExistsBijection

(***************************************************************************)
(* Lists with the same lines, no two of which share a sku, are the same    *)
(* list once sorted.                                                       *)
(***************************************************************************)
LEMMA SameLinesSortAlike ==
  ASSUME HashedOf \subseteq HashedType,
         NEW n \in Nat, NEW s \in [1 .. n -> HashedOf],
         NEW m \in Nat, NEW t \in [1 .. m -> HashedOf],
         \A i, j \in 1 .. n : s[i].sku = s[j].sku => i = j,
         \A l \in HashedOf : Cardinality(Holding(s, n, l)) = Cardinality(Holding(t, m, l))
  PROVE  n = m /\ Sorted(s) = Sorted(t)
<1> s \in Lists(n) /\ t \in Lists(m)
  BY DEF Lists
<1>0. \A l : IsFiniteSet(Holding(s, n, l)) /\ IsFiniteSet(Holding(t, m, l))
  BY PositionsAreFinite DEF Holding
<1>1. ASSUME NEW i \in 1 .. n PROVE \E j \in 1 .. m : Holding(t, m, s[i]) = {j}
  <2>1. Holding(s, n, s[i]) = {i}
    BY DEF Holding
  <2>2. Cardinality(Holding(s, n, s[i])) = 1
    BY <2>1, FS_Singleton
  <2>3. s[i] \in HashedOf
    OBVIOUS
  <2>4. Cardinality(Holding(t, m, s[i])) = 1
    BY <2>2, <2>3
  <2>5. \E j : Holding(t, m, s[i]) = {j}
    BY <1>0, <2>4, FS_Singleton
  <2> QED BY <2>5 DEF Holding
<1>2. ASSUME NEW j \in 1 .. m PROVE \E i \in 1 .. n : s[i] = t[j]
  <2>1. Holding(t, m, t[j]) # {} /\ t[j] \in HashedOf
    BY DEF Holding
  <2>2. Cardinality(Holding(t, m, t[j])) # 0
    BY <1>0, <2>1, FS_EmptySet
  <2>3. Cardinality(Holding(s, n, t[j])) # 0
    BY <2>1, <2>2
  <2>4. Holding(s, n, t[j]) # {}
    BY <2>3, FS_EmptySet
  <2> QED BY <2>4 DEF Holding
<1> DEFINE f == [j \in 1 .. m |-> CHOOSE i \in 1 .. n : s[i] = t[j]]
<1>3. f \in [1 .. m -> 1 .. n] /\ \A j \in 1 .. m : s[f[j]] = t[j]
  BY <1>2
<1> HIDE DEF f
<1>4. \A j, k \in 1 .. m : f[j] = f[k] => j = k
  <2> SUFFICES ASSUME NEW j \in 1 .. m, NEW k \in 1 .. m, f[j] = f[k] PROVE j = k
    OBVIOUS
  <2>1. t[j] = t[k] /\ t[j] = s[f[j]] /\ f[j] \in 1 .. n
    BY <1>3
  <2>2. PICK q \in 1 .. m : Holding(t, m, s[f[j]]) = {q}
    BY <1>1, <2>1
  <2>3. j \in Holding(t, m, s[f[j]]) /\ k \in Holding(t, m, s[f[j]])
    BY <2>1 DEF Holding
  <2> QED BY <2>2, <2>3, Zenon
<1>5. \A i \in 1 .. n : \E j \in 1 .. m : f[j] = i
  <2> SUFFICES ASSUME NEW i \in 1 .. n PROVE \E j \in 1 .. m : f[j] = i
    OBVIOUS
  <2>1. PICK j \in 1 .. m : Holding(t, m, s[i]) = {j}
    BY <1>1
  <2>2. t[j] = s[i]
    BY <2>1 DEF Holding
  <2> QED BY <1>3, <2>2
<1>6. n = m
  <2>1. PICK N : N = 1 .. n
    OBVIOUS
  <2>2. PICK M : M = 1 .. m
    OBVIOUS
  <2>3. f \in Bijection(M, N)
    BY <1>3, <1>4, <1>5, <2>1, <2>2 DEF Bijection, Injection, Surjection, IsInjective
  <2>4. IsFiniteSet(M) /\ Cardinality(M) = m /\ Cardinality(N) = n
    BY <2>1, <2>2, PositionsAreFinite
  <2> QED BY <2>3, <2>4, FS_Bijection DEF ExistsBijection
<1>7. \A j, k \in 1 .. m : Precedes(t, k, j) <=> Precedes(s, f[k], f[j])
  <2> SUFFICES ASSUME NEW j \in 1 .. m, NEW k \in 1 .. m
               PROVE  Precedes(t, k, j) <=> Precedes(s, f[k], f[j])
    OBVIOUS
  <2>1. s[f[j]] = t[j] /\ s[f[k]] = t[k] /\ f[j] \in 1 .. n /\ f[k] \in 1 .. n
    BY <1>3
  <2>2. CASE t[k].sku = t[j].sku
    <3>1. f[k] = f[j] /\ k = j
      BY <1>4, <2>1, <2>2
    <3> QED BY <2>1, <3>1, PrecedesIsOrder
  <2>3. CASE t[k].sku # t[j].sku
    BY <2>1, <2>3 DEF Precedes
  <2> QED BY <2>2, <2>3
<1>8. ASSUME NEW j \in 1 .. m PROVE Place(t, j) = Place(s, f[j])
  <2>1. PICK A : A = Ahead(t, j)
    OBVIOUS
  <2>2. PICK B : B = Ahead(s, f[j])
    OBVIOUS
  <2>3. A = {k \in 1 .. m : Precedes(t, k, j)} /\ B = {i \in 1 .. n : Precedes(s, i, f[j])}
    BY <2>1, <2>2 DEF Ahead, Lists
  <2> DEFINE g == [k \in A |-> f[k]]
  <2>4. g \in [A -> B]
    BY <1>3, <1>7, <2>3
  <2>5. \A k, q \in A : g[k] = g[q] => k = q
    BY <1>4, <2>3
  <2>6. \A i \in B : \E k \in A : g[k] = i
    <3> SUFFICES ASSUME NEW i \in B PROVE \E k \in A : g[k] = i
      OBVIOUS
    <3>1. PICK k \in 1 .. m : f[k] = i
      BY <1>5, <2>3
    <3> QED BY <1>7, <2>3, <3>1
  <2>7. g \in Bijection(A, B)
    <3> HIDE DEF g
    <3> QED BY <2>4, <2>5, <2>6 DEF Bijection, Injection, Surjection, IsInjective
  <2>8. IsFiniteSet(A)
    BY <2>3, PositionsAreFinite
  <2>9. Cardinality(A) = Cardinality(B)
    BY <2>7, <2>8, FS_Bijection DEF ExistsBijection
  <2> QED BY <2>1, <2>2, <2>9 DEF Place, Ahead
<1>9. ASSUME NEW p \in 1 .. n PROVE Sorted(s)[p] = Sorted(t)[p]
  <2>1. PICK j \in 1 .. m : Place(t, j) = p
    BY <1>6, PlacesAreTaken
  <2>2. Sorted(t)[p] = t[j]
    BY <2>1, SortedIs
  <2>3. Sorted(s)[Place(s, f[j])] = s[f[j]] /\ s[f[j]] = t[j]
    BY <1>3, SortedIs
  <2> QED BY <1>8, <2>1, <2>2, <2>3
<1> QED
  <2>1. Sorted(s) \in Lists(n) /\ Sorted(t) \in Lists(n)
    BY <1>6, SortedIs
  <2> QED BY <1>6, <1>9, <2>1 DEF Lists

-----------------------------------------------------------------------------
(* Hashing.                                                                *)

\* The lines of a cart as they are hashed, in the order of the cart.
Strip(items) == [i \in DOMAIN items |-> CanonicalLine(items[i])]

(***************************************************************************)
(* Two lines are hashed alike exactly when they agree in the hashed        *)
(* fields: the line total follows from the others.                         *)
(***************************************************************************)
LEMMA HashedLines ==
  ASSUME NEW l \in LineType, NEW k \in LineType
  PROVE  /\ CanonicalLine(l) \in HashedType
         /\ CanonicalLine(l).sku = l.sku
         /\ CanonicalLine(l) = CanonicalLine(k) <=> Alike(l, k)
<1>1. l.unit \in Int /\ l.quantity \in Int /\ l.discount \in Int
  BY DEF LineType
<1>2. line_total(l) \in Int
  BY <1>1 DEF line_total
<1>3. PICK x : x = line_total(l)
  OBVIOUS
<1>4. PICK y : y = line_total(k)
  OBVIOUS
<1>5. Alike(l, k) => x = y
  BY <1>3, <1>4 DEF Alike, line_total
<1>6. /\ CanonicalLine(l) = [ product |-> l.product, sku |-> l.sku, quantity |-> l.quantity,
                              unit |-> l.unit, discount |-> l.discount, total |-> x ]
      /\ CanonicalLine(k) = [ product |-> k.product, sku |-> k.sku, quantity |-> k.quantity,
                              unit |-> k.unit, discount |-> k.discount, total |-> y ]
  BY <1>3, <1>4 DEF CanonicalLine
<1>7. CanonicalLine(l) \in HashedType /\ CanonicalLine(l).sku = l.sku
  BY <1>2, <1>3, <1>6 DEF LineType, HashedType
<1>8. CanonicalLine(l) = CanonicalLine(k) <=> Alike(l, k)
  BY <1>5, <1>6 DEF Alike
<1> QED BY <1>7, <1>8

(***************************************************************************)
(* Sorting goes by the sku alone, which is hashed: it makes no difference  *)
(* whether lines are sorted before or after the other fields are dropped.  *)
(***************************************************************************)
LEMMA SortingCommutes ==
  ASSUME NEW n \in Nat, NEW s \in [1 .. n -> LineType]
  PROVE  /\ Strip(s) \in [1 .. n -> HashedType]
         /\ [p \in DOMAIN s |-> CanonicalLine(Sorted(s)[p])] = Sorted(Strip(s))
<1>1. s \in Lists(n) /\ DOMAIN s = 1 .. n
  BY DEF Lists
<1>2. PICK t : t = Strip(s)
  OBVIOUS
<1>3. t \in [1 .. n -> HashedType] /\ \A i \in 1 .. n : t[i] = CanonicalLine(s[i]) /\ t[i].sku = s[i].sku
  BY <1>1, <1>2, HashedLines DEF Strip
<1>4. t \in Lists(n) /\ DOMAIN t = 1 .. n
  BY <1>3 DEF Lists
<1>5. \A i, j \in 1 .. n : Precedes(s, j, i) <=> Precedes(t, j, i)
  BY <1>3 DEF Precedes
<1>6. \A i \in 1 .. n : Place(s, i) = Place(t, i)
  <2> SUFFICES ASSUME NEW i \in 1 .. n PROVE Place(s, i) = Place(t, i)
    OBVIOUS
  <2>1. {j \in DOMAIN s : Precedes(s, j, i)} = {j \in DOMAIN t : Precedes(t, j, i)}
    BY <1>1, <1>4, <1>5
  <2> QED BY <2>1 DEF Place
<1>7. ASSUME NEW p \in 1 .. n PROVE CanonicalLine(Sorted(s)[p]) = Sorted(t)[p]
  <2>1. PICK i \in 1 .. n : Place(s, i) = p
    BY <1>1, PlacesAreTaken
  <2>2. Sorted(s)[p] = s[i]
    BY <1>1, <2>1, SortedIs
  <2>3. Sorted(t)[p] = t[i]
    BY <1>4, <1>6, <2>1, SortedIs
  <2> QED BY <1>3, <2>2, <2>3
<1>8. DOMAIN Sorted(t) = 1 .. n /\ Sorted(t) = [p \in 1 .. n |-> Sorted(t)[p]]
  BY <1>4, SortedIs DEF Lists
<1> QED BY <1>1, <1>2, <1>3, <1>7, <1>8

(***************************************************************************)
(* Carts have one hash exactly when their charges agree and so do their    *)
(* sorted lines in what is hashed of them.                                 *)
(***************************************************************************)
LEMMA HashBinds ==
  ASSUME NEW a, NEW n \in Nat, a.items \in [1 .. n -> LineType],
         NEW b, NEW m \in Nat, b.items \in [1 .. m -> LineType]
  PROVE  compute_cart_hash(a) = compute_cart_hash(b)
           <=> (SameCharges(a, b) /\ Sorted(Strip(a.items)) = Sorted(Strip(b.items)))
<1>1. PICK x : x = Sorted(Strip(a.items))
  OBVIOUS
<1>2. PICK y : y = Sorted(Strip(b.items))
  OBVIOUS
<1>3. PICK s : s = a.items
  OBVIOUS
<1>4. PICK t : t = b.items
  OBVIOUS
<1>5. /\ x = [p \in DOMAIN s |-> CanonicalLine(Sorted(s)[p])]
      /\ y = [p \in DOMAIN t |-> CanonicalLine(Sorted(t)[p])]
  BY <1>1, <1>2, <1>3, <1>4, SortingCommutes
<1>6. /\ compute_cart_hash(a) = [ shop |-> a.shop, subtotal |-> a.subtotal, shipping |-> a.shipping,
                                  tax |-> a.tax, discount |-> a.discount, total |-> a.total, items |-> x ]
      /\ compute_cart_hash(b) = [ shop |-> b.shop, subtotal |-> b.subtotal, shipping |-> b.shipping,
                                  tax |-> b.tax, discount |-> b.discount, total |-> b.total, items |-> y ]
  BY <1>3, <1>4, <1>5 DEF compute_cart_hash
<1> QED BY <1>1, <1>2, <1>6 DEF SameCharges

(***************************************************************************)
(* The copies of a line in a cart may be counted in its sorted list, and   *)
(* in what is hashed of it.                                                *)
(***************************************************************************)
LEMMA CopiesAre ==
  ASSUME NEW c, NEW n \in Nat, c.items \in [1 .. n -> LineType], NEW l \in LineType
  PROVE  /\ Copies(c, l) = Cardinality(Holding(Strip(c.items), n, CanonicalLine(l)))
         /\ Copies(c, l) = Cardinality(Holding(Sorted(Strip(c.items)), n, CanonicalLine(l)))
<1>1. PICK s : s = c.items
  OBVIOUS
<1>2. s \in [1 .. n -> LineType] /\ DOMAIN s = 1 .. n
  BY <1>1
<1>3. PICK t : t = Strip(s)
  OBVIOUS
<1>4. t \in [1 .. n -> HashedType] /\ \A i \in 1 .. n : t[i] = CanonicalLine(s[i])
  BY <1>2, <1>3, SortingCommutes DEF Strip
<1>5. t \in Lists(n)
  BY <1>4 DEF Lists
<1>6. PICK k : k = CanonicalLine(l)
  OBVIOUS
<1>7. \A i \in 1 .. n : Alike(s[i], l) <=> t[i] = k
  BY <1>2, <1>4, <1>6, HashedLines
<1>8. {i \in 1 .. n : Alike(s[i], l)} = Holding(t, n, k)
  BY <1>7 DEF Holding
<1>9. Copies(c, l) = Cardinality(Holding(t, n, k))
  BY <1>1, <1>2, <1>8 DEF Copies
<1>10. Cardinality(Holding(t, n, k)) = Cardinality(Holding(Sorted(t), n, k))
  BY <1>5, SortedKeepsCopies
<1> QED BY <1>1, <1>3, <1>6, <1>9, <1>10

-----------------------------------------------------------------------------
(* Consents.                                                               *)

IsCart(c) == \E n \in Nat : c.items \in [1 .. n -> CartLines]

\* The consent holds the hash of the cart it was asked for.
CartInv ==
  /\ current = NoCart \/ IsCart(current)
  /\ \/ consent = NoConsent
     \/ /\ IsCart(current) /\ IsCart(approved)
        /\ DOMAIN consent = {"hash", "amount", "status", "expires"}
        /\ consent.hash = compute_cart_hash(approved)

(***************************************************************************)
(* Pricing again touches the current cart alone, and a consent is only     *)
(* asked for a cart that was priced.                                       *)
(***************************************************************************)
LEMMA CartInvariant == CartSpec => []CartInv
<1>1. CartInit => CartInv
  BY DEF CartInit, CartInv
<1>2. CartInv /\ [CartNext]_cartVars => CartInv'
  <2> SUFFICES ASSUME CartInv, [CartNext]_cartVars PROVE CartInv'
    OBVIOUS
  <2>1. ASSUME NEW shop \in CartShops, NEW n \in 1 .. MaxLines, NEW x \in CartCharges,
               NEW items \in [1 .. n -> CartLines], PriceCart(shop, items, x)
        PROVE  CartInv'
    <3>1. current'.items = items
      BY <2>1 DEF PriceCart, NewCart
    <3>2. n \in Nat
      BY CartAssumption
    <3>3. IsCart(current)'
      BY <3>1, <3>2 DEF IsCart
    <3>4. consent' = consent /\ approved' = approved
      BY <2>1 DEF PriceCart
    <3> QED BY <3>3, <3>4 DEF CartInv, IsCart
  <2>2. ASSUME NEW amount \in ConsentAmounts, NEW term \in ConsentTerms, AskConsent(amount, term)
        PROVE  CartInv'
    <3>1. current' = current /\ approved' = current /\ current # NoCart
      BY <2>2 DEF AskConsent
    <3>2. /\ DOMAIN consent' = {"hash", "amount", "status", "expires"}
          /\ consent'.hash = compute_cart_hash(current)
      <4>1. PICK h : h = compute_cart_hash(current)
        OBVIOUS
      <4>2. PICK e : e = IF term = NoExpiry THEN NoExpiry ELSE cartTime + term
        OBVIOUS
      <4>3. consent' = [hash |-> h, amount |-> amount, status |-> "pending", expires |-> e]
        BY <2>2, <4>1, <4>2 DEF AskConsent
      <4> QED BY <4>1, <4>3
    <3>3. IsCart(current)
      BY <3>1 DEF CartInv
    <3> QED BY <3>1, <3>2, <3>3 DEF CartInv, IsCart, compute_cart_hash
  <2>3. ASSUME NEW s \in {"approved", "rejected"}, Settle(s) PROVE CartInv'
    <3>1. consent # NoConsent
      BY <2>3 DEF Settle, NoConsent
    <3>2. current' = current /\ approved' = approved
      BY <2>3 DEF Settle
    <3>3. DOMAIN consent' = DOMAIN consent /\ consent'.hash = consent.hash
      BY <2>3 DEF Settle
    <3> QED BY <3>1, <3>2, <3>3 DEF CartInv, IsCart, compute_cart_hash
  <2>4. CASE CartTick
    BY <2>4 DEF CartTick, CartInv, IsCart, compute_cart_hash
  <2>5. CASE UNCHANGED cartVars
    BY <2>5 DEF cartVars, CartInv, IsCart, compute_cart_hash
  <2> QED BY <2>1, <2>2, <2>3, <2>4, <2>5 DEF CartNext
<1> QED BY <1>1, <1>2, PTL DEF CartSpec

(***************************************************************************)
(* What the properties need to know of a state with a consent.             *)
(***************************************************************************)
LEMMA ConsentKnows ==
  ASSUME CartInv, consent # NoConsent
  PROVE  /\ consent.hash = compute_cart_hash(approved)
         /\ \E n \in Nat : current.items \in [1 .. n -> CartLines] /\ current.items \in [1 .. n -> LineType]
         /\ \E m \in Nat : approved.items \in [1 .. m -> CartLines] /\ approved.items \in [1 .. m -> LineType]
BY LineAssumption DEF CartInv, IsCart

(***************************************************************************)
(* A consent that is valid and matches was given for a cart with these     *)
(* charges and, in every hashed field, these lines.                        *)
(***************************************************************************)
THEOREM ConsentsBindCarts == CartSpec => []ConsentBindsCart
<1>1. CartInv => ConsentBindsCart
  <2> SUFFICES ASSUME CartInv, consent.status = "approved", matches_cart
               PROVE  SameCart(current, approved)
    BY DEF ConsentBindsCart, is_valid
  <2>1. consent # NoConsent
    BY DEF NoConsent
  <2>2. PICK n \in Nat : current.items \in [1 .. n -> LineType]
    BY <2>1, ConsentKnows
  <2>3. PICK m \in Nat : approved.items \in [1 .. m -> LineType]
    BY <2>1, ConsentKnows
  <2>4. compute_cart_hash(current) = compute_cart_hash(approved)
    BY <2>1, ConsentKnows DEF matches_cart
  <2>5. SameCharges(current, approved) /\ Sorted(Strip(current.items)) = Sorted(Strip(approved.items))
    BY <2>2, <2>3, <2>4, HashBinds
  <2>6. n = m
    <3>1. PICK s : s = Strip(current.items)
      OBVIOUS
    <3>2. PICK t : t = Strip(approved.items)
      OBVIOUS
    <3>3. s \in Lists(n) /\ t \in Lists(m)
      BY <2>2, <2>3, <3>1, <3>2, SortingCommutes DEF Lists
    <3>4. DOMAIN Sorted(s) = 1 .. n /\ DOMAIN Sorted(t) = 1 .. m
      BY <3>3, SortedIs DEF Lists
    <3>5. 1 .. n = 1 .. m
      BY <2>5, <3>1, <3>2, <3>4
    <3>6. Cardinality(1 .. n) = n /\ Cardinality(1 .. m) = m
      BY PositionsAreFinite
    <3> QED BY <3>5, <3>6
  <2>7. ASSUME NEW l \in CartLines PROVE Copies(current, l) = Copies(approved, l)
    <3>1. l \in LineType
      BY LineAssumption
    <3>2. Copies(current, l) = Cardinality(Holding(Sorted(Strip(current.items)), n, CanonicalLine(l)))
      BY <2>2, <3>1, CopiesAre
    <3>3. Copies(approved, l) = Cardinality(Holding(Sorted(Strip(approved.items)), m, CanonicalLine(l)))
      BY <2>3, <3>1, CopiesAre
    <3> QED BY <2>5, <2>6, <3>2, <3>3
  <2> QED BY <2>5, <2>7 DEF SameCart
<1> QED BY <1>1, CartInvariant, PTL

(***************************************************************************)
(* Listing the lines in another order does not cost the user's consent.    *)
(***************************************************************************)
THEOREM ReorderingIsHarmless == CartSpec => []ReorderingKeepsConsent
<1>1. CartInv => ReorderingKeepsConsent
  <2> SUFFICES ASSUME CartInv, consent # NoConsent, SameCart(current, approved),
                      \A i, j \in DOMAIN current.items :
                        current.items[i].sku = current.items[j].sku => i = j
               PROVE  matches_cart
    BY DEF ReorderingKeepsConsent
  <2>1. PICK n \in Nat : current.items \in [1 .. n -> CartLines] /\ current.items \in [1 .. n -> LineType]
    BY ConsentKnows
  <2>2. PICK m \in Nat : approved.items \in [1 .. m -> CartLines] /\ approved.items \in [1 .. m -> LineType]
    BY ConsentKnows
  <2>3. PICK s : s = Strip(current.items)
    OBVIOUS
  <2>4. PICK t : t = Strip(approved.items)
    OBVIOUS
  <2>5. HashedOf \subseteq HashedType
    BY HashedLines, LineAssumption DEF HashedOf
  <2>6. s \in [1 .. n -> HashedOf] /\ t \in [1 .. m -> HashedOf]
    <3>1. DOMAIN current.items = 1 .. n /\ DOMAIN approved.items = 1 .. m
      BY <2>1, <2>2
    <3>2. /\ \A i \in 1 .. n : CanonicalLine(current.items[i]) \in HashedOf
          /\ \A i \in 1 .. m : CanonicalLine(approved.items[i]) \in HashedOf
      BY <2>1, <2>2 DEF HashedOf
    <3> QED BY <2>3, <2>4, <3>1, <3>2 DEF Strip
  <2>7. \A k \in HashedOf : Cardinality(Holding(s, n, k)) = Cardinality(Holding(t, m, k))
    <3> SUFFICES ASSUME NEW l \in CartLines
                 PROVE  Cardinality(Holding(s, n, CanonicalLine(l)))
                          = Cardinality(Holding(t, m, CanonicalLine(l)))
      BY DEF HashedOf
    <3>1. l \in LineType /\ Copies(current, l) = Copies(approved, l)
      BY LineAssumption DEF SameCart
    <3>2. Copies(current, l) = Cardinality(Holding(s, n, CanonicalLine(l)))
      BY <2>1, <2>3, <3>1, CopiesAre
    <3>3. Copies(approved, l) = Cardinality(Holding(t, m, CanonicalLine(l)))
      BY <2>2, <2>4, <3>1, CopiesAre
    <3> QED BY <3>1, <3>2, <3>3
  <2>8. \A i, j \in 1 .. n : s[i].sku = s[j].sku => i = j
    <3>1. DOMAIN current.items = 1 .. n /\ \A i \in 1 .. n : current.items[i] \in LineType
      BY <2>1
    <3>2. \A i \in 1 .. n : s[i] = CanonicalLine(current.items[i])
      BY <2>3, <3>1 DEF Strip
    <3>3. \A i \in 1 .. n : s[i].sku = current.items[i].sku
      BY <3>1, <3>2, HashedLines
    <3> QED BY <3>1, <3>3
  <2>9. Sorted(s) = Sorted(t)
    BY <2>5, <2>6, <2>7, <2>8, SameLinesSortAlike
  <2>10. compute_cart_hash(current) = compute_cart_hash(approved)
    BY <2>1, <2>2, <2>3, <2>4, <2>9, HashBinds DEF SameCart
  <2> QED BY <2>10, ConsentKnows DEF matches_cart
<1> QED BY <1>1, CartInvariant, PTL
=============================================================================
