------------------------ MODULE BatchDiscoveryProofs ------------------------
(***************************************************************************)
(* A transfer gets its whole matrix or its batch was damaged, keeps what it *)
(* was created with, and is not passed over by a cursor, for any batches,   *)
(* cabinets and instances, whatever fails or restarts.                      *)
(***************************************************************************)
EXTENDS BatchDiscovery, FiniteSetTheorems, SequenceTheorems, TLAPS

-----------------------------------------------------------------------------
(* Sequences by their places. *)

\* The places of a sequence are counted without gaps: a query with ORDER BY
\* returns each of its rows at one position.
LEMMA PlaceOfRank ==
    ASSUME NEW n \in Nat, NEW places \in SUBSET (1..n)
    PROVE  /\ IsFiniteSet(places)
           /\ Cardinality(places) \in Nat
           /\ \A i \in places :
                 Rank(i, places) \in 1..Cardinality(places)
           /\ \A i, k \in places :
                 Rank(i, places) = Rank(k, places) => i = k
           /\ \A k \in 1..Cardinality(places) :
                 \E i \in places : Rank(i, places) = k
<1>0. \A j \in places : j \in Nat
  BY SMT
<1> DEFINE upto(i) == {j \in places : j <= i}
<1> DEFINE rank == [i \in places |-> Cardinality(upto(i))]
<1>1. IsFiniteSet(places) /\ Cardinality(places) \in Nat
  <2>1. IsFiniteSet(1..n)
    BY FS_Interval
  <2>2. IsFiniteSet(places)
    BY <2>1, FS_Subset
  <2>3. QED
    BY <2>2, FS_CardinalityType
<1>2. ASSUME NEW i \in places
      PROVE  /\ IsFiniteSet(upto(i))
             /\ Cardinality(upto(i)) \in 1..Cardinality(places)
  <2>1. upto(i) \in SUBSET places /\ i \in upto(i)
    OBVIOUS
  <2>2. IsFiniteSet(upto(i)) /\ Cardinality(upto(i)) <= Cardinality(places)
    BY <1>1, <2>1, FS_Subset
  <2>3. Cardinality(upto(i)) \in Nat /\ Cardinality(upto(i)) # 0
    BY <2>1, <2>2, FS_CardinalityType, FS_EmptySet
  <2>4. QED
    BY <1>1, <2>2, <2>3
<1>3. ASSUME NEW i \in places, NEW k \in places, i < k
      PROVE  Cardinality(upto(i)) < Cardinality(upto(k))
  <2>1. /\ \A j \in upto(i) : j \in upto(k)
        /\ k \in upto(k) /\ k \notin upto(i)
    BY <1>0, <1>3, SMT
  <2>2. IsFiniteSet(upto(k))
    BY <1>2
  <2>3. Cardinality(upto(i)) <= Cardinality(upto(k))
    BY <2>1, <2>2, FS_Subset
  <2>6. Cardinality(upto(i)) # Cardinality(upto(k))
    <3>1. upto(i) # upto(k)
      BY <2>1
    <3> HIDE DEF upto
    <3>2. QED
      BY <2>1, <2>2, <3>1, FS_Subset
  <2>4. Cardinality(upto(i)) \in Nat /\ Cardinality(upto(k)) \in Nat
    BY <1>1, <1>2
  <2>5. QED
    BY <2>3, <2>4, <2>6
<1>4. ASSUME NEW i \in places, NEW k \in places, Cardinality(upto(i)) = Cardinality(upto(k))
      PROVE  i = k
  <2>1. i \in Nat /\ k \in Nat /\ Cardinality(upto(i)) \in Nat
    BY <1>1, <1>2
  <2>2. ~(i < k) /\ ~(k < i)
    BY <1>3, <1>4, <2>1
  <2>3. QED
    BY <2>1, <2>2
<1>5. rank \in Injection(places, 1..Cardinality(places))
  BY <1>2, <1>4 DEF Injection, IsInjective
<1>6. IsFiniteSet(1..Cardinality(places)) /\ Cardinality(1..Cardinality(places)) = Cardinality(places)
  BY <1>1, FS_Interval
<1>7. rank \in Surjection(places, 1..Cardinality(places))
  BY <1>5, <1>6, FS_Injection
<1>8. \A k \in 1..Cardinality(places) : \E i \in places : Cardinality(upto(i)) = k
  BY <1>7 DEF Surjection
<1>9. \A i \in places : Rank(i, places) = Cardinality(upto(i))
  BY DEF Rank
<1> HIDE DEF upto
<1>10. /\ \A i \in places : Rank(i, places) \in 1..Cardinality(places)
       /\ \A i, k \in places : Rank(i, places) = Rank(k, places) => i = k
  BY <1>2, <1>4, <1>9
<1>11. \A k \in 1..Cardinality(places) : \E i \in places : Rank(i, places) = k
  BY <1>8, <1>9
<1>12. QED
  BY <1>1, <1>10, <1>11

\* What a query returns: the rows at the chosen places, each once, none else.
LEMMA ElementsAtPlaces ==
    ASSUME NEW S, NEW s \in Seq(S), NEW places \in SUBSET DOMAIN s
    PROVE  /\ ElementsAt(s, places) \in Seq(S)
           /\ Len(ElementsAt(s, places)) = Cardinality(places)
           /\ \A i \in places : \E k \in 1..Cardinality(places) :
                 /\ k = Rank(i, places)
                 /\ ElementsAt(s, places)[k] = s[i]
           /\ \A k \in 1..Cardinality(places) : \E i \in places :
                 /\ k = Rank(i, places)
                 /\ ElementsAt(s, places)[k] = s[i]
<1>1. Len(s) \in Nat /\ DOMAIN s = 1..Len(s) /\ \A i \in DOMAIN s : s[i] \in S
  BY LenProperties, ElementOfSeq
<1>2. PICK n \in Nat : n = Cardinality(places)
  BY <1>1, PlaceOfRank
<1>3. \A k \in 1..n :
         LET i == CHOOSE i \in places : Rank(i, places) = k
         IN  i \in places /\ Rank(i, places) = k
  BY <1>1, <1>2, PlaceOfRank
<1>4. PICK e : e = ElementsAt(s, places)
  OBVIOUS
<1>5. /\ e \in [1..n -> S]
      /\ \A k \in 1..n : \E i \in places :
            k = Rank(i, places) /\ e[k] = s[i]
  BY <1>1, <1>2, <1>3, <1>4 DEF ElementsAt
<1>6. e \in Seq(S) /\ Len(e) = n
  BY <1>5
<1>7. \A i \in places : \E k \in 1..n :
         k = Rank(i, places) /\ e[k] = s[i]
  <2>1. SUFFICES ASSUME NEW i \in places
                 PROVE  Rank(i, places) \in 1..n /\ e[Rank(i, places)] = s[i]
    OBVIOUS
  <2>2. Rank(i, places) \in 1..n
    BY <1>1, <1>2, PlaceOfRank
  <2>3. PICK j \in places : Rank(i, places) = Rank(j, places) /\ e[Rank(i, places)] = s[j]
    BY <1>5, <2>2
  <2>4. i = j
    BY <1>1, <2>3, PlaceOfRank
  <2>5. QED
    BY <2>2, <2>3, <2>4
<1>8. QED
  BY <1>2, <1>4, <1>5, <1>6, <1>7

-----------------------------------------------------------------------------
(* The index arithmetic of the matrix. *)

LEMMA ProductMonotone ==
    ASSUME NEW T \in Nat, NEW a \in Nat, NEW b \in Nat, a <= b
    PROVE  a * T \in Nat /\ b * T \in Nat /\ a * T <= b * T
<1>1. PICK c \in Nat : b = a + c
  <2>1. b - a \in Nat
    OBVIOUS
  <2>2. QED
    BY <2>1
<1>2. a * T \in Nat /\ c * T \in Nat /\ b * T = a * T + c * T
  BY <1>1
<1>3. QED
  BY <1>2

\* A number splits into quotient and remainder in one way.
LEMMA DivMod ==
    ASSUME NEW T \in Nat \ {0}, NEW k \in Nat
    PROVE  /\ k \div T \in Nat /\ k % T \in 0..T - 1
           /\ k = (k \div T) * T + (k % T)
  OBVIOUS

LEMMA DivModUnique ==
    ASSUME NEW T \in Nat \ {0}, NEW q \in Nat, NEW r \in 0..T - 1
    PROVE  /\ q * T + r \in Nat
           /\ (q * T + r) \div T = q
           /\ (q * T + r) % T = r
<1>1. q * T \in Nat
  BY ProductMonotone
<1>2. PICK k \in Nat : k = q * T + r
  BY <1>1
<1>3. PICK p, s : p = k \div T /\ s = k % T
  OBVIOUS
<1>4. p \in Nat /\ s \in 0..T - 1 /\ k = p * T + s
  BY <1>3, DivMod
<1>5. ~(p < q)
  <2>1. SUFFICES ASSUME p < q PROVE FALSE
    OBVIOUS
  <2>2. (p + 1) * T <= q * T /\ p * T \in Nat /\ (p + 1) * T = p * T + T
    BY <1>4, <2>1, ProductMonotone
  <2>3. QED
    BY <1>1, <1>2, <1>4, <2>2
<1>6. ~(q < p)
  <2>1. SUFFICES ASSUME q < p PROVE FALSE
    OBVIOUS
  <2>2. (q + 1) * T <= p * T /\ p * T \in Nat /\ (q + 1) * T = q * T + T
    BY <1>4, <2>1, ProductMonotone
  <2>3. QED
    BY <1>1, <1>2, <1>4, <2>2
<1>7. p = q /\ s = r
  BY <1>1, <1>2, <1>4, <1>5, <1>6
<1>8. QED
  BY <1>2, <1>3, <1>7

LEMMA DivBelow ==
    ASSUME NEW T \in Nat \ {0}, NEW N \in Nat
    PROVE  /\ N * T \in Nat
           /\ \A k \in 0..N * T - 1 : k \div T \in 0..N - 1
           /\ \A q \in 0..N - 1, r \in 0..T - 1 : q * T + r \in 0..N * T - 1
<1>1. N * T \in Nat
  BY ProductMonotone
<1>2. ASSUME NEW k \in 0..N * T - 1 PROVE k \div T \in 0..N - 1
  <2>1. PICK p : p = k \div T
    OBVIOUS
  <2>2. k \in Nat
    BY <1>1
  <2>3. p \in Nat /\ k % T \in 0..T - 1 /\ k = p * T + (k % T)
    BY <2>1, <2>2, DivMod
  <2>4. ASSUME p >= N PROVE FALSE
    <3>1. N * T <= p * T /\ p * T \in Nat
      BY <2>3, <2>4, ProductMonotone
    <3>2. QED
      BY <1>1, <2>2, <2>3, <3>1
  <2>5. QED
    BY <2>1, <2>3, <2>4
<1>3. ASSUME NEW q \in 0..N - 1, NEW r \in 0..T - 1 PROVE q * T + r \in 0..N * T - 1
  <2>1. (q + 1) * T <= N * T /\ q * T \in Nat /\ (q + 1) * T = q * T + T
    BY ProductMonotone
  <2>2. QED
    BY <1>1, <2>1
<1>4. QED
  BY <1>1, <1>2, <1>3


\* Each quotient and remainder have their number.
LEMMA IndexOf ==
    ASSUME NEW T \in Nat \ {0}, NEW n \in Nat, NEW q \in 0..n - 1, NEW r \in 0..T - 1
    PROVE  \E k \in 0..n * T - 1 : k = q * T + r /\ k \div T = q /\ k % T = r
<1>1. q \in Nat
  OBVIOUS
<1>2. PICK k : k = q * T + r
  OBVIOUS
<1>3. k \div T = q /\ k % T = r
  BY <1>1, <1>2, DivModUnique
<1>4. k \in 0..n * T - 1
  BY <1>2, DivBelow
<1>5. QED
  BY <1>2, <1>3, <1>4, Zenon

-----------------------------------------------------------------------------
(* What an instance reads of a batch. *)

IsSlice(e, s, a, c) ==
    /\ Len(e) = c - a + 1
    /\ \A k \in 1..c - a + 1 : e[k] = s[a + k - 1]

LEMMA IntervalElements ==
    ASSUME NEW S, NEW s \in Seq(S), NEW a \in Nat \ {0}, NEW c \in Nat,
           c <= Len(s), a <= c + 1
    PROVE  IsSlice(ElementsAt(s, a..c), s, a, c)
<1>1. Len(s) \in Nat /\ DOMAIN s = 1..Len(s)
  BY LenProperties
<1>2. a..c \in SUBSET DOMAIN s
  BY <1>1
<1>3. Cardinality(a..c) = c - a + 1
  <2>1. Cardinality(a..c) = IF a > c THEN 0 ELSE c - a + 1
    BY FS_Interval
  <2>2. QED
    BY <2>1
<1>4. ASSUME NEW i \in a..c PROVE Rank(i, a..c) = i - a + 1
  <2>1. {j \in a..c : j <= i} = a..i
    OBVIOUS
  <2>2. Cardinality(a..i) = i - a + 1
    BY FS_Interval
  <2>3. QED
    BY <2>1, <2>2 DEF Rank
<1>5. PICK e : e = ElementsAt(s, a..c)
  OBVIOUS
<1>6. /\ e \in Seq(S)
      /\ Len(e) = Cardinality(a..c)
      /\ \A k \in 1..Cardinality(a..c) : \E i \in a..c : k = Rank(i, a..c) /\ e[k] = s[i]
  BY <1>2, <1>5, ElementsAtPlaces
<1>7. ASSUME NEW k \in 1..c - a + 1 PROVE e[k] = s[a + k - 1]
  <2>1. PICK i \in a..c : k = Rank(i, a..c) /\ e[k] = s[i]
    BY <1>3, <1>6
  <2>2. i = a + k - 1
    BY <1>4, <2>1
  <2>3. QED
    BY <2>1, <2>2
<1>8. QED
  BY <1>3, <1>5, <1>6, <1>7 DEF IsSlice

LEMMA LeastPlace ==
    ASSUME NEW n \in Nat, NEW places \in SUBSET (1..n), places # {}
    PROVE  \E i \in places : \A j \in places : i <= j
<1>0. \A j \in places : j \in Nat
  BY SMT
<1>1. /\ IsFiniteSet(places)
      /\ Cardinality(places) \in Nat
      /\ \A i \in places : Rank(i, places) \in 1..Cardinality(places)
      /\ \A i, k \in places : Rank(i, places) = Rank(k, places) => i = k
      /\ \A k \in 1..Cardinality(places) : \E i \in places : Rank(i, places) = k
  BY PlaceOfRank
<1>2. PICK i \in places : Rank(i, places) = 1
  <2>1. Cardinality(places) # 0
    BY <1>1, FS_EmptySet
  <2>2. 1 \in 1..Cardinality(places)
    BY <1>1, <2>1
  <2>3. QED
    BY <1>1, <2>2
<1>3. ASSUME NEW j \in places, j < i PROVE FALSE
  <2> DEFINE upto(m) == {l \in places : l <= m}
  <2>1. \A l \in upto(j) : l \in upto(i)
    BY <1>0, <1>3, SMT
  <2>2. \A l \in upto(i) : l \in places
    OBVIOUS
  <2>3. /\ Rank(i, places) = Cardinality(upto(i))
        /\ Rank(j, places) = Cardinality(upto(j))
    BY DEF Rank
  <2> HIDE DEF upto
  <2>4. IsFiniteSet(upto(i))
    BY <1>1, <2>2, FS_Subset
  <2>5. Cardinality(upto(j)) <= Cardinality(upto(i))
    BY <2>1, <2>4, FS_Subset
  <2>6. Rank(j, places) = 1
    BY <1>1, <1>2, <2>3, <2>5
  <2>7. j = i
    BY <1>1, <1>2, <2>6
  <2>8. QED
    BY <1>0, <1>3, <2>7
<1>4. QED
  BY <1>0, <1>2, <1>3


\* N rows of items without a gap.
NumberedTo(N, rows) == Len(rows) = N /\ \A i \in 1..N : rows[i].position = i

LEMMA PageOfRows ==
    ASSUME NEW S, NEW N \in Nat, NEW rows \in Seq(S), NumberedTo(N, rows),
           NEW after \in 0..N,
           NEW c \in after..N,
           c = IF after + ItemPageSize <= N THEN after + ItemPageSize ELSE N
    PROVE  /\ Len(Page(rows, after)) = c - after
           /\ \A k \in 1..c - after : Page(rows, after)[k] = rows[after + k]
<1>1. ItemPageSize \in Nat
  BY ConstantsAssumption
<1>2. /\ after + 1 \in Nat \ {0} /\ c \in Nat /\ c <= N /\ after + 1 <= c + 1
      /\ c - (after + 1) + 1 = c - after
  BY <1>1
<1>3. ASSUME NEW i \in 1..N
      PROVE  i \in after + 1 .. after + ItemPageSize <=> i \in after + 1 .. c
  <2>1. CASE after + ItemPageSize <= N
    BY <1>1, <2>1
  <2>2. CASE after + ItemPageSize > N
    BY <1>1, <2>2
  <2>3. QED
    BY <1>1, <2>1, <2>2
<1>4. \A i \in after + 1 .. c : i \in 1..N
  BY <1>2
<1>5. /\ Len(rows) = N /\ DOMAIN rows = 1..N
      /\ \A i \in 1..N : rows[i].position = i
  BY LenProperties DEF NumberedTo
<1>6. {i \in DOMAIN rows : rows[i].position \in after + 1 .. after + ItemPageSize} = after + 1 .. c
  BY <1>3, <1>4, <1>5
<1>7. PICK first \in Nat \ {0} : first = after + 1
  BY <1>2
<1>8. PICK page : page = ElementsAt(rows, first..c)
  OBVIOUS
<1>9. /\ Len(page) = c - first + 1
      /\ \A k \in 1..c - first + 1 : page[k] = rows[first + k - 1]
  <2>1. c <= Len(rows) /\ first <= c + 1
    BY <1>2, <1>5, <1>7
  <2>2. c \in Nat
    BY <1>2
  <2>3. IsSlice(page, rows, first, c)
    BY <1>8, <2>1, <2>2, IntervalElements
  <2>4. QED
    BY <2>3 DEF IsSlice
<1>12. ASSUME NEW k \in 1..c - after PROVE page[k] = rows[after + k]
  <2>1. page[k] = rows[first + k - 1]
    BY <1>2, <1>7, <1>9
  <2>2. first + k - 1 = after + k
    BY <1>2, <1>7
  <2>3. QED
    BY <2>1, <2>2
<1>10. page = Page(rows, after)
  BY <1>6, <1>7, <1>8 DEF Page
<1>11. QED
  BY <1>2, <1>7, <1>9, <1>10, <1>12

LEMMA StoredRows ==
    ASSUME NEW b \in Batches
    PROVE  /\ Len(Items[b]) \in Nat \ {0}
           /\ StoredItems(b) \in Seq([position : Nat, group : ToSet(Items[b])])
           /\ b \notin Damaged =>
                 /\ NumberedTo(Len(Items[b]), StoredItems(b))
                 /\ \A i \in 1..Len(Items[b]) : StoredItems(b)[i].group = Items[b][i]
           /\ b \in Damaged =>
                 /\ Len(StoredItems(b)) = Len(Items[b]) - 1
                 /\ \A i \in 1..Len(Items[b]) - 1 : StoredItems(b)[i].position = i + 1
<1> DEFINE Row == [position : Nat, group : ToSet(Items[b])]
<1>1. Items[b] \in Seq(ToSet(Items[b])) /\ Items[b] # <<>>
  BY ConstantsAssumption
<1>2. PICK N \in Nat \ {0} : N = Len(Items[b])
  BY <1>1, EmptySeq
<1>3. \A i \in 1..N : Items[b][i] \in ToSet(Items[b])
  BY <1>1, <1>2, ElementOfSeq
<1>4. PICK rows : rows = [i \in 1..N |-> [position |-> i, group |-> Items[b][i]]]
  OBVIOUS
<1>5. /\ rows \in Seq(Row) /\ Len(rows) = N
      /\ \A i \in 1..N : rows[i].position = i /\ rows[i].group = Items[b][i]
  <2>1. rows \in [1..N -> Row]
    BY <1>3, <1>4
  <2>2. QED
    BY <1>4, <2>1
<1>6. StoredItems(b) = IF b \in Damaged THEN Tail(rows) ELSE rows
  BY <1>2, <1>4 DEF StoredItems
<1>7. /\ Tail(rows) \in Seq(Row) /\ Len(Tail(rows)) = N - 1
      /\ \A i \in 1..N - 1 : Tail(rows)[i] = rows[i + 1]
  <2> HIDE DEF Row
  <2>1. rows # <<>>
    BY <1>5, EmptySeq
  <2>2. QED
    BY <1>5, <2>1, HeadTailProperties
<1>8. \A i \in 1..N - 1 : Tail(rows)[i].position = i + 1
  <2>1. \A i \in 1..N - 1 : i + 1 \in 1..N
    OBVIOUS
  <2>2. QED
    BY <1>5, <1>7, <2>1
<1>9. CASE b \in Damaged
  BY <1>2, <1>6, <1>7, <1>8, <1>9
<1>10. CASE b \notin Damaged
  BY <1>2, <1>5, <1>6, <1>10 DEF NumberedTo
<1>11. QED
  BY <1>9, <1>10


\* The n-th page of a batch is the first that is short.
ShortFirst(b, n) ==
    /\ Len(Page(StoredItems(b), n * ItemPageSize)) < ItemPageSize
    /\ \A m \in 0..n - 1 : Len(Page(StoredItems(b), m * ItemPageSize)) = ItemPageSize

LEMMA ReadToShortPage ==
    ASSUME NEW b \in Batches, NEW n \in 0..Len(StoredItems(b)), ShortFirst(b, n)
    PROVE  ReadAllBatchItems(b) =
             [i \in 1..n * ItemPageSize + Len(Page(StoredItems(b), n * ItemPageSize)) |->
                 Page(StoredItems(b), ((i - 1) \div ItemPageSize) * ItemPageSize)
                     [((i - 1) % ItemPageSize) + 1]]
<1> DEFINE L == Len(StoredItems(b))
<1>1. L \in Nat
  BY StoredRows, LenProperties
<1>2. PICK last : last = CHOOSE m \in 0..L : ShortFirst(b, m)
  OBVIOUS
<1>3. last \in 0..L /\ ShortFirst(b, last)
  BY <1>2
<1>4. last = n
  <2>1. ~(last < n)
    <3>1. last < n => last \in 0..n - 1
      BY <1>1, <1>3
    <3>2. QED
      BY <1>3, <3>1, ConstantsAssumption DEF ShortFirst
  <2>2. ~(n < last)
    <3>1. n < last => n \in 0..last - 1
      BY <1>1, <1>3
    <3>2. QED
      BY <1>3, <3>1, ConstantsAssumption DEF ShortFirst
  <2>3. last \in Nat /\ n \in Nat
    BY <1>1, <1>3
  <2>4. QED
    BY <2>1, <2>2, <2>3
<1>5. ReadAllBatchItems(b) =
        [i \in 1..last * ItemPageSize + Len(Page(StoredItems(b), last * ItemPageSize)) |->
            Page(StoredItems(b), ((i - 1) \div ItemPageSize) * ItemPageSize)
                [((i - 1) % ItemPageSize) + 1]]
  BY <1>2 DEF ReadAllBatchItems, ShortFirst
<1>6. QED
  BY <1>4, <1>5

LEMMA CountUpTo ==
    ASSUME NEW n \in Nat
    PROVE  IsFiniteSet(1..n) /\ Cardinality(1..n) = n
<1>1. IsFiniteSet(1..n) /\ Cardinality(1..n) = IF 1 > n THEN 0 ELSE n - 1 + 1
  BY FS_Interval
<1>2. QED
  BY <1>1

\* A damaged batch is short at once.
LEMMA DamagedIsInconsistent ==
    ASSUME NEW b \in Batches, b \in Damaged
    PROVE  ~Consistent(b)
<1>1. /\ Len(Items[b]) \in Nat \ {0}
      /\ StoredItems(b) \in Seq([position : Nat, group : ToSet(Items[b])])
      /\ Len(StoredItems(b)) = Len(Items[b]) - 1
      /\ \A i \in 1..Len(Items[b]) - 1 : StoredItems(b)[i].position = i + 1
  BY StoredRows
<1>2. PICK places : places = {i \in DOMAIN StoredItems(b) :
                                StoredItems(b)[i].position \in 0 + 1 .. 0 + ItemPageSize}
  OBVIOUS
<1>3. DOMAIN StoredItems(b) = 1..Len(Items[b]) - 1
  BY <1>1, LenProperties
<1>4. ItemPageSize \in Nat \ {0}
  BY ConstantsAssumption
<1>5. PICK m \in Nat, q \in Nat : m + 1 = Len(Items[b]) /\ q + 1 = ItemPageSize
  <2>1. /\ Len(Items[b]) - 1 \in Nat /\ (Len(Items[b]) - 1) + 1 = Len(Items[b])
        /\ ItemPageSize - 1 \in Nat /\ (ItemPageSize - 1) + 1 = ItemPageSize
    <3>1. Len(Items[b]) \in Nat \ {0}
      BY <1>1
    <3>2. QED
      BY <1>4, <3>1
  <2>2. QED
    BY <2>1
<1>13. ASSUME NEW i \in places PROVE i \in 1..m /\ i \in 1..q
  <2>1. i \in 1..m
    BY <1>2, <1>3, <1>5
  <2>2. StoredItems(b)[i].position = i + 1
    BY <1>1, <1>5, <2>1
  <2>3. i + 1 \in 0 + 1 .. 0 + ItemPageSize
    BY <1>2, <2>2
  <2>4. QED
    BY <1>4, <1>5, <2>1, <2>3
<1>6. /\ Cardinality(places) \in Nat
      /\ Cardinality(places) < Len(Items[b])
      /\ Cardinality(places) < ItemPageSize
  <2>1. /\ IsFiniteSet(1..m) /\ Cardinality(1..m) = m
        /\ IsFiniteSet(1..q) /\ Cardinality(1..q) = q
    BY CountUpTo
  <2>2. Cardinality(places) <= m /\ Cardinality(places) <= q /\ IsFiniteSet(places)
    BY <1>13, <2>1, FS_Subset
  <2>3. Cardinality(places) \in Nat
    BY <2>2, FS_CardinalityType
  <2>4. QED
    BY <1>5, <2>2, <2>3
<1>7. Len(Page(StoredItems(b), 0)) = Cardinality(places)
  <2>1. \A i \in places : i \in DOMAIN StoredItems(b)
    BY <1>2
  <2>2. Page(StoredItems(b), 0) = ElementsAt(StoredItems(b), places)
    BY <1>2 DEF Page
  <2>3. QED
    BY <1>1, <2>1, <2>2, ElementsAtPlaces
<1>8. 0 * ItemPageSize = 0 /\ 0 \in 0..Len(StoredItems(b)) /\ 0..0 - 1 = {}
  BY <1>1, <1>4
<1>9. ShortFirst(b, 0)
  BY <1>6, <1>7, <1>8 DEF ShortFirst
<1>10. PICK f : /\ ReadAllBatchItems(b) = f
                /\ f = [i \in 1..Cardinality(places) |->
                          Page(StoredItems(b), ((i - 1) \div ItemPageSize) * ItemPageSize)
                              [((i - 1) % ItemPageSize) + 1]]
  BY <1>6, <1>7, <1>8, <1>9, ReadToShortPage
<1>11. Len(f) = Cardinality(places)
  BY <1>6, <1>10
<1>12. QED
  BY <1>6, <1>10, <1>11 DEF Consistent


\* The page after a position holds so many of the rows that follow it.
PageHolds(b, after, length) ==
    /\ Len(Page(StoredItems(b), after)) = length
    /\ \A k \in 1..length : Page(StoredItems(b), after)[k] = StoredItems(b)[after + k]

\* The pages of a sound batch are full before the last, which holds the rest.
LEMMA SoundPage ==
    ASSUME NEW b \in Batches \ Damaged, NEW N \in Nat, N = Len(Items[b]), NEW m \in Nat,
           NEW P, P = ItemPageSize,
           m * P \in 0..N
    PROVE  /\ (m + 1) * P <= N => PageHolds(b, m * P, P)
           /\ (m + 1) * P > N => PageHolds(b, m * P, N - m * P)
<1>1. /\ StoredItems(b) \in Seq([position : Nat, group : ToSet(Items[b])])
      /\ NumberedTo(N, StoredItems(b))
  BY StoredRows
<1>2. PICK after \in 0..N : after = m * P
  OBVIOUS
<1>3. (m + 1) * P = after + P /\ P \in Nat
  <2>1. P \in Nat
    BY ConstantsAssumption
  <2>2. (m + 1) * P = m * P + P
    BY <2>1
  <2>3. QED
    BY <1>2, <2>1, <2>2
<1>4. ASSUME after + P <= N
      PROVE  PageHolds(b, after, P)
  <2>1. PICK c \in after..N : c = after + P
    BY <1>3, <1>4
  <2>2. c = IF after + ItemPageSize <= N THEN after + ItemPageSize ELSE N
    BY <1>4, <2>1
  <2>3. PageHolds(b, after, c - after)
    BY <1>1, <2>2, PageOfRows DEF PageHolds
  <2>4. c - after = P
    BY <1>3, <2>1
  <2>5. QED
    BY <2>3, <2>4
<1>5. ASSUME after + P > N
      PROVE  PageHolds(b, after, N - after)
  <2>1. PICK c \in after..N : c = N
    OBVIOUS
  <2>2. c = IF after + ItemPageSize <= N THEN after + ItemPageSize ELSE N
    BY <1>3, <1>5, <2>1
  <2>3. PageHolds(b, after, c - after)
    BY <1>1, <2>2, PageOfRows DEF PageHolds
  <2>4. QED
    BY <2>1, <2>3
<1>6. QED
  BY <1>2, <1>3, <1>4, <1>5

\* What the instance reads of a sound batch is the batch.
LEMMA SoundBatchIsRead ==
    ASSUME NEW b \in Batches \ Damaged
    PROVE  /\ Len(ReadAllBatchItems(b)) = Len(Items[b])
           /\ DOMAIN ReadAllBatchItems(b) = 1..Len(Items[b])
           /\ \A i \in 1..Len(Items[b]) :
                 /\ ReadAllBatchItems(b)[i].position = i
                 /\ ReadAllBatchItems(b)[i].group = Items[b][i]
<1>1. PICK N \in Nat \ {0} : N = Len(Items[b])
  BY StoredRows
<1>2. PICK P \in Nat \ {0} : P = ItemPageSize
  BY ConstantsAssumption
<1>3. PICK n, r : n = N \div P /\ r = N % P
  OBVIOUS
<1>4. n \in Nat /\ r \in 0..P - 1 /\ N = n * P + r
  BY <1>3, DivMod
<1>5. n * P \in 0..N /\ (n + 1) * P = n * P + P /\ n <= N
  <2>1. n * P \in Nat /\ (n + 1) * P = n * P + P
    BY <1>4, ProductMonotone
  <2>2. 1 * n <= P * n
    BY <1>4, ProductMonotone
  <2>3. 1 * n = n /\ P * n = n * P
    BY <1>4
  <2>4. QED
    BY <1>4, <2>1, <2>2, <2>3
<1>6. ASSUME NEW m \in 0..n - 1
      PROVE  m \in Nat /\ m * P \in 0..N /\ (m + 1) * P <= N
  <2>1. (m + 1) * P <= n * P /\ m * P <= n * P /\ m * P \in Nat
    BY <1>4, ProductMonotone
  <2>2. (m + 1) * P \in Nat
    BY <1>4, ProductMonotone
  <2>3. QED
    BY <1>4, <1>5, <2>1, <2>2
<1>7. Len(Page(StoredItems(b), n * P)) = r
  <2>1. (n + 1) * P > N /\ N - n * P = r
    BY <1>4, <1>5
  <2>2. PageHolds(b, n * P, N - n * P)
    BY <1>1, <1>2, <1>4, <1>5, <2>1, SoundPage
  <2>3. QED
    BY <2>1, <2>2 DEF PageHolds
<1>8. \A m \in 0..n - 1 : Len(Page(StoredItems(b), m * P)) = P
  <2>1. SUFFICES ASSUME NEW m \in 0..n - 1
                 PROVE  Len(Page(StoredItems(b), m * P)) = P
    OBVIOUS
  <2>2. PageHolds(b, m * P, P)
    BY <1>1, <1>2, <1>6, SoundPage
  <2>3. QED
    BY <2>2 DEF PageHolds
<1>9. ShortFirst(b, n)
  BY <1>2, <1>4, <1>7, <1>8 DEF ShortFirst
<1>10. n \in 0..Len(StoredItems(b))
  <2>1. NumberedTo(N, StoredItems(b))
    BY <1>1, StoredRows
  <2>2. Len(StoredItems(b)) = N
    BY <2>1 DEF NumberedTo
  <2>3. QED
    BY <1>4, <1>5, <2>2
<1>11. PICK f : /\ f = ReadAllBatchItems(b)
                /\ f = [i \in 1..N |->
                          Page(StoredItems(b), ((i - 1) \div P) * P)[((i - 1) % P) + 1]]
  <2>1. ReadAllBatchItems(b) =
          [i \in 1..n * P + Len(Page(StoredItems(b), n * P)) |->
              Page(StoredItems(b), ((i - 1) \div P) * P)[((i - 1) % P) + 1]]
    BY <1>2, <1>9, <1>10, ReadToShortPage
  <2>2. n * P + Len(Page(StoredItems(b), n * P)) = N
    BY <1>4, <1>7
  <2>3. QED
    BY <2>1, <2>2
<1>12. ASSUME NEW i \in 1..N
       PROVE  f[i] = StoredItems(b)[i]
  <2>1. PICK k \in Nat : k = i - 1
    OBVIOUS
  <2>2. PICK q, s : q = k \div P /\ s = k % P
    OBVIOUS
  <2>3. q \in Nat /\ s \in 0..P - 1 /\ k = q * P + s
    BY <2>2, DivMod
  <2>4. q * P \in Nat
    BY <2>3, ProductMonotone
  <2>5. i = q * P + (s + 1) /\ s + 1 \in 1..P
    BY <2>1, <2>3, <2>4
  <2>6. f[i] = Page(StoredItems(b), q * P)[s + 1]
    BY <1>11, <2>1, <2>2
  <2>7. CASE q < n
    <3>1. q * P \in 0..N /\ (q + 1) * P <= N
      BY <1>4, <1>6, <2>3, <2>7
    <3>2. PageHolds(b, q * P, P)
      BY <1>1, <1>2, <2>3, <3>1, SoundPage
    <3>3. QED
      BY <2>5, <2>6, <3>2 DEF PageHolds
  <2>8. CASE q = n
    <3>1. s + 1 \in 1..N - n * P
      BY <1>4, <1>5, <2>3, <2>5, <2>8
    <3>2. (n + 1) * P > N
      BY <1>4, <1>5
    <3>3. PageHolds(b, n * P, N - n * P)
      BY <1>1, <1>2, <1>4, <1>5, <3>2, SoundPage
    <3>4. QED
      BY <2>5, <2>6, <2>8, <3>1, <3>3 DEF PageHolds
  <2>9. CASE q > n
    <3>1. (n + 1) * P <= q * P
      BY <1>4, <2>3, <2>9, ProductMonotone
    <3>2. FALSE
      BY <1>4, <1>5, <2>3, <2>4, <2>5, <3>1
    <3>3. QED
      BY <3>2
  <2>10. QED
    BY <1>4, <2>3, <2>7, <2>8, <2>9
<1>13. \A i \in 1..N : StoredItems(b)[i].position = i /\ StoredItems(b)[i].group = Items[b][i]
  BY <1>1, StoredRows DEF NumberedTo
<1>14. Len(f) = N /\ DOMAIN f = 1..N
  BY <1>11
<1>15. QED
  BY <1>1, <1>11, <1>12, <1>13, <1>14

LEMMA SoundIsConsistent ==
    ASSUME NEW b \in Batches
    PROVE  Consistent(b) <=> b \notin Damaged
<1>1. CASE b \in Damaged
  BY <1>1, DamagedIsInconsistent
<1>2. CASE b \notin Damaged
  BY <1>2, SoundBatchIsRead DEF Consistent
<1>3. QED
  BY <1>1, <1>2


-----------------------------------------------------------------------------
(* The rows of a transfer. *)

\* A command that puts each of these items in the group of its key.
Groups(command, items) ==
    /\ Len(command.groups) \in Nat
    /\ Len(command.items) = Len(items)
    /\ \A i \in 1..Len(items) :
          /\ command.items[i] \in 0..Len(command.groups) - 1
          /\ command.groups[command.items[i] + 1] = items[i]

\* The groups in the order of their first items hold the key of every item.
FirstPlaces(keys) == {i \in DOMAIN keys : \A j \in 1..i - 1 : keys[j] # keys[i]}

\* Every key of one sequence is in the other.
HasEvery(groups, keys) ==
    /\ Len(groups) \in Nat
    /\ \A i \in DOMAIN keys : \E k \in 0..Len(groups) - 1 : groups[k + 1] = keys[i]

LEMMA GroupOfEveryItem ==
    ASSUME NEW S, NEW keys \in Seq(S)
    PROVE  HasEvery(ElementsAt(keys, FirstPlaces(keys)), keys)
<1>0. PICK N \in Nat, firsts \in {FirstPlaces(keys)} : N = Len(keys)
  BY LenProperties
<1>1. DOMAIN keys = 1..N /\ firsts \in SUBSET (1..N) /\ firsts \in SUBSET DOMAIN keys
  BY <1>0, LenProperties DEF FirstPlaces
<1>2. PICK G \in Nat : G = Cardinality(firsts)
  BY <1>1, PlaceOfRank
<1>3. PICK e : e = ElementsAt(keys, firsts)
  OBVIOUS
<1>4. /\ Len(e) = G
      /\ \A i \in firsts : \E k \in 1..G : e[k] = keys[i]
  <2>1. /\ Len(e) = Cardinality(firsts)
        /\ \A i \in firsts : \E k \in 1..Cardinality(firsts) : k = Rank(i, firsts) /\ e[k] = keys[i]
    BY <1>1, <1>3, ElementsAtPlaces
  <2>2. QED
    BY <1>2, <2>1
<1>5. ASSUME NEW i \in 1..N
      PROVE  \E k \in 0..G - 1 : e[k + 1] = keys[i]
  <2>1. PICK same : same = {j \in 1..N : keys[j] = keys[i]}
    OBVIOUS
  <2>2. PICK first \in same : \A j \in same : first <= j
    <3>1. same \in SUBSET (1..N) /\ same # {}
      BY <2>1
    <3>2. QED
      BY <3>1, LeastPlace
  <2>3. first \in 1..N /\ keys[first] = keys[i]
    BY <2>1, <2>2
  <2>4. \A j \in 1..first - 1 : keys[j] # keys[first]
    <3>1. SUFFICES ASSUME NEW j \in 1..first - 1, keys[j] = keys[i] PROVE FALSE
      BY <2>3
    <3>2. j \in same
      BY <2>1, <2>3, <3>1
    <3>3. QED
      BY <2>2, <2>3, <3>2
  <2>5. first \in firsts
    BY <1>0, <1>1, <2>3, <2>4 DEF FirstPlaces
  <2>6. PICK k \in 1..G : e[k] = keys[first]
    BY <1>4, <2>5
  <2>7. k - 1 \in 0..G - 1 /\ (k - 1) + 1 = k
    OBVIOUS
  <2>8. QED
    BY <2>3, <2>6, <2>7
<1>6. Len(e) \in Nat /\ \A i \in DOMAIN keys : \E k \in 0..Len(e) - 1 : e[k + 1] = keys[i]
  BY <1>1, <1>4, <1>5
<1>7. HasEvery(e, keys)
  BY <1>6 DEF HasEvery
<1>8. firsts = FirstPlaces(keys)
  BY <1>0
<1>9. QED
  BY <1>3, <1>7, <1>8

LEMMA CommandGroups ==
    ASSUME NEW b \in Batches \ Damaged
    PROVE  Groups(BuildInitialization(b), Items[b])
<1>1. PICK N \in Nat \ {0} : N = Len(Items[b])
  BY StoredRows
<1>2. PICK items : items = ReadAllBatchItems(b)
  OBVIOUS
<1>3. /\ DOMAIN items = 1..N
      /\ \A i \in 1..N : items[i].group = Items[b][i]
  BY <1>1, <1>2, SoundBatchIsRead
<1>4. Items[b] \in Seq(ToSet(Items[b]))
  BY ConstantsAssumption
<1>5. PICK keys : keys = [i \in DOMAIN items |-> items[i].group]
  OBVIOUS
<1>6. /\ keys = [i \in 1..N |-> Items[b][i]]
      /\ \A i \in 1..N : keys[i] = Items[b][i] /\ items[i].group = keys[i]
  <2>1. keys = [i \in 1..N |-> items[i].group]
    BY <1>3, <1>5
  <2>2. keys = [i \in 1..N |-> Items[b][i]]
    BY <1>3, <2>1
  <2>3. QED
    BY <1>3, <2>1, <2>2
<1>7. keys \in Seq(ToSet(Items[b])) /\ Len(keys) = N
  <2>1. \A i \in 1..N : Items[b][i] \in ToSet(Items[b])
    BY <1>1, <1>4, ElementOfSeq
  <2>2. keys \in [1..N -> ToSet(Items[b])]
    BY <1>6, <2>1
  <2>3. QED
    BY <1>6, <2>2
<1>8. FirstPlaces(keys) =
        {i \in DOMAIN items : \A j \in 1..i - 1 : items[j].group # items[i].group}
  <2>1. DOMAIN keys = 1..N /\ \A i \in 1..N : \A j \in 1..i - 1 : j \in 1..N
    BY <1>6
  <2>2. ASSUME NEW i \in 1..N
        PROVE  (\A j \in 1..i - 1 : keys[j] # keys[i])
                 <=> (\A j \in 1..i - 1 : items[j].group # items[i].group)
    <3>1. \A j \in 1..i - 1 : keys[j] = items[j].group
      BY <1>6, <2>1
    <3>2. keys[i] = items[i].group
      BY <1>6
    <3>3. QED
      BY <3>1, <3>2
  <2>3. FirstPlaces(keys) = {i \in 1..N : \A j \in 1..i - 1 : keys[j] # keys[i]}
    BY <2>1 DEF FirstPlaces
  <2>4. {i \in 1..N : \A j \in 1..i - 1 : keys[j] # keys[i]}
          = {i \in 1..N : \A j \in 1..i - 1 : items[j].group # items[i].group}
    BY <2>2
  <2>5. QED
    BY <1>3, <2>3, <2>4
<1>10. PICK groups : groups = ElementsAt(keys, FirstPlaces(keys))
  OBVIOUS
<1>11. groups = InitializationGroups(items)
  BY <1>5, <1>8, <1>10 DEF InitializationGroups
<1>12. /\ Len(groups) \in Nat
       /\ \A i \in 1..N : \E k \in 0..Len(groups) - 1 : groups[k + 1] = keys[i]
  <2>1. HasEvery(groups, keys)
    BY <1>7, <1>10, GroupOfEveryItem
  <2>2. QED
    BY <1>6, <2>1 DEF HasEvery
<1>13. PICK command : command = BuildInitialization(b)
  OBVIOUS
<1>14. /\ command.groups = groups
       /\ command.items = [i \in 1..N |->
                             CHOOSE k \in 0..Len(groups) - 1 : groups[k + 1] = items[i].group]
  BY <1>2, <1>3, <1>11, <1>13 DEF BuildInitialization
<1>16. ASSUME NEW i \in 1..N
       PROVE  /\ command.items[i] \in 0..Len(groups) - 1
              /\ groups[command.items[i] + 1] = Items[b][i]
  <2>1. command.items[i] = CHOOSE k \in 0..Len(groups) - 1 : groups[k + 1] = Items[b][i]
    BY <1>3, <1>14
  <2>2. \E k \in 0..Len(groups) - 1 : groups[k + 1] = Items[b][i]
    BY <1>6, <1>12
  <2>3. QED
    BY <2>1, <2>2
<1>15. Len(command.items) = N
  <2>1. DOMAIN command.items = 1..N /\ command.items = [i \in 1..N |-> command.items[i]]
    BY <1>14, Zenon
  <2>2. command.items \in [1..N -> 0..Len(groups) - 1]
    BY <1>16, <2>1, Zenon
  <2>3. QED
    BY <1>1, <2>2
<1>17. QED
  <2>1. /\ Len(command.groups) \in Nat
        /\ Len(command.items) = Len(Items[b])
    BY <1>1, <1>12, <1>14, <1>15
  <2>2. \A i \in 1..Len(Items[b]) :
           /\ command.items[i] \in 0..Len(command.groups) - 1
           /\ command.groups[command.items[i] + 1] = Items[b][i]
    BY <1>1, <1>14, <1>16
  <2>3. QED
    BY <1>13, <2>1, <2>2 DEF Groups


\* As many positions as are counted from 0.
LEMMA CountPositions ==
    ASSUME NEW n \in Nat
    PROVE  IsFiniteSet(0..n - 1) /\ Cardinality(0..n - 1) = n
<1>1. /\ IsFiniteSet(0..n - 1)
      /\ Cardinality(0..n - 1) = IF 0 > n - 1 THEN 0 ELSE n - 1 - 0 + 1
  BY FS_Interval
<1>2. QED
  BY <1>1

LEMMA CountImage ==
    ASSUME NEW n \in Nat, NEW f, NEW S,
           S = {f[k] : k \in 0..n - 1},
           DOMAIN f = 0..n - 1, f = [k \in 0..n - 1 |-> f[k]],
           \A j, k \in 0..n - 1 : f[j] = f[k] => j = k
    PROVE  Cardinality(S) = n
<1>1. IsFiniteSet(0..n - 1) /\ Cardinality(0..n - 1) = n
  BY CountPositions
<1>2. f \in Bijection(0..n - 1, S)
  BY Zenon DEF Bijection, Injection, Surjection, IsInjective
<1>3. f \in Surjection(0..n - 1, S) /\ f \in Injection(0..n - 1, S)
  BY <1>2 DEF Bijection
<1>4. QED
  BY <1>1, <1>3, FS_Surjection

\* What MatrixIsComplete says of one transfer.
RowsAreComplete(rows, keys, targets) ==
    LET TargetsOf(i) == {u \in rows.groupTargets : <<i, u[1]>> \in rows.itemTargets}
        GroupOf(i) == CHOOSE g \in {row[2] : row \in rows.items} : <<i, g>> \in rows.items
    IN  /\ Cardinality(rows.items) = Len(keys)
        /\ \A i \in 0..Len(keys) - 1 :
             /\ <<GroupOf(i), keys[i + 1]>> \in rows.groups
             /\ \A u \in TargetsOf(i) : u[2] = GroupOf(i)
             /\ {u[3] : u \in TargetsOf(i)} = ToSet(targets)
             /\ Cardinality(TargetsOf(i)) = Len(targets)
        /\ Cardinality(rows.itemTargets) = Len(keys) * Len(targets)

\* The rows of a command by group, item and target instead of by position.
RowsByIndex(rows, command, keys, targets, N, G, T) ==
    /\ \A i \in 0..N - 1 : command.items[i + 1] \in 0..G - 1
    /\ \A i \in 0..N - 1 : <<command.items[i + 1], keys[i + 1]>> \in rows.groups
    /\ rows.items = {<<i, command.items[i + 1]>> : i \in 0..N - 1}
    /\ \A g \in 0..G - 1, t \in 0..T - 1 :
          <<g * T + t, g, targets[t + 1]>> \in rows.groupTargets
    /\ \A u \in rows.groupTargets : \E g \in 0..G - 1, t \in 0..T - 1 :
          u = <<g * T + t, g, targets[t + 1]>>
    /\ \A i \in 0..N - 1, t \in 0..T - 1 :
          <<i, command.items[i + 1] * T + t>> \in rows.itemTargets
    /\ rows.itemTargets =
          {<<k \div T, command.items[k \div T + 1] * T + (k % T)>> : k \in 0..N * T - 1}

LEMMA RowsOfCommand ==
    ASSUME NEW keys, Len(keys) \in Nat,
           NEW targets, Len(targets) \in Nat \ {0},
           NEW command, Groups(command, keys)
    PROVE  RowsByIndex(InitializationRows(command, targets), command, keys, targets,
                       Len(keys), Len(command.groups), Len(targets))
<1>0. PICK N \in Nat, G \in Nat, T \in Nat \ {0}, rows \in {InitializationRows(command, targets)} :
         /\ N = Len(keys) /\ G = Len(command.groups) /\ T = Len(targets)
         /\ rows = InitializationRows(command, targets)
  BY DEF Groups
<1>1. \A i \in 0..N - 1 :
         /\ command.items[i + 1] \in 0..G - 1
         /\ command.groups[command.items[i + 1] + 1] = keys[i + 1]
  <2>1. \A i \in 0..N - 1 : i + 1 \in 1..N
    OBVIOUS
  <2>2. QED
    BY <1>0, <2>1 DEF Groups
<1>2. Len(command.items) = N
  BY <1>0 DEF Groups
<1>3. /\ rows.groups = {<<g, command.groups[g + 1]>> : g \in 0..G - 1}
      /\ rows.items = {<<i, command.items[i + 1]>> : i \in 0..N - 1}
      /\ rows.groupTargets = {<<k, k \div T, targets[(k % T) + 1]>> : k \in 0..G * T - 1}
      /\ rows.itemTargets = {<<k \div T, command.items[k \div T + 1] * T + (k % T)>> :
                                k \in 0..N * T - 1}
  BY <1>0, <1>2 DEF InitializationRows, GroupTargetPosition
<1>4. \A i \in 0..N - 1 : <<command.items[i + 1], keys[i + 1]>> \in rows.groups
  BY <1>1, <1>3
<1>5. ASSUME NEW n \in Nat, NEW k \in 0..n * T - 1
      PROVE  k \div T \in 0..n - 1 /\ k % T \in 0..T - 1 /\ k = (k \div T) * T + (k % T)
  <2>1. k \in Nat
    BY ProductMonotone
  <2>2. QED
    BY <2>1, DivBelow, DivMod
<1>7. ASSUME NEW g \in 0..G - 1, NEW t \in 0..T - 1
      PROVE  <<g * T + t, g, targets[t + 1]>> \in rows.groupTargets
  <2>1. PICK k \in 0..G * T - 1 : k = g * T + t /\ k \div T = g /\ k % T = t
    BY IndexOf
  <2>2. <<k, k \div T, targets[(k % T) + 1]>> \in rows.groupTargets
    BY <1>3
  <2>3. QED
    BY <2>1, <2>2
<1>8. ASSUME NEW u \in rows.groupTargets
      PROVE  \E g \in 0..G - 1, t \in 0..T - 1 : u = <<g * T + t, g, targets[t + 1]>>
  <2>1. PICK k \in 0..G * T - 1 : u = <<k, k \div T, targets[(k % T) + 1]>>
    BY <1>3
  <2>2. PICK g \in 0..G - 1, t \in 0..T - 1 : g = k \div T /\ t = k % T /\ k = g * T + t
    <3>1. k \div T \in 0..G - 1 /\ k % T \in 0..T - 1 /\ k = (k \div T) * T + (k % T)
      BY <1>5
    <3>2. QED
      BY <3>1, Zenon
  <2>3. QED
    BY <2>1, <2>2
<1>9. ASSUME NEW i \in 0..N - 1, NEW t \in 0..T - 1
      PROVE  <<i, command.items[i + 1] * T + t>> \in rows.itemTargets
  <2>1. PICK k \in 0..N * T - 1 : k = i * T + t /\ k \div T = i /\ k % T = t
    BY IndexOf
  <2>2. <<k \div T, command.items[k \div T + 1] * T + (k % T)>> \in rows.itemTargets
    BY <1>3
  <2>3. QED
    BY <2>1, <2>2
<1>10. QED
  BY <1>0, <1>1, <1>3, <1>4, <1>7, <1>8, <1>9 DEF RowsByIndex


LEMMA CommandFillsMatrix ==
    ASSUME NEW keys, Len(keys) \in Nat,
           NEW targets, Len(targets) \in Nat \ {0}, DOMAIN targets = 1..Len(targets),
           NEW command, Groups(command, keys)
    PROVE  RowsAreComplete(InitializationRows(command, targets), keys, targets)
<1>1. PICK N \in Nat, G \in Nat, T \in Nat \ {0}, rows \in {InitializationRows(command, targets)} :
         /\ N = Len(keys) /\ G = Len(command.groups) /\ T = Len(targets)
         /\ rows = InitializationRows(command, targets)
         /\ RowsByIndex(rows, command, keys, targets, N, G, T)
  BY RowsOfCommand DEF Groups
<1>2. PICK place : place = [i \in 0..N - 1 |-> command.items[i + 1]]
  OBVIOUS
<1>3. /\ \A i \in 0..N - 1 : place[i] \in 0..G - 1
      /\ \A i \in 0..N - 1 : <<place[i], keys[i + 1]>> \in rows.groups
      /\ rows.items = {<<i, place[i]>> : i \in 0..N - 1}
      /\ \A i \in 0..N - 1, t \in 0..T - 1 : <<i, place[i] * T + t>> \in rows.itemTargets
  BY <1>1, <1>2 DEF RowsByIndex
<1>4. rows.itemTargets = {<<k \div T, place[k \div T] * T + (k % T)>> : k \in 0..N * T - 1}
  <2>1. \A k \in 0..N * T - 1 : place[k \div T] = command.items[k \div T + 1]
    BY <1>2, DivBelow
  <2>2. rows.itemTargets =
          {<<k \div T, command.items[k \div T + 1] * T + (k % T)>> : k \in 0..N * T - 1}
    BY <1>1 DEF RowsByIndex
  <2>3. QED
    BY <2>1, <2>2
<1>5. Cardinality(rows.items) = N
  <2>1. PICK f : f = [i \in 0..N - 1 |-> <<i, place[i]>>]
    OBVIOUS
  <2>2. /\ rows.items = {f[i] : i \in 0..N - 1}
        /\ DOMAIN f = 0..N - 1 /\ f = [i \in 0..N - 1 |-> f[i]]
        /\ \A i, j \in 0..N - 1 : f[i] = f[j] => i = j
    BY <1>3, <2>1
  <2>3. QED
    BY <2>2, CountImage
<1>6. Cardinality(rows.itemTargets) = N * T
  <2>0. PICK M \in Nat : M = N * T
    BY ProductMonotone
  <2>1. PICK f : f = [k \in 0..M - 1 |-> <<k \div T, place[k \div T] * T + (k % T)>>]
    OBVIOUS
  <2>2. /\ rows.itemTargets = {f[i] : i \in 0..M - 1}
        /\ DOMAIN f = 0..M - 1 /\ f = [i \in 0..M - 1 |-> f[i]]
    BY <1>4, <2>0, <2>1
  <2>3. ASSUME NEW j \in 0..M - 1, NEW k \in 0..M - 1, f[j] = f[k] PROVE j = k
    <3>1. PICK q, r, s : q = j \div T /\ r = j % T /\ s = k % T
      OBVIOUS
    <3>2. k \div T = q /\ place[q] * T + r = place[q] * T + s
      BY <2>1, <2>3, <3>1
    <3>3. /\ q \in 0..N - 1 /\ q \in Nat /\ r \in 0..T - 1 /\ s \in 0..T - 1
          /\ j = q * T + r /\ k = q * T + s
      <4>1. j \in Nat /\ k \in Nat /\ j \div T \in 0..N - 1
        <5>1. \A l \in 0..N * T - 1 : l \div T \in 0..N - 1
          BY DivBelow
        <5>2. \A l \in 0..M - 1 : l \div T \in 0..N - 1
          BY <2>0, <5>1
        <5>3. j \in Nat /\ k \in Nat
          OBVIOUS
        <5>4. QED
          BY <5>2, <5>3, Zenon
      <4>2. /\ j \div T \in Nat /\ j % T \in 0..T - 1
            /\ j = (j \div T) * T + (j % T)
        BY <4>1, DivMod
      <4>3. k % T \in 0..T - 1 /\ k = (k \div T) * T + (k % T)
        BY <4>1, DivMod
      <4>4. QED
        BY <3>1, <3>2, <4>1, <4>2, <4>3
    <3>4. place[q] \in Nat
      BY <1>3, <3>3
    <3>5. place[q] * T \in Nat
      BY <3>4, ProductMonotone
    <3>6. r = s
      BY <3>2, <3>3, <3>5
    <3>7. QED
      BY <3>3, <3>6
  <2>4. Cardinality(rows.itemTargets) = M
    <3>1. \A j, k \in 0..M - 1 : f[j] = f[k] => j = k
      BY <2>3, Zenon
    <3>2. QED
      BY <2>2, <3>1, CountImage
  <2>5. QED
    BY <2>0, <2>4
<1> DEFINE TargetsOf(i) == {u \in rows.groupTargets : <<i, u[1]>> \in rows.itemTargets}
           GroupOf(i) == CHOOSE g \in {row[2] : row \in rows.items} : <<i, g>> \in rows.items
           OfTarget(i, t) == <<place[i] * T + t, place[i], targets[t + 1]>>
<1>7. ASSUME NEW i \in 0..N - 1 PROVE GroupOf(i) = place[i]
  <2>1. <<i, place[i]>> \in rows.items
    BY <1>3
  <2>2. place[i] \in {row[2] : row \in rows.items}
    BY <2>1
  <2>3. \A g : <<i, g>> \in rows.items => g = place[i]
    BY <1>3
  <2>4. QED
    BY <2>1, <2>2, <2>3
<1>8. ASSUME NEW i \in 0..N - 1
      PROVE  /\ \A t \in 0..T - 1 : OfTarget(i, t) \in TargetsOf(i)
             /\ \A u \in TargetsOf(i) : \E t \in 0..T - 1 : u = OfTarget(i, t)
  <2>1. ASSUME NEW t \in 0..T - 1 PROVE OfTarget(i, t) \in TargetsOf(i)
    <3>1. place[i] \in 0..G - 1
      BY <1>3
    <3>2. OfTarget(i, t) \in rows.groupTargets
      BY <1>1, <3>1 DEF RowsByIndex
    <3>3. <<i, place[i] * T + t>> \in rows.itemTargets
      BY <1>3
    <3>4. QED
      BY <3>2, <3>3
  <2>2. ASSUME NEW u \in TargetsOf(i) PROVE \E t \in 0..T - 1 : u = OfTarget(i, t)
    <3>1. PICK g \in 0..G - 1, t \in 0..T - 1 : u = <<g * T + t, g, targets[t + 1]>>
      BY <1>1 DEF RowsByIndex
    <3>2. <<i, g * T + t>> \in rows.itemTargets
      BY <3>1
    <3>3. PICK k \in 0..N * T - 1 : i = k \div T /\ g * T + t = place[k \div T] * T + (k % T)
      BY <1>4, <3>2
    <3>4. PICK s \in 0..T - 1 : g * T + t = place[i] * T + s
      <4>1. k \in Nat
        BY ProductMonotone
      <4>2. k % T \in 0..T - 1
        BY <4>1, DivMod
      <4>3. QED
        BY <3>3, <4>2
    <3>5. g \in Nat /\ place[i] \in Nat
      BY <1>3
    <3>6. g = place[i]
      <4>1. (g * T + t) \div T = g
        BY <3>5, DivModUnique
      <4>2. (place[i] * T + s) \div T = place[i]
        BY <3>5, DivModUnique
      <4>3. QED
        BY <3>4, <4>1, <4>2
    <3>7. QED
      BY <3>1, <3>6
  <2>3. QED
    BY <2>1, <2>2
<1> HIDE DEF OfTarget

<1>9. ASSUME NEW i \in 0..N - 1
      PROVE  /\ \A u \in TargetsOf(i) : u[2] = place[i]
             /\ {u[3] : u \in TargetsOf(i)} = ToSet(targets)
             /\ Cardinality(TargetsOf(i)) = T
  <2>1. \A u \in TargetsOf(i) : u[2] = place[i]
    BY <1>8 DEF OfTarget
  <2>2. {u[3] : u \in TargetsOf(i)} = ToSet(targets)
    <3>1. ASSUME NEW u \in TargetsOf(i) PROVE u[3] \in ToSet(targets)
      <4>1. PICK t \in 0..T - 1 : u[3] = targets[t + 1]
        BY <1>8 DEF OfTarget
      <4>2. t + 1 \in 1..T
        OBVIOUS
      <4>3. QED
        BY <1>1, <4>1, <4>2 DEF ToSet
    <3>2. ASSUME NEW x \in ToSet(targets) PROVE \E u \in TargetsOf(i) : u[3] = x
      <4>1. PICK n \in 1..T : x = targets[n]
        BY <1>1 DEF ToSet
      <4>2. PICK t \in 0..T - 1 : t + 1 = n
        <5>1. n - 1 \in 0..T - 1 /\ (n - 1) + 1 = n
          OBVIOUS
        <5>2. QED
          BY <5>1
      <4>3. OfTarget(i, t) \in TargetsOf(i) /\ OfTarget(i, t)[3] = targets[t + 1]
        BY <1>8 DEF OfTarget
      <4>4. QED
        BY <4>1, <4>2, <4>3
    <3> HIDE DEF TargetsOf
    <3>3. QED
      BY <3>1, <3>2
  <2>3. Cardinality(TargetsOf(i)) = T
    <3>1. PICK f : f = [t \in 0..T - 1 |-> OfTarget(i, t)]
      OBVIOUS
    <3>2. /\ TargetsOf(i) = {f[t] : t \in 0..T - 1}
          /\ DOMAIN f = 0..T - 1 /\ f = [t \in 0..T - 1 |-> f[t]]
      BY <1>8, <3>1
    <3>3. ASSUME NEW s \in 0..T - 1, NEW t \in 0..T - 1, f[s] = f[t] PROVE s = t
      <4>1. place[i] * T + s = place[i] * T + t
        BY <3>1, <3>3 DEF OfTarget
      <4>2. place[i] \in Nat
        BY <1>3
      <4>3. place[i] * T \in Nat
        BY <4>2, ProductMonotone
      <4>4. QED
        BY <4>1, <4>3
    <3> HIDE DEF TargetsOf
    <3>4. QED
      BY <3>2, <3>3, CountImage
  <2>4. QED
    BY <2>1, <2>2, <2>3
<1>10. \A i \in 0..N - 1 : <<place[i], keys[i + 1]>> \in rows.groups
  BY <1>3
<1> HIDE DEF TargetsOf, GroupOf
<1>11. QED
  <2>1. \A i \in 0..N - 1 :
           /\ <<GroupOf(i), keys[i + 1]>> \in rows.groups
           /\ \A u \in TargetsOf(i) : u[2] = GroupOf(i)
           /\ {u[3] : u \in TargetsOf(i)} = ToSet(targets)
           /\ Cardinality(TargetsOf(i)) = T
    BY <1>7, <1>9, <1>10
  <2>2. Cardinality(rows.items) = N /\ Cardinality(rows.itemTargets) = N * T
    BY <1>5, <1>6
  <2> USE DEF TargetsOf, GroupOf
  <2>3. RowsAreComplete(rows, keys, targets)
    BY <1>1, <2>1, <2>2, Zenon DEF RowsAreComplete
  <2>4. QED
    BY <1>1, <2>3


\* A matrix is filled from a sound batch and the targets of its transfer.
LEMMA InitializationFillsMatrix ==
    ASSUME NEW b \in Batches \ Damaged, NEW S, NEW targets \in Seq(S), targets # <<>>
    PROVE  RowsAreComplete(InitializationRows(BuildInitialization(b), targets), Items[b], targets)
<1>1. Len(Items[b]) \in Nat
  BY StoredRows
<1>2. Len(targets) \in Nat \ {0} /\ DOMAIN targets = 1..Len(targets)
  BY LenProperties, EmptySeq
<1>3. Groups(BuildInitialization(b), Items[b])
  BY CommandGroups
<1>4. QED
  BY <1>1, <1>2, <1>3, CommandFillsMatrix

-----------------------------------------------------------------------------
(* The inductive invariant. *)

TransferRecord ==
    [id : Nat, phase : {"none", "initializing", "preparing", "finished"},
     outcome : {"none", "running", "failed"}, targets : Seq(ToSet(Sellers))]

PassRecord ==
    [step : Steps, todo : Seq(Batches), full : BOOLEAN, after : Nat, resumes : BOOLEAN,
     snapshot : Seq(ToSet(Sellers))]

SessionRecord ==
    [status : {"collecting", "begun", "inserted", "finalized"}, at : Nat, id : Nat]

\* A transfer and its rows: targets since it exists, a reason when it failed, all
\* rows when it left the initialization.
TransferOK(b, t, rows) ==
    /\ t \in TransferRecord
    /\ \/ t = NoTransfer
       \/ /\ t.id # 0 /\ t.targets # <<>>
          /\ \/ t.phase = "initializing" /\ t.outcome = "running"
             \/ t.phase = "preparing" /\ t.outcome = "running"
             \/ t.phase = "finished" /\ t.outcome = "failed"
    /\ t.outcome = "failed" => b \in Damaged
    /\ t.phase = "preparing" => RowsAreComplete(rows, Items[b], t.targets)

\* What one transfer may become of another.
KeptAs(t, u) ==
    t # NoTransfer =>
        /\ u # NoTransfer
        /\ u.id = t.id /\ u.targets = t.targets
        /\ t.phase \in {"preparing", "finished"} => u = t

\* A pass: it works at the head of its page, whose transfer exists once it builds
\* the command, and which of the two halves of Initialize follows was right.
PassOK(r, made) ==
    /\ r \in PassRecord
    /\ r.step \in {"admins", "create", "build", "persist", "fail"} => r.todo # <<>>
    /\ r.step = "create" => r.snapshot # <<>>
    /\ r.step \in {"build", "persist", "fail"} => Head(r.todo) \in made
    /\ r.resumes => \A i \in DOMAIN r.todo : r.todo[i] \in made
    /\ r.step = "resume" /\ r.todo # <<>> => r.resumes
    /\ r.step \in {"discover", "admins", "create"} => ~r.resumes
    /\ r.step = "persist" => Head(r.todo) \notin Damaged
    /\ r.step = "fail" => Head(r.todo) \in Damaged

Made(transfers) == {b \in Batches : transfers[b] # NoTransfer}

Numbered(sessions) == {b \in Batches : sessions[b].status \in {"inserted", "finalized"}}

\* A batch of a session: its key is complete once its row is inserted.
SessionOK(s, last, now) ==
    /\ s \in SessionRecord
    /\ s.status # "collecting" => s.at \in 1..now
    /\ IF s.status \in {"inserted", "finalized"} THEN s.id \in 1..last ELSE s.id = 0

Sessions ==
    /\ session = [b \in Batches |-> session[b]]
    /\ clock \in Nat \ {0}
    /\ lastID = Cardinality(Numbered(session))
    /\ \A b \in Batches : SessionOK(session[b], lastID, clock)
    /\ \A b, c \in Numbered(session) : session[b].id = session[c].id => b = c

Transfers ==
    /\ transfer = [b \in Batches |-> transfer[b]] /\ matrix = [b \in Batches |-> matrix[b]]
    /\ lastTransfer = Cardinality(Made(transfer))
    /\ \A b \in Batches : TransferOK(b, transfer[b], matrix[b])

Passes ==
    /\ poller = [p \in Pollers |-> poller[p]] /\ cursor = [p \in Pollers |-> cursor[p]]
    /\ \A p \in Pollers : PassOK(poller[p], Made(transfer))
    /\ \A p \in Pollers : cursor[p] \in Nat \X Nat
    /\ rejected \subseteq Batches

Inv == Sessions /\ Transfers /\ Passes /\ overtaken \in [Pollers -> SUBSET Batches]


LEMMA NoTransferIsOK ==
    ASSUME NEW b, NEW rows
    PROVE  TransferOK(b, NoTransfer, rows) /\ NoTransfer.id = 0
           /\ NoTransfer.phase = "none" /\ NoTransfer.outcome = "none"
<1>1. <<>> \in Seq(ToSet(Sellers))
  BY EmptySeq
<1>2. NoTransfer \in TransferRecord
  BY <1>1 DEF NoTransfer, TransferRecord
<1>3. NoTransfer.id = 0 /\ NoTransfer.phase = "none" /\ NoTransfer.outcome = "none"
  BY DEF NoTransfer
<1>4. QED
  BY <1>2, <1>3 DEF TransferOK

LEMMA IdleIsOK ==
    ASSUME NEW made, NEW step \in {"idle", "resume"}
    PROVE  PassOK([Idle EXCEPT !.step = step], made) /\ PassOK(Idle, made)
           /\ [Idle EXCEPT !.step = step].step = step /\ Idle.step = "idle"
<1>1. <<>> \in Seq(ToSet(Sellers)) /\ <<>> \in Seq(Batches)
  BY EmptySeq
<1>2. PICK e : e = [Idle EXCEPT !.step = step]
  OBVIOUS
<1>3. e = [step |-> step, todo |-> <<>>, full |-> FALSE, after |-> 0,
           resumes |-> FALSE, snapshot |-> <<>>]
  BY <1>2 DEF Idle
<1>4. e \in PassRecord /\ Idle \in PassRecord
  BY <1>1, <1>3 DEF PassRecord, Steps, Idle
<1>5. /\ e.step = step /\ e.todo = <<>> /\ e.resumes = FALSE
      /\ Idle.step = "idle" /\ Idle.todo = <<>> /\ Idle.resumes = FALSE
  BY <1>3 DEF Idle
<1>6. PassOK(e, made)
  BY <1>4, <1>5 DEF PassOK
<1>7. PassOK(Idle, made)
  BY <1>4, <1>5 DEF PassOK
<1>8. QED
  BY <1>2, <1>5, <1>6, <1>7

LEMMA InitInv == Init => Inv
<1> SUFFICES ASSUME Init PROVE Inv
  OBVIOUS
<1>1. Sessions
  <2>1. session = [b \in Batches |-> [status |-> "collecting", at |-> 0, id |-> 0]]
    BY DEF Init
  <2>2. Numbered(session) = {}
    BY <2>1 DEF Numbered
  <2>3. lastID = Cardinality(Numbered(session)) /\ clock \in Nat \ {0}
    <3>1. lastID = 0 /\ clock = 1
      BY DEF Init
    <3>2. QED
      BY <2>2, <3>1, FS_EmptySet
  <2>4. \A b \in Batches : SessionOK(session[b], lastID, clock)
    BY <2>1 DEF SessionOK, SessionRecord
  <2>5. QED
    BY <2>1, <2>2, <2>3, <2>4 DEF Sessions
<1>2. Transfers
  <2>1. \A b \in Batches : transfer[b] = NoTransfer
    BY DEF Init
  <2>2. Made(transfer) = {}
    BY <2>1 DEF Made
  <2>3. lastTransfer = Cardinality(Made(transfer))
    BY <2>2, FS_EmptySet DEF Init
  <2>4. \A b \in Batches : TransferOK(b, transfer[b], matrix[b])
    BY <2>1, NoTransferIsOK
  <2>5. /\ transfer = [b \in Batches |-> transfer[b]]
        /\ matrix = [b \in Batches |-> matrix[b]]
    BY DEF Init
  <2>6. QED
    BY <2>3, <2>4, <2>5 DEF Transfers
<1>3. Passes
  <2>1. \A p \in Pollers : poller[p] = IF p \in Leaving THEN [Idle EXCEPT !.step = "resume"] ELSE Idle
    BY DEF Init
  <2>2. \A p \in Pollers : PassOK(poller[p], Made(transfer))
    BY <2>1, IdleIsOK
  <2>3. /\ poller = [p \in Pollers |-> poller[p]] /\ cursor = [p \in Pollers |-> cursor[p]]
        /\ \A p \in Pollers : cursor[p] \in Nat \X Nat
        /\ rejected \subseteq Batches
    BY DEF Init, NoCursor
  <2>4. QED
    BY <2>2, <2>3 DEF Passes
<1>4. overtaken \in [Pollers -> SUBSET Batches]
  BY DEF Init
<1>5. QED
  BY <1>1, <1>2, <1>3, <1>4 DEF Inv

-----------------------------------------------------------------------------
(* The finalizations. *)

LEMMA SessionsMove ==
    ASSUME NEW b \in Batches, Sessions,
           BeginFinalize(b) \/ InsertBatch(b) \/ CommitFinalize(b)
    PROVE  Sessions'
<1>1. IsFiniteSet(Batches)
  BY ConstantsAssumption
<1>2. IsFiniteSet(Numbered(session)) /\ lastID \in Nat
  <2>1. IsFiniteSet(Numbered(session))
    BY <1>1, FS_Subset DEF Numbered
  <2>2. QED
    BY <2>1, FS_CardinalityType DEF Sessions
<1>3. PICK s : s = session'[b]
  OBVIOUS
<1>4. SessionOK(session[b], lastID, clock) /\ session[b] \in SessionRecord
  BY DEF Sessions, SessionOK
<1>5. CASE BeginFinalize(b)
  <2>1. /\ session' = [session EXCEPT ![b].status = "begun", ![b].at = clock]
        /\ session[b].status = "collecting" /\ lastID' = lastID
        /\ clock' \in {clock, clock + 1}
    <3>1. \E tick \in {0, 1} : clock' = clock + tick
      BY <1>5 DEF BeginFinalize
    <3>2. clock' \in {clock, clock + 1}
      BY <3>1 DEF Sessions
    <3>3. QED
      BY <1>5, <3>2 DEF BeginFinalize
  <2>2. /\ session' = [c \in Batches |-> IF c = b THEN s ELSE session[c]]
        /\ s = [session[b] EXCEPT !.status = "begun", !.at = clock]
    BY <1>3, <2>1 DEF Sessions
  <2>3. s = [status |-> "begun", at |-> clock, id |-> session[b].id]
    BY <1>4, <2>2 DEF SessionRecord
  <2>4. clock \in Nat \ {0} /\ clock' \in Nat \ {0} /\ clock <= clock'
    BY <2>1 DEF Sessions
  <2>5. SessionOK(s, lastID, clock')
    BY <1>4, <2>1, <2>3, <2>4 DEF SessionOK, SessionRecord
  <2>6. \A c \in Batches : SessionOK(session[c], lastID, clock) => SessionOK(session[c], lastID, clock')
    BY <2>4, SMT DEF SessionOK, SessionRecord
  <2>7. Numbered(session') = Numbered(session)
    BY <2>1, <2>2, <2>3 DEF Numbered
  <2>8. \A c \in Numbered(session) : session'[c] = session[c]
    BY <2>1, <2>2 DEF Numbered
  <2>9. session' = [c \in Batches |-> session'[c]]
    BY <2>2
  <2>10. \A c \in Batches : SessionOK(session'[c], lastID, clock')
    BY <2>2, <2>5, <2>6 DEF Sessions
  <2>11. QED
    BY <2>1, <2>4, <2>7, <2>8, <2>9, <2>10 DEF Sessions
<1>6. CASE InsertBatch(b)
  <2>1. /\ session' = [session EXCEPT ![b].status = "inserted", ![b].id = lastID + 1]
        /\ session[b].status = "begun" /\ lastID' = lastID + 1 /\ clock' = clock
    BY <1>6 DEF InsertBatch
  <2>2. /\ session' = [c \in Batches |-> IF c = b THEN s ELSE session[c]]
        /\ s = [session[b] EXCEPT !.status = "inserted", !.id = lastID + 1]
    BY <1>3, <2>1 DEF Sessions
  <2>3. s = [status |-> "inserted", at |-> session[b].at, id |-> lastID + 1]
    BY <1>4, <2>2 DEF SessionRecord
  <2>4. SessionOK(s, lastID', clock)
    BY <1>2, <1>4, <2>1, <2>3 DEF SessionOK, SessionRecord
  <2>5. \A c \in Batches : SessionOK(session[c], lastID, clock) => SessionOK(session[c], lastID', clock)
    BY <1>2, <2>1, SMT DEF SessionOK, SessionRecord
  <2>6. Numbered(session') = Numbered(session) \cup {b} /\ b \notin Numbered(session)
    BY <2>1, <2>2, <2>3 DEF Numbered
  <2>7. lastID' = Cardinality(Numbered(session'))
    <3>1. IsFiniteSet(Numbered(session)) /\ lastID = Cardinality(Numbered(session))
      BY <1>2 DEF Sessions
    <3>2. Cardinality(Numbered(session) \cup {b}) = Cardinality(Numbered(session)) + 1
      BY <2>6, <3>1, FS_AddElement
    <3>3. QED
      BY <2>1, <2>6, <3>1, <3>2
  <2>8. \A c \in Numbered(session) : session'[c] = session[c] /\ session[c].id \in 1..lastID
    BY <2>2, <2>6 DEF Numbered, Sessions, SessionOK
  <2>9. session'[b].id = lastID + 1
    BY <1>3, <2>3
  <2>10. \A c, d \in Numbered(session') : session'[c].id = session'[d].id => c = d
    <3>1. SUFFICES ASSUME NEW c \in Numbered(session'), NEW d \in Numbered(session'),
                          session'[c].id = session'[d].id
                   PROVE  c = d
      OBVIOUS
    <3>2. CASE c \in Numbered(session) /\ d \in Numbered(session)
      BY <2>8, <3>1, <3>2 DEF Sessions
    <3>3. CASE c = b /\ d = b
      BY <3>3
    <3>4. CASE c = b /\ d \in Numbered(session)
      BY <1>2, <2>8, <2>9, <3>1, <3>4
    <3>5. CASE d = b /\ c \in Numbered(session)
      BY <1>2, <2>8, <2>9, <3>1, <3>5
    <3>6. QED
      BY <2>6, <3>2, <3>3, <3>4, <3>5
  <2>11. session' = [c \in Batches |-> session'[c]]
    BY <2>2
  <2>12. \A c \in Batches : SessionOK(session'[c], lastID', clock)
    BY <2>2, <2>4, <2>5 DEF Sessions
  <2>13. QED
    BY <2>1, <2>7, <2>10, <2>11, <2>12 DEF Sessions
<1>7. CASE CommitFinalize(b)
  <2>1. /\ session' = [session EXCEPT ![b].status = "finalized"]
        /\ session[b].status = "inserted" /\ lastID' = lastID /\ clock' = clock
    BY <1>7 DEF CommitFinalize
  <2>2. /\ session' = [c \in Batches |-> IF c = b THEN s ELSE session[c]]
        /\ s = [session[b] EXCEPT !.status = "finalized"]
    BY <1>3, <2>1 DEF Sessions
  <2>3. s = [status |-> "finalized", at |-> session[b].at, id |-> session[b].id]
    BY <1>4, <2>2 DEF SessionRecord
  <2>4. SessionOK(s, lastID, clock)
    BY <1>4, <2>1, <2>3 DEF SessionOK, SessionRecord
  <2>5. Numbered(session') = Numbered(session)
    BY <2>1, <2>2, <2>3 DEF Numbered
  <2>6. \A c \in Batches : session'[c].id = session[c].id
    BY <2>2, <2>3
  <2>7. session' = [c \in Batches |-> session'[c]]
    BY <2>2
  <2>8. \A c \in Batches : SessionOK(session'[c], lastID, clock)
    BY <2>2, <2>4 DEF Sessions
  <2>9. \A c, d \in Numbered(session') : session'[c].id = session'[d].id => c = d
    BY <2>5, <2>6 DEF Sessions, Numbered
  <2>10. QED
    BY <2>1, <2>5, <2>7, <2>8, <2>9 DEF Sessions
<1>8. QED
  BY <1>5, <1>6, <1>7


-----------------------------------------------------------------------------
(* The transfers. *)

\* What a step does to the transfers: every one is sound and keeps what it was
\* created with, and those that exist are counted.
TransfersMove ==
    /\ Transfers'
    /\ \A b \in Batches : KeptAs(transfer[b], transfer'[b])
    /\ Made(transfer) \subseteq Made(transfer')

LEMMA OneTransferMoves ==
    ASSUME Transfers, NEW b \in Batches, NEW t, NEW rows,
           transfer' = [transfer EXCEPT ![b] = t],
           matrix' = [matrix EXCEPT ![b] = rows],
           TransferOK(b, t, rows), KeptAs(transfer[b], t), t # NoTransfer,
           lastTransfer' = IF transfer[b] = NoTransfer THEN lastTransfer + 1 ELSE lastTransfer
    PROVE  TransfersMove /\ transfer'[b] = t
<1>1. /\ transfer' = [c \in Batches |-> IF c = b THEN t ELSE transfer[c]]
      /\ matrix' = [c \in Batches |-> IF c = b THEN rows ELSE matrix[c]]
  BY DEF Transfers
<1>2. Made(transfer') = Made(transfer) \cup {b}
  BY <1>1 DEF Made
<1>3. IsFiniteSet(Made(transfer)) /\ lastTransfer = Cardinality(Made(transfer))
  <2>1. IsFiniteSet(Batches)
    BY ConstantsAssumption
  <2>2. QED
    BY <2>1, FS_Subset DEF Made, Transfers
<1>4. Cardinality(Made(transfer')) =
        IF b \in Made(transfer) THEN Cardinality(Made(transfer)) ELSE Cardinality(Made(transfer)) + 1
  BY <1>2, <1>3, FS_AddElement
<1>5. lastTransfer' = Cardinality(Made(transfer'))
  BY <1>3, <1>4 DEF Made
<1>6. \A c \in Batches : TransferOK(c, transfer'[c], matrix'[c])
  BY <1>1 DEF Transfers
<1>7. \A c \in Batches : KeptAs(transfer[c], transfer'[c])
  BY <1>1 DEF KeptAs
<1>8. /\ transfer' = [c \in Batches |-> transfer'[c]] /\ matrix' = [c \in Batches |-> matrix'[c]]
      /\ transfer'[b] = t
  BY <1>1
<1>9. QED
  BY <1>2, <1>5, <1>6, <1>7, <1>8 DEF TransfersMove, Transfers

LEMMA TransfersStay ==
    ASSUME Transfers, UNCHANGED <<transfer, matrix, lastTransfer>>
    PROVE  TransfersMove
<1>1. Transfers' /\ Made(transfer') = Made(transfer)
  BY DEF Transfers, TransferOK, Made
<1>2. \A b \in Batches : KeptAs(transfer[b], transfer'[b])
  BY DEF KeptAs
<1>3. QED
  BY <1>1, <1>2 DEF TransfersMove

LEMMA CreateMoves ==
    ASSUME Transfers, NEW b \in Batches, NEW targets \in Seq(ToSet(Sellers)), targets # <<>>,
           Create(b, targets), UNCHANGED matrix
    PROVE  TransfersMove /\ transfer'[b] # NoTransfer
<1>1. CASE transfer[b] # NoTransfer
  BY <1>1, TransfersStay DEF Create
<1>2. CASE transfer[b] = NoTransfer
  <2>1. PICK t : t = [id |-> lastTransfer + 1, phase |-> "initializing",
                      outcome |-> "running", targets |-> targets]
    OBVIOUS
  <2>2. transfer' = [transfer EXCEPT ![b] = t] /\ lastTransfer' = lastTransfer + 1
    BY <1>2, <2>1 DEF Create
  <2>3. lastTransfer \in Nat
    <3>1. IsFiniteSet(Made(transfer))
      BY ConstantsAssumption, FS_Subset DEF Made
    <3>2. QED
      BY <3>1, FS_CardinalityType DEF Transfers
  <2>4. /\ t \in TransferRecord /\ t.id # 0 /\ t.targets # <<>>
        /\ t.phase = "initializing" /\ t.outcome = "running"
    BY <2>1, <2>3 DEF TransferRecord
  <2>5. t # NoTransfer
    BY <2>4, NoTransferIsOK
  <2>6. TransferOK(b, t, matrix[b]) /\ KeptAs(transfer[b], t)
    BY <1>2, <2>4 DEF TransferOK, KeptAs
  <2>7. matrix' = [matrix EXCEPT ![b] = matrix[b]]
    BY DEF Transfers
  <2>8. QED
    BY <1>2, <2>2, <2>5, <2>6, <2>7, OneTransferMoves
<1>3. QED
  BY <1>1, <1>2

LEMMA PersistMoves ==
    ASSUME Transfers, NEW b \in Batches \ Damaged, transfer[b] # NoTransfer,
           IF transfer[b].phase # "initializing"
           THEN UNCHANGED <<transfer, matrix>>
           ELSE /\ matrix' = [matrix EXCEPT ![b] = InitializationRows(BuildInitialization(b),
                                                                      transfer[b].targets)]
                /\ transfer' = [transfer EXCEPT ![b].phase = "preparing"],
           UNCHANGED lastTransfer
    PROVE  TransfersMove /\ transfer'[b].phase \in {"preparing", "finished"}
<1>1. /\ TransferOK(b, transfer[b], matrix[b]) /\ transfer[b] \in TransferRecord
      /\ transfer[b].targets # <<>>
  BY DEF Transfers, TransferOK
<1>2. CASE transfer[b].phase # "initializing"
  <2>1. transfer[b].phase \in {"preparing", "finished"}
    BY <1>1, <1>2 DEF TransferOK
  <2>2. QED
    BY <1>2, <2>1, TransfersStay
<1>3. CASE transfer[b].phase = "initializing"
  <2>1. PICK t : t = [transfer[b] EXCEPT !.phase = "preparing"]
    OBVIOUS
  <2>2. PICK rows : rows = InitializationRows(BuildInitialization(b), transfer[b].targets)
    OBVIOUS
  <2>3. matrix' = [matrix EXCEPT ![b] = rows] /\ transfer' = [transfer EXCEPT ![b] = t]
    BY <1>3, <2>1, <2>2
  <2>4. t = [id |-> transfer[b].id, phase |-> "preparing", outcome |-> transfer[b].outcome,
             targets |-> transfer[b].targets]
    BY <1>1, <2>1 DEF TransferRecord
  <2>5. transfer[b].outcome = "running" /\ transfer[b].id # 0
    BY <1>1, <1>3 DEF TransferOK
  <2>6. /\ t \in TransferRecord /\ t.id = transfer[b].id /\ t.targets = transfer[b].targets
        /\ t.phase = "preparing" /\ t.outcome = "running"
    BY <1>1, <2>4, <2>5 DEF TransferRecord
  <2>7. t # NoTransfer
    BY <2>6, NoTransferIsOK
  <2>8. RowsAreComplete(rows, Items[b], t.targets)
    <3>1. transfer[b].targets \in Seq(ToSet(Sellers))
      BY <1>1 DEF TransferRecord
    <3>2. QED
      BY <1>1, <2>2, <2>6, <3>1, InitializationFillsMatrix
  <2>9. TransferOK(b, t, rows)
    BY <1>1, <2>5, <2>6, <2>8 DEF TransferOK
  <2>10. KeptAs(transfer[b], t)
    BY <1>3, <2>6, <2>7 DEF KeptAs
  <2>11. QED
    BY <2>3, <2>6, <2>7, <2>9, <2>10, OneTransferMoves
<1>4. QED
  BY <1>2, <1>3

LEMMA MarkFailedMoves ==
    ASSUME Transfers, NEW b \in Batches, b \in Damaged, transfer[b] # NoTransfer,
           MarkFailed(b), UNCHANGED <<matrix, lastTransfer>>
    PROVE  /\ TransfersMove
           /\ transfer'[b].outcome = "failed" => transfer'[b].phase \in {"preparing", "finished"}
<1>1. TransferOK(b, transfer[b], matrix[b]) /\ transfer[b] \in TransferRecord
  BY DEF Transfers, TransferOK
<1>2. CASE transfer[b].phase # "initializing"
  <2>1. transfer[b].phase \in {"preparing", "finished"}
    BY <1>1, <1>2 DEF TransferOK
  <2>2. QED
    BY <1>2, <2>1, TransfersStay DEF MarkFailed
<1>3. CASE transfer[b].phase = "initializing"
  <2>1. PICK t : t = [transfer[b] EXCEPT !.phase = "finished", !.outcome = "failed"]
    OBVIOUS
  <2>2. transfer' = [transfer EXCEPT ![b] = t]
    BY <1>3, <2>1 DEF MarkFailed, Transfers
  <2>3. t = [id |-> transfer[b].id, phase |-> "finished", outcome |-> "failed",
             targets |-> transfer[b].targets]
    BY <1>1, <2>1 DEF TransferRecord
  <2>4. transfer[b].targets # <<>> /\ transfer[b].id # 0
    BY <1>1 DEF TransferOK
  <2>5. /\ t \in TransferRecord /\ t.id = transfer[b].id /\ t.targets = transfer[b].targets
        /\ t.phase = "finished" /\ t.outcome = "failed"
    BY <1>1, <2>3 DEF TransferRecord
  <2>6. t # NoTransfer
    BY <2>5, NoTransferIsOK
  <2>7. TransferOK(b, t, matrix[b])
    BY <2>4, <2>5 DEF TransferOK
  <2>8. KeptAs(transfer[b], t)
    BY <1>3, <2>5, <2>6 DEF KeptAs
  <2>9. matrix' = [matrix EXCEPT ![b] = matrix[b]]
    BY DEF Transfers
  <2>10. QED
    BY <2>2, <2>5, <2>6, <2>7, <2>8, <2>9, OneTransferMoves
<1>4. QED
  BY <1>2, <1>3


-----------------------------------------------------------------------------
(* The passes. *)

\* A page of a query over some of the batches.
LEMMA PageOfBatches ==
    ASSUME NEW found \in SUBSET Batches,
           NEW page \in [1..(IF Cardinality(found) < PageSize THEN Cardinality(found) ELSE PageSize)
                            -> found]
    PROVE  /\ page \in Seq(Batches) /\ Len(page) \in Nat /\ DOMAIN page = 1..Len(page)
           /\ \A i \in DOMAIN page : page[i] \in found
<1>1. IsFiniteSet(found)
  BY ConstantsAssumption, FS_Subset
<1>2. Cardinality(found) \in Nat /\ PageSize \in Nat
  BY <1>1, FS_CardinalityType, ConstantsAssumption
<1>3. PICK n \in Nat : n = IF Cardinality(found) < PageSize THEN Cardinality(found) ELSE PageSize
  BY <1>2
<1>4. page \in [1..n -> found]
  BY <1>3
<1>5. page \in Seq(found) /\ \A i \in DOMAIN page : page[i] \in found
  BY <1>4
<1>6. page \in [1..n -> Batches]
  BY <1>4
<1>7. page \in Seq(Batches)
  BY <1>6
<1>8. QED
  BY <1>5, <1>7, LenProperties

LEMMA InitializingPage ==
    ASSUME NEW after, NEW page \in ListInitializing(after)
    PROVE  /\ page \in Seq(Batches) /\ Len(page) \in Nat
           /\ \A i \in DOMAIN page : transfer[page[i]].phase = "initializing" /\ page[i] \in Batches
<1>1. PICK found : found = {b \in Batches : transfer[b].phase = "initializing" /\ transfer[b].id > after}
  OBVIOUS
<1>2. page \in [1..(IF Cardinality(found) < PageSize THEN Cardinality(found) ELSE PageSize) -> found]
  BY <1>1 DEF ListInitializing, PagesOf
<1>3. found \in SUBSET Batches /\ \A b \in found : transfer[b].phase = "initializing" /\ b \in Batches
  BY <1>1
<1>4. QED
  BY <1>2, <1>3, PageOfBatches

\* The finalized batches after a cursor, in their order and none left out but
\* some that are set aside.
FoundAfter(k, page, s, aside) ==
    /\ \A i \in DOMAIN page :
          s[page[i]].status = "finalized" /\ KeyLess(k, <<s[page[i]].at, s[page[i]].id>>)
    /\ \A i, j \in DOMAIN page : i < j =>
          KeyLess(<<s[page[i]].at, s[page[i]].id>>, <<s[page[j]].at, s[page[j]].id>>)
    /\ \A b \in Batches \ aside : s[b].status = "finalized" /\ KeyLess(k, <<s[b].at, s[b].id>>) =>
          \/ \E i \in DOMAIN page : page[i] = b
          \/ \A i \in DOMAIN page :
                KeyLess(<<s[page[i]].at, s[page[i]].id>>, <<s[b].at, s[b].id>>)

LEMMA FinalizedPage ==
    ASSUME NEW k, NEW page \in ListFinalizedBatches(k), NEW aside
    PROVE  page \in Seq(Batches) /\ Len(page) \in Nat /\ FoundAfter(k, page, session, aside)
<1>1. PICK found : found = {b \in Finalized : KeyLess(k, KeyOf(b))}
  OBVIOUS
<1>2. /\ page \in [1..(IF Cardinality(found) < PageSize THEN Cardinality(found) ELSE PageSize) -> found]
      /\ \A i, j \in DOMAIN page : i < j => KeyLess(KeyOf(page[i]), KeyOf(page[j]))
      /\ \A i \in DOMAIN page, b \in found \ ToSet(page) : KeyLess(KeyOf(page[i]), KeyOf(b))
  BY <1>1 DEF ListFinalizedBatches, PagesOf
<1>3. /\ found \in SUBSET Batches
      /\ \A b \in found : session[b].status = "finalized" /\ KeyLess(k, KeyOf(b))
      /\ \A b \in Batches : session[b].status = "finalized" /\ KeyLess(k, KeyOf(b)) => b \in found
  BY <1>1 DEF Finalized
<1>4. /\ page \in Seq(Batches) /\ Len(page) \in Nat /\ DOMAIN page = 1..Len(page)
      /\ \A i \in DOMAIN page : page[i] \in found
  BY <1>2, <1>3, PageOfBatches
<1>5. ASSUME NEW b \in Batches, session[b].status = "finalized", KeyLess(k, KeyOf(b))
      PROVE  \/ \E i \in DOMAIN page : page[i] = b
             \/ \A i \in DOMAIN page : KeyLess(KeyOf(page[i]), KeyOf(b))
  <2>1. CASE b \in ToSet(page)
    BY <2>1 DEF ToSet
  <2>2. CASE b \notin ToSet(page)
    BY <1>2, <1>3, <1>5, <2>2
  <2>3. QED
    BY <2>1, <2>2
<1>6. QED
  BY <1>2, <1>3, <1>4, <1>5 DEF FoundAfter, KeyOf


\* A batch that needs no further visit.
Passed(b) == transfer[b].phase \in {"preparing", "finished"} \/ b \in rejected

\* What a step of an instance does to its pass and its cursor: the pass goes on
\* with the page it has; it ends or begins a page of resumptions; it begins a page
\* of the discovery; the instance forgets its cursor; or the cursor moves to the
\* head of the page, which is done with.
PassMoves(p) ==
    /\ rejected \subseteq rejected' /\ rejected' \subseteq Batches
    /\ \E r, k :
         /\ poller' = [poller EXCEPT ![p] = r] /\ cursor' = [cursor EXCEPT ![p] = k]
         /\ PassOK(r, Made(transfer'))
         /\ \/ k = cursor[p] /\ r.todo = poller[p].todo /\ r.resumes = poller[p].resumes
            \/ k = cursor[p] /\ (r.resumes \/ r.todo = <<>>)
            \/ k = cursor[p] /\ r.todo \in ListFinalizedBatches(k)
            \/ k = NoCursor /\ r.todo = <<>>
            \/ \E b \in Batches :
                 /\ ~poller[p].resumes /\ poller[p].todo # <<>>
                 /\ b = Head(poller[p].todo) /\ k = KeyOf(b) /\ Passed(b)'
                 /\ r.todo \in {<<>>, Tail(poller[p].todo)}

LEMMA PassesMove ==
    ASSUME Passes, Sessions, NEW p \in Pollers, PassMoves(p),
           Made(transfer) \subseteq Made(transfer')
    PROVE  Passes'
<1>1. PICK r, k :
         /\ poller' = [poller EXCEPT ![p] = r] /\ cursor' = [cursor EXCEPT ![p] = k]
         /\ PassOK(r, Made(transfer'))
         /\ k \in {cursor[p], NoCursor, KeyOf(Head(poller[p].todo))}
         /\ k = KeyOf(Head(poller[p].todo)) /\ k # cursor[p] /\ k # NoCursor => poller[p].todo # <<>>
  BY DEF PassMoves
<1>2. k \in Nat \X Nat
  <2>1. cursor[p] \in Nat \X Nat /\ NoCursor \in Nat \X Nat
    BY DEF Passes, NoCursor
  <2>2. poller[p].todo # <<>> => KeyOf(Head(poller[p].todo)) \in Nat \X Nat
    <3>1. poller[p].todo \in Seq(Batches)
      BY DEF Passes, PassOK, PassRecord
    <3>2. poller[p].todo # <<>> => Head(poller[p].todo) \in Batches
      BY <3>1, HeadTailProperties
    <3>3. \A b \in Batches : session[b] \in SessionRecord
      BY DEF Sessions, SessionOK
    <3>4. QED
      BY <3>2, <3>3 DEF KeyOf, SessionRecord
  <2>3. QED
    BY <1>1, <2>1, <2>2
<1>3. \A q \in Pollers : PassOK(poller[q], Made(transfer'))
  BY DEF Passes, PassOK
<1>4. /\ poller' = [q \in Pollers |-> IF q = p THEN r ELSE poller[q]]
      /\ cursor' = [q \in Pollers |-> IF q = p THEN k ELSE cursor[q]]
  BY <1>1 DEF Passes
<1>5. \A q \in Pollers : PassOK(poller'[q], Made(transfer')) /\ cursor'[q] \in Nat \X Nat
  BY <1>1, <1>2, <1>3, <1>4 DEF Passes
<1>6. /\ poller' = [q \in Pollers |-> poller'[q]] /\ cursor' = [q \in Pollers |-> cursor'[q]]
      /\ rejected' \subseteq Batches
  BY <1>4 DEF PassMoves
<1>7. QED
  BY <1>5, <1>6 DEF Passes

LEMMA OthersPass ==
    ASSUME Passes, UNCHANGED <<poller, cursor, rejected>>,
           Made(transfer) \subseteq Made(transfer')
    PROVE  Passes'
<1>1. \A q \in Pollers : PassOK(poller[q], Made(transfer'))
  BY DEF Passes, PassOK
<1>2. QED
  BY <1>1 DEF Passes

\* A pass that ends keeps its cursor.
LEMMA EndedPassMoves ==
    ASSUME Passes, NEW p \in Pollers, FailPass(p), UNCHANGED <<cursor, rejected>>
    PROVE  PassMoves(p)
<1>1. PassOK(Idle, Made(transfer')) /\ Idle.todo = <<>>
  BY IdleIsOK DEF Idle
<1>2. poller' = [poller EXCEPT ![p] = Idle] /\ cursor' = [cursor EXCEPT ![p] = cursor[p]]
  BY DEF FailPass, Passes
<1>3. rejected \subseteq rejected' /\ rejected' \subseteq Batches
  BY DEF Passes
<1>4. QED
  BY <1>1, <1>2, <1>3 DEF PassMoves

LEMMA ResumeMoves ==
    ASSUME Passes, NEW p \in Pollers, NEW after \in Nat, Resume(p, after),
           UNCHANGED <<transfer, cursor, rejected>>
    PROVE  PassMoves(p)
<1>1. PICK page \in ListInitializing(after) :
         poller' = [poller EXCEPT ![p] = [Idle EXCEPT !.step = "resume", !.todo = page,
                                                      !.resumes = TRUE, !.full = (Len(page) = PageSize),
                                                      !.after = after]]
  BY DEF Resume
<1>2. PICK r : r = [Idle EXCEPT !.step = "resume", !.todo = page,
                                !.resumes = TRUE, !.full = (Len(page) = PageSize),
                                !.after = after]
  OBVIOUS
<1>3. r = [step |-> "resume", todo |-> page, full |-> (Len(page) = PageSize), after |-> after,
           resumes |-> TRUE, snapshot |-> <<>>]
  BY <1>2 DEF Idle
<1>4. /\ page \in Seq(Batches)
      /\ \A i \in DOMAIN page : transfer[page[i]].phase = "initializing" /\ page[i] \in Batches
  BY InitializingPage
<1>5. \A i \in DOMAIN page : page[i] \in Made(transfer)
  BY <1>4, NoTransferIsOK DEF Made
<1>6. r \in PassRecord
  <2>1. <<>> \in Seq(ToSet(Sellers))
    BY EmptySeq
  <2>2. (Len(page) = PageSize) \in BOOLEAN
    OBVIOUS
  <2>3. QED
    BY <1>3, <1>4, <2>1, <2>2 DEF PassRecord, Steps
<1>7. r.step = "resume" /\ r.todo = page /\ r.resumes = TRUE
  BY <1>3
<1>8. PassOK(r, Made(transfer'))
  BY <1>5, <1>6, <1>7 DEF PassOK
<1>9. poller' = [poller EXCEPT ![p] = r] /\ cursor' = [cursor EXCEPT ![p] = cursor[p]]
  BY <1>1, <1>2 DEF Passes
<1>10. rejected \subseteq rejected' /\ rejected' \subseteq Batches
  BY DEF Passes
<1>11. QED
  BY <1>7, <1>8, <1>9, <1>10 DEF PassMoves

LEMMA DiscoverMoves ==
    ASSUME Passes, NEW p \in Pollers, Discover(p), UNCHANGED <<transfer, cursor, rejected>>
    PROVE  PassMoves(p)
<1>1. PICK page \in ListFinalizedBatches(cursor[p]) :
         poller' = [poller EXCEPT ![p] = [Idle EXCEPT !.step = "discover", !.todo = page,
                                                      !.full = (Len(page) = PageSize)]]
  BY DEF Discover
<1>2. PICK r : r = [Idle EXCEPT !.step = "discover", !.todo = page, !.full = (Len(page) = PageSize)]
  OBVIOUS
<1>3. r = [step |-> "discover", todo |-> page, full |-> (Len(page) = PageSize), after |-> 0,
           resumes |-> FALSE, snapshot |-> <<>>]
  BY <1>2 DEF Idle
<1>4. page \in Seq(Batches)
  BY FinalizedPage
<1>6. r \in PassRecord
  <2>1. <<>> \in Seq(ToSet(Sellers))
    BY EmptySeq
  <2>2. (Len(page) = PageSize) \in BOOLEAN
    OBVIOUS
  <2>3. QED
    BY <1>3, <1>4, <2>1, <2>2 DEF PassRecord, Steps
<1>7. r.step = "discover" /\ r.todo = page /\ r.resumes = FALSE
  BY <1>3
<1>8. PassOK(r, Made(transfer'))
  BY <1>6, <1>7 DEF PassOK
<1>9. poller' = [poller EXCEPT ![p] = r] /\ cursor' = [cursor EXCEPT ![p] = cursor[p]]
  BY <1>1, <1>2 DEF Passes
<1>10. rejected \subseteq rejected' /\ rejected' \subseteq Batches
  BY DEF Passes
<1>11. QED
  BY <1>7, <1>8, <1>9, <1>10 DEF PassMoves


\* A pass that goes on with its page at another step.
SamePage(q, step, snapshot) ==
    [step |-> step, todo |-> q.todo, full |-> q.full, after |-> q.after,
     resumes |-> q.resumes, snapshot |-> snapshot]

LEMMA SamePageIsEdit ==
    ASSUME NEW q \in PassRecord, NEW step, NEW snapshot
    PROVE  [q EXCEPT !.step = step, !.snapshot = snapshot] = SamePage(q, step, snapshot)
<1>1. PICK new : new = [q EXCEPT !.step = step, !.snapshot = snapshot]
  OBVIOUS
<1>2. new = [step |-> step, todo |-> q.todo, full |-> q.full, after |-> q.after,
             resumes |-> q.resumes, snapshot |-> snapshot]
  BY <1>1 DEF PassRecord
<1>3. QED
  BY <1>1, <1>2 DEF SamePage

LEMMA SamePageMoves ==
    ASSUME Passes, NEW p \in Pollers, NEW step, NEW snapshot,
           poller' = [poller EXCEPT ![p] = SamePage(poller[p], step, snapshot)],
           PassOK(SamePage(poller[p], step, snapshot), Made(transfer')),
           UNCHANGED <<cursor, rejected>>
    PROVE  PassMoves(p)
<1>1. PICK r : r = SamePage(poller[p], step, snapshot)
  OBVIOUS
<1>2. r.todo = poller[p].todo /\ r.resumes = poller[p].resumes
  BY <1>1 DEF SamePage
<1>3. cursor' = [cursor EXCEPT ![p] = cursor[p]] /\ rejected \subseteq rejected' /\ rejected' \subseteq Batches
  BY DEF Passes
<1>4. poller' = [poller EXCEPT ![p] = r] /\ PassOK(r, Made(transfer'))
  BY <1>1
<1>5. QED
  BY <1>2, <1>3, <1>4 DEF PassMoves

LEMMA CredentialsAreSellers ==
    ASSUME NEW r
    PROVE  CredentialsByOwnerRole(r) \in Seq(ToSet(Sellers))
<1>1. Sellers \in Seq(ToSet(Sellers))
  BY ConstantsAssumption
<1>2. {i \in DOMAIN Sellers : role[OwnerOf[Sellers[i]]] = r /\ Sellers[i] \notin expired}
        \in SUBSET DOMAIN Sellers
  OBVIOUS
<1>3. QED
  BY <1>1, <1>2, ElementsAtPlaces DEF CredentialsByOwnerRole

LEMMA StartMoves ==
    ASSUME Passes, NEW p \in Pollers, Start(p)
    PROVE  PassMoves(p)
<1>1. PICK q : q = poller[p]
  OBVIOUS
<1>2. /\ q \in PassRecord /\ q.step = "discover" /\ q.todo # <<>> /\ q.resumes = FALSE
  BY <1>1 DEF Start, Passes, PassOK, PassRecord
<1>3. Head(q.todo) \in Batches
  BY <1>2, HeadTailProperties DEF PassRecord
<1>4. PICK step, snapshot :
         /\ step = IF transfer[Head(q.todo)] # NoTransfer THEN "build" ELSE "admins"
         /\ snapshot = IF transfer[Head(q.todo)] # NoTransfer THEN <<>>
                       ELSE CredentialsByOwnerRole("partner")
  OBVIOUS
<1>5. snapshot \in Seq(ToSet(Sellers))
  BY <1>4, CredentialsAreSellers, EmptySeq
<1>6. poller' = [poller EXCEPT ![p].step = step, ![p].snapshot = snapshot]
  BY <1>1, <1>4 DEF Start
<1>7. poller' = [poller EXCEPT ![p] = [q EXCEPT !.step = step, !.snapshot = snapshot]]
  BY <1>1, <1>6 DEF Passes
<1>8. [q EXCEPT !.step = step, !.snapshot = snapshot] = SamePage(q, step, snapshot)
  BY <1>2, SamePageIsEdit
<1>9. PassOK(SamePage(q, step, snapshot), Made(transfer))
  <2>1. PICK r : r = SamePage(q, step, snapshot)
    OBVIOUS
  <2>2. /\ r.step = step /\ r.todo = q.todo /\ r.resumes = FALSE
        /\ r \in PassRecord
    BY <1>2, <1>4, <1>5, <2>1 DEF SamePage, PassRecord, Steps
  <2>3. step = "build" => Head(q.todo) \in Made(transfer)
    BY <1>3, <1>4 DEF Made
  <2>4. step \in {"build", "admins"}
    BY <1>4
  <2>5. PassOK(r, Made(transfer))
    BY <1>2, <2>2, <2>3, <2>4 DEF PassOK
  <2>6. QED
    BY <2>1, <2>5
<1>10. UNCHANGED <<transfer, cursor, rejected>>
  BY DEF Start, database
<1>11. QED
  BY <1>1, <1>7, <1>8, <1>9, <1>10, SamePageMoves

LEMMA ReadAdminsMoves ==
    ASSUME Passes, NEW p \in Pollers, ReadAdmins(p)
    PROVE  PassMoves(p)
<1>1. PICK q : q = poller[p]
  OBVIOUS
<1>2. /\ q \in PassRecord /\ q.step = "admins" /\ q.todo # <<>> /\ q.resumes = FALSE
  BY <1>1 DEF ReadAdmins, Passes, PassOK, PassRecord
<1>3. PICK b \in Batches : b = Head(q.todo)
  BY <1>2, HeadTailProperties DEF PassRecord
<1>4. PICK targets \in Seq(ToSet(Sellers)) : targets = q.snapshot \o CredentialsByOwnerRole("admin")
  BY <1>2, CredentialsAreSellers, ConcatProperties DEF PassRecord
<1>5. UNCHANGED transfer
  BY DEF ReadAdmins, database
<1>6. CASE FailPass(p) /\ UNCHANGED <<cursor, rejected>>
  BY <1>6, EndedPassMoves
<1>7. CASE Reject(p, b) /\ FailPass(p)
  <2>1. /\ poller' = [poller EXCEPT ![p] = Idle] /\ cursor' = [cursor EXCEPT ![p] = KeyOf(b)]
        /\ rejected' = rejected \cup {b}
    BY <1>7 DEF Reject, FailPass
  <2>2. PassOK(Idle, Made(transfer')) /\ Idle.todo = <<>>
    BY IdleIsOK DEF Idle
  <2>3. rejected \subseteq rejected' /\ rejected' \subseteq Batches
    BY <2>1 DEF Passes
  <2>4. Passed(b)'
    BY <2>1 DEF Passed
  <2>5. QED
    BY <1>1, <1>2, <1>3, <2>1, <2>2, <2>3, <2>4 DEF PassMoves
<1>8. CASE /\ targets # <<>>
           /\ poller' = [poller EXCEPT ![p].step = "create", ![p].snapshot = targets]
           /\ UNCHANGED <<cursor, rejected>>
  <2>1. poller' = [poller EXCEPT ![p] = [q EXCEPT !.step = "create", !.snapshot = targets]]
    BY <1>1, <1>8 DEF Passes
  <2>2. [q EXCEPT !.step = "create", !.snapshot = targets] = SamePage(q, "create", targets)
    BY <1>2, SamePageIsEdit
  <2>3. PICK r : r = SamePage(q, "create", targets)
    OBVIOUS
  <2>4. /\ r.step = "create" /\ r.todo = q.todo /\ r.resumes = FALSE /\ r.snapshot = targets
        /\ r \in PassRecord
    BY <1>2, <2>3 DEF SamePage, PassRecord, Steps
  <2>5. PassOK(r, Made(transfer'))
    BY <1>2, <1>8, <2>4 DEF PassOK
  <2>6. QED
    BY <1>1, <1>8, <2>1, <2>2, <2>3, <2>5, SamePageMoves
<1>9. QED
  BY <1>1, <1>3, <1>4, <1>6, <1>7, <1>8 DEF ReadAdmins


LEMMA InitializeDoneMoves ==
    ASSUME Transfers, Passes, NEW p \in Pollers, NEW b \in Batches, InitializeDone(p),
           poller[p].todo # <<>>, b = Head(poller[p].todo),
           transfer'[b].phase \in {"preparing", "finished"},
           Made(transfer) \subseteq Made(transfer'),
           UNCHANGED rejected
    PROVE  PassMoves(p)
<1>1. PICK q : q = poller[p]
  OBVIOUS
<1>2. q \in PassRecord /\ q.todo # <<>> /\ q.todo \in Seq(Batches) /\ b = Head(q.todo)
  BY <1>1 DEF Passes, PassOK, PassRecord
<1>3. rejected \subseteq rejected' /\ rejected' \subseteq Batches
  BY DEF Passes
<1>4. /\ Tail(q.todo) \in Seq(Batches)
      /\ Len(Tail(q.todo)) = Len(q.todo) - 1 /\ Len(q.todo) \in Nat
      /\ DOMAIN Tail(q.todo) = 1..Len(Tail(q.todo)) /\ DOMAIN q.todo = 1..Len(q.todo)
      /\ \A i \in 1..Len(Tail(q.todo)) : Tail(q.todo)[i] = q.todo[i + 1]
  BY <1>2, HeadTailProperties, LenProperties
<1>5. \A i \in DOMAIN Tail(q.todo) : i + 1 \in DOMAIN q.todo /\ Tail(q.todo)[i] = q.todo[i + 1]
  BY <1>4
<1>6. CASE q.resumes
  <2>1. PICK r : r = [q EXCEPT !.step = "resume", !.todo = Tail(q.todo), !.after = transfer[b].id]
    OBVIOUS
  <2>2. poller' = [poller EXCEPT ![p] = r] /\ cursor' = [cursor EXCEPT ![p] = cursor[p]]
    BY <1>1, <1>6, <2>1 DEF InitializeDone, Passes
  <2>3. r = [step |-> "resume", todo |-> Tail(q.todo), full |-> q.full, after |-> transfer[b].id,
             resumes |-> q.resumes, snapshot |-> q.snapshot]
    BY <1>2, <2>1 DEF PassRecord
  <2>4. transfer[b].id \in Nat
    BY DEF Transfers, TransferOK, TransferRecord
  <2>5. /\ r.step = "resume" /\ r.todo = Tail(q.todo) /\ r.resumes = TRUE
        /\ r \in PassRecord
    BY <1>2, <1>4, <1>6, <2>3, <2>4 DEF PassRecord, Steps
  <2>6. \A i \in DOMAIN q.todo : q.todo[i] \in Made(transfer')
    BY <1>1, <1>6 DEF Passes, PassOK
  <2>7. \A i \in DOMAIN r.todo : r.todo[i] \in Made(transfer')
    BY <1>5, <2>5, <2>6
  <2>8. PassOK(r, Made(transfer'))
    BY <2>5, <2>7 DEF PassOK
  <2>9. QED
    BY <1>3, <2>2, <2>5, <2>8 DEF PassMoves
<1>7. CASE ~q.resumes
  <2>1. PICK r : r = [q EXCEPT !.step = "discover", !.todo = Tail(q.todo)]
    OBVIOUS
  <2>2. poller' = [poller EXCEPT ![p] = r] /\ cursor' = [cursor EXCEPT ![p] = KeyOf(b)]
    BY <1>1, <1>7, <2>1 DEF InitializeDone, AdvanceBatchCursor, Passes
  <2>3. r = [step |-> "discover", todo |-> Tail(q.todo), full |-> q.full, after |-> q.after,
             resumes |-> q.resumes, snapshot |-> q.snapshot]
    BY <1>2, <2>1 DEF PassRecord
  <2>4. /\ r.step = "discover" /\ r.todo = Tail(q.todo) /\ r.resumes = FALSE
        /\ r \in PassRecord
    BY <1>2, <1>4, <1>7, <2>3 DEF PassRecord, Steps
  <2>5. PassOK(r, Made(transfer'))
    BY <2>4 DEF PassOK
  <2>6. Passed(b)'
    BY DEF Passed
  <2>7. /\ ~poller[p].resumes /\ poller[p].todo # <<>>
        /\ b = Head(poller[p].todo)
        /\ r.todo \in {<<>>, Tail(poller[p].todo)}
    BY <1>1, <1>7, <2>4
  <2>8. QED
    BY <1>3, <2>2, <2>5, <2>6, <2>7 DEF PassMoves
<1>8. QED
  BY <1>6, <1>7

LEMMA CreateTransferMoves ==
    ASSUME Transfers, Passes, NEW p \in Pollers, CreateTransfer(p)
    PROVE  TransfersMove /\ PassMoves(p)
<1>1. PICK q : q = poller[p]
  OBVIOUS
<1>2. /\ q \in PassRecord /\ q.step = "create" /\ q.todo # <<>> /\ q.resumes = FALSE
      /\ q.snapshot # <<>> /\ q.snapshot \in Seq(ToSet(Sellers))
  BY <1>1 DEF CreateTransfer, Passes, PassOK, PassRecord
<1>3. PICK b \in Batches : b = Head(q.todo)
  BY <1>2, HeadTailProperties DEF PassRecord
<1>4. TransfersMove /\ transfer'[b] # NoTransfer
  <2>1. Create(b, q.snapshot) /\ UNCHANGED matrix
    BY <1>1, <1>3 DEF CreateTransfer
  <2>2. QED
    BY <1>2, <2>1, CreateMoves
<1>5. UNCHANGED rejected
  BY DEF CreateTransfer
<1>6. CASE FailPass(p) /\ UNCHANGED cursor
  BY <1>4, <1>5, <1>6, EndedPassMoves
<1>7. CASE /\ poller' = [poller EXCEPT ![p].step = "build", ![p].snapshot = <<>>]
           /\ UNCHANGED cursor
  <2>1. poller' = [poller EXCEPT ![p] = [q EXCEPT !.step = "build", !.snapshot = <<>>]]
    BY <1>1, <1>7 DEF Passes
  <2>2. [q EXCEPT !.step = "build", !.snapshot = <<>>] = SamePage(q, "build", <<>>)
    BY <1>2, SamePageIsEdit
  <2>3. PICK r : r = SamePage(q, "build", <<>>)
    OBVIOUS
  <2>4. <<>> \in Seq(ToSet(Sellers))
    BY EmptySeq
  <2>5. /\ r.step = "build" /\ r.todo = q.todo /\ r.resumes = FALSE
        /\ r \in PassRecord
    BY <1>2, <2>3, <2>4 DEF SamePage, PassRecord, Steps
  <2>6. Head(r.todo) \in Made(transfer')
    BY <1>3, <1>4, <2>5 DEF Made
  <2>7. PassOK(r, Made(transfer'))
    BY <1>2, <2>5, <2>6 DEF PassOK
  <2>8. QED
    BY <1>1, <1>4, <1>5, <1>7, <2>1, <2>2, <2>3, <2>7, SamePageMoves
<1>8. QED
  BY <1>4, <1>6, <1>7 DEF CreateTransfer, Answered

LEMMA BuildCommandMoves ==
    ASSUME Transfers, Passes, NEW p \in Pollers, BuildCommand(p)
    PROVE  TransfersMove /\ PassMoves(p)
<1>1. PICK q : q = poller[p]
  OBVIOUS
<1>2. /\ q \in PassRecord /\ q.todo # <<>> /\ PassOK(q, Made(transfer))
      /\ q.step = "build" \/ (q.step = "resume" /\ q.resumes = TRUE)
  <2>1. PassOK(q, Made(transfer)) /\ q \in PassRecord
    BY <1>1 DEF Passes, PassOK
  <2>2. q.step = "build" \/ (q.step = "resume" /\ q.todo # <<>>)
    BY <1>1 DEF BuildCommand
  <2>3. q.resumes \in BOOLEAN
    BY <2>1 DEF PassRecord
  <2>4. QED
    BY <2>1, <2>2, <2>3 DEF PassOK
<1>3. PICK b \in Batches : b = Head(q.todo) /\ b \in Made(transfer)
  <2>1. Head(q.todo) \in Batches /\ Head(q.todo) = q.todo[1] /\ 1 \in DOMAIN q.todo
    <3>1. q.todo \in Seq(Batches)
      BY <1>2 DEF PassRecord
    <3>2. Len(q.todo) \in Nat \ {0} /\ DOMAIN q.todo = 1..Len(q.todo)
      BY <1>2, <3>1, EmptySeq, LenProperties
    <3>3. QED
      BY <1>2, <3>1, <3>2, HeadTailProperties
  <2>2. CASE q.step = "build"
    BY <1>2, <2>1, <2>2 DEF PassOK
  <2>3. CASE q.resumes = TRUE
    BY <1>2, <2>1, <2>3 DEF PassOK
  <2>4. QED
    BY <1>2, <2>2, <2>3
<1>4. /\ UNCHANGED <<transfer, matrix, lastTransfer, rejected>>
      /\ Made(transfer') = Made(transfer)
  BY DEF BuildCommand, database, Made
<1>5. TransfersMove
  BY <1>4, TransfersStay
<1>6. transfer[b] # NoTransfer /\ TransferOK(b, transfer[b], matrix[b])
  BY <1>3 DEF Made, Transfers
<1>7. CASE transfer[b].phase # "initializing" /\ InitializeDone(p)
  <2>1. transfer'[b].phase \in {"preparing", "finished"}
    BY <1>4, <1>6, <1>7 DEF TransferOK
  <2>2. Made(transfer) \subseteq Made(transfer')
    BY <1>4
  <2>3. PassMoves(p)
    BY <1>1, <1>2, <1>3, <1>4, <1>7, <2>1, <2>2, InitializeDoneMoves
  <2>4. QED
    BY <1>5, <2>3
<1>8. CASE Goto(p, IF Consistent(b) THEN "persist" ELSE "fail") /\ UNCHANGED cursor
  <2>1. PICK step : step = IF Consistent(b) THEN "persist" ELSE "fail"
    OBVIOUS
  <2>2. poller' = [poller EXCEPT ![p] = [q EXCEPT !.step = step]]
    BY <1>1, <1>8, <2>1 DEF Goto, Passes
  <2>3. [q EXCEPT !.step = step] = SamePage(q, step, q.snapshot)
    <3>1. PICK new : new = [q EXCEPT !.step = step]
      OBVIOUS
    <3>2. new = [step |-> step, todo |-> q.todo, full |-> q.full, after |-> q.after,
                 resumes |-> q.resumes, snapshot |-> q.snapshot]
      BY <1>2, <3>1 DEF PassRecord
    <3>3. QED
      BY <3>1, <3>2 DEF SamePage
  <2>4. PICK r : r = SamePage(q, step, q.snapshot)
    OBVIOUS
  <2>5. /\ r.step = step /\ r.todo = q.todo /\ r.resumes = q.resumes
        /\ r \in PassRecord
    BY <1>2, <2>1, <2>4 DEF SamePage, PassRecord, Steps
  <2>6. step \in {"persist", "fail"} /\ (step = "persist" <=> b \notin Damaged)
    BY <2>1, SoundIsConsistent
  <2>7. PassOK(r, Made(transfer'))
    BY <1>2, <1>3, <1>4, <2>5, <2>6 DEF PassOK
  <2>8. PassMoves(p)
    BY <1>1, <1>4, <1>8, <2>2, <2>3, <2>4, <2>7, SamePageMoves
  <2>9. QED
    BY <1>5, <2>8
<1>9. QED
  BY <1>1, <1>3, <1>7, <1>8 DEF BuildCommand


LEMMA PersistInitializationMoves ==
    ASSUME Transfers, Passes, NEW p \in Pollers, PersistInitialization(p)
    PROVE  TransfersMove /\ PassMoves(p)
<1>1. PICK q : q = poller[p]
  OBVIOUS
<1>2. /\ q \in PassRecord /\ q.todo # <<>>
      /\ Head(q.todo) \in Made(transfer) /\ Head(q.todo) \notin Damaged
  BY <1>1 DEF PersistInitialization, Passes, PassOK
<1>3. PICK b \in Batches \ Damaged : b = Head(q.todo) /\ transfer[b] # NoTransfer
  BY <1>2 DEF Made
<1>4. /\ IF transfer[b].phase # "initializing"
         THEN UNCHANGED <<transfer, matrix>>
         ELSE /\ matrix' = [matrix EXCEPT ![b] = InitializationRows(BuildInitialization(b),
                                                                    transfer[b].targets)]
              /\ transfer' = [transfer EXCEPT ![b].phase = "preparing"]
      /\ UNCHANGED <<lastTransfer, rejected>>
      /\ Answered(p, InitializeDone(p))
  BY <1>1, <1>3 DEF PersistInitialization
<1>5. TransfersMove /\ transfer'[b].phase \in {"preparing", "finished"}
  BY <1>3, <1>4, PersistMoves
<1>6. CASE InitializeDone(p)
  BY <1>1, <1>2, <1>3, <1>4, <1>5, <1>6, InitializeDoneMoves DEF TransfersMove
<1>7. CASE FailPass(p) /\ UNCHANGED cursor
  BY <1>4, <1>5, <1>7, EndedPassMoves
<1>8. QED
  BY <1>4, <1>6, <1>7 DEF Answered

LEMMA MarkInitializationFailedMoves ==
    ASSUME Transfers, Passes, NEW p \in Pollers, MarkInitializationFailed(p)
    PROVE  TransfersMove /\ PassMoves(p)
<1>1. PICK q : q = poller[p]
  OBVIOUS
<1>2. /\ q \in PassRecord /\ q.todo # <<>>
      /\ Head(q.todo) \in Made(transfer) /\ Head(q.todo) \in Damaged
  BY <1>1 DEF MarkInitializationFailed, Passes, PassOK
<1>3. PICK b \in Batches : b = Head(q.todo) /\ b \in Damaged /\ transfer[b] # NoTransfer
  BY <1>2 DEF Made
<1>4. /\ MarkFailed(b) /\ UNCHANGED <<matrix, lastTransfer, rejected>>
      /\ IF transfer'[b].outcome = "failed"
         THEN Answered(p, InitializeDone(p))
         ELSE FailPass(p) /\ UNCHANGED <<cursor, faults>>
  BY <1>1, <1>3 DEF MarkInitializationFailed
<1>5. /\ TransfersMove
      /\ transfer'[b].outcome = "failed" => transfer'[b].phase \in {"preparing", "finished"}
  BY <1>3, <1>4, MarkFailedMoves
<1>6. CASE InitializeDone(p) /\ transfer'[b].outcome = "failed"
  BY <1>1, <1>2, <1>3, <1>4, <1>5, <1>6, InitializeDoneMoves DEF TransfersMove
<1>7. CASE FailPass(p) /\ UNCHANGED cursor
  BY <1>4, <1>5, <1>7, EndedPassMoves
<1>8. QED
  BY <1>4, <1>6, <1>7 DEF Answered

LEMMA RestartMoves ==
    ASSUME Passes, NEW p \in Pollers, Restart(p)
    PROVE  PassMoves(p)
<1>1. PassOK(Idle, Made(transfer')) /\ Idle.todo = <<>>
  BY IdleIsOK DEF Idle
<1>2. poller' = [poller EXCEPT ![p] = Idle] /\ cursor' = [cursor EXCEPT ![p] = NoCursor]
  BY DEF Restart, FailPass
<1>3. rejected \subseteq rejected' /\ rejected' \subseteq Batches
  BY DEF Restart, Passes
<1>4. QED
  BY <1>1, <1>2, <1>3 DEF PassMoves

\* Every step of an instance.
PollerStep(p) == BeginPass(p) \/ PassStep(p) \/ StatementFails(p) \/ Restart(p)

LEMMA PollerStepMoves ==
    ASSUME Transfers, Passes, NEW p \in Pollers, PollerStep(p)
    PROVE  TransfersMove /\ PassMoves(p) /\ UNCHANGED <<session, clock, lastID>>
<1>1. poller[p] \in PassRecord /\ poller[p].after \in Nat
  BY DEF Passes, PassOK, PassRecord
<1>2. CASE BeginPass(p)
  <2>1. Resume(p, 0) /\ UNCHANGED <<transfer, matrix, lastTransfer, cursor, rejected, session, clock, lastID>>
    BY <1>2 DEF BeginPass, database
  <2>2. QED
    BY <2>1, ResumeMoves, TransfersStay
<1>3. CASE ResumeNext(p)
  <2>1. /\ Resume(p, poller[p].after) \/ Discover(p)
        /\ UNCHANGED <<transfer, matrix, lastTransfer, cursor, rejected, session, clock, lastID>>
    BY <1>3 DEF ResumeNext, database
  <2>2. QED
    BY <1>1, <2>1, ResumeMoves, DiscoverMoves, TransfersStay
<1>4. CASE DiscoverNext(p)
  <2>1. /\ Discover(p) \/ FailPass(p)
        /\ UNCHANGED <<transfer, matrix, lastTransfer, cursor, rejected, session, clock, lastID>>
    BY <1>4 DEF DiscoverNext, database
  <2>2. QED
    BY <2>1, DiscoverMoves, EndedPassMoves, TransfersStay
<1>5. CASE Start(p)
  <2>1. UNCHANGED <<transfer, matrix, lastTransfer, session, clock, lastID>>
    BY <1>5 DEF Start, database
  <2>2. QED
    BY <1>5, <2>1, StartMoves, TransfersStay
<1>6. CASE ReadAdmins(p)
  <2>1. UNCHANGED <<transfer, matrix, lastTransfer, session, clock, lastID>>
    BY <1>6 DEF ReadAdmins, database
  <2>2. QED
    BY <1>6, <2>1, ReadAdminsMoves, TransfersStay
<1>7. CASE CreateTransfer(p)
  BY <1>7, CreateTransferMoves DEF CreateTransfer
<1>8. CASE BuildCommand(p)
  BY <1>8, BuildCommandMoves DEF BuildCommand, database
<1>9. CASE PersistInitialization(p)
  BY <1>9, PersistInitializationMoves DEF PersistInitialization
<1>10. CASE MarkInitializationFailed(p)
  BY <1>10, MarkInitializationFailedMoves DEF MarkInitializationFailed
<1>11. CASE StatementFails(p)
  <2>1. FailPass(p) /\ UNCHANGED <<transfer, matrix, lastTransfer, cursor, rejected, session, clock, lastID>>
    BY <1>11 DEF StatementFails, database
  <2>2. QED
    BY <2>1, EndedPassMoves, TransfersStay
<1>12. CASE Restart(p)
  <2>1. UNCHANGED <<transfer, matrix, lastTransfer, session, clock, lastID>>
    BY <1>12 DEF Restart, database
  <2>2. QED
    BY <1>12, <2>1, RestartMoves, TransfersStay
<1>13. QED
  BY <1>2, <1>3, <1>4, <1>5, <1>6, <1>7, <1>8, <1>9, <1>10, <1>11, <1>12
     DEF PollerStep, PassStep

\* A step of the finalizations.
SessionStep(b) == BeginFinalize(b) \/ InsertBatch(b) \/ CommitFinalize(b)

LEMMA NextCases ==
    ASSUME [Next]_vars
    PROVE  \/ /\ \E b \in Batches : SessionStep(b)
              /\ UNCHANGED <<transfer, matrix, lastTransfer, poller, cursor, rejected>>
           \/ \E p \in Pollers : PollerStep(p)
           \/ UNCHANGED <<session, clock, lastID, transfer, matrix, lastTransfer, poller, cursor, rejected>>
<1>1. CASE \E b \in Batches : BeginFinalize(b) \/ FinalizeStep(b)
  BY <1>1 DEF FinalizeStep, SessionStep, BeginFinalize, InsertBatch, CommitFinalize
<1>2. CASE \E o \in DOMAIN role, r \in Roles : ChangeRole(o, r)
  BY <1>2 DEF ChangeRole, database
<1>3. CASE \E s \in ToSet(Sellers) : Expire(s)
  BY <1>3 DEF Expire, database
<1>4. CASE \E p \in Pollers : BeginPass(p) \/ PassStep(p) \/ StatementFails(p) \/ Restart(p)
  BY <1>4 DEF PollerStep
<1>5. CASE UNCHANGED vars
  BY <1>5 DEF vars, database
<1>6. QED
  BY <1>1, <1>2, <1>3, <1>4, <1>5 DEF Next

\* What has gone past a batch changes with a commit and with a restart.
LEMMA OvertakenMoves ==
    ASSUME overtaken \in [Pollers -> SUBSET Batches], [Next]_vars
    PROVE  /\ overtaken' \in [Pollers -> SUBSET Batches]
           /\ \/ UNCHANGED overtaken
              \/ \E b \in Batches : CommitFinalize(b)
              \/ \E p \in Pollers : Restart(p)
<1>1. CASE \E b \in Batches : CommitFinalize(b)
  BY <1>1 DEF CommitFinalize
<1>2. CASE \E p \in Pollers : Restart(p)
  BY <1>2 DEF Restart
<1>3. CASE \E b \in Batches : BeginFinalize(b) \/ InsertBatch(b)
  BY <1>3 DEF BeginFinalize, InsertBatch
<1>4. CASE \E o \in DOMAIN role, r \in Roles : ChangeRole(o, r)
  BY <1>4 DEF ChangeRole
<1>5. CASE \E s \in ToSet(Sellers) : Expire(s)
  BY <1>5 DEF Expire
<1>6. ASSUME NEW p \in Pollers, BeginPass(p) \/ StatementFails(p) \/ PassStep(p)
      PROVE  UNCHANGED overtaken
  BY <1>6 DEF BeginPass, StatementFails, PassStep, ResumeNext, DiscoverNext, Start, ReadAdmins,
              CreateTransfer, BuildCommand, PersistInitialization, MarkInitializationFailed
<1>7. CASE UNCHANGED vars
  BY <1>7 DEF vars
<1>8. QED
  BY <1>1, <1>2, <1>3, <1>4, <1>5, <1>6, <1>7 DEF Next, FinalizeStep

LEMMA InvStep ==
    ASSUME Inv, [Next]_vars
    PROVE  Inv' /\ \A b \in Batches : KeptAs(transfer[b], transfer'[b])
<1>0. overtaken' \in [Pollers -> SUBSET Batches]
  BY OvertakenMoves DEF Inv
<1>1. Sessions /\ Transfers /\ Passes
  BY DEF Inv
<1>2. CASE /\ \E b \in Batches : SessionStep(b)
           /\ UNCHANGED <<transfer, matrix, lastTransfer, poller, cursor, rejected>>
  <2>1. Sessions'
    BY <1>1, <1>2, SessionsMove DEF SessionStep
  <2>2. TransfersMove
    BY <1>1, <1>2, TransfersStay
  <2>3. Passes'
    BY <1>1, <1>2, <2>2, OthersPass DEF TransfersMove
  <2>4. QED
    BY <1>0, <2>1, <2>2, <2>3 DEF Inv, TransfersMove
<1>3. CASE \E p \in Pollers : PollerStep(p)
  <2>1. PICK p \in Pollers : PollerStep(p)
    BY <1>3
  <2>2. TransfersMove /\ PassMoves(p) /\ UNCHANGED <<session, clock, lastID>>
    BY <1>1, <2>1, PollerStepMoves
  <2>3. Sessions'
    BY <1>1, <2>2 DEF Sessions, SessionOK, Numbered
  <2>4. Passes'
    BY <1>1, <2>2, PassesMove DEF TransfersMove
  <2>5. QED
    BY <1>0, <2>2, <2>3, <2>4 DEF Inv, TransfersMove
<1>4. CASE UNCHANGED <<session, clock, lastID, transfer, matrix, lastTransfer, poller, cursor, rejected>>
  <2>1. Sessions'
    BY <1>1, <1>4 DEF Sessions, SessionOK, Numbered
  <2>2. TransfersMove
    BY <1>1, <1>4, TransfersStay
  <2>3. Passes'
    BY <1>1, <1>4, <2>2, OthersPass DEF TransfersMove
  <2>4. QED
    BY <1>0, <2>1, <2>2, <2>3 DEF Inv, TransfersMove
<1>5. QED
  BY <1>2, <1>3, <1>4, NextCases

\* The invariant of the polling: sessions numbered by their commits, transfers
\* with the rows of their batch, passes that work at the head of their page.
THEOREM InvHolds == Spec => []Inv
<1>1. Inv /\ [Next]_vars => Inv'
  BY InvStep
<1>2. QED
  BY InitInv, <1>1, PTL DEF Spec


LEMMA InvIsSound == Inv => InitializationIsSound
<1> SUFFICES ASSUME Inv PROVE InitializationIsSound
  OBVIOUS
<1>1. Sessions /\ Transfers /\ Passes
  BY DEF Inv
<1>2. TypeOK
  <2>1. IsFiniteSet(Batches) /\ Cardinality(Batches) \in Nat
    BY ConstantsAssumption, FS_CardinalityType
  <2>2. lastID \in 0..Cardinality(Batches)
    <3>1. IsFiniteSet(Numbered(session)) /\ lastID <= Cardinality(Batches)
      BY <1>1, <2>1, FS_Subset DEF Sessions, Numbered
    <3>2. lastID \in Nat
      BY <1>1, <3>1, FS_CardinalityType DEF Sessions
    <3>3. QED
      BY <2>1, <3>1, <3>2
  <2>3. lastTransfer \in 0..Cardinality(Batches)
    <3>1. IsFiniteSet(Made(transfer)) /\ lastTransfer <= Cardinality(Batches)
      BY <1>1, <2>1, FS_Subset DEF Transfers, Made
    <3>2. lastTransfer \in Nat
      BY <1>1, <3>1, FS_CardinalityType DEF Transfers
    <3>3. QED
      BY <2>1, <3>1, <3>2
  <2>4. session \in [Batches -> [status : {"collecting", "begun", "inserted", "finalized"},
                                 at : Nat, id : 0..Cardinality(Batches)]]
    <3>1. ASSUME NEW b \in Batches
          PROVE  session[b] \in [status : {"collecting", "begun", "inserted", "finalized"},
                                 at : Nat, id : 0..Cardinality(Batches)]
      <4>1. session[b] \in SessionRecord /\ session[b].id \in 0..lastID
        BY <1>1, <2>2 DEF Sessions, SessionOK
      <4>2. session[b].id \in 0..Cardinality(Batches)
        BY <2>1, <2>2, <4>1
      <4>3. QED
        BY <4>1, <4>2 DEF SessionRecord
    <3>2. QED
      BY <1>1, <3>1 DEF Sessions
  <2>5. \A b \in Batches :
          <<transfer[b].phase, transfer[b].outcome>> \in
              {<<"none", "none">>, <<"initializing", "running">>,
               <<"preparing", "running">>, <<"finished", "failed">>}
    <3>1. SUFFICES ASSUME NEW b \in Batches
                   PROVE  <<transfer[b].phase, transfer[b].outcome>> \in
                              {<<"none", "none">>, <<"initializing", "running">>,
                               <<"preparing", "running">>, <<"finished", "failed">>}
      OBVIOUS
    <3>2. TransferOK(b, transfer[b], matrix[b])
      BY <1>1 DEF Transfers
    <3>3. QED
      BY <3>2, NoTransferIsOK DEF TransferOK
  <2>6. \A p \in Pollers : poller[p].step \in Steps /\ cursor[p] \in Nat \X Nat
    BY <1>1 DEF Passes, PassOK, PassRecord
  <2>7. QED
    BY <1>1, <2>3, <2>4, <2>5, <2>6 DEF TypeOK, Passes, Inv
<1>3. MatrixIsComplete
  <2>1. \A b \in Batches : transfer[b].phase = "preparing" =>
           RowsAreComplete(matrix[b], Items[b], transfer[b].targets)
    BY <1>1 DEF Transfers, TransferOK
  <2>2. QED
    BY <2>1, Zenon DEF MatrixIsComplete, RowsAreComplete
<1>4. FailedWasDamaged
  BY <1>1 DEF Transfers, TransferOK, FailedWasDamaged
<1>5. QED
  BY <1>2, <1>3, <1>4 DEF InitializationIsSound

\* A transfer gets the product of its items and its targets, whatever the order of
\* the groups, the numbers of groups, items and targets and the page sizes, or its
\* batch was damaged (service/initialization/worker.go, repository/postgres/
\* initialization.go).
THEOREM InitializationStaysSound == Spec => []InitializationIsSound
  BY InvHolds, InvIsSound, PTL

\* No instance changes what another created: ON CONFLICT of Create and the phase
\* conditions of the updates hold under any number of instances.
THEOREM TransferStaysKept == Spec => TransferIsKept
<1>1. ASSUME Inv, [Next]_vars, NEW b \in Batches, transfer[b] # NoTransfer
      PROVE  /\ transfer'[b].id = transfer[b].id
             /\ transfer'[b].targets = transfer[b].targets
             /\ Settled(b) => transfer'[b] = transfer[b]
  <2>1. KeptAs(transfer[b], transfer'[b])
    BY <1>1, InvStep
  <2>2. QED
    BY <1>1, <2>1 DEF KeptAs, Settled
<1>2. Inv /\ [Next]_vars =>
        [\A b \in Batches : transfer[b] # NoTransfer =>
            /\ transfer'[b].id = transfer[b].id
            /\ transfer'[b].targets = transfer[b].targets
            /\ Settled(b) => transfer'[b] = transfer[b]]_vars
  BY <1>1
<1>3. QED
  BY InvHolds, <1>2, PTL DEF Spec, TransferIsKept


-----------------------------------------------------------------------------
(* The cursor. *)

\* Keys are ordered by time and number.
LEMMA KeyOrder ==
    /\ \A k \in Nat \X Nat : ~KeyLess(k, k)
    /\ \A k, l, m \in Nat \X Nat : KeyLess(k, l) /\ KeyLess(l, m) => KeyLess(k, m)
  BY DEF KeyLess

\* A discovery has before it, in order, what is finalized after its cursor, or
\* will find it behind its page; all but what committed behind its place.
Searches ==
    \A p \in Pollers : ~poller[p].resumes =>
        FoundAfter(cursor[p], poller[p].todo, session, overtaken[p])

CursorInv == Searches /\ CursorPassesOnlySettled

LEMMA EmptyPageIsFound ==
    ASSUME NEW k, NEW s, NEW aside
    PROVE  FoundAfter(k, <<>>, s, aside)
  BY DEF FoundAfter

LEMMA NoCursorIsFirst ==
    ASSUME Sessions, NEW b \in Batches, session[b].status = "finalized"
    PROVE  KeyLess(NoCursor, KeyOf(b)) /\ KeyOf(b) \in Nat \X Nat
<1>1. SessionOK(session[b], lastID, clock)
  BY DEF Sessions
<1>2. session[b].at \in Nat \ {0} /\ session[b].id \in Nat
  <2>1. clock \in Nat
    BY DEF Sessions
  <2>2. session[b].at \in 1..clock /\ session[b].id \in Nat
    BY <1>1 DEF SessionOK, SessionRecord
  <2>3. QED
    BY <2>1, <2>2
<1>3. QED
  BY <1>2 DEF KeyLess, NoCursor, KeyOf

LEMMA InitCursor == Init => CursorInv
<1> SUFFICES ASSUME Init PROVE CursorInv
  OBVIOUS
<1>1. \A b \in Batches : session[b].status = "collecting"
  BY DEF Init
<1>2. \A p \in Pollers : cursor[p] = NoCursor /\ poller[p].todo = <<>>
  <2>1. \A p \in Pollers : cursor[p] = NoCursor
    BY DEF Init
  <2>2. \A p \in Pollers : poller[p] = IF p \in Leaving THEN [Idle EXCEPT !.step = "resume"] ELSE Idle
    BY DEF Init
  <2>3. Idle.todo = <<>> /\ [Idle EXCEPT !.step = "resume"].todo = <<>>
    BY DEF Idle
  <2>4. QED
    BY <2>1, <2>2, <2>3
<1>3. Searches
  BY <1>2, EmptyPageIsFound DEF Searches
<1>4. CursorPassesOnlySettled
  BY <1>1 DEF CursorPassesOnlySettled, Finalized
<1>5. QED
  BY <1>3, <1>4 DEF CursorInv

LEMMA SessionStepKeepsCursor ==
    ASSUME Inv, CursorInv, NEW b \in Batches, SessionStep(b),
           UNCHANGED <<transfer, poller, cursor, rejected>>
    PROVE  CursorInv'
<1> USE DEF Inv
<1>1. PICK s : s = session'[b]
  OBVIOUS
<1>2. session[b] \in SessionRecord /\ SessionOK(session[b], lastID, clock) /\ clock \in Nat /\ lastID \in Nat
  <2>1. IsFiniteSet(Numbered(session))
    BY ConstantsAssumption, FS_Subset DEF Numbered
  <2>2. lastID \in Nat
    BY <2>1, FS_CardinalityType DEF Sessions
  <2>3. QED
    BY <2>2 DEF Sessions, SessionOK
<1>3. \A c \in Batches : c # b => session'[c] = session[c]
  BY DEF SessionStep, BeginFinalize, InsertBatch, CommitFinalize, Sessions
<1>4. \/ /\ session[b].status = "collecting" /\ s.status = "begun" /\ s.at = clock
      \/ /\ session[b].status = "begun" /\ s.status = "inserted" /\ s.at = session[b].at
         /\ s.id = lastID + 1
      \/ /\ session[b].status = "inserted" /\ s.status = "finalized" /\ s.at = session[b].at
         /\ s.id = session[b].id
  <2>1. CASE BeginFinalize(b)
    <3>1. s = [session[b] EXCEPT !.status = "begun", !.at = clock] /\ session[b].status = "collecting"
      BY <1>1, <2>1 DEF BeginFinalize, Sessions
    <3>2. s = [status |-> "begun", at |-> clock, id |-> session[b].id]
      BY <1>2, <3>1 DEF SessionRecord
    <3>3. QED
      BY <3>1, <3>2
  <2>2. CASE InsertBatch(b)
    <3>1. s = [session[b] EXCEPT !.status = "inserted", !.id = lastID + 1] /\ session[b].status = "begun"
      BY <1>1, <2>2 DEF InsertBatch, Sessions
    <3>2. s = [status |-> "inserted", at |-> session[b].at, id |-> lastID + 1]
      BY <1>2, <3>1 DEF SessionRecord
    <3>3. QED
      BY <3>1, <3>2
  <2>3. CASE CommitFinalize(b)
    <3>1. s = [session[b] EXCEPT !.status = "finalized"] /\ session[b].status = "inserted"
      BY <1>1, <2>3 DEF CommitFinalize, Sessions
    <3>2. s = [status |-> "finalized", at |-> session[b].at, id |-> session[b].id]
      BY <1>2, <3>1 DEF SessionRecord
    <3>3. QED
      BY <3>1, <3>2
  <2>4. QED
    BY <2>1, <2>2, <2>3 DEF SessionStep
<1>5. ASSUME NEW c \in Batches, session[c].status = "finalized"
      PROVE  c # b /\ session'[c] = session[c]
  BY <1>3, <1>4, <1>5
<1>6. ASSUME NEW c \in Batches, session'[c].status = "finalized"
      PROVE  \/ session[c].status = "finalized" /\ session'[c] = session[c]
             \/ /\ c = b /\ session[b].status = "inserted"
                /\ session'[b].at = session[b].at /\ session'[b].id = session[b].id
  BY <1>1, <1>3, <1>4, <1>6
<1>7. ASSUME NEW p \in Pollers
      PROVE  /\ overtaken[p] \subseteq overtaken'[p]
             /\ session[b].status = "inserted" /\ b \notin overtaken'[p] => ~GonePast(p, b)
  <2>1. CASE BeginFinalize(b) \/ InsertBatch(b)
    BY <2>1 DEF BeginFinalize, InsertBatch
  <2>2. CASE CommitFinalize(b)
    BY <2>2 DEF CommitFinalize
  <2>3. QED
    BY <2>1, <2>2 DEF SessionStep
<1>8. Searches'
  <2>1. SUFFICES ASSUME NEW p \in Pollers, ~poller[p].resumes
                 PROVE  FoundAfter(cursor[p], poller[p].todo, session', overtaken'[p])
    BY DEF Searches
  <2>2. PICK page : page = poller[p].todo
    OBVIOUS
  <2>3. page \in Seq(Batches) /\ FoundAfter(cursor[p], page, session, overtaken[p])
    BY <2>1, <2>2 DEF Passes, PassOK, PassRecord, CursorInv, Searches
  <2>4. \A i \in DOMAIN page : page[i] \in Batches
    BY <2>3, ElementOfSeq, LenProperties
  <2>5. \A i \in DOMAIN page : session[page[i]].status = "finalized" /\ session'[page[i]] = session[page[i]]
    BY <1>5, <2>3, <2>4 DEF FoundAfter
  <2>6. ASSUME NEW c \in Batches \ overtaken'[p], session'[c].status = "finalized",
               KeyLess(cursor[p], <<session'[c].at, session'[c].id>>)
        PROVE  \/ \E i \in DOMAIN page : page[i] = c
               \/ \A i \in DOMAIN page :
                     KeyLess(<<session'[page[i]].at, session'[page[i]].id>>,
                             <<session'[c].at, session'[c].id>>)
    <3>1. CASE session[c].status = "finalized" /\ session'[c] = session[c]
      BY <1>7, <2>3, <2>5, <2>6, <3>1 DEF FoundAfter
    <3>2. CASE /\ c = b /\ session[b].status = "inserted"
               /\ session'[b].at = session[b].at /\ session'[b].id = session[b].id
      <4>1. ~GonePast(p, b)
        BY <1>7, <2>6, <3>2
      <4>2. \A i \in DOMAIN page : KeyLess(KeyOf(page[i]), KeyOf(b))
        BY <2>1, <2>2, <4>1 DEF GonePast
      <4>3. QED
        BY <2>5, <3>2, <4>2 DEF KeyOf
    <3>3. QED
      BY <1>6, <2>6, <3>1, <3>2
  <2>7. FoundAfter(cursor[p], page, session', overtaken'[p])
    BY <2>3, <2>5, <2>6 DEF FoundAfter
  <2>8. QED
    BY <2>2, <2>7
<1>9. CursorPassesOnlySettled'
  <2>1. SUFFICES ASSUME NEW p \in Pollers, NEW c \in Batches \ overtaken'[p],
                        session'[c].status = "finalized",
                        ~KeyLess(cursor[p], <<session'[c].at, session'[c].id>>)
                 PROVE  transfer[c].phase \in {"preparing", "finished"} \/ c \in rejected
    BY DEF CursorPassesOnlySettled, Finalized, KeyOf, Settled
  <2>2. CASE session[c].status = "finalized" /\ session'[c] = session[c]
    BY <1>7, <2>1, <2>2 DEF CursorInv, CursorPassesOnlySettled, Finalized, KeyOf, Settled
  <2>3. CASE /\ c = b /\ session[b].status = "inserted"
             /\ session'[b].at = session[b].at /\ session'[b].id = session[b].id
    <3>1. ~GonePast(p, b)
      BY <1>7, <2>1, <2>3
    <3>2. QED
      BY <2>1, <2>3, <3>1 DEF GonePast, KeyOf
  <2>4. QED
    BY <1>6, <2>1, <2>2, <2>3
<1>10. QED
  BY <1>8, <1>9 DEF CursorInv


\* The next of a page: what is found after its head is the rest of the page.
LEMMA RestIsFound ==
    ASSUME Sessions, NEW k \in Nat \X Nat, NEW page \in Seq(Batches), page # <<>>,
           NEW aside, FoundAfter(k, page, session, aside)
    PROVE  /\ FoundAfter(KeyOf(Head(page)), Tail(page), session, aside)
           /\ Head(page) \in Batches /\ session[Head(page)].status = "finalized"
           /\ \A b \in Batches \ aside : session[b].status = "finalized" /\ KeyLess(k, KeyOf(b)) =>
                 b = Head(page) \/ KeyLess(KeyOf(Head(page)), KeyOf(b))
<1>1. PICK n \in Nat \ {0} : n = Len(page) /\ DOMAIN page = 1..n
  BY EmptySeq, LenProperties
<1>2. PICK head, tail : head = Head(page) /\ tail = Tail(page)
  OBVIOUS
<1>3. /\ head \in Batches /\ head = page[1] /\ 1 \in 1..n
      /\ tail \in Seq(Batches) /\ Len(tail) = n - 1
      /\ \A i \in 1..n - 1 : tail[i] = page[i + 1]
  BY <1>1, <1>2, HeadTailProperties
<1>4. /\ DOMAIN tail = 1..n - 1
      /\ \A i \in 1..n - 1 : i + 1 \in 1..n /\ 1 < i + 1
  BY <1>3, LenProperties
<1>5. /\ \A i \in 1..n : /\ page[i] \in Batches
                         /\ session[page[i]].status = "finalized" /\ KeyLess(k, KeyOf(page[i]))
      /\ \A i, j \in 1..n : i < j => KeyLess(KeyOf(page[i]), KeyOf(page[j]))
      /\ \A b \in Batches \ aside : session[b].status = "finalized" /\ KeyLess(k, KeyOf(b)) =>
            (\E i \in 1..n : page[i] = b) \/ \A i \in 1..n : KeyLess(KeyOf(page[i]), KeyOf(b))
  BY <1>1, ElementOfSeq DEF FoundAfter, KeyOf
<1>6. \A i \in 1..n - 1 : KeyLess(KeyOf(head), KeyOf(tail[i]))
  BY <1>3, <1>4, <1>5
<1>7. ASSUME NEW b \in Batches \ aside, session[b].status = "finalized", KeyLess(k, KeyOf(b))
      PROVE  b = head \/ KeyLess(KeyOf(head), KeyOf(b))
  <2>1. CASE \E i \in 1..n : page[i] = b
    <3>1. PICK i \in 1..n : page[i] = b
      BY <2>1
    <3>2. CASE i = 1
      BY <1>3, <3>1, <3>2
    <3>3. CASE 1 < i
      BY <1>3, <1>5, <3>1, <3>3
    <3>4. QED
      BY <3>2, <3>3
  <2>2. CASE \A i \in 1..n : KeyLess(KeyOf(page[i]), KeyOf(b))
    BY <1>3, <2>2
  <2>3. QED
    BY <1>5, <1>7, <2>1, <2>2
<1>8. ASSUME NEW b \in Batches \ aside, session[b].status = "finalized", KeyLess(KeyOf(head), KeyOf(b))
      PROVE  \/ \E i \in 1..n - 1 : tail[i] = b
             \/ \A i \in 1..n - 1 : KeyLess(KeyOf(tail[i]), KeyOf(b))
  <2>1. KeyOf(head) \in Nat \X Nat /\ KeyOf(b) \in Nat \X Nat
    BY <1>3, <1>5, <1>8, NoCursorIsFirst
  <2>2. KeyLess(k, KeyOf(b))
    <3>1. KeyLess(k, KeyOf(head))
      BY <1>3, <1>5
    <3>2. QED
      BY <1>8, <2>1, <3>1, KeyOrder
  <2>3. b # head
    BY <1>8, <2>1, KeyOrder
  <2>4. CASE \E i \in 1..n : page[i] = b
    <3>1. PICK i \in 1..n : page[i] = b
      BY <2>4
    <3>2. i # 1
      BY <1>3, <2>3, <3>1
    <3>3. i - 1 \in 1..n - 1 /\ (i - 1) + 1 = i
      BY <3>2
    <3>4. tail[i - 1] = b
      BY <1>3, <3>1, <3>3
    <3>5. QED
      BY <3>3, <3>4
  <2>5. CASE \A i \in 1..n : KeyLess(KeyOf(page[i]), KeyOf(b))
    BY <1>3, <1>4, <2>5
  <2>6. QED
    BY <1>5, <1>8, <2>2, <2>4, <2>5
<1>9. ASSUME NEW i \in 1..n - 1, NEW j \in 1..n - 1, i < j
      PROVE  KeyLess(KeyOf(tail[i]), KeyOf(tail[j]))
  <2>1. i + 1 < j + 1 /\ i + 1 \in 1..n /\ j + 1 \in 1..n
    BY <1>9
  <2>2. QED
    BY <1>3, <1>5, <2>1
<1>10. \A i \in 1..n - 1 : session[tail[i]].status = "finalized"
  BY <1>3, <1>4, <1>5
<1>11. FoundAfter(KeyOf(head), tail, session, aside)
  BY <1>4, <1>6, <1>8, <1>9, <1>10 DEF FoundAfter, KeyOf
<1>12. QED
  BY <1>2, <1>3, <1>5, <1>7, <1>11

LEMMA PassStepKeepsCursor ==
    ASSUME Sessions, Passes, CursorInv, NEW p \in Pollers, PassMoves(p),
           \A b \in Batches : KeptAs(transfer[b], transfer'[b]),
           UNCHANGED <<session, overtaken>>
    PROVE  CursorInv'
<1>1. \A b \in Batches : Settled(b) \/ b \in rejected => Passed(b)'
  <2>1. SUFFICES ASSUME NEW b \in Batches, Settled(b) \/ b \in rejected PROVE Passed(b)'
    OBVIOUS
  <2>2. CASE b \in rejected
    BY <2>2 DEF PassMoves, Passed
  <2>3. CASE Settled(b)
    <3>1. transfer[b] # NoTransfer
      BY <2>3, NoTransferIsOK DEF Settled
    <3>2. transfer'[b] = transfer[b]
      BY <2>3, <3>1 DEF KeptAs, Settled
    <3>3. QED
      BY <2>3, <3>2 DEF Passed, Settled
  <2>4. QED
    BY <2>1, <2>2, <2>3
<1>3. PICK r, k :
         /\ poller' = [poller EXCEPT ![p] = r] /\ cursor' = [cursor EXCEPT ![p] = k]
         /\ PassOK(r, Made(transfer'))
         /\ \/ k = cursor[p] /\ r.todo = poller[p].todo /\ r.resumes = poller[p].resumes
            \/ k = cursor[p] /\ (r.resumes \/ r.todo = <<>>)
            \/ k = cursor[p] /\ r.todo \in ListFinalizedBatches(k)
            \/ k = NoCursor /\ r.todo = <<>>
            \/ \E b \in Batches :
                 /\ ~poller[p].resumes /\ poller[p].todo # <<>>
                 /\ b = Head(poller[p].todo) /\ k = KeyOf(b) /\ Passed(b)'
                 /\ r.todo \in {<<>>, Tail(poller[p].todo)}
  BY DEF PassMoves
<1>4. /\ poller' = [q \in Pollers |-> IF q = p THEN r ELSE poller[q]]
      /\ cursor' = [q \in Pollers |-> IF q = p THEN k ELSE cursor[q]]
  BY <1>3 DEF Passes
<1>5. /\ ~poller[p].resumes => FoundAfter(cursor[p], poller[p].todo, session, overtaken[p])
      /\ \A b \in Batches \ overtaken[p] : session[b].status = "finalized" /\ ~KeyLess(cursor[p], KeyOf(b)) => Passed(b)'
      /\ cursor[p] \in Nat \X Nat /\ poller[p].todo \in Seq(Batches)
  BY <1>1 DEF CursorInv, Searches, CursorPassesOnlySettled, Finalized, Passes, PassOK, PassRecord
<1>6. /\ ~r.resumes => FoundAfter(k, r.todo, session, overtaken[p])
      /\ \A b \in Batches \ overtaken[p] : session[b].status = "finalized" /\ ~KeyLess(k, KeyOf(b)) => Passed(b)'
  <2>1. CASE k = cursor[p] /\ r.todo = poller[p].todo /\ r.resumes = poller[p].resumes
    BY <1>5, <2>1
  <2>2. CASE k = cursor[p] /\ (r.resumes \/ r.todo = <<>>)
    BY <1>5, <2>2, EmptyPageIsFound
  <2>3. CASE k = cursor[p] /\ r.todo \in ListFinalizedBatches(k)
    BY <1>5, <2>3, FinalizedPage
  <2>4. CASE k = NoCursor /\ r.todo = <<>>
    BY <2>4, EmptyPageIsFound, NoCursorIsFirst
  <2>5. CASE \E b \in Batches :
                 /\ ~poller[p].resumes /\ poller[p].todo # <<>>
                 /\ b = Head(poller[p].todo) /\ k = KeyOf(b) /\ Passed(b)'
                 /\ r.todo \in {<<>>, Tail(poller[p].todo)}
    <3>1. PICK b \in Batches :
                 /\ ~poller[p].resumes /\ poller[p].todo # <<>>
                 /\ b = Head(poller[p].todo) /\ k = KeyOf(b) /\ Passed(b)'
                 /\ r.todo \in {<<>>, Tail(poller[p].todo)}
      BY <2>5
    <3>2. /\ FoundAfter(KeyOf(b), Tail(poller[p].todo), session, overtaken[p])
          /\ \A c \in Batches \ overtaken[p] : session[c].status = "finalized" /\ KeyLess(cursor[p], KeyOf(c)) =>
                c = b \/ KeyLess(KeyOf(b), KeyOf(c))
      BY <1>5, <3>1, RestIsFound
    <3>3. FoundAfter(k, r.todo, session, overtaken[p])
      BY <3>1, <3>2, EmptyPageIsFound
    <3>4. \A c \in Batches \ overtaken[p] :
             session[c].status = "finalized" /\ ~KeyLess(k, KeyOf(c)) => Passed(c)'
      BY <1>5, <3>1, <3>2
    <3>5. QED
      BY <3>3, <3>4
  <2>6. QED
    BY <1>3, <2>1, <2>2, <2>3, <2>4, <2>5
<1>7. ASSUME NEW q \in Pollers
      PROVE  /\ ~poller'[q].resumes => FoundAfter(cursor'[q], poller'[q].todo, session, overtaken[q])
             /\ \A b \in Batches \ overtaken[q] :
                   session[b].status = "finalized" /\ ~KeyLess(cursor'[q], KeyOf(b)) => Passed(b)'
  <2>1. CASE q = p
    BY <1>4, <1>6, <2>1
  <2>2. CASE q # p
    BY <1>1, <1>4, <2>2 DEF CursorInv, Searches, CursorPassesOnlySettled, Finalized
  <2>3. QED
    BY <2>1, <2>2
<1>8. Searches'
  BY <1>7 DEF Searches
<1>9. CursorPassesOnlySettled'
  BY <1>7 DEF CursorPassesOnlySettled, Finalized, KeyOf, Passed, Settled
<1>10. QED
  BY <1>8, <1>9 DEF CursorInv

\* An instance that restarts has gone past nothing.
LEMMA RestartKeepsCursor ==
    ASSUME Inv, CursorInv, NEW p \in Pollers, Restart(p)
    PROVE  CursorInv'
<1>1. UNCHANGED <<session, transfer, rejected>>
  BY DEF Restart, database
<1>2. ASSUME NEW q \in Pollers
      PROVE  /\ poller'[q] = IF q = p THEN Idle ELSE poller[q]
             /\ cursor'[q] = IF q = p THEN NoCursor ELSE cursor[q]
             /\ overtaken'[q] = IF q = p THEN {} ELSE overtaken[q]
  <2>1. /\ poller' = [poller EXCEPT ![p] = Idle]
        /\ cursor' = [cursor EXCEPT ![p] = NoCursor]
        /\ overtaken' = [overtaken EXCEPT ![p] = {}]
    BY DEF Restart, FailPass
  <2>2. /\ poller = [r \in Pollers |-> poller[r]]
        /\ cursor = [r \in Pollers |-> cursor[r]]
        /\ overtaken \in [Pollers -> SUBSET Batches]
    BY DEF Inv, Passes
  <2>3. QED
    BY <2>1, <2>2
<1>3. ASSUME NEW q \in Pollers
      PROVE  /\ ~poller'[q].resumes => FoundAfter(cursor'[q], poller'[q].todo, session, overtaken'[q])
             /\ \A b \in Finalized \ overtaken'[q] :
                    ~KeyLess(cursor'[q], KeyOf(b)) => Settled(b) \/ b \in rejected
  <2>1. CASE q = p
    <3>1. poller'[q].todo = <<>> /\ cursor'[q] = NoCursor
      BY <1>2, <2>1 DEF Idle
    <3>2. \A b \in Finalized : KeyLess(NoCursor, KeyOf(b))
      BY NoCursorIsFirst DEF Inv, Finalized
    <3>3. QED
      BY <3>1, <3>2, EmptyPageIsFound
  <2>2. CASE q # p
    BY <1>2, <2>2 DEF CursorInv, Searches, CursorPassesOnlySettled
  <2>3. QED
    BY <2>1, <2>2
<1>4. QED
  BY <1>1, <1>3 DEF CursorInv, Searches, CursorPassesOnlySettled, Finalized, KeyOf, Settled

LEMMA CursorStep ==
    ASSUME Inv, CursorInv, [Next]_vars
    PROVE  CursorInv'
<1>1. Sessions /\ Transfers /\ Passes /\ overtaken \in [Pollers -> SUBSET Batches]
  BY DEF Inv
<1>2. CASE \E p \in Pollers : Restart(p)
  BY <1>2, RestartKeepsCursor
<1>3. ASSUME NEW b \in Batches, SessionStep(b) PROVE CursorInv'
  <2>1. UNCHANGED <<transfer, poller, cursor, rejected>>
    BY <1>3 DEF SessionStep, BeginFinalize, InsertBatch, CommitFinalize
  <2>2. QED
    BY <1>3, <2>1, SessionStepKeepsCursor
<1>4. CASE /\ UNCHANGED overtaken
           /\ \E p \in Pollers : PollerStep(p)
  BY <1>1, <1>4, InvStep, PollerStepMoves, PassStepKeepsCursor
<1>5. CASE UNCHANGED <<session, clock, lastID, transfer, matrix, lastTransfer, poller, cursor, rejected, overtaken>>
  BY <1>5 DEF CursorInv, KeyOf, Searches, CursorPassesOnlySettled, Finalized, Settled
<1>6. QED
  BY <1>1, <1>2, <1>3, <1>4, <1>5, OvertakenMoves, NextCases DEF SessionStep

\* No cursor passes a batch that still needs a visit (discoverFinalizedBatches,
\* advanceBatchCursor in service/workflow/polling.go), in whatever order and with
\* whatever overlap the finalizations commit, except the batches that commit when
\* the discovery of the instance is past their place.
THEOREM CursorStaysBehind == Spec => []CursorPassesOnlySettled
<1>1. Inv /\ CursorInv /\ [Next]_vars => CursorInv'
  BY CursorStep
<1>2. CursorInv => CursorPassesOnlySettled
  BY DEF CursorInv
<1>3. QED
  BY InitCursor, InvHolds, <1>1, <1>2, PTL DEF Spec
=============================================================================
