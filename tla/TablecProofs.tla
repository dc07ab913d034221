---------------------------- MODULE TablecProofs ----------------------------
(***************************************************************************)
(* The hash table of Tablec is a dictionary, for any keys, hashes and      *)
(* numbers of buckets, also while it is resized.                           *)
(***************************************************************************)
EXTENDS Tablec, FiniteSetTheorems, TLAPS

(* For the lemmas about numbers alone any loop will do.                    *)
Turns == INSTANCE Recursion WITH
  Base <- LAMBDA p : p, Step <- LAMBDA p, x, i : x, Holds <- LAMBDA p, x, i : TRUE

-----------------------------------------------------------------------------
(* Buckets.                                                                *)
CellOf == [key : Keys, value : Values] \cup {Blank}

BucketOK(b) ==
  \E n \in Nat \ {0} : /\ b \in [array : [0 .. n - 1 -> CellOf], length : Nat]
                        /\ b.length = n - Cardinality(Holes(b))

LEMMA SizeOf ==
  ASSUME NEW b, NEW n \in Nat \ {0}, b.array \in [0 .. n - 1 -> CellOf]
  PROVE  /\ Size(b) = n /\ DOMAIN b.array = 0 .. n - 1 /\ Holes(b) \subseteq 0 .. n - 1
         /\ IsFiniteSet(Holes(b)) /\ Cardinality(Holes(b)) \in 0 .. n
         /\ Cardinality(Holes(b)) = n => Holes(b) = 0 .. n - 1
<1>1. IsFiniteSet(0 .. n - 1) /\ Cardinality(0 .. n - 1) = n
  BY FS_Interval
<1>2. DOMAIN b.array = 0 .. n - 1 /\ Holes(b) \subseteq 0 .. n - 1
  BY DEF Holes
<1>3. IsFiniteSet(Holes(b)) /\ Cardinality(Holes(b)) <= n
  BY <1>1, <1>2, FS_Subset
<1>4. Cardinality(Holes(b)) \in Nat
  BY <1>3, FS_CardinalityType
<1>5. Cardinality(Holes(b)) = n => Holes(b) = 0 .. n - 1
  BY <1>1, <1>2, FS_Subset
<1>6. QED
  BY <1>1, <1>2, <1>3, <1>4, <1>5 DEF Size

(* A key is put where there was no key, inside the array it is put in.     *)
LEMMA PlaceFits ==
  ASSUME NEW b, NEW n \in Nat \ {0}, b.array \in [0 .. n - 1 -> CellOf],
         b.length = n - Cardinality(Holes(b))
  PROVE  /\ Grows(b) => Holes(b) = {} /\ b.length = n /\ Place(b) = n
         /\ ~Grows(b) => Place(b) \in Holes(b)
<1>1. /\ Size(b) = n /\ Holes(b) \subseteq 0 .. n - 1 /\ Cardinality(Holes(b)) \in 0 .. n
      /\ Cardinality(Holes(b)) = n => Holes(b) = 0 .. n - 1
  BY SizeOf
<1>2. CASE Grows(b)
  <2>1. Cardinality(Holes(b)) = 0
    BY <1>2, FS_EmptySet DEF Grows
  <2>2. QED
    BY <1>2, <2>1 DEF Grows, Place
<1>3. CASE b.length = 0
  <2>1. Cardinality(Holes(b)) = n
    BY <1>1, <1>3
  <2>2. QED
    BY <1>1, <1>3, <2>1 DEF Grows, Place
<1>4. CASE b.length # 0 /\ Holes(b) # {}
  <2>1. \E i \in Holes(b) : \A j \in Holes(b) : j <= i
    <3>1. Holes(b) \in SUBSET (0 .. n)
      BY <1>1
    <3>2. QED
      BY <1>4, <3>1, Turns!LastExists
  <2>2. LastHole(b) \in Holes(b)
    BY <2>1 DEF LastHole
  <2>3. QED
    BY <1>4, <2>2 DEF Grows, Place
<1>5. QED
  BY <1>2, <1>3, <1>4 DEF Grows

(* What tablec_set makes of the bucket: one entry more and nothing else.   *)
After(b, k, v) ==
  [array  |-> Store(b.array, IF Grows(b) THEN 2 * Size(b) ELSE Size(b), Place(b), k, v),
   length |-> b.length + 1]

LEMMA Putting ==
  ASSUME NEW b, BucketOK(b), NEW k \in Keys, NEW v \in Values
  PROVE  LET c == After(b, k, v) IN
         /\ BucketOK(c)
         /\ Place(b) \in DOMAIN c.array /\ c.array[Place(b)] = Cell(k, v)
         /\ Place(b) \in DOMAIN b.array => b.array[Place(b)].key = Null
         /\ DOMAIN b.array \subseteq DOMAIN c.array
         /\ \A i \in DOMAIN b.array : i # Place(b) => c.array[i] = b.array[i]
         /\ \A i \in DOMAIN c.array : i \notin DOMAIN b.array /\ i # Place(b) => c.array[i] = Blank
<1> DEFINE c == After(b, k, v)
<1>1. PICK n \in Nat \ {0} : /\ b \in [array : [0 .. n - 1 -> CellOf], length : Nat]
                             /\ b.length = n - Cardinality(Holes(b))
  BY DEF BucketOK
<1>2. /\ Size(b) = n /\ DOMAIN b.array = 0 .. n - 1 /\ Holes(b) \subseteq 0 .. n - 1
      /\ IsFiniteSet(Holes(b)) /\ Cardinality(Holes(b)) \in 0 .. n
  BY <1>1, SizeOf
<1>3. /\ Grows(b) => Holes(b) = {} /\ b.length = n /\ Place(b) = n
      /\ ~Grows(b) => Place(b) \in Holes(b)
  BY <1>1, PlaceFits
<1> DEFINE m == IF Grows(b) THEN 2 * n ELSE n
<1>4. m \in Nat \ {0} /\ n <= m /\ Place(b) \in 0 .. m - 1
  BY <1>2, <1>3
<1>5. c.array = Store(b.array, m, Place(b), k, v) /\ c.length = b.length + 1
  BY <1>2 DEF After
<1>6. \A j \in 0 .. m - 1 :
        c.array[j] = IF j = Place(b) THEN Cell(k, v)
                     ELSE IF j \in 0 .. n - 1 THEN b.array[j] ELSE Blank
  BY <1>2, <1>5 DEF Store
<1>7. c.array \in [0 .. m - 1 -> CellOf]
  <2>1. Cell(k, v) \in CellOf /\ Blank \in CellOf
    BY DEF Cell, CellOf
  <2>2. \A j \in 0 .. m - 1 : c.array[j] \in CellOf
    BY <1>1, <1>6, <2>1
  <2>3. c.array = [j \in 0 .. m - 1 |-> c.array[j]]
    BY <1>5 DEF Store
  <2>4. QED
    BY <2>2, <2>3
<1>8. Cell(k, v).key # Null /\ Blank.key = Null
  BY TableAssumption DEF Cell, Blank
<1>9. c.length = m - Cardinality(Holes(c))
  <2>1. CASE Grows(b)
    <3>1. Holes(c) = n + 1 .. 2 * n - 1
      <4>1. \A j \in 0 .. n - 1 : b.array[j].key # Null
        BY <1>2, <1>3, <2>1 DEF Holes
      <4>2. \A j \in 0 .. 2 * n - 1 : c.array[j].key = Null <=> j > n
        BY <1>3, <1>6, <1>8, <2>1, <4>1
      <4>3. DOMAIN c.array = 0 .. 2 * n - 1
        BY <1>7, <2>1
      <4>4. QED
        BY <4>2, <4>3 DEF Holes
    <3>2. Cardinality(Holes(c)) = n - 1
      BY <3>1, FS_Interval
    <3>3. QED
      BY <1>3, <1>5, <2>1, <3>2
  <2>2. CASE ~Grows(b)
    <3>1. Holes(c) = Holes(b) \ {Place(b)}
      <4>1. DOMAIN c.array = 0 .. n - 1
        BY <1>7, <2>2
      <4>2. \A j \in 0 .. n - 1 : c.array[j].key = Null <=> j # Place(b) /\ b.array[j].key = Null
        BY <1>6, <1>8, <2>2
      <4>3. QED
        BY <1>2, <4>1, <4>2 DEF Holes
    <3>2. Cardinality(Holes(c)) = Cardinality(Holes(b)) - 1
      BY <1>2, <1>3, <2>2, <3>1, FS_RemoveElement
    <3>3. QED
      BY <1>1, <1>2, <1>5, <2>2, <3>2
  <2>3. QED
    BY <2>1, <2>2
<1>10. BucketOK(c)
  <2>1. c \in [array : [0 .. m - 1 -> CellOf], length : Nat]
    BY <1>1, <1>7 DEF After
  <2>2. QED
    BY <1>4, <1>9, <2>1 DEF BucketOK
<1>11. Place(b) \in DOMAIN b.array => b.array[Place(b)].key = Null
  BY <1>2, <1>3 DEF Holes
<1>12. DOMAIN c.array = 0 .. m - 1
  BY <1>7
<1>13. QED
  BY <1>2, <1>4, <1>6, <1>10, <1>11, <1>12

(* What tablec_del leaves of a bucket.                                     *)
LEMMA Deleting ==
  ASSUME NEW b, BucketOK(b), NEW i \in DOMAIN b.array, b.array[i].key # Null
  PROVE  /\ b.length # 0
         /\ BucketOK([array |-> [b.array EXCEPT ![i] = Blank], length |-> b.length - 1])
<1> DEFINE c == [array |-> [b.array EXCEPT ![i] = Blank], length |-> b.length - 1]
<1>1. PICK n \in Nat \ {0} : /\ b \in [array : [0 .. n - 1 -> CellOf], length : Nat]
                             /\ b.length = n - Cardinality(Holes(b))
  BY DEF BucketOK
<1>2. /\ DOMAIN b.array = 0 .. n - 1 /\ Holes(b) \subseteq 0 .. n - 1
      /\ IsFiniteSet(Holes(b)) /\ Cardinality(Holes(b)) \in 0 .. n
      /\ Cardinality(Holes(b)) = n => Holes(b) = 0 .. n - 1
  BY <1>1, SizeOf
<1>3. i \notin Holes(b)
  BY DEF Holes
<1>4. b.length # 0
  BY <1>1, <1>2, <1>3
<1>5. c.array \in [0 .. n - 1 -> CellOf]
  BY <1>1 DEF CellOf
<1>6. Holes(c) = Holes(b) \cup {i}
  BY <1>1, <1>2 DEF Holes, Blank
<1>7. Cardinality(Holes(c)) = Cardinality(Holes(b)) + 1
  BY <1>2, <1>3, <1>6, FS_AddElement
<1>8. c.length \in Nat /\ c.length = n - Cardinality(Holes(c))
  BY <1>1, <1>2, <1>4, <1>7
<1>9. BucketOK(c)
  <2>1. c \in [array : [0 .. n - 1 -> CellOf], length : Nat]
    BY <1>5, <1>8
  <2>2. QED
    BY <1>8, <2>1 DEF BucketOK
<1>10. QED
  BY <1>4, <1>9

-----------------------------------------------------------------------------
(* Tables.  A cell is named by its bucket and its place there.             *)
At(t, h, i) == t.buckets[h].array[i]
Places(t, h) == DOMAIN t.buckets[h].array

Whole(t) ==
  /\ t = [capacity |-> t.capacity, length |-> t.length, buckets |-> t.buckets]
  /\ t.capacity \in Nat \ {0} /\ t.length \in 0 .. Word - 1
  /\ t.buckets = [h \in 0 .. t.capacity - 1 |-> t.buckets[h]]
  /\ \A h \in 0 .. t.capacity - 1 : BucketOK(t.buckets[h])
  /\ \A h \in 0 .. t.capacity - 1 : \A i \in Places(t, h) :
       At(t, h, i).key # Null =>
         /\ h = BucketOf(t, At(t, h, i).key)
         /\ \A j \in Places(t, h) : At(t, h, j).key = At(t, h, i).key => i = j

IInv == Whole(table) /\ crashed \in BOOLEAN

LEMMA BucketInside ==
  ASSUME NEW t, t.capacity \in Nat \ {0}, NEW k \in Keys
  PROVE  BucketOf(t, k) \in 0 .. t.capacity - 1
<1>1. Hash[k] \in Nat
  BY TableAssumption
<1>2. \A x \in Nat, m \in Nat \ {0} : x % m \in 0 .. m - 1
  OBVIOUS
<1>3. QED
  BY <1>1, <1>2 DEF BucketOf

LEMMA CellKinds ==
  ASSUME NEW t, Whole(t), NEW h \in 0 .. t.capacity - 1
  PROVE  \A i \in Places(t, h) : At(t, h, i) \in CellOf
<1>1. PICK n \in Nat \ {0} : t.buckets[h].array \in [0 .. n - 1 -> CellOf]
  BY DEF Whole, BucketOK
<1>2. QED
  BY <1>1 DEF At, Places

(* A lookup finds the one cell with the key, or nothing.                   *)
LEMMA Lookup ==
  ASSUME NEW t, Whole(t), NEW k \in Keys
  PROVE  LET h == BucketOf(t, k) IN
         /\ CellsWith(t, k) = {i \in Places(t, h) : At(t, h, i).key = k}
         /\ \A i \in CellsWith(t, k) : CellsWith(t, k) = {i} /\ GetFrom(t, k) = At(t, h, i).value
         /\ GetFrom(t, k) = Null <=> CellsWith(t, k) = {}
         /\ GetFrom(t, k) \in Values \cup {Null}
<1> DEFINE h == BucketOf(t, k)
<1>1. h \in 0 .. t.capacity - 1 /\ k # Null
  BY BucketInside, TableAssumption DEF Whole
<1>2. CellsWith(t, k) = {i \in Places(t, h) : At(t, h, i).key = k}
  <2>1. BucketOK(t.buckets[h])
    BY <1>1 DEF Whole
  <2>2. ASSUME NEW i \in Places(t, h), At(t, h, i).key = k PROVE t.buckets[h].length # 0
    BY <1>1, <2>1, <2>2, Deleting DEF Places, At
  <2>3. QED
    BY <2>2 DEF CellsWith, Places, At
<1>3. ASSUME NEW i \in CellsWith(t, k)
      PROVE  /\ CellsWith(t, k) = {i} /\ GetFrom(t, k) = At(t, h, i).value
             /\ At(t, h, i).value \in Values
  <2>1. i \in Places(t, h) /\ At(t, h, i).key = k
    BY <1>2, <1>3
  <2>2. CellsWith(t, k) = {i}
    BY <1>1, <1>2, <2>1 DEF Whole
  <2>3. i \in Int
    <3>1. PICK n \in Nat \ {0} : t.buckets[h].array \in [0 .. n - 1 -> CellOf]
      BY <1>1 DEF Whole, BucketOK
    <3>2. QED
      BY <2>1, <3>1 DEF Places
  <2>4. (CHOOSE x \in CellsWith(t, k) : \A j \in CellsWith(t, k) : j <= x) = i
    BY <2>2, <2>3
  <2>5. GetFrom(t, k) = At(t, h, i).value
    BY <2>2, <2>4 DEF GetFrom, At
  <2>6. At(t, h, i).value \in Values
    BY <1>1, <2>1, CellKinds DEF CellOf, Blank
  <2>7. QED
    BY <2>2, <2>5, <2>6
<1>4. CellsWith(t, k) = {} => GetFrom(t, k) = Null
  BY DEF GetFrom
<1>5. QED
  BY <1>2, <1>3, <1>4, TableAssumption

(* A call changes one bucket and the count.                                *)
Changed(t, h, b, n) == [capacity |-> t.capacity, length |-> n, buckets |-> [t.buckets EXCEPT ![h] = b]]

LEMMA Changing ==
  ASSUME NEW t, Whole(t), NEW h \in 0 .. t.capacity - 1, NEW b, BucketOK(b), NEW n \in 0 .. Word - 1,
         \A i \in DOMAIN b.array : b.array[i].key # Null =>
           /\ h = BucketOf(t, b.array[i].key)
           /\ \A j \in DOMAIN b.array : b.array[j].key = b.array[i].key => i = j
  PROVE  LET u == Changed(t, h, b, n) IN
         /\ Whole(u) /\ u.capacity = t.capacity
         /\ \A k \in Keys : BucketOf(u, k) = BucketOf(t, k)
         /\ u.buckets[h] = b
         /\ \A g \in 0 .. t.capacity - 1 : g # h => u.buckets[g] = t.buckets[g]
<1> DEFINE u == Changed(t, h, b, n)
<1>1. u.capacity = t.capacity /\ u.length = n /\ u.buckets = [t.buckets EXCEPT ![h] = b]
  BY DEF Changed
<1>2. u = [capacity |-> u.capacity, length |-> u.length, buckets |-> u.buckets]
  BY <1>1 DEF Changed
<1>3. DOMAIN t.buckets = 0 .. t.capacity - 1
  BY DEF Whole
<1>4. u.buckets[h] = b /\ \A g \in 0 .. t.capacity - 1 : g # h => u.buckets[g] = t.buckets[g]
  BY <1>1, <1>3
<1>5. u.buckets = [g \in 0 .. u.capacity - 1 |-> u.buckets[g]]
  BY <1>1, <1>3
<1>6. \A k : BucketOf(u, k) = BucketOf(t, k)
  BY <1>1 DEF BucketOf
<1>7. \A g \in 0 .. u.capacity - 1 : BucketOK(u.buckets[g])
  BY <1>1, <1>4 DEF Whole
<1>8. ASSUME NEW g \in 0 .. u.capacity - 1, NEW i \in Places(u, g), At(u, g, i).key # Null
      PROVE  /\ g = BucketOf(u, At(u, g, i).key)
             /\ \A j \in Places(u, g) : At(u, g, j).key = At(u, g, i).key => i = j
  <2>1. CASE g = h
    BY <1>4, <1>6, <1>8, <2>1 DEF Places, At
  <2>2. CASE g # h
    BY <1>1, <1>4, <1>6, <1>8, <2>2 DEF Places, At, Whole
  <2>3. QED
    BY <2>1, <2>2
<1>9. Whole(u)
  <2> HIDE DEF u
  <2>1. QED
    BY <1>1, <1>2, <1>5, <1>7, <1>8 DEF Whole
<1>10. QED
  BY <1>1, <1>4, <1>6, <1>9

LEMMA InWord ==
  \A x \in Int : x % Word \in 0 .. Word - 1
<1>1. \A x \in Int, m \in Nat \ {0} : x % m \in 0 .. m - 1
  OBVIOUS
<1>2. QED
  BY <1>1, TableAssumption

(* A set makes the key found with its value, and changes nothing else.     *)
LEMMA Inserting ==
  ASSUME NEW t, Whole(t), NEW k \in Keys, NEW v \in Values, GetFrom(t, k) = Null
  PROVE  LET u == PutIn(t, k, v) IN
         /\ Whole(u) /\ u.capacity = t.capacity
         /\ \A x \in Keys : GetFrom(u, x) = IF x = k THEN v ELSE GetFrom(t, x)
<1> DEFINE h == BucketOf(t, k)
           b == t.buckets[h]
           c == After(b, k, v)
           n == IF Grows(b) THEN t.length ELSE (t.length + 1) % Word
           u == Changed(t, h, c, n)
<1>1. h \in 0 .. t.capacity - 1 /\ BucketOK(b) /\ k # Null
  BY BucketInside, TableAssumption DEF Whole
<1>2. PutIn(t, k, v) = u
  <2>1. t = [capacity |-> t.capacity, length |-> t.length, buckets |-> t.buckets]
    BY DEF Whole
  <2>2. PutIn(t, k, v) = [t EXCEPT !.buckets[h] = c, !.length = n]
    BY DEF PutIn, After
  <2> HIDE DEF c, n
  <2>3. QED
    BY <2>1, <2>2 DEF Changed
<1>3. n \in 0 .. Word - 1
  BY InWord DEF Whole
<1>4. /\ BucketOK(c)
      /\ Place(b) \in DOMAIN c.array /\ c.array[Place(b)] = Cell(k, v)
      /\ Place(b) \in DOMAIN b.array => b.array[Place(b)].key = Null
      /\ DOMAIN b.array \subseteq DOMAIN c.array
      /\ \A i \in DOMAIN b.array : i # Place(b) => c.array[i] = b.array[i]
      /\ \A i \in DOMAIN c.array : i \notin DOMAIN b.array /\ i # Place(b) => c.array[i] = Blank
  BY <1>1, Putting
<1>5. /\ CellsWith(t, k) = {} /\ \A i \in Places(t, h) : At(t, h, i).key # k
  BY Lookup
<1> HIDE DEF c, n
<1>6. Cell(k, v).key = k /\ Cell(k, v).value = v /\ Blank.key = Null
  BY DEF Cell, Blank
<1>7. ASSUME NEW i \in DOMAIN c.array, c.array[i].key # Null, i # Place(b)
      PROVE  i \in DOMAIN b.array /\ c.array[i] = b.array[i] /\ c.array[i].key # k
  BY <1>4, <1>5, <1>6, <1>7 DEF Places, At
<1>8. \A i \in DOMAIN c.array : c.array[i].key # Null =>
        /\ h = BucketOf(t, c.array[i].key)
        /\ \A j \in DOMAIN c.array : c.array[j].key = c.array[i].key => i = j
  <2> SUFFICES ASSUME NEW i \in DOMAIN c.array, c.array[i].key # Null
               PROVE  /\ h = BucketOf(t, c.array[i].key)
                      /\ \A j \in DOMAIN c.array : c.array[j].key = c.array[i].key => i = j
    OBVIOUS
  <2>1. CASE i = Place(b)
    BY <1>1, <1>4, <1>6, <1>7, <2>1
  <2>2. CASE i # Place(b)
    <3>1. i \in Places(t, h) /\ At(t, h, i) = c.array[i] /\ c.array[i].key # k
      BY <1>7, <2>2 DEF Places, At
    <3>2. h = BucketOf(t, c.array[i].key)
      BY <1>1, <3>1 DEF Whole
    <3>3. ASSUME NEW j \in DOMAIN c.array, c.array[j].key = c.array[i].key PROVE i = j
      <4>1. j # Place(b)
        BY <1>4, <1>6, <3>1, <3>3
      <4>2. j \in Places(t, h) /\ At(t, h, j) = c.array[j]
        BY <1>7, <3>3, <4>1 DEF Places, At
      <4>3. QED
        BY <1>1, <3>1, <3>3, <4>2 DEF Whole
    <3>4. QED
      BY <3>2, <3>3
  <2>3. QED
    BY <2>1, <2>2
<1>9. /\ Whole(u) /\ u.capacity = t.capacity /\ u.buckets[h] = c
      /\ \A x \in Keys : BucketOf(u, x) = BucketOf(t, x)
      /\ \A g \in 0 .. t.capacity - 1 : g # h => u.buckets[g] = t.buckets[g]
  BY <1>1, <1>3, <1>4, <1>8, Changing
<1> HIDE DEF u
<1>10. GetFrom(u, k) = v
  <2>1. Place(b) \in CellsWith(u, k)
    BY <1>4, <1>6, <1>9, Lookup DEF Places, At
  <2>2. QED
    BY <1>4, <1>6, <1>9, <2>1, Lookup DEF At
<1>11. ASSUME NEW x \in Keys, x # k PROVE GetFrom(u, x) = GetFrom(t, x)
  <2>1. CASE BucketOf(t, x) # h
    <3>1. u.buckets[BucketOf(u, x)] = t.buckets[BucketOf(t, x)]
      BY <1>9, <2>1, BucketInside DEF Whole
    <3>2. QED
      BY <3>1 DEF GetFrom, CellsWith
  <2>2. CASE BucketOf(t, x) = h
    <3>1. \A i \in CellsWith(u, x) : i \in CellsWith(t, x)
      BY <1>4, <1>6, <1>7, <1>9, <1>11, <2>2, Lookup, TableAssumption DEF Places, At
    <3>2. ASSUME NEW i \in CellsWith(t, x)
          PROVE  i \in CellsWith(u, x) /\ At(u, h, i) = At(t, h, i)
      <4>1. i \in DOMAIN b.array /\ b.array[i].key = x /\ x # Null
        BY <2>2, <3>2, Lookup, TableAssumption DEF Places, At
      <4>2. i # Place(b)
        BY <1>4, <4>1
      <4>3. i \in DOMAIN c.array /\ c.array[i] = b.array[i]
        BY <1>4, <4>1, <4>2
      <4>4. QED
        BY <1>9, <2>2, <4>1, <4>3, Lookup DEF Places, At
    <3>3. CASE CellsWith(t, x) = {}
      BY <1>9, <3>1, <3>3, Lookup
    <3>4. CASE CellsWith(t, x) # {}
      BY <1>9, <2>2, <3>2, <3>4, Lookup
    <3>5. QED
      BY <3>3, <3>4
  <2>3. QED
    BY <2>1, <2>2
<1>12. QED
  BY <1>2, <1>9, <1>10, <1>11

LEMMA Setting ==
  ASSUME Whole(table), NEW k \in Keys, NEW v \in Values, Set(k, v)
  PROVE  /\ Whole(table') /\ table'.capacity = table.capacity
         /\ \A x \in Keys : GetFrom(table', x) = IF x = k THEN v ELSE GetFrom(table, x)
BY Inserting DEF Set

(* A delete makes the key not found, and changes nothing else.             *)
LEMMA Removing ==
  ASSUME Whole(table), NEW k \in Keys, Del(k)
  PROVE  /\ Whole(table') /\ table'.capacity = table.capacity
         /\ \A x \in Keys : GetFrom(table', x) = IF x = k THEN Null ELSE GetFrom(table, x)
<1> DEFINE h == BucketOf(table, k)
           b == table.buckets[h]
<1>1. PICK i \in CellsWith(table, k) :
        table' = [table EXCEPT !.buckets[h] = [array  |-> [@.array EXCEPT ![i] = Blank],
                                               length |-> @.length - 1],
                               !.length = (@ - 1) % Word]
  BY DEF Del
<1> DEFINE c == [array |-> [b.array EXCEPT ![i] = Blank], length |-> b.length - 1]
           n == (table.length - 1) % Word
           u == Changed(table, h, c, n)
<1>2. h \in 0 .. table.capacity - 1 /\ BucketOK(b)
  BY BucketInside DEF Whole
<1>3. i \in DOMAIN b.array /\ b.array[i].key = k /\ k # Null
  BY <1>1, Lookup, TableAssumption DEF Places, At
<1>5. table' = u
  BY <1>1, <1>2 DEF Changed, Whole
<1>6. n \in 0 .. Word - 1
  BY InWord DEF Whole
<1>7. BucketOK(c)
  BY <1>2, <1>3, Deleting
<1>8. /\ DOMAIN c.array = DOMAIN b.array /\ c.array[i] = Blank /\ Blank.key = Null
      /\ \A j \in DOMAIN b.array : j # i => c.array[j] = b.array[j]
  BY <1>3 DEF Blank
<1> HIDE DEF c, n
<1>9. \A j \in DOMAIN c.array : c.array[j].key # Null =>
        /\ h = BucketOf(table, c.array[j].key)
        /\ \A l \in DOMAIN c.array : c.array[l].key = c.array[j].key => j = l
  BY <1>2, <1>8 DEF Whole, Places, At
<1>10. /\ Whole(u) /\ u.capacity = table.capacity /\ u.buckets[h] = c
       /\ \A x \in Keys : BucketOf(u, x) = BucketOf(table, x)
       /\ \A g \in 0 .. table.capacity - 1 : g # h => u.buckets[g] = table.buckets[g]
  BY <1>2, <1>6, <1>7, <1>9, Changing
<1> HIDE DEF u
<1>11. GetFrom(u, k) = Null
  <2>1. \A j \in DOMAIN c.array : c.array[j].key # k
    BY <1>1, <1>3, <1>8, Lookup DEF Places, At
  <2>2. CellsWith(u, k) = {}
    BY <1>10, <2>1, Lookup DEF Places, At
  <2>3. QED
    BY <1>10, <2>2, Lookup
<1>12. ASSUME NEW x \in Keys, x # k PROVE GetFrom(u, x) = GetFrom(table, x)
  <2>1. CASE BucketOf(table, x) # h
    <3>1. u.buckets[BucketOf(u, x)] = table.buckets[BucketOf(table, x)]
      BY <1>10, <2>1, BucketInside DEF Whole
    <3>2. QED
      BY <3>1 DEF GetFrom, CellsWith
  <2>2. CASE BucketOf(table, x) = h
    <3>1. x # Null
      BY TableAssumption
    <3>2. \A j \in DOMAIN b.array : c.array[j].key = x <=> b.array[j].key = x
      BY <1>3, <1>8, <1>12, <3>1
    <3>3. CellsWith(u, x) = CellsWith(table, x)
      <4>1. CellsWith(u, x) = {j \in DOMAIN c.array : c.array[j].key = x}
        BY <1>10, <2>2, Lookup DEF Places, At
      <4>2. CellsWith(table, x) = {j \in DOMAIN b.array : b.array[j].key = x}
        BY <2>2, Lookup DEF Places, At
      <4>3. QED
        BY <1>8, <3>2, <4>1, <4>2
    <3>4. \A j \in CellsWith(table, x) : At(u, h, j) = At(table, h, j)
      BY <1>3, <1>8, <1>10, <1>12, <2>2, Lookup DEF Places, At
    <3>5. CASE CellsWith(table, x) = {}
      BY <1>10, <3>3, <3>5, Lookup
    <3>6. CASE CellsWith(table, x) # {}
      BY <1>10, <2>2, <3>3, <3>4, <3>6, Lookup
    <3>7. QED
      BY <3>5, <3>6
  <2>3. QED
    BY <2>1, <2>2
<1>13. QED
  BY <1>5, <1>10, <1>11, <1>12

-----------------------------------------------------------------------------
LEMMA EmptyIsWhole ==
  ASSUME NEW n \in Nat \ {0}
  PROVE  LET t == EmptyTable(n) IN
         /\ Whole(t) /\ t.capacity = n
         /\ \A k \in Keys : GetFrom(t, k) = Null
<1> DEFINE t == EmptyTable(n)
<1> DEFINE b == [array |-> [i \in 0..0 |-> Blank], length |-> 0]
<1>1. /\ t.capacity = n /\ t.length = 0
      /\ t.buckets = [h \in 0 .. n - 1 |-> b]
      /\ t = [capacity |-> t.capacity, length |-> t.length, buckets |-> t.buckets]
  BY DEF EmptyTable
<1>2. BucketOK(b)
  <2>1. b \in [array : [0 .. 1 - 1 -> CellOf], length : Nat]
    BY DEF CellOf
  <2>2. Holes(b) = {0}
    BY DEF Holes, Blank
  <2>3. Cardinality(Holes(b)) = 1
    BY <2>2, FS_Singleton
  <2>4. b.length = 1 - Cardinality(Holes(b))
    BY <2>3
  <2>5. QED
    BY <2>1, <2>4 DEF BucketOK
<1>3. \A h \in 0 .. t.capacity - 1 : t.buckets[h] = b
  BY <1>1
<1>4. \A h \in 0 .. t.capacity - 1 : \A i \in Places(t, h) : At(t, h, i).key = Null
  BY <1>3 DEF Places, At, Blank
<1> HIDE DEF b, t
<1>5. t.capacity \in Nat \ {0} /\ t.length \in 0 .. Word - 1
  BY <1>1, TableAssumption
<1>6. t.buckets = [h \in 0 .. t.capacity - 1 |-> t.buckets[h]]
  BY <1>1
<1>7. \A h \in 0 .. t.capacity - 1 : BucketOK(t.buckets[h])
  BY <1>2, <1>3
<1>8. Whole(t)
  BY <1>1, <1>4, <1>5, <1>6, <1>7 DEF Whole
<1>9. ASSUME NEW k \in Keys PROVE GetFrom(t, k) = Null
  <2>1. CellsWith(t, k) = {}
    BY <1>4, <1>5, <1>8, BucketInside, Lookup, TableAssumption
  <2>2. QED
    BY <1>8, <2>1, Lookup
<1>10. QED
  BY <1>1, <1>8, <1>9 DEF t

LEMMA Starting == Init => Whole(table) /\ \A k \in Keys : GetFrom(table, k) = Null
BY EmptyIsWhole, TableAssumption DEF Init

-----------------------------------------------------------------------------
(* A resize.  What is found in the new table so far is in a cell of the    *)
(* old one at or behind place i of bucket h.                               *)
Only(old, new, h, i) ==
  \A k \in Keys : GetFrom(new, k) # Null =>
    \E g \in 0 .. old.capacity - 1, j \in Nat :
      /\ j \in Places(old, g)
      /\ g > h \/ (g = h /\ j >= i)
      /\ At(old, g, j) = Cell(k, GetFrom(new, k))

(* What was found before is found.                                         *)
Keeps(before, after) ==
  \A k \in Keys : GetFrom(before, k) # Null => GetFrom(after, k) = GetFrom(before, k)

(* An entry is put in the new table once, since its key is in one cell.    *)
LEMMA Moving ==
  ASSUME NEW old, Whole(old), NEW new, Whole(new),
         NEW h \in 0 .. old.capacity - 1, NEW i \in Places(old, h), At(old, h, i).key # Null,
         Only(old, new, h, i + 1)
  PROVE  LET k == At(old, h, i).key
             w == PutIn(new, k, At(old, h, i).value) IN
         /\ Whole(w) /\ w.capacity = new.capacity
         /\ Only(old, w, h, i) /\ Keeps(new, w)
         /\ GetFrom(w, k) = GetFrom(old, k)
<1> DEFINE k == At(old, h, i).key
           v == At(old, h, i).value
           w == PutIn(new, k, v)
<1>1. k \in Keys /\ v \in Values /\ At(old, h, i) = Cell(k, v)
  BY CellKinds DEF CellOf, Blank, Cell
<1>2. i \in Nat
  <2>1. PICK n \in Nat \ {0} : old.buckets[h].array \in [0 .. n - 1 -> CellOf]
    BY DEF Whole, BucketOK
  <2>2. QED
    BY <2>1 DEF Places
<1>3. \A x, y : Cell(x, y).key = x /\ Cell(x, y).value = y
  BY DEF Cell
<1>4. h = BucketOf(old, k) /\ \A j \in Places(old, h) : At(old, h, j).key = k => i = j
  BY DEF Whole
<1>5. GetFrom(new, k) = Null
  <2> SUFFICES ASSUME GetFrom(new, k) # Null PROVE FALSE
    OBVIOUS
  <2>1. PICK g \in 0 .. old.capacity - 1, j \in Nat :
          j \in Places(old, g) /\ (g > h \/ (g = h /\ j >= i + 1)) /\ At(old, g, j) = Cell(k, GetFrom(new, k))
    BY <1>1 DEF Only
  <2>2. At(old, g, j).key = k /\ k # Null
    BY <1>1, <1>3, <2>1, TableAssumption
  <2>3. g = BucketOf(old, k)
    BY <2>1, <2>2 DEF Whole
  <2>4. g = h /\ i = j
    BY <1>4, <2>1, <2>2, <2>3
  <2>5. QED
    BY <1>2, <2>1, <2>4
<1>6. /\ Whole(w) /\ w.capacity = new.capacity
      /\ \A x \in Keys : GetFrom(w, x) = IF x = k THEN v ELSE GetFrom(new, x)
  BY <1>1, <1>5, Inserting
<1>7. GetFrom(old, k) = v
  BY <1>1, <1>4, Lookup
<1> HIDE DEF k, v, w
<1>8. Keeps(new, w)
  BY <1>5, <1>6 DEF Keeps
<1>9. Only(old, w, h, i)
  <2> SUFFICES ASSUME NEW x \in Keys, GetFrom(w, x) # Null
               PROVE  \E g \in 0 .. old.capacity - 1, j \in Nat :
                        /\ j \in Places(old, g)
                        /\ g > h \/ (g = h /\ j >= i)
                        /\ At(old, g, j) = Cell(x, GetFrom(w, x))
    BY DEF Only
  <2>1. CASE x = k
    BY <1>1, <1>2, <1>6, <2>1
  <2>2. CASE x # k
    <3>1. GetFrom(w, x) = GetFrom(new, x)
      BY <1>6, <2>2
    <3>2. PICK g \in 0 .. old.capacity - 1, j \in Nat :
            j \in Places(old, g) /\ (g > h \/ (g = h /\ j >= i + 1)) /\ At(old, g, j) = Cell(x, GetFrom(new, x))
      BY <3>1 DEF Only
    <3>3. g > h \/ (g = h /\ j >= i)
      BY <1>2, <3>2
    <3>4. QED
      BY <3>1, <3>2, <3>3
  <2>3. QED
    BY <2>1, <2>2
<1>10. QED
  BY <1>6, <1>7, <1>8, <1>9, <1>1 DEF k, v, w

LEMMA OnlyMore ==
  ASSUME NEW old, NEW new, NEW h \in Int, NEW i, NEW g \in Int, NEW j, Only(old, new, h, i), g < h
  PROVE  Only(old, new, g, j)
<1> SUFFICES ASSUME NEW k \in Keys, GetFrom(new, k) # Null
             PROVE  \E f \in 0 .. old.capacity - 1, l \in Nat :
                      /\ l \in Places(old, f)
                      /\ f > g \/ (f = g /\ l >= j)
                      /\ At(old, f, l) = Cell(k, GetFrom(new, k))
  BY DEF Only
<1>1. PICK f \in 0 .. old.capacity - 1, l \in Nat :
        l \in Places(old, f) /\ (f > h \/ (f = h /\ l >= i)) /\ At(old, f, l) = Cell(k, GetFrom(new, k))
  BY DEF Only
<1>2. f > g
  BY <1>1
<1>3. QED
  BY <1>1, <1>2

(* What is found in the new table is found in the old one.                 *)
LEMMA OnlyFound ==
  ASSUME NEW old, Whole(old), NEW new, NEW h, NEW i, Only(old, new, h, i), NEW k \in Keys
  PROVE  GetFrom(new, k) \in {GetFrom(old, k), Null}
<1> SUFFICES ASSUME GetFrom(new, k) # Null PROVE GetFrom(new, k) = GetFrom(old, k)
  OBVIOUS
<1>1. PICK g \in 0 .. old.capacity - 1, j \in Nat :
        j \in Places(old, g) /\ At(old, g, j) = Cell(k, GetFrom(new, k))
  BY DEF Only
<1>2. At(old, g, j).key = k /\ k # Null /\ At(old, g, j).value = GetFrom(new, k)
  BY <1>1, TableAssumption DEF Cell
<1>3. g = BucketOf(old, k)
  BY <1>1, <1>2 DEF Whole
<1>4. j \in CellsWith(old, k)
  BY <1>1, <1>2, <1>3, Lookup
<1>5. QED
  BY <1>2, <1>3, <1>4, Lookup

(* The loop over the cells of a bucket.                                    *)
CellsBase(p) == p.new
CellsStep(p, x, i) ==
  LET b    == p.old.buckets[p.bucket]
      cell == b.array[Size(b) - 1 - i] IN
  IF cell.key = Null THEN x ELSE PutIn(x, cell.key, cell.value)
CellsHold(p, x, i) ==
  /\ Whole(x) /\ x.capacity = p.new.capacity /\ Keeps(p.new, x)
  /\ Only(p.old, x, p.bucket, Size(p.old.buckets[p.bucket]) - 1 - i)

Cells == INSTANCE Recursion WITH Base <- CellsBase, Step <- CellsStep, Holds <- CellsHold

LEMMA MovingCells ==
  ASSUME NEW old, Whole(old), NEW new, Whole(new), NEW h \in 0 .. old.capacity - 1,
         Only(old, new, h + 1, 0)
  PROVE  LET w == MoveCells(new, old.buckets[h]) IN
         Whole(w) /\ w.capacity = new.capacity /\ Only(old, w, h, 0) /\ Keeps(new, w)
<1> DEFINE b == old.buckets[h]
           n == Size(b) - 1
           p == [old |-> old, bucket |-> h, new |-> new]
<1>1. PICK m \in Nat \ {0} : b.array \in [0 .. m - 1 -> CellOf]
  BY DEF Whole, BucketOK
<1>2. n \in Nat /\ DOMAIN b.array = 0 .. n
  <2>1. Size(b) = m /\ DOMAIN b.array = 0 .. m - 1
    BY <1>1, SizeOf
  <2>2. QED
    BY <2>1
<1>3. MoveCells(new, b) = Cells!Run(p, 0, n)[n]
  BY DEF MoveCells, Cells!Run, Cells!Loop, CellsBase, CellsStep
<1>4. p.old = old /\ p.bucket = h /\ p.new = new
  OBVIOUS
<1> HIDE DEF p
<1>5. CellsHold(p, CellsBase(p), 0)
  <2>1. Only(old, new, h, n - 0)
    BY OnlyMore
  <2>2. QED
    BY <1>4, <2>1 DEF CellsHold, CellsBase, Keeps
<1>6. ASSUME NEW i \in 1 .. n, NEW x, CellsHold(p, x, i - 1)
      PROVE  CellsHold(p, CellsStep(p, x, i), i)
  <2> DEFINE l == n - i
             w == PutIn(x, At(old, h, l).key, At(old, h, l).value)
  <2>1. l \in Places(old, h) /\ l + 1 = n - (i - 1)
    BY <1>2 DEF Places
  <2>2. /\ Whole(x) /\ x.capacity = new.capacity /\ Keeps(new, x)
        /\ Only(old, x, h, l + 1)
    BY <1>4, <1>6, <2>1 DEF CellsHold
  <2>3. CellsStep(p, x, i) = IF At(old, h, l).key = Null THEN x ELSE w
    BY <1>4 DEF CellsStep, At
  <2> HIDE DEF l
  <2>4. CASE At(old, h, l).key = Null
    <3>1. Only(old, x, h, l)
      <4> SUFFICES ASSUME NEW k \in Keys, GetFrom(x, k) # Null
                   PROVE  \E g \in 0 .. old.capacity - 1, j \in Nat :
                            /\ j \in Places(old, g)
                            /\ g > h \/ (g = h /\ j >= l)
                            /\ At(old, g, j) = Cell(k, GetFrom(x, k))
        BY DEF Only
      <4>1. PICK g \in 0 .. old.capacity - 1, j \in Nat :
              j \in Places(old, g) /\ (g > h \/ (g = h /\ j >= l + 1)) /\ At(old, g, j) = Cell(k, GetFrom(x, k))
        BY <2>2 DEF Only
      <4>2. g > h \/ (g = h /\ j >= l)
        BY <1>2, <2>1, <4>1 DEF Places
      <4>3. QED
        BY <4>1, <4>2
    <3>2. QED
      BY <1>4, <2>2, <2>3, <2>4, <3>1 DEF CellsHold, l
  <2>5. CASE At(old, h, l).key # Null
    <3>1. Whole(w) /\ w.capacity = x.capacity /\ Only(old, w, h, l) /\ Keeps(x, w)
      BY <2>1, <2>2, <2>5, Moving
    <3> HIDE DEF w
    <3>2. Keeps(new, w)
      BY <2>2, <3>1 DEF Keeps
    <3>3. QED
      BY <1>4, <2>2, <2>3, <2>5, <3>1, <3>2 DEF CellsHold, l
  <2>6. QED
    BY <2>4, <2>5
<1>7. CellsHold(p, Cells!Run(p, 0, n)[n], n)
  <2> HIDE DEF n
  <2>1. n \in Int /\ 0 <= n /\ 0 + 1 = 1
    BY <1>2
  <2>2. QED
    BY <1>5, <1>6, <2>1, Cells!Invariant
<1>8. n - n = 0
  BY <1>2
<1>9. QED
  BY <1>3, <1>4, <1>7, <1>8 DEF CellsHold

(* A bucket of one cell, whose entry is taken if it holds one.             *)
Lone(t, h) == Size(t.buckets[h]) = 1

LEMMA MovingBucket ==
  ASSUME NEW old, Whole(old), NEW new, Whole(new), NEW h \in 0 .. old.capacity - 1,
         Only(old, new, h + 1, 0),
         old.buckets[h].length = 1 => old.buckets[h].array[0].key # Null
  PROVE  LET w == MoveBucket(new, old.buckets[h]) IN
         /\ Whole(w) /\ w.capacity = new.capacity /\ Only(old, w, h, 0) /\ Keeps(new, w)
         /\ Lone(old, h) =>
              \A k \in Keys : BucketOf(old, k) = h => GetFrom(w, k) = GetFrom(old, k)
<1> DEFINE b == old.buckets[h]
           w == MoveBucket(new, b)
<1>1. PICK m \in Nat \ {0} : b \in [array : [0 .. m - 1 -> CellOf], length : Nat]
                             /\ b.length = m - Cardinality(Holes(b))
  BY DEF Whole, BucketOK
<1>2. /\ Size(b) = m /\ DOMAIN b.array = 0 .. m - 1
      /\ Cardinality(Holes(b)) = m => Holes(b) = 0 .. m - 1
  BY <1>1, SizeOf
<1>3. ASSUME NEW k \in Keys, BucketOf(old, k) = h, GetFrom(old, k) # Null
      PROVE  \E i \in 0 .. m - 1 : At(old, h, i).key = k /\ k # Null
  BY <1>2, <1>3, Lookup, TableAssumption DEF Places
<1>4. ASSUME NEW u, Only(old, u, h, 0), NEW k \in Keys, GetFrom(old, k) = Null
      PROVE  GetFrom(u, k) = GetFrom(old, k)
  BY <1>4, OnlyFound
<1>5. CASE b.length = 0
  <2>1. Only(old, new, h, 0) /\ w = new
    BY <1>5, OnlyMore DEF MoveBucket
  <2>2. ASSUME NEW k \in Keys, BucketOf(old, k) = h PROVE GetFrom(new, k) = GetFrom(old, k)
    <3>1. Holes(b) = 0 .. m - 1
      <4>1. Cardinality(Holes(b)) \in 0 .. m
        BY <1>1, SizeOf
      <4>2. QED
        BY <1>1, <1>2, <1>5, <4>1
    <3>2. \A i \in 0 .. m - 1 : At(old, h, i).key = Null
      BY <3>1 DEF Holes, At
    <3>3. GetFrom(old, k) = Null
      BY <1>3, <2>2, <3>2
    <3>4. QED
      BY <1>4, <2>1, <3>3
  <2> HIDE DEF w
  <2>3. QED
    BY <2>1, <2>2 DEF Keeps, w
<1>6. CASE b.length = 1
  <2> DEFINE k0 == At(old, h, 0).key
  <2>1. 0 \in Places(old, h) /\ k0 # Null
    BY <1>2, <1>6 DEF Places, At
  <2>2. Only(old, new, h, 0 + 1)
    BY OnlyMore
  <2>3. w = PutIn(new, k0, At(old, h, 0).value)
    BY <1>6 DEF MoveBucket, At
  <2> HIDE DEF w
  <2>4. /\ Whole(w) /\ w.capacity = new.capacity /\ Only(old, w, h, 0) /\ Keeps(new, w)
        /\ GetFrom(w, k0) = GetFrom(old, k0)
    BY <2>1, <2>2, <2>3, Moving
  <2>5. ASSUME Lone(old, h), NEW k \in Keys, BucketOf(old, k) = h
        PROVE  GetFrom(w, k) = GetFrom(old, k)
    <3>1. CASE GetFrom(old, k) = Null
      BY <1>4, <2>4, <3>1
    <3>2. CASE GetFrom(old, k) # Null
      <4>1. PICK i \in 0 .. m - 1 : At(old, h, i).key = k
        BY <1>3, <2>5, <3>2
      <4>2. m = 1
        BY <1>2, <2>5 DEF Lone
      <4>3. k = k0
        BY <4>1, <4>2
      <4>4. QED
        BY <2>4, <4>3
    <3>3. QED
      BY <3>1, <3>2
  <2>6. QED
    BY <2>4, <2>5 DEF w
<1>7. CASE b.length \notin {0, 1}
  <2>1. w = MoveCells(new, b)
    BY <1>7 DEF MoveBucket
  <2>2. ~Lone(old, h)
    <3>1. Cardinality(Holes(b)) \in 0 .. m
      BY <1>1, SizeOf
    <3>2. QED
      BY <1>1, <1>2, <1>7, <3>1 DEF Lone
  <2> HIDE DEF w
  <2>3. QED
    BY <2>1, <2>2, MovingCells DEF w
<1>8. QED
  BY <1>5, <1>6, <1>7

(* The loop over the buckets, from the last to the first.                  *)
BucketsBase(p) == EmptyTable(p.size)
BucketsStep(p, x, i) == MoveBucket(x, p.old.buckets[p.old.capacity - i])
BucketsHold(p, x, i) ==
  /\ Whole(x) /\ x.capacity = p.size
  /\ Only(p.old, x, p.old.capacity - i, 0)
  /\ \A k \in Keys :
       BucketOf(p.old, k) >= p.old.capacity - i /\ Lone(p.old, BucketOf(p.old, k)) =>
         GetFrom(x, k) = GetFrom(p.old, k)

Rows == INSTANCE Recursion WITH Base <- BucketsBase, Step <- BucketsStep, Holds <- BucketsHold

LEMMA MovingBuckets ==
  ASSUME Whole(table), ~HashesNull, NEW n \in Nat \ {0}
  PROVE  /\ Whole(Moved(n)) /\ Moved(n).capacity = n /\ Only(table, Moved(n), 0, 0)
         /\ \A k \in Keys :
              Lone(table, BucketOf(table, k)) => GetFrom(Moved(n), k) = GetFrom(table, k)
<1> DEFINE p == [old |-> table, size |-> n]
           c == table.capacity
<1>1. c \in Nat \ {0} /\ DOMAIN table.buckets = 0 .. c - 1
  BY DEF Whole
<1>2. Moved(n) = Rows!Run(p, 0, c)[c]
  BY DEF Moved, Rows!Run, Rows!Loop, BucketsBase, BucketsStep
<1>3. p.old = table /\ p.size = n
  OBVIOUS
<1> HIDE DEF p
<1>4. BucketsHold(p, BucketsBase(p), 0)
  <2>1. \A k \in Keys : GetFrom(EmptyTable(n), k) = Null
    BY EmptyIsWhole
  <2>2. \A k \in Keys : ~(BucketOf(table, k) >= c - 0)
    BY <1>1, BucketInside
  <2>3. Only(table, EmptyTable(n), c - 0, 0)
    BY <2>1 DEF Only
  <2>4. Whole(EmptyTable(n)) /\ EmptyTable(n).capacity = n
    BY EmptyIsWhole
  <2>5. QED
    BY <1>3, <2>2, <2>3, <2>4 DEF BucketsHold, BucketsBase
<1>5. ASSUME NEW i \in 1 .. c, NEW x, BucketsHold(p, x, i - 1)
      PROVE  BucketsHold(p, BucketsStep(p, x, i), i)
  <2> DEFINE h == c - i
             w == MoveBucket(x, table.buckets[h])
  <2>1. h \in 0 .. c - 1 /\ h + 1 = c - (i - 1)
    BY <1>1
  <2>2. BucketsStep(p, x, i) = w
    BY <1>3 DEF BucketsStep
  <2> HIDE DEF h
  <2>3. /\ Whole(x) /\ x.capacity = n /\ Only(table, x, h + 1, 0)
        /\ \A k \in Keys : BucketOf(table, k) >= h + 1 /\ Lone(table, BucketOf(table, k)) =>
             GetFrom(x, k) = GetFrom(table, k)
    BY <1>3, <1>5, <2>1 DEF BucketsHold
  <2>4. table.buckets[h].length = 1 => table.buckets[h].array[0].key # Null
    BY <1>1, <2>1 DEF HashesNull
  <2>5. /\ Whole(w) /\ w.capacity = x.capacity /\ Only(table, w, h, 0) /\ Keeps(x, w)
        /\ Lone(table, h) =>
             \A k \in Keys : BucketOf(table, k) = h => GetFrom(w, k) = GetFrom(table, k)
    BY <2>1, <2>3, <2>4, MovingBucket
  <2> HIDE DEF w
  <2>6. ASSUME NEW k \in Keys, BucketOf(table, k) >= h, Lone(table, BucketOf(table, k))
        PROVE  GetFrom(w, k) = GetFrom(table, k)
    <3>1. BucketOf(table, k) \in Int /\ h \in Int
      BY <1>1, <2>1, BucketInside
    <3>2. CASE BucketOf(table, k) = h
      BY <2>5, <2>6, <3>2
    <3>3. CASE BucketOf(table, k) >= h + 1
      <4>1. GetFrom(x, k) = GetFrom(table, k)
        BY <2>3, <2>6, <3>3
      <4>2. CASE GetFrom(x, k) # Null
        BY <2>5, <4>1, <4>2 DEF Keeps
      <4>3. CASE GetFrom(x, k) = Null
        BY <2>5, <4>1, <4>3, OnlyFound
      <4>4. QED
        BY <4>2, <4>3
    <3>4. QED
      BY <2>6, <3>1, <3>2, <3>3
  <2>7. QED
    BY <1>3, <2>2, <2>3, <2>5, <2>6 DEF BucketsHold, h
<1>6. BucketsHold(p, Rows!Run(p, 0, c)[c], c)
  <2> HIDE DEF c
  <2>1. c \in Int /\ 0 <= c /\ 0 + 1 = 1
    BY <1>1
  <2>2. QED
    BY <1>4, <1>5, <2>1, Rows!Invariant
<1>7. c - c = 0 /\ \A k \in Keys : BucketOf(table, k) >= 0
  BY <1>1, BucketInside
<1>8. QED
  BY <1>2, <1>3, <1>6, <1>7 DEF BucketsHold

(* A resize changes no value and invents no entry, and keeps the entries   *)
(* of the buckets that never grew.                                         *)
LEMMA Resizing ==
  ASSUME Whole(table), NEW n \in Nat \ {0}, Resize(n)
  PROVE  /\ Whole(table') /\ crashed' \in BOOLEAN
         /\ table'.capacity = IF crashed' THEN table.capacity ELSE n
         /\ \A k \in Keys : GetFrom(table', k) \in {GetFrom(table, k), Null}
         /\ table.length # 0 =>
              \A k \in Keys :
                Lone(table, BucketOf(table, k)) => GetFrom(table', k) = GetFrom(table, k)
<1>1. crashed' \in BOOLEAN
  BY DEF Resize
<1>2. CASE crashed'
  BY <1>1, <1>2 DEF Resize
<1>3. CASE ~crashed' /\ table.length = 0
  <2>1. table' = EmptyTable(n)
    BY <1>3 DEF Resize
  <2>2. QED
    BY <1>1, <1>3, <2>1, EmptyIsWhole
<1>4. CASE ~crashed' /\ table.length # 0
  <2>1. table' = Moved(n) /\ ~HashesNull
    BY <1>4 DEF Resize
  <2>2. /\ Whole(Moved(n)) /\ Moved(n).capacity = n /\ Only(table, Moved(n), 0, 0)
        /\ \A k \in Keys :
             Lone(table, BucketOf(table, k)) => GetFrom(Moved(n), k) = GetFrom(table, k)
    BY <2>1, MovingBuckets
  <2>3. \A k \in Keys : GetFrom(Moved(n), k) \in {GetFrom(table, k), Null}
    BY <2>2, OnlyFound
  <2>4. QED
    BY <1>1, <1>4, <2>1, <2>2, <2>3
<1>5. QED
  BY <1>1, <1>2, <1>3, <1>4

LEMMA Staying == IInv /\ [Next]_vars => IInv'
<1> SUFFICES ASSUME IInv, [Next]_vars PROVE IInv'
  OBVIOUS
<1>1. ASSUME NEW k \in Keys, NEW v \in Values, Set(k, v) PROVE IInv'
  BY <1>1, Setting DEF IInv, Set
<1>2. ASSUME NEW k \in Keys, Del(k) PROVE IInv'
  BY <1>2, Removing DEF IInv, Del
<1>3. ASSUME NEW n \in Sizes, Resize(n) PROVE IInv'
  BY <1>3, Resizing, TableAssumption DEF IInv
<1>4. CASE UNCHANGED vars
  BY <1>4 DEF vars, IInv
<1>5. QED
  BY <1>1, <1>2, <1>3, <1>4 DEF Next

(* What holds of a whole table is what the runs check.                     *)
LEMMA WholeIsTyped == IInv => TypeOK
<1> SUFFICES ASSUME IInv PROVE TypeOK
  OBVIOUS
<1>1. ASSUME NEW h \in Buckets
      PROVE  LET b == table.buckets[h] IN
             /\ b.length \in Nat
             /\ 0 \in DOMAIN b.array /\ DOMAIN b.array = 0 .. Size(b) - 1
             /\ \A i \in DOMAIN b.array : b.array[i] \in [key : Keys, value : Values] \cup {Blank}
  <2> DEFINE b == table.buckets[h]
  <2>1. PICK n \in Nat \ {0} : b \in [array : [0 .. n - 1 -> CellOf], length : Nat]
    BY <1>1 DEF IInv, Whole, Buckets, BucketOK
  <2>2. Size(b) = n /\ DOMAIN b.array = 0 .. n - 1
    BY <2>1, SizeOf
  <2>3. QED
    BY <2>1, <2>2 DEF CellOf
<1>2. DOMAIN table.buckets = Buckets
  BY DEF IInv, Whole, Buckets
<1>3. QED
  BY <1>1, <1>2 DEF IInv, Whole, TypeOK

LEMMA WholeBuckets == IInv => BucketsAreWhole
<1> SUFFICES ASSUME IInv PROVE BucketsAreWhole
  OBVIOUS
<1>1. ASSUME NEW h \in Buckets
      PROVE  LET b == table.buckets[h] IN b.length = Size(b) - Cardinality(Holes(b))
  <2> DEFINE b == table.buckets[h]
  <2>1. PICK n \in Nat \ {0} : b.array \in [0 .. n - 1 -> CellOf] /\ b.length = n - Cardinality(Holes(b))
    BY <1>1 DEF IInv, Whole, Buckets, BucketOK
  <2>2. Size(b) = n
    BY <2>1, SizeOf
  <2>3. QED
    BY <2>1, <2>2
<1>2. ASSUME NEW g \in Buckets, NEW h \in Buckets,
             NEW i \in DOMAIN table.buckets[g].array, NEW j \in DOMAIN table.buckets[h].array
      PROVE  LET k == table.buckets[g].array[i].key IN
             /\ k # Null => g = BucketOf(table, k)
             /\ k # Null /\ k = table.buckets[h].array[j].key => g = h /\ i = j
  <2>1. i \in Places(table, g) /\ j \in Places(table, h)
    BY DEF Places
  <2>2. QED
    BY <2>1 DEF IInv, Whole, Buckets, At
<1>3. QED
  BY <1>1, <1>2 DEF BucketsAreWhole

(* The table is well typed whatever is set, deleted and resized, with any  *)
(* hashes: every cell holds a key with its value or nothing at all.        *)
THEOREM Typing == Spec => []TypeOK
<1>1. Init => IInv
  BY Starting DEF Init, IInv
<1>2. IInv /\ [Next]_vars => IInv'
  BY Staying
<1>3. QED
  BY <1>1, <1>2, WholeIsTyped, PTL DEF Spec

(* A bucket counts its cells and a key has one place, the one a lookup     *)
(* finds.                                                                  *)
THEOREM BucketsSafe == Spec => []BucketsAreWhole
<1>1. Init => IInv
  BY Starting DEF Init, IInv
<1>2. IInv /\ [Next]_vars => IInv'
  BY Staying
<1>3. QED
  BY <1>1, <1>2, WholeBuckets, PTL DEF Spec

(* The table implements a dictionary, whatever the hashes: a key that was  *)
(* set is found with its value until it is deleted, and a resize invents   *)
(* no entry and changes no value.                                          *)
THEOREM Implements == Spec => ImplementsDict
<1>1. Init => IInv
  BY Starting DEF Init, IInv
<1>2. Init => Lookups!Init
  BY Starting DEF Lookups!Init
<1>3. IInv /\ [Next]_vars => [Lookups!Next]_(Lookups!vars)
  <2> SUFFICES ASSUME IInv, [Next]_vars PROVE [Lookups!Next]_(Lookups!vars)
    OBVIOUS
  <2>1. ASSUME NEW k \in Keys, NEW v \in Values, Set(k, v) PROVE Lookups!Put(k, v)
    <3>1. GetFrom(table, k) = Null
      BY <2>1 DEF Set
    <3>2. /\ table'.capacity = table.capacity
          /\ \A x \in Keys : GetFrom(table', x) = IF x = k THEN v ELSE GetFrom(table, x)
      BY <2>1, Setting DEF IInv
    <3>3. QED
      BY <3>1, <3>2 DEF Lookups!Put
  <2>2. ASSUME NEW k \in Keys, Del(k) PROVE Lookups!Remove(k)
    <3>1. /\ table'.capacity = table.capacity
          /\ \A x \in Keys : GetFrom(table', x) = IF x = k THEN Null ELSE GetFrom(table, x)
      BY <2>2, Removing DEF IInv
    <3>2. QED
      BY <3>1 DEF Lookups!Remove
  <2>3. ASSUME NEW n \in Sizes, Resize(n) PROVE [Lookups!Rebuild]_(Lookups!vars)
    <3>1. CASE crashed'
      BY <2>3, <3>1 DEF Resize, Lookups!vars
    <3>2. CASE ~crashed'
      <4>1. /\ Whole(table) /\ Whole(table') /\ table'.capacity = n
            /\ \A k \in Keys : GetFrom(table', k) \in {GetFrom(table, k), Null}
        BY <2>3, <3>2, Resizing, TableAssumption DEF IInv
      <4>2. n # table.capacity
        BY <2>3 DEF Resize
      <4>3. \A k \in Keys : GetFrom(table', k) \in Values \cup {Null}
        BY <4>1, Lookup
      <4>4. QED
        BY <4>1, <4>2, <4>3 DEF Lookups!Rebuild
    <3>3. QED
      BY <3>1, <3>2
  <2>4. CASE UNCHANGED vars
    BY <2>4 DEF vars, Lookups!vars
  <2>5. QED
    BY <2>1, <2>2, <2>3, <2>4 DEF Next, Lookups!Next
<1>4. IInv /\ [Next]_vars => IInv'
  BY Staying
<1>5. QED
  BY <1>1, <1>2, <1>3, <1>4, PTL DEF Spec, ImplementsDict, Lookups!Spec

(* A resize loses no entry of a bucket that never grew, unless the count   *)
(* of entries, which growths and deletes have made wrong, is 0.            *)
THEOREM LoneSurvive == Spec => LoneEntriesSurvive
<1> DEFINE Survive ==
      table'.capacity # table.capacity /\ table.length # 0 =>
        \A k \in Keys : Size(table.buckets[BucketOf(table, k)]) = 1 =>
          GetFrom(table', k) = GetFrom(table, k)
<1>1. Init => IInv
  BY Starting DEF Init, IInv
<1>2. IInv /\ [Next]_vars => IInv'
  BY Staying
<1>3. IInv /\ [Next]_vars => [Survive]_vars
  <2> SUFFICES ASSUME IInv, Next PROVE Survive
    OBVIOUS
  <2>1. ASSUME NEW k \in Keys, NEW v \in Values, Set(k, v) PROVE Survive
    BY <2>1, Setting DEF IInv
  <2>2. ASSUME NEW k \in Keys, Del(k) PROVE Survive
    BY <2>2, Removing DEF IInv
  <2>3. ASSUME NEW n \in Sizes, Resize(n) PROVE Survive
    BY <2>3, Resizing, TableAssumption DEF IInv, Lone
  <2>4. QED
    BY <2>1, <2>2, <2>3 DEF Next
<1>4. QED
  BY <1>1, <1>2, <1>3, PTL DEF Spec, LoneEntriesSurvive
=============================================================================
