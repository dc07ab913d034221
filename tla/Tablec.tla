------------------------------- MODULE Tablec -------------------------------
(***************************************************************************)
(* The hash table of server/libs/tablec.c, which keeps the sessions: an    *)
(* array of buckets, each an array of cells that doubles when it is full.  *)
(*                                                                         *)
(* A set is modelled for a key that is not in the table: its one caller,   *)
(* the login handler, makes a random key each time, a new one unless rand  *)
(* repeats (Shop has that case).  Calls are atomic here.                   *)
(*                                                                         *)
(* A definition whose name adds a word to the one below it (PlaceOver      *)
(* before Place) is a faulty variant of that one, used by no action: it is *)
(* there to show that a property notices the fault.                        *)
(***************************************************************************)
EXTENDS Integers, FiniteSets

CONSTANTS
  Keys, Values,
  Null,       (* a NULL key or value                                       *)
  Hash,       (* the hash of each key, before % capacity                   *)
  Capacity,   (* the number of buckets tablec_init is given                *)
  Sizes,      (* the numbers of buckets a resize may ask for               *)
  Word        (* a size_t counts modulo this                               *)

ASSUME TableAssumption ==
  /\ Null \notin Keys /\ Null \notin Values
  /\ Hash \in [Keys -> Nat]
  /\ Capacity \in Nat \ {0} /\ Sizes \subseteq Nat \ {0}
  /\ Word \in Nat \ {0, 1}

VARIABLES
  table,      (* buckets, how many there are and the count kept of entries *)
  crashed     (* a NULL key was hashed                                     *)

vars == <<table, crashed>>

Blank == [key |-> Null, value |-> Null]
Cell(k, v) == [key |-> k, value |-> v]

EmptyTable(n) ==
  [capacity |-> n, length |-> 0,
   buckets |-> [h \in 0 .. n - 1 |-> [array |-> [i \in 0..0 |-> Blank], length |-> 0]]]

BucketOf(t, k) == Hash[k] % t.capacity

(* The bucket's capacity is the size of its array.                         *)
Size(b)  == Cardinality(DOMAIN b.array)
Holes(b) == {i \in DOMAIN b.array : b.array[i].key = Null}

(* The array with k stored at i.  Cells the growth adds are blank.         *)
Store(array, n, i, k, v) ==
  [j \in 0 .. n - 1 |-> IF j = i THEN Cell(k, v)
                        ELSE IF j \in DOMAIN array THEN array[j] ELSE Blank]

(* Where tablec_set stores a key: in an empty bucket the first cell, else  *)
(* the last hole, else the first cell of the half a growth adds.           *)
LastHole(b) == CHOOSE i \in Holes(b) : \A j \in Holes(b) : j <= i
PlaceOver(b) == IF b.length = 0 THEN 0 ELSE IF Holes(b) # {} THEN LastHole(b) ELSE b.length - 1
Place(b) == IF b.length = 0 THEN 0 ELSE IF Holes(b) # {} THEN LastHole(b) ELSE b.length

Grows(b) == b.length # 0 /\ Holes(b) = {}

(* tablec_set.  The path that doubles the array does not count the entry.  *)
PutIn(t, k, v) ==
  LET h == BucketOf(t, k)
      b == t.buckets[h]
      n == IF Grows(b) THEN 2 * Size(b) ELSE Size(b) IN
  [t EXCEPT !.buckets[h] = [array |-> Store(b.array, n, Place(b), k, v), length |-> b.length + 1],
            !.length = IF Grows(b) THEN @ ELSE (@ + 1) % Word]

(* tablec_get: what a lookup of k returns.                                 *)
CellsWith(t, k) ==
  LET b == t.buckets[BucketOf(t, k)] IN
  {i \in DOMAIN b.array : b.length # 0 /\ b.array[i].key = k}

GetFrom(t, k) ==
  IF CellsWith(t, k) = {} THEN Null
  ELSE t.buckets[BucketOf(t, k)].array
         [CHOOSE i \in CellsWith(t, k) : \A j \in CellsWith(t, k) : j <= i].value

Init == table = EmptyTable(Capacity) /\ crashed = FALSE

Set(k, v) ==
  /\ ~crashed
  /\ GetFrom(table, k) = Null
  /\ table' = PutIn(table, k, v)
  /\ UNCHANGED crashed

(* tablec_del                                                              *)
DelShort(k) ==
  /\ ~crashed
  /\ \E i \in CellsWith(table, k) :
       table' = [table EXCEPT !.buckets[BucketOf(table, k)].array[i] = Blank,
                              !.length = (@ - 1) % Word]
  /\ UNCHANGED crashed
DelKeyOnly(k) ==
  /\ ~crashed
  /\ \E i \in CellsWith(table, k) :
       table' = [table EXCEPT !.buckets[BucketOf(table, k)].array[i].key = Null,
                              !.buckets[BucketOf(table, k)].length = @ - 1,
                              !.length = (@ - 1) % Word]
  /\ UNCHANGED crashed
Del(k) ==
  /\ ~crashed
  /\ \E i \in CellsWith(table, k) :
       /\ \A j \in CellsWith(table, k) : j <= i
       /\ table' = [table EXCEPT
                      !.buckets[BucketOf(table, k)] = [array  |-> [@.array EXCEPT ![i] = Blank],
                                                       length |-> @.length - 1],
                      !.length = (@ - 1) % Word]
  /\ UNCHANGED crashed

(* tablec_resize to another size, which nothing calls, puts the entries in *)
(* a new table, from the last bucket to the first.  From a bucket of one   *)
(* entry it takes the first cell, from a larger one every cell but the     *)
(* last, from the last to the first; when the count is 0 it takes nothing. *)
MoveCells(t, b) ==
  LET after[i \in 0 .. Size(b) - 1] ==
        IF i = 0 THEN t
        ELSE LET cell == b.array[Size(b) - 1 - i] IN
             IF cell.key = Null THEN after[i - 1] ELSE PutIn(after[i - 1], cell.key, cell.value)
  IN after[Size(b) - 1]

MoveBucketGrown(t, b) == IF b.length <= 1 THEN t ELSE MoveCells(t, b)
MoveBucket(t, b) ==
  IF b.length = 0 THEN t
  ELSE IF b.length = 1 THEN PutIn(t, b.array[0].key, b.array[0].value)
  ELSE MoveCells(t, b)

Moved(n) ==
  LET after[i \in 0 .. table.capacity] ==
        IF i = 0 THEN EmptyTable(n)
        ELSE MoveBucket(after[i - 1], table.buckets[table.capacity - i])
  IN after[table.capacity]

(* The one entry of a bucket is not in its first cell.                     *)
HashesNull ==
  \E h \in DOMAIN table.buckets :
    table.buckets[h].length = 1 /\ table.buckets[h].array[0].key = Null

Resize(n) ==
  /\ ~crashed
  /\ n # table.capacity
  /\ crashed' = (table.length # 0 /\ HashesNull)
  /\ table' = IF crashed' THEN table
              ELSE IF table.length = 0 THEN EmptyTable(n) ELSE Moved(n)

Next == \/ \E k \in Keys : Del(k) \/ \E v \in Values : Set(k, v)
        \/ \E n \in Sizes : Resize(n)

Spec == Init /\ [][Next]_vars

-----------------------------------------------------------------------------
Buckets == 0 .. table.capacity - 1

TypeOK ==
  /\ table.capacity \in Nat \ {0}
  /\ table.length \in 0 .. Word - 1
  /\ DOMAIN table.buckets = Buckets
  /\ \A h \in Buckets :
       LET b == table.buckets[h] IN
       /\ b.length \in Nat
       /\ 0 \in DOMAIN b.array /\ DOMAIN b.array = 0 .. Size(b) - 1
       /\ \A i \in DOMAIN b.array :
            b.array[i] \in [key : Keys, value : Values] \cup {Blank}
  /\ crashed \in BOOLEAN

(* A bucket's length is the number of its occupied cells: the growth path  *)
(* of tablec_set indexes the new array with it, and the path for an empty  *)
(* bucket whose first cell is taken (lines 71 to 88) is never needed by    *)
(* calls that do not overlap.  And a key is stored once, in the bucket its *)
(* hash selects: a lookup that scans one bucket from the top sees the only *)
(* cell there is.                                                          *)
BucketsAreWhole ==
  /\ \A h \in Buckets :
       LET b == table.buckets[h] IN b.length = Size(b) - Cardinality(Holes(b))
  /\ \A g, h \in Buckets :
       \A i \in DOMAIN table.buckets[g].array, j \in DOMAIN table.buckets[h].array :
         LET k == table.buckets[g].array[i].key IN
         /\ k # Null => g = BucketOf(table, k)
         /\ k # Null /\ k = table.buckets[h].array[j].key => g = h /\ i = j

(* Lookups behave as those of a dictionary, across collisions, holes left  *)
(* by deletes and growth.  A resize invents no entry and changes no value; *)
(* it can lose some.                                                       *)
Lookups == INSTANCE Dict WITH
  Missing <- Null, found <- [k \in Keys |-> GetFrom(table, k)], size <- table.capacity
ImplementsDict == Lookups!Spec

(* What a resize loses comes from buckets that have grown, unless the      *)
(* uncounted growths and the deletes have brought the count to 0.          *)
LoneEntriesSurvive ==
  [][table'.capacity # table.capacity /\ table.length # 0 =>
       \A k \in Keys : Size(table.buckets[BucketOf(table, k)]) = 1 =>
         GetFrom(table', k) = GetFrom(table, k)]_vars
=============================================================================
