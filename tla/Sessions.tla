------------------------------ MODULE Sessions ------------------------------
(***************************************************************************)
(* The sessions as the connection threads of server/main.c share them: a   *)
(* login makes a token with the C library's one random generator           *)
(* (server/libs/fq_utils.c) and stores it with tablec_set, a cart handler  *)
(* looks one up with tablec_get and then reads the cell it was given       *)
(* (server/libs/tablec.c).  No lock protects any of it, so an action here  *)
(* is one access to shared memory, or a run of accesses no other thread's  *)
(* step can tell apart.                                                    *)
(*                                                                         *)
(* C gives no meaning to an access outside an array or to freed memory:    *)
(* "undefined" records it and the model stops there.  A thread that is in  *)
(* the middle of using an array when another frees it may have read its    *)
(* address before or may read the new one.  "races" is history and guards  *)
(* nothing.                                                                *)
(*                                                                         *)
(* Shop has these calls atomic; Tablec has every path of the table's       *)
(* functions, one call at a time.                                          *)
(*                                                                         *)
(* A definition whose name adds a word to the one below it (SeedOfTime     *)
(* before Seed) is a faulty variant of that one, used by no action: it is  *)
(* there to show that a property notices the fault.                        *)
(***************************************************************************)
EXTENDS Integers, FiniteSets, Sequences

CONSTANTS
  Threads,     (* the connection threads                                   *)
  Draws,       (* characters in a token: 16                                *)
  Capacity,    (* buckets of the table: 4                                  *)
  Hash(_),     (* _tablec_hash of a token                                  *)
  Null,
  MaxLogins    (* bound: logins in a behaviour                             *)

ASSUME SessionsAssumption ==
  /\ {Draws, Capacity, MaxLogins} \subseteq Nat \ {0}
  /\ Null \notin 1 .. MaxLogins

VARIABLES
  logins,      (* how many logins there were; each stands for its user     *)
  rng,         (* the generator: how it was seeded and how often drawn     *)
  buckets,     (* the table: cells, and the two fields beside them         *)
  given,       (* tokens that clients were answered, and to which login    *)
  pc,          (* where each thread is                                     *)
  token,       (* the key it makes, sets or looks up                       *)
  user,        (* the value it sets, or was given                          *)
  reg,         (* what it has read and not yet used: an index, a count,    *)
               (* the generator's state                                    *)
  fresh,       (* the larger array it has filled                           *)
  races,       (* history: the overlaps there were                         *)
  undefined    (* the program has lost its meaning                         *)

generator == <<logins, rng>>
locals    == <<token, user, reg, fresh>>
vars == <<generator, buckets, given, pc, locals, races, undefined>>

(* A thread makes a token, is inside tablec_set, having read the bucket's  *)
(* length, or is inside tablec_get, having read its capacity, or has the   *)
(* cell it returned.                                                       *)
MakePcs == {"draw", "drawn"}
SetPcs  == {"first", "onlyKey", "onlyValue", "onlyOne", "pairCapacity", "pairSwap", "pairTwo",
            "from", "scan", "key", "value", "copy", "swap", "double", "doubled", "count", "counted"}
GetPcs  == {"find", "use"}
Pcs == {"idle", "length", "return", "answer"} \cup MakePcs \cup SetPcs \cup GetPcs

(* Where a thread may hold an address it has read from the bucket.         *)
UsePcs == {"onlyKey", "onlyValue", "pairSwap", "scan", "key", "value", "copy", "swap", "find"}

NoKey == <<>>
Blank == [key |-> NoKey, value |-> Null]
Gone  == -1     (* the index of a cell that was freed                      *)

Bucket(t) == Hash(token[t]) % Capacity
Mine(t) == buckets[Bucket(t)]
IsFree(b, i) == b.array[i].key = NoKey

Entry(t) == [key |-> token[t], value |-> user[t]]

Inside(h, pcs) == {t \in Threads : pc[t] \in pcs /\ Bucket(t) = h}

Init ==
  /\ logins = 0
  /\ rng = <<0, 0>>
  /\ buckets = [h \in 0 .. Capacity - 1 |->
                  [array |-> [i \in 0..0 |-> Blank], length |-> 0, capacity |-> 1]]
  /\ given = {}
  /\ pc = [t \in Threads |-> "idle"]
  /\ token = [t \in Threads |-> NoKey]
  /\ user = [t \in Threads |-> Null]
  /\ reg = [t \in Threads |-> Null]
  /\ fresh = [t \in Threads |-> Null]
  /\ races = [make |-> FALSE, set |-> {}, get |-> {}]
  /\ undefined = FALSE

Step(t, p, q) ==
  /\ ~undefined
  /\ pc[t] = p
  /\ pc' = [pc EXCEPT ![t] = q]

Keep(t, x) == reg' = [reg EXCEPT ![t] = x] /\ UNCHANGED <<token, user, fresh>>

-----------------------------------------------------------------------------
(* frequenc_generate_session_id.  srand stores a seed, rand reads the      *)
(* generator's state and stores the next; another thread may come between. *)
(* A state that is drawn stands for one character of the token.            *)
SeedOfTime(n) == <<1, 0>>
(* frequenc_safe_seeding reads /dev/urandom: no two seeds are equal.       *)
Seed(n) == <<n, 0>>

StartLogin(t) ==
  /\ Step(t, "idle", "draw")
  /\ logins < MaxLogins
  /\ logins' = logins + 1
  /\ rng' = Seed(logins')
  /\ user' = [user EXCEPT ![t] = logins']
  /\ UNCHANGED <<buckets, given, token, reg, fresh, undefined>>

LoadRand(t) ==
  /\ Step(t, "draw", "drawn")
  /\ Keep(t, rng)
  /\ UNCHANGED <<generator, buckets, given, undefined>>

StoreRand(t) ==
  /\ Step(t, "drawn", IF Len(token[t]) + 1 = Draws THEN "length" ELSE "draw")
  /\ rng' = <<reg[t][1], reg[t][2] + 1>>
  /\ token' = [token EXCEPT ![t] = Append(@, reg[t])]
  /\ reg' = [reg EXCEPT ![t] = Null]
  /\ UNCHANGED <<logins, buckets, given, user, fresh, undefined>>

-----------------------------------------------------------------------------
(* tablec_set.                                                             *)

(* What thread t makes of its bucket; outside the array it has no meaning. *)
Write(t, inside, b) ==
  /\ undefined' = ~inside
  /\ buckets' = IF inside THEN [buckets EXCEPT ![Bucket(t)] = b] ELSE buckets
  /\ UNCHANGED <<generator, given>>

Read == UNCHANGED <<generator, buckets, given, undefined>>

(* Lines 64 and 65: a bucket of length 0 has room in its first cell, if    *)
(* that is free.                                                           *)
ReadLength(t) ==
  /\ Step(t, "length", IF Mine(t).length = 0 THEN "first" ELSE "from")
  /\ Read /\ UNCHANGED locals

ReadFirst(t) ==
  /\ Step(t, "first", IF IsFree(Mine(t), 0) THEN "onlyKey" ELSE "pairCapacity")
  /\ Read /\ UNCHANGED locals

(* Lines 66 to 70.                                                         *)
StoreOnlyKey(t) ==
  /\ Step(t, "onlyKey", "onlyValue")
  /\ Write(t, TRUE, [Mine(t) EXCEPT !.array[0].key = token[t]])
  /\ UNCHANGED locals

StoreOnlyValue(t) ==
  /\ Step(t, "onlyValue", "onlyOne")
  /\ Write(t, TRUE, [Mine(t) EXCEPT !.array[0].value = user[t]])
  /\ UNCHANGED locals

LengthOne(t) ==
  /\ Step(t, "onlyOne", "return")
  /\ Write(t, TRUE, [Mine(t) EXCEPT !.length = 1])
  /\ UNCHANGED locals

(* The old array of bucket h is freed: the cells of it that threads hold   *)
(* are gone, and a thread in the middle of using it may go on doing so.    *)
Freed(t, new, inside) ==
  LET h == Bucket(t) IN
  /\ buckets' = IF inside THEN [buckets EXCEPT ![h].array = new] ELSE buckets
  /\ \E stale \in BOOLEAN :
       undefined' = (~inside \/ (stale /\ Inside(h, UsePcs) \ {t} # {}))
  /\ reg' = [d \in Threads |-> IF d \in Inside(h, {"use"}) THEN Gone
                               ELSE IF d = t THEN Null ELSE reg[d]]
  /\ fresh' = [fresh EXCEPT ![t] = Null]
  /\ UNCHANGED <<generator, given, token, user>>

(* Lines 72 to 87: the first cell was taken all the same.                  *)
PairCapacity(t) ==
  /\ Step(t, "pairCapacity", "pairSwap")
  /\ Write(t, TRUE, [Mine(t) EXCEPT !.capacity = 2])
  /\ UNCHANGED locals

PairSwap(t) ==
  /\ Step(t, "pairSwap", "pairTwo")
  /\ Freed(t, [i \in 0..1 |-> IF i = 0 THEN Mine(t).array[0]
                              ELSE Entry(t)], TRUE)

PairTwo(t) ==
  /\ Step(t, "pairTwo", "return")
  /\ Write(t, TRUE, [Mine(t) EXCEPT !.length = 2])
  /\ UNCHANGED locals

(* Lines 90 to 93: the last free cell below the capacity, if there is one. *)
ReadCapacity(t) ==
  /\ Step(t, "from", "scan")
  /\ Keep(t, Mine(t).capacity)
  /\ Read

Scan(t) ==
  LET b == Mine(t)
      inside == reg[t] - 1 \in DOMAIN b.array
      holes  == IF inside THEN {i \in 0 .. reg[t] - 1 : IsFree(b, i)} ELSE {} IN
  /\ Step(t, "scan", IF holes = {} THEN "copy" ELSE "key")
  /\ Keep(t, IF holes = {} THEN Null ELSE CHOOSE i \in holes : \A j \in holes : j <= i)
  /\ Write(t, inside, b)

(* Lines 95 and 96.                                                        *)
StoreKey(t) ==
  /\ Step(t, "key", "value")
  /\ Write(t, reg[t] \in DOMAIN Mine(t).array, [Mine(t) EXCEPT !.array[reg[t]].key = token[t]])
  /\ UNCHANGED locals

StoreValue(t) ==
  /\ Step(t, "value", "count")
  /\ Write(t, reg[t] \in DOMAIN Mine(t).array, [Mine(t) EXCEPT !.array[reg[t]].value = user[t]])
  /\ Keep(t, Null)

FreshSizeSame(b) == b.capacity
FreshSize(b) == 2 * b.capacity

(* Lines 104 to 117: a new array of twice the capacity, with the old cells. *)
Copy(t) ==
  LET b == Mine(t)
      inside == 0 .. b.capacity - 1 \subseteq DOMAIN b.array IN
  /\ Step(t, "copy", "swap")
  /\ fresh' = [fresh EXCEPT ![t] = IF ~inside THEN Null ELSE
                 [i \in 0 .. FreshSize(b) - 1 |-> IF i < b.capacity THEN b.array[i] ELSE Blank]]
  /\ Write(t, inside, b)
  /\ UNCHANGED <<token, user, reg>>

(* Lines 119 to 124: the old array goes, the new one takes the entry at    *)
(* index length and becomes the bucket's.                                  *)
SlotLast(b) == b.length - 1
Slot(b) == b.length

Swap(t) ==
  LET i == Slot(Mine(t)) IN
  /\ Step(t, "swap", "double")
  /\ Freed(t, [fresh[t] EXCEPT ![i] = Entry(t)],
           i \in DOMAIN fresh[t])

(* Line 125, a read and a write.                                           *)
LoadCapacity(t) ==
  /\ Step(t, "double", "doubled")
  /\ Keep(t, Mine(t).capacity)
  /\ Read

StoreCapacity(t) ==
  /\ Step(t, "doubled", "count")
  /\ Write(t, TRUE, [Mine(t) EXCEPT !.capacity = 2 * reg[t]])
  /\ Keep(t, Null)

(* Lines 98 and 126, a read and a write.                                   *)
LoadLength(t) ==
  /\ Step(t, "count", "counted")
  /\ Keep(t, Mine(t).length)
  /\ Read

StoreLengthLost(t) ==
  /\ Step(t, "counted", "return")
  /\ Write(t, TRUE, Mine(t))
  /\ Keep(t, Null)
StoreLength(t) ==
  /\ Step(t, "counted", "return")
  /\ Write(t, TRUE, [Mine(t) EXCEPT !.length = reg[t] + 1])
  /\ Keep(t, Null)

(* The login answers with the token.                                       *)
Forget(t) ==
  /\ token' = [token EXCEPT ![t] = NoKey]
  /\ user' = [user EXCEPT ![t] = Null]
  /\ reg' = [reg EXCEPT ![t] = Null]
  /\ UNCHANGED fresh

Return(t) ==
  /\ Step(t, "return", "idle")
  /\ given' = given \cup {<<token[t], user[t]>>}
  /\ Forget(t)
  /\ UNCHANGED <<generator, buckets, undefined>>

-----------------------------------------------------------------------------
(* A cart handler looks up a token some client was given: tablec_get.      *)
StartCheck(t) ==
  \E g \in given :
    LET k == g[1] IN
    /\ Step(t, "idle", "find")
    /\ token' = [token EXCEPT ![t] = k]
    /\ reg' = [reg EXCEPT ![t] = buckets[Hash(k) % Capacity].capacity]
    /\ UNCHANGED <<user, fresh>>
    /\ Read

(* Lines 135 to 142: from the capacity down to a cell with the key.        *)
Find(t) ==
  LET b == Mine(t)
      inside == b.length = 0 \/ reg[t] - 1 \in DOMAIN b.array
      cells  == IF b.length = 0 \/ ~inside THEN {}
                ELSE {i \in 0 .. reg[t] - 1 : b.array[i].key = token[t]} IN
  /\ Step(t, "find", IF cells = {} THEN "answer" ELSE "use")
  /\ Keep(t, IF cells = {} THEN Null ELSE CHOOSE i \in cells : \A j \in cells : j <= i)
  /\ Write(t, inside, b)

ValueOfIndex(b, i) == i
ValueOf(b, i) == b.array[i].value

(* The handler reads the user from the cell (main.c lines 822 and 825).    *)
Use(t) ==
  /\ Step(t, "use", "answer")
  /\ undefined' = (reg[t] = Gone)
  /\ user' = [user EXCEPT ![t] = IF undefined' THEN Null ELSE ValueOf(Mine(t), reg[t])]
  /\ reg' = [reg EXCEPT ![t] = Null]
  /\ UNCHANGED <<generator, buckets, given, token, fresh>>

Answer(t) ==
  /\ Step(t, "answer", "idle")
  /\ Forget(t)
  /\ Read

-----------------------------------------------------------------------------
(* Two threads making tokens at once, two sets of keys of one bucket at    *)
(* once, and an array freed under a thread that is inside tablec_get or    *)
(* holds the cell it returned.                                             *)
Crowd(pcs) == \E s, t \in Threads : s # t /\ {pc[s], pc[t]} \subseteq pcs
SetsMeet(h) == \E s, t \in Inside(h, SetPcs) : s # t
FreedUnder(h) == /\ Inside(h, {"swap", "pairSwap"}) \cap {t \in Threads : pc'[t] # pc[t]} # {}
                 /\ Inside(h, GetPcs) # {}

Watch ==
  races' = [make |-> races.make \/ Crowd(MakePcs)',
            set  |-> races.set \cup {h \in DOMAIN buckets : SetsMeet(h)'},
            get  |-> races.get \cup {h \in DOMAIN buckets : FreedUnder(h)}]

Make(t) == StartLogin(t) \/ LoadRand(t) \/ StoreRand(t)
Set(t)  == \/ ReadLength(t) \/ ReadFirst(t) \/ StoreOnlyKey(t) \/ StoreOnlyValue(t) \/ LengthOne(t)
           \/ PairCapacity(t) \/ PairSwap(t) \/ PairTwo(t) \/ ReadCapacity(t) \/ Scan(t)
           \/ StoreKey(t) \/ StoreValue(t) \/ Copy(t) \/ Swap(t) \/ LoadCapacity(t)
           \/ StoreCapacity(t) \/ LoadLength(t) \/ StoreLength(t) \/ Return(t)
Get(t)  == StartCheck(t) \/ Find(t) \/ Use(t) \/ Answer(t)

Next == (\E t \in Threads : Make(t) \/ Set(t) \/ Get(t)) /\ Watch

Spec == Init /\ [][Next]_vars

-----------------------------------------------------------------------------
Draw == (1 .. MaxLogins) \X Nat
Token == Seq(Draw)
CellType == [key : Token, value : 1 .. MaxLogins \cup {Null}]
IsArray(a) == \E n \in Nat \ {0} : a \in [0 .. n - 1 -> CellType]

TypeOK ==
  /\ logins \in 0 .. MaxLogins
  /\ DOMAIN buckets = 0 .. Capacity - 1
  /\ \A h \in DOMAIN buckets : /\ buckets[h].capacity \in Nat \ {0}
                               /\ buckets[h].length \in Nat
                               /\ \A i \in DOMAIN buckets[h].array : buckets[h].array[i] \in CellType
  /\ given \subseteq Token \X (1 .. MaxLogins)
  /\ pc \in [Threads -> Pcs]
  /\ token \in [Threads -> Token]
  /\ user \in [Threads -> 1 .. MaxLogins \cup {Null}]
  /\ races \in [make : BOOLEAN, set : SUBSET DOMAIN buckets, get : SUBSET DOMAIN buckets]
  /\ undefined \in BOOLEAN

(* No two logins are answered with one token, unless two threads were      *)
(* making tokens at once: then one can seed between another's draws, or    *)
(* both can draw one state.                                                *)
TokensDiffer ==
  ~races.make =>
    /\ \A g, h \in given : g # h => g[1] # h[1]
    /\ \A t \in Threads, g \in given :
         pc[t] \in SetPcs \cup {"length", "return"} => token[t] # g[1]

(* A client that was answered with a token is found by every later lookup, *)
(* as the user who logged in, whatever other sets the lookup meets: an     *)
(* entry survives growth, and nobody is taken for another.  It takes two   *)
(* sets of one bucket at once, or of one token, to break it.               *)
FoundIsMine ==
  \A t \in Threads : pc[t] = "answer" /\ ~undefined =>
    \/ <<token[t], user[t]>> \in given
    \/ races.make \/ Bucket(t) \in races.set

(* Memory errors have no other cause than calls for one bucket that meet:  *)
(* two sets, or a growth and a reader of the array it frees.  No count is  *)
(* wrong and no index outside its array as long as they do not.            *)
NoUndefined ==
  undefined => races.set # {} \/ races.get # {}

(* A bucket in which no two sets have met is whole whenever no set is      *)
(* inside it: its capacity and length are those of its array, so a growth  *)
(* stores its entry in the first cell it adds.                             *)
WholeAtRest ==
  ~undefined => \A h \in DOMAIN buckets :
    LET b == buckets[h]
        taken == {i \in DOMAIN b.array : ~IsFree(b, i)} IN
    h \notin races.set /\ Inside(h, SetPcs) = {} =>
      /\ DOMAIN b.array = 0 .. b.capacity - 1
      /\ b.length = Cardinality(taken)
      /\ ~races.make => \A i, j \in taken : i # j => b.array[i].key # b.array[j].key
=============================================================================
