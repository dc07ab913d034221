---------------------------- MODULE ListingProofs ---------------------------
(***************************************************************************)
(* The JSON builder, for any texts, numbers, rows and any order of calls   *)
(* that Listing allows: it writes inside the memory it allocated, it makes *)
(* the document that was called for but for two uses of it, and a client   *)
(* reads back from a listing what the rows hold.                           *)
(***************************************************************************)
EXTENDS Listing, FiniteSetTheorems, SequenceTheorems, TLAPS

(* A builder that never wrote past its memory.                             *)
Builder == [string : Text, allocated : Nat, key_state : {"NONE", "TO_CLOSE"},
            type : {"array", "object"}, written : Nat]

InMemory(b) ==
  /\ b \in Builder
  /\ Len(b.string) \in 1 .. b.written /\ b.written <= b.allocated
  /\ b.key_state = "TO_CLOSE" => Len(b.string) > 1

LEMMA Joined ==
  ASSUME NEW s \in Text, NEW t \in Text
  PROVE  s \o t \in Text /\ Len(s \o t) = Len(s) + Len(t) /\ Len(s) \in Nat
BY DEF Text

LEMMA NumberText ==
  ASSUME NEW d \in Number
  PROVE  /\ d \in Text /\ Len(d) \in Nat \ {0} /\ d # <<>>
         /\ \A i \in 1 .. Len(d) : d[i] \notin Marks
BY DEF Number, Text

LEMMA Single ==
  ASSUME NEW x \in Symbol
  PROVE  Char(x) \in Text /\ Len(Char(x)) = 1
BY DEF Text, Char

LEMMA QuotedText ==
  ASSUME NEW t \in Text
  PROVE  Quoted(t) \in Text /\ Len(Quoted(t)) = Len(t) + 2
<1>1. Char("QT") \in Text /\ Len(Char("QT")) = 1
  <2>1. "QT" \in Symbol
    BY ListingAssumption DEF Marks
  <2>2. QED
    BY <2>1, Single
<1>2. Char("QT") \o t \in Text /\ Len(Char("QT") \o t) = 1 + Len(t)
  BY <1>1, Joined
<1>3. QED
  BY <1>1, <1>2, Joined DEF Quoted

(* realloc makes room for what is then written.                            *)
LEMMA PutSafe ==
  ASSUME NEW b, InMemory(b), NEW size \in Nat, NEW text \in Text, Len(text) \in 1 .. size
  PROVE  InMemory(Put(b, size, text)) /\ Put(b, size, text).string = b.string \o text
<1> DEFINE c == Put(b, size, text)
<1>1. b.string \in Text /\ Len(b.string) \in Nat \ {0} /\ b.type \in {"array", "object"}
  BY DEF InMemory, Builder
<1>2. b.string \o text \in Text /\ Len(b.string \o text) = Len(b.string) + Len(text)
  BY <1>1, Joined
<1>3. c = [string |-> b.string \o text, allocated |-> Len(b.string) + size,
           key_state |-> "TO_CLOSE", type |-> b.type, written |-> Len(b.string) + Len(text)]
  <2>1. b \in Builder
    BY DEF InMemory
  <2>2. PICK m, n : m = Len(b.string) + size /\ n = Len(b.string) + Len(text)
    OBVIOUS
  <2>3. c = [b EXCEPT !.string = b.string \o text, !.allocated = m, !.written = n,
                      !.key_state = "TO_CLOSE"]
    BY <2>2 DEF Put
  <2>4. c = [string |-> b.string \o text, allocated |-> m,
             key_state |-> "TO_CLOSE", type |-> b.type, written |-> n]
    <3> HIDE DEF c
    <3>1. QED
      BY <2>1, <2>3 DEF Builder
  <2>5. QED
    BY <2>2, <2>4
<1> HIDE DEF c
<1>4. Len(b.string) + size \in Nat /\ Len(b.string) + Len(text) \in Nat
  BY <1>1
<1>5. c \in Builder
  BY <1>1, <1>2, <1>3, <1>4 DEF Builder
<1>6. c.written <= c.allocated /\ Len(c.string) \in 2 .. c.written
  BY <1>1, <1>2, <1>3
<1>7. Len(c.string) > 1 /\ c.string = b.string \o text
  BY <1>3, <1>6
<1>8. InMemory(c)
  BY <1>5, <1>6, <1>7 DEF InMemory
<1>9. QED
  BY <1>7, <1>8 DEF c

(* A bracket replaces the last symbol, the ',' behind the last element.    *)
LEMMA CloseSafe ==
  ASSUME NEW b, InMemory(b), NEW bracket \in Symbol
  PROVE  InMemory(CloseLast(b, bracket)) /\ Len(CloseLast(b, bracket).string) = Len(b.string)
<1> DEFINE c == CloseLast(b, bracket)
           s == [b.string EXCEPT ![Len(b.string)] = bracket]
<1>1. b.string \in Text /\ Len(b.string) \in Nat \ {0}
  BY DEF InMemory, Builder
<1>2. s \in Text /\ Len(s) = Len(b.string)
  BY <1>1 DEF Text
<1> HIDE DEF s
<1>3. c = [b EXCEPT !.string = s]
  BY DEF CloseLast, s
<1>4. c = [string |-> s, allocated |-> b.allocated, key_state |-> b.key_state, type |-> b.type,
           written |-> b.written]
  BY <1>3 DEF InMemory, Builder
<1> HIDE DEF c
<1>5. c \in Builder
  BY <1>2, <1>4 DEF InMemory, Builder
<1>6. /\ Len(c.string) = Len(b.string) /\ c.written = b.written /\ c.allocated = b.allocated
      /\ c.key_state = b.key_state
  BY <1>2, <1>4
<1>7. InMemory(c)
  BY <1>5, <1>6 DEF InMemory
<1>8. QED
  BY <1>6, <1>7 DEF c

(* Only the state, which is a record of the last call, differs.            *)
LEMMA MarkSafe ==
  ASSUME NEW b, InMemory(b), NEW k \in {"NONE", "TO_CLOSE"}, k = "TO_CLOSE" => Len(b.string) > 1
  PROVE  InMemory([b EXCEPT !.key_state = k])
<1> DEFINE c == [b EXCEPT !.key_state = k]
<1>1. c = [string |-> b.string, allocated |-> b.allocated, key_state |-> k, type |-> b.type,
           written |-> b.written]
  BY DEF InMemory, Builder
<1> HIDE DEF c
<1>2. InMemory(c)
  BY <1>1 DEF InMemory, Builder
<1>3. QED
  BY <1>2 DEF c

(* The marks of JSON, each a text of one symbol.                           *)
LEMMA MarkText ==
  ASSUME NEW x \in Marks
  PROVE  x \in Symbol /\ Char(x) \in Text /\ Len(Char(x)) = 1
<1>1. x \in Symbol
  BY ListingAssumption
<1>2. QED
  BY <1>1, Single

LEMMA Lengths ==
  ASSUME NEW t \in Text
  PROVE  Len(t) \in Nat
BY DEF Text

(* A mark behind a text.                                                   *)
LEMMA Marked ==
  ASSUME NEW t \in Text, NEW x \in Marks
  PROVE  t \o Char(x) \in Text /\ Len(t \o Char(x)) = Len(t) + 1
<1> DEFINE m == Char(x)
<1>1. m \in Text /\ Len(m) = 1
  BY MarkText
<1> HIDE DEF m
<1>2. t \o m \in Text /\ Len(t \o m) = Len(t) + Len(m)
  BY <1>1, Joined
<1>3. t \o m \in Text /\ Len(t \o m) = Len(t) + 1
  BY <1>1, <1>2
<1>4. QED
  BY <1>3 DEF m

(* A named value, as the set functions write it.                           *)
LEMMA NamedText ==
  ASSUME NEW key \in Text, NEW text \in Text
  PROVE  /\ Quoted(key) \o Char(":") \o text \in Text
         /\ Len(Quoted(key) \o Char(":") \o text) = Len(key) + Len(text) + 3
<1> DEFINE q == Quoted(key)
           n == q \o Char(":")
<1>1. q \in Text /\ Len(q) = Len(key) + 2
  BY QuotedText
<1>2. ":" \in Marks
  BY DEF Marks
<1> HIDE DEF q
<1>3. n \in Text /\ Len(n) = Len(q) + 1
  BY <1>1, <1>2, Marked
<1> HIDE DEF n
<1>4. n \o text \in Text /\ Len(n \o text) = Len(n) + Len(text)
  BY <1>3, Joined
<1>5. Len(key) \in Nat /\ Len(text) \in Nat
  BY Lengths
<1>6. n \o text \in Text /\ Len(n \o text) = Len(key) + Len(text) + 3
  BY <1>1, <1>3, <1>4, <1>5
<1>7. QED
  BY <1>6 DEF n, q

LEMMA NamedElement ==
  ASSUME NEW key \in Text, NEW text \in Text
  PROVE  /\ Quoted(key) \o Char(":") \o text \o Char(",") \in Text
         /\ Len(Quoted(key) \o Char(":") \o text \o Char(",")) = Len(key) + Len(text) + 4
<1> DEFINE n == Quoted(key) \o Char(":") \o text
<1>1. n \in Text /\ Len(n) = Len(key) + Len(text) + 3
  BY NamedText
<1>2. "," \in Marks
  BY DEF Marks
<1> HIDE DEF n
<1>3. n \o Char(",") \in Text /\ Len(n \o Char(",")) = Len(n) + 1
  BY <1>1, <1>2, Marked
<1>4. Len(key) \in Nat /\ Len(text) \in Nat
  BY Lengths
<1>5. Len(n) + 1 = Len(key) + Len(text) + 4
  BY <1>1, <1>4
<1>6. Len(n \o Char(",")) = Len(key) + Len(text) + 4
  BY <1>3, <1>5
<1>7. QED
  BY <1>3, <1>6 DEF n

(* An element with its key, written into room for it and the '\0'.         *)
LEMMA PutNamed ==
  ASSUME NEW b, InMemory(b), NEW key \in Text, NEW text \in Text,
         NEW size \in Nat, size = Len(key) + Len(text) + 5
  PROVE  InMemory(Put(b, size, Quoted(key) \o Char(":") \o text \o Char(",")))
<1> DEFINE n == Quoted(key) \o Char(":") \o text \o Char(",")
<1>1. n \in Text /\ Len(n) = Len(key) + Len(text) + 4
  BY NamedElement
<1>2. Len(key) \in Nat /\ Len(text) \in Nat
  BY Lengths
<1> HIDE DEF n
<1>3. Len(n) \in 1 .. size
  BY <1>1, <1>2
<1>4. InMemory(Put(b, size, n))
  BY <1>1, <1>3, PutSafe
<1>5. QED
  BY <1>4 DEF n

(* An element of an array, written into exactly its room.                  *)
LEMMA PutBare ==
  ASSUME NEW b, InMemory(b), NEW text \in Text, NEW size \in Nat, size = Len(text) + 1
  PROVE  /\ InMemory(Put(b, size, text \o Char(",")))
         /\ Put(b, size, text \o Char(",")).string = b.string \o (text \o Char(","))
<1> DEFINE n == text \o Char(",")
<1>1. "," \in Marks
  BY DEF Marks
<1>2. n \in Text /\ Len(n) = Len(text) + 1
  BY <1>1, Marked
<1>3. Len(text) \in Nat
  BY Lengths
<1> HIDE DEF n
<1>4. Len(n) \in 1 .. size
  BY <1>2, <1>3
<1>5. InMemory(Put(b, size, n)) /\ Put(b, size, n).string = b.string \o n
  BY <1>2, <1>4, PutSafe
<1>6. QED
  BY <1>5 DEF n

LEMMA SetNumberSafe ==
  ASSUME NEW b, InMemory(b), NEW key \in Text, NEW digits \in Number
  PROVE  InMemory(SetNumber(b, key, digits))
<1>1. digits \in Text /\ Len(digits) \in Nat \ {0}
  BY NumberText
<1>2. Len(key) \in Nat
  BY Lengths
<1>3. CASE key # <<>>
  <2> DEFINE size == Len(digits) + 4 + Len(key) + 1
  <2>1. size \in Nat /\ size = Len(key) + Len(digits) + 5
    BY <1>1, <1>2
  <2> HIDE DEF size
  <2>2. InMemory(Put(b, size, Quoted(key) \o Char(":") \o digits \o Char(",")))
    BY <1>1, <2>1, PutNamed
  <2>3. QED
    BY <1>3, <2>2 DEF SetNumber, size
<1>4. CASE key = <<>>
  <2> DEFINE size == Len(digits) + 1
             c == Put(b, size, digits \o Char(","))
             t == b.string \o digits
             d == [c EXCEPT !.string = t]
  <2>1. size \in Nat /\ size = Len(digits) + 1
    BY <1>1
  <2> HIDE DEF size
  <2>2. InMemory(c) /\ c.string = b.string \o (digits \o Char(","))
    BY <1>1, <2>1, PutBare
  <2>3. b.string \in Text /\ Len(b.string) \in Nat \ {0}
    BY DEF InMemory, Builder
  <2>4. t \in Text /\ Len(t) = Len(b.string) + Len(digits)
    BY <1>1, <2>3, Joined
  <2>5. c.written = Len(b.string) + Len(digits \o Char(","))
    <3>1. b \in Builder
      BY DEF InMemory
    <3>2. QED
      BY <3>1 DEF Put, Builder
  <2>6. Len(digits \o Char(",")) = Len(digits) + 1
    <3>1. "," \in Marks
      BY DEF Marks
    <3>2. QED
      BY <1>1, <3>1, Marked
  <2> HIDE DEF c, t
  <2>7. d = [string |-> t, allocated |-> c.allocated, key_state |-> c.key_state,
             type |-> c.type, written |-> c.written]
    <3>1. c \in Builder
      BY <2>2 DEF InMemory
    <3>2. QED
      BY <3>1 DEF Builder
  <2> HIDE DEF d
  <2>8. d \in Builder
    BY <2>2, <2>4, <2>7 DEF InMemory, Builder
  <2>9. d.string = t /\ d.written = c.written /\ d.allocated = c.allocated
    BY <2>7
  <2>10. c.written <= c.allocated
    BY <2>2 DEF InMemory
  <2>11. Len(t) > 1 /\ Len(t) \in 1 .. c.written
    <3>1. c.written = Len(b.string) + (Len(digits) + 1)
      BY <2>5, <2>6
    <3>2. PICK m \in Nat \ {0}, n \in Nat \ {0} : m = Len(b.string) /\ n = Len(digits)
      BY <1>1, <2>3
    <3>3. Len(t) = m + n /\ c.written = m + (n + 1)
      BY <2>4, <3>1, <3>2
    <3>4. m + n > 1 /\ m + n \in 1 .. m + (n + 1)
      OBVIOUS
    <3>5. QED
      BY <3>3, <3>4
  <2>12. InMemory(d)
    BY <2>8, <2>9, <2>10, <2>11 DEF InMemory
  <2>13. QED
    BY <1>4, <2>12 DEF SetNumber, c, d, t, size
<1>5. QED
  BY <1>3, <1>4

LEMMA SetBoolSafe ==
  ASSUME NEW b, InMemory(b), NEW key \in Text, NEW word \in Text
  PROVE  InMemory(SetBool(b, key, word))
<1> DEFINE bare == Len(word) + 1
           named == Len(word) + 4 + Len(key) + 1
<1>1. Len(word) \in Nat /\ Len(key) \in Nat
  BY Lengths
<1>2. bare \in Nat /\ bare = Len(word) + 1 /\ named \in Nat /\ named = Len(key) + Len(word) + 5
  BY <1>1
<1> HIDE DEF bare, named
<1>3. InMemory(Put(b, bare, word \o Char(",")))
  BY <1>2, PutBare
<1>4. InMemory(Put(b, named, Quoted(key) \o Char(":") \o word \o Char(",")))
  BY <1>2, PutNamed
<1>5. QED
  BY <1>3, <1>4 DEF SetBool, bare, named

LEMMA SetStringSafe ==
  ASSUME NEW b, InMemory(b), NEW key \in Text, NEW value \in Text
  PROVE  InMemory(SetString(b, key, value))
<1> DEFINE q == Quoted(value)
           bare == Len(value) + 3
           named == Len(value) + 6 + Len(key) + 1
<1>1. Len(value) \in Nat /\ Len(key) \in Nat
  BY Lengths
<1>2. q \in Text /\ Len(q) = Len(value) + 2
  BY QuotedText
<1> HIDE DEF q
<1>3. bare \in Nat /\ bare = Len(q) + 1 /\ named \in Nat /\ named = Len(key) + Len(q) + 5
  BY <1>1, <1>2
<1> HIDE DEF bare, named
<1>4. InMemory(Put(b, bare, q \o Char(",")))
  BY <1>2, <1>3, PutBare
<1>5. InMemory(Put(b, named, Quoted(key) \o Char(":") \o q \o Char(",")))
  BY <1>2, <1>3, PutNamed
<1>6. QED
  BY <1>4, <1>5 DEF SetString, bare, named, q

(* One mark, written into room for it.                                     *)
LEMMA PutMark ==
  ASSUME NEW b, InMemory(b), NEW x \in Marks
  PROVE  InMemory(Put(b, 1, Char(x)))
<1> DEFINE m == Char(x)
<1>1. m \in Text /\ Len(m) \in 1 .. 1
  BY MarkText
<1> HIDE DEF m
<1>2. 1 \in Nat
  OBVIOUS
<1>3. InMemory(Put(b, 1, m))
  BY <1>1, <1>2, PutSafe
<1>4. QED
  BY <1>3 DEF m

LEMMA EnterSafe ==
  ASSUME NEW b, InMemory(b), NEW key \in Text, NEW bracket \in Marks, NEW room \in {4, 5}
  PROVE  InMemory(Enter(b, key, bracket, room))
<1> DEFINE m == Char(bracket)
           n == Quoted(key) \o Char(":") \o m
           size == room + Len(key)
           c == IF key = <<>> THEN Put(b, 1, m) ELSE Put(b, size, n)
<1>1. InMemory(Put(b, 1, m))
  BY PutMark
<1>2. m \in Text /\ Len(m) = 1
  BY MarkText
<1>3. Len(key) \in Nat
  BY Lengths
<1> HIDE DEF m
<1>4. n \in Text /\ Len(n) = Len(key) + Len(m) + 3
  BY <1>2, NamedText
<1> HIDE DEF n
<1>5. size \in Nat /\ Len(n) \in 1 .. size
  BY <1>2, <1>3, <1>4
<1> HIDE DEF size
<1>6. InMemory(Put(b, size, n))
  BY <1>4, <1>5, PutSafe
<1>7. InMemory(c)
  BY <1>1, <1>6
<1> HIDE DEF c
<1>8. InMemory([c EXCEPT !.key_state = "NONE"])
  BY <1>7, MarkSafe
<1>9. QED
  BY <1>8 DEF Enter, c, n, m, size

LEMMA LeaveObjectSafe ==
  ASSUME NEW b, InMemory(b)
  PROVE  InMemory(LeaveObject(b))
<1> DEFINE c == CloseLast(b, "}")
           m == Char("}")
<1>1. "}" \in Marks /\ "," \in Marks
  BY DEF Marks
<1>2. "}" \in Symbol
  BY <1>1, MarkText
<1>3. InMemory(c)
  BY <1>2, CloseSafe
<1>4. m \in Text /\ Len(m) = 1
  BY <1>1, MarkText
<1> HIDE DEF c, m
<1>5. InMemory(Put(c, 1, Char(",")))
  BY <1>1, <1>3, PutMark
<1> DEFINE n == m \o Char(",")
<1>6. n \in Text /\ Len(n) = Len(m) + 1
  BY <1>1, <1>4, Marked
<1> HIDE DEF n
<1>7. 3 \in Nat /\ Len(n) \in 1 .. 3
  BY <1>4, <1>6
<1>8. InMemory(Put(b, 3, n))
  BY <1>6, <1>7, PutSafe
<1>9. QED
  BY <1>5, <1>8 DEF LeaveObject, c, m, n

(* Behind a bracket that is closed or put, the state is what it is set to. *)
LEMMA LeaveArraySafe ==
  ASSUME NEW b, InMemory(b)
  PROVE  InMemory(LeaveArray(b))
<1>1. "]" \in Marks
  BY DEF Marks
<1>2. "]" \in Symbol
  BY <1>1, MarkText
<1>3. CASE b.key_state = "TO_CLOSE"
  <2> DEFINE c == CloseLast(b, "]")
  <2>1. InMemory(c)
    BY <1>2, CloseSafe
  <2> HIDE DEF c
  <2>2. InMemory([c EXCEPT !.key_state = "NONE"])
    BY <2>1, MarkSafe
  <2>3. QED
    BY <1>3, <2>2 DEF LeaveArray, c
<1>4. CASE b.key_state # "TO_CLOSE"
  <2> DEFINE c == Put(b, 1, Char("]"))
             k == b.key_state
  <2>1. k \in {"NONE", "TO_CLOSE"} /\ k # "TO_CLOSE"
    BY <1>4 DEF InMemory, Builder
  <2>2. InMemory(c)
    BY <1>1, PutMark
  <2> HIDE DEF c, k
  <2>3. InMemory([c EXCEPT !.key_state = k])
    BY <2>1, <2>2, MarkSafe
  <2>4. QED
    BY <1>4, <2>3 DEF LeaveArray, c, k
<1>5. QED
  BY <1>3, <1>4

LEMMA EndSafe ==
  ASSUME NEW b, InMemory(b)
  PROVE  InMemory(End(b))
<1> DEFINE bracket == Closing(b.type)
<1>1. bracket \in Marks
  BY DEF Marks, Closing
<1> HIDE DEF bracket
<1>2. bracket \in Symbol
  BY <1>1, MarkText
<1>3. CASE b.key_state = "TO_CLOSE"
  <2>1. InMemory(CloseLast(b, bracket))
    BY <1>2, CloseSafe
  <2>2. QED
    BY <1>3, <2>1 DEF End, bracket
<1>4. CASE b.key_state # "TO_CLOSE"
  <2> DEFINE c == Put(b, 1, Char(bracket))
             k == b.key_state
  <2>1. k \in {"NONE", "TO_CLOSE"} /\ k # "TO_CLOSE"
    BY <1>4 DEF InMemory, Builder
  <2>2. InMemory(c)
    BY <1>1, PutMark
  <2> HIDE DEF c, k
  <2>3. InMemory([c EXCEPT !.key_state = k])
    BY <2>1, <2>2, MarkSafe
  <2>4. QED
    BY <1>4, <2>3 DEF End, bracket, c, k
<1>5. QED
  BY <1>3, <1>4

-----------------------------------------------------------------------------
(* What any call of the library is: texts, and digits where a number goes. *)
Ops == {"number", "bool", "string", "enter_object", "enter_array", "leave_object", "leave_array"}
Calls == {c \in [op : Ops, key : Text, value : Text] : c.op = "number" => c.value \in Number}

(* Every function of the library keeps the builder inside its memory.      *)
LEMMA DoSafe ==
  ASSUME NEW b, InMemory(b), NEW c \in Calls
  PROVE  InMemory(Do(b, c))
<1> DEFINE op == c.op
           k == c.key
           v == c.value
<1>1. op \in Ops /\ k \in Text /\ v \in Text /\ (op = "number" => v \in Number)
  BY DEF Calls
<1> HIDE DEF op, k, v
<1>2. InMemory(SetBool(b, k, v)) /\ InMemory(SetString(b, k, v))
  BY <1>1, SetBoolSafe, SetStringSafe
<1>3. op = "number" => InMemory(SetNumber(b, k, v))
  BY <1>1, SetNumberSafe
<1>4. "{" \in Marks /\ "[" \in Marks /\ 4 \in {4, 5} /\ 5 \in {4, 5}
  BY DEF Marks
<1>5. InMemory(Enter(b, k, "{", 5)) /\ InMemory(Enter(b, k, "[", 4))
  BY <1>1, <1>4, EnterSafe
<1>6. InMemory(LeaveObject(b)) /\ InMemory(LeaveArray(b))
  BY LeaveObjectSafe, LeaveArraySafe
<1>7. InMemory(EnterObject(b, k)) /\ InMemory(EnterArray(b, k))
  BY <1>5 DEF EnterObject, EnterArray
<1>8. Do(b, c) = CASE op = "number"       -> SetNumber(b, k, v)
                   [] op = "bool"         -> SetBool(b, k, v)
                   [] op = "string"       -> SetString(b, k, v)
                   [] op = "enter_object" -> EnterObject(b, k)
                   [] op = "enter_array"  -> EnterArray(b, k)
                   [] op = "leave_object" -> LeaveObject(b)
                   [] op = "leave_array"  -> LeaveArray(b)
  BY DEF Do, op, k, v
<1>9. CASE op = "number"
  BY <1>3, <1>8, <1>9
<1>10. CASE op = "bool"
  BY <1>2, <1>8, <1>10
<1>11. CASE op = "string"
  BY <1>2, <1>8, <1>11
<1>12. CASE op = "enter_object"
  BY <1>7, <1>8, <1>12
<1>13. CASE op = "enter_array"
  BY <1>7, <1>8, <1>13
<1>14. CASE op = "leave_object"
  BY <1>6, <1>8, <1>14
<1>15. CASE op = "leave_array"
  BY <1>6, <1>8, <1>15
<1>16. QED
  BY <1>1, <1>9, <1>10, <1>11, <1>12, <1>13, <1>14, <1>15 DEF Ops

LEMMA WordText ==
  ASSUME NEW x \in Words
  PROVE  <<x>> \in Text /\ <<x>> \in Number
<1>1. x \in Symbol /\ x \notin Marks
  BY ListingAssumption DEF Words, Marks
<1>2. <<x>> \in Text /\ <<x>> \in Seq(Symbol \ Marks) /\ <<x>> # <<>>
  BY <1>1 DEF Text
<1>3. QED
  BY <1>2 DEF Number

(* The seven calls for a row.                                              *)
LEMMA RowCallsTyped ==
  ASSUME NEW who \in Listings, NEW row \in Products, NEW i \in 1 .. 7
  PROVE  RowCalls(who, row)[i] \in Calls
<1>1. /\ row.nome \in Text /\ row.tipo \in Text /\ row.imagem \in Text
      /\ row.preco \in Number /\ Atoi[row.imagem] \in Number
  BY ListingAssumption
<1>2. PriceOf(who, row) \in Number /\ PriceOf(who, row) \in Text
  BY <1>1, NumberText DEF PriceOf
<1>3. /\ <<"nome">> \in Text /\ <<"tipo">> \in Text /\ <<"imagem">> \in Text
      /\ <<"preco">> \in Text /\ <<"avaliacao">> \in Text
      /\ <<"5">> \in Text /\ <<"5">> \in Number
  BY WordText DEF Words
<1>4. <<>> \in Text
  BY DEF Text
<1>5. /\ Call("enter_object", <<>>, <<>>) \in Calls
      /\ Call("leave_object", <<>>, <<>>) \in Calls
  BY <1>4 DEF Call, Calls, Ops
<1>6. /\ Call("string", <<"nome">>, row.nome) \in Calls
      /\ Call("string", <<"tipo">>, row.tipo) \in Calls
      /\ Call("string", <<"imagem">>, row.imagem) \in Calls
  BY <1>1, <1>3 DEF Call, Calls, Ops
<1>7. /\ Call("number", <<"preco">>, PriceOf(who, row)) \in Calls
      /\ Call("number", <<"avaliacao">>, <<"5">>) \in Calls
  BY <1>2, <1>3 DEF Call, Calls, Ops
<1>8. i = 1 \/ i = 2 \/ i = 3 \/ i = 4 \/ i = 5 \/ i = 6 \/ i = 7
  OBVIOUS
<1>9. QED
  BY <1>5, <1>6, <1>7, <1>8 DEF RowCalls

LEMMA ProgramTyped ==
  ASSUME caller \in Listings, rows \in Seq(Products)
  PROVE  Program \in Seq(Calls)
<1> DEFINE n == 7 * Len(rows)
<1>1. n \in Nat
  OBVIOUS
<1>2. ASSUME NEW i \in 1 .. n
      PROVE  RowCalls(caller, rows[((i - 1) \div 7) + 1])[((i - 1) % 7) + 1] \in Calls
  <2>1. ((i - 1) \div 7) + 1 \in 1 .. Len(rows)
    BY <1>2
  <2>2. ((i - 1) % 7) + 1 \in 1 .. 7
    BY <1>2
  <2>3. rows[((i - 1) \div 7) + 1] \in Products
    BY <2>1
  <2>4. QED
    BY <2>2, <2>3, RowCallsTyped
<1>3. Program \in [1 .. n -> Calls]
  BY <1>2 DEF Program
<1> HIDE DEF n
<1>4. QED
  BY <1>1, <1>3

(* What a caller of any kind may call.                                     *)
LEMMA AnyCallTyped == AnyCall \subseteq Calls
<1>1. <<>> \in Text /\ <<"k">> \in Text /\ <<"true">> \in Text
  BY WordText DEF Words, Text
<1>2. Values \subseteq Text /\ Digits \subseteq Number /\ Digits \subseteq Text
  BY ListingAssumption, NumberText
<1>3. QED
  BY <1>1, <1>2 DEF AnyCall, Call, Calls, Ops

-----------------------------------------------------------------------------
(* The inductive invariant.  TypeOK alone is not one: what is written next *)
(* fits because of what the calls that are left are made of.               *)
Ready ==
  /\ caller \in Listings \union {"other", "any"}
  /\ caller \in Listings => rows \in Seq(Products)
  /\ calls \in Seq(Calls)
  /\ phase \in {"building", "ended", "answered"}
  /\ Cardinality(response) <= 1
IInv == InMemory(builder) /\ Ready

LEMMA Starting == Init => IInv
<1> SUFFICES ASSUME Init PROVE IInv
  OBVIOUS
<1>1. InMemory(builder)
  <2>1. PICK type \in {"array", "object"} : builder = Begin(type)
    BY DEF Init
  <2>2. "[" \in Marks /\ "{" \in Marks
    BY DEF Marks
  <2>3. Char("[") \in Text /\ Len(Char("[")) = 1 /\ Char("{") \in Text /\ Len(Char("{")) = 1
    BY <2>2, MarkText
  <2> DEFINE s == IF type = "array" THEN <<"[">> ELSE <<"{">>
  <2>4. s \in Text /\ Len(s) = 1
    BY <2>3 DEF Char
  <2>5. builder = [string |-> s, allocated |-> 1, key_state |-> "NONE", type |-> type, written |-> 1]
    BY <2>1 DEF Begin
  <2> HIDE DEF s
  <2>6. builder \in Builder
    BY <2>4, <2>5 DEF Builder
  <2>7. builder.string = s /\ builder.written = 1 /\ builder.allocated = 1 /\ builder.key_state = "NONE"
    BY <2>5
  <2>8. QED
    BY <2>4, <2>6, <2>7 DEF InMemory
<1>2. caller \in Listings => rows \in Seq(Products)
  BY DEF Init
<1>3. Cardinality(response) <= 1
  BY FS_EmptySet DEF Init
<1>4. calls \in Seq(Calls)
  BY DEF Init
<1>5. QED
  BY <1>1, <1>2, <1>3, <1>4 DEF Init, IInv, Ready

LEMMA Staying == IInv /\ [Next]_vars => IInv'
<1> SUFFICES ASSUME IInv, [Next]_vars PROVE IInv'
  OBVIOUS
<1> USE DEF IInv
<1>1. ASSUME NEW c \in Calls, Step(c)
      PROVE  IInv'
  <2>1. InMemory(builder)'
    <3>1. InMemory(Do(builder, c))
      BY DoSafe
    <3>2. builder' = Do(builder, c)
      BY <1>1 DEF Step
    <3>3. QED
      BY <3>1, <3>2
  <2>2. Ready'
    BY <1>1 DEF Step, Ready
  <2>3. QED
    BY <2>1, <2>2
<1>2. ASSUME NEW r, Reply(r), UNCHANGED builder
      PROVE  IInv'
  <2>1. Cardinality({[r |-> r, sent |-> Send(r)]}) = 1
    BY FS_Singleton
  <2>2. Ready'
    BY <1>2, <2>1 DEF Reply, Ready
  <2>3. QED
    BY <1>2, <2>2
<1>3. CASE HandlerStep
  <2>1. Program \in Seq(Calls)
    BY <1>3, ProgramTyped DEF HandlerStep, Ready
  <2>2. Len(calls) \in Nat /\ Len(calls) < Len(Program)
    BY <1>3 DEF HandlerStep, Ready
  <2>3. Program[Len(calls) + 1] \in Calls
    BY <2>1, <2>2
  <2>4. Step(Program[Len(calls) + 1])
    BY <1>3 DEF HandlerStep
  <2>5. QED
    BY <1>1, <2>3, <2>4
<1>4. CASE AnyStep
  BY <1>1, <1>4, AnyCallTyped DEF AnyStep
<1>5. CASE Finish
  <2>1. InMemory(builder)'
    <3>1. InMemory(End(builder))
      BY EndSafe
    <3>2. builder' = End(builder)
      BY <1>5 DEF Finish
    <3>3. QED
      BY <3>1, <3>2
  <2>2. Ready'
    BY <1>5 DEF Finish, Ready
  <2>3. QED
    BY <2>1, <2>2
<1>6. CASE Answer
  BY <1>2, <1>6 DEF Answer, Reply
<1>7. CASE AnswerPlain
  BY <1>2, <1>7 DEF AnswerPlain, Reply
<1>8. CASE UNCHANGED vars
  BY <1>8 DEF vars, Ready
<1>9. QED
  BY <1>3, <1>4, <1>5, <1>6, <1>7, <1>8 DEF Next

(* The builder stays inside its memory in every behaviour: whatever the    *)
(* rows hold, however many there are and however a program calls the       *)
(* library, every function of pjsonb.c writes within what its own realloc  *)
(* asked for, and a bracket is closed over a ',' that is there.            *)
THEOREM Typing == Spec => []TypeOK
<1>1. IInv => TypeOK
  BY DEF IInv, InMemory, Builder, Ready, TypeOK
<1>2. QED
  BY <1>1, Starting, Staying, PTL DEF Spec


-----------------------------------------------------------------------------
(* Sequences one after the other, for the arguments p: the sequences and   *)
(* what they are made of.                                                  *)
FlattenBase(p) == p.seqs[1]
FlattenStep(p, s, i) == s \o p.seqs[i]
FlattenHolds(p, s, i) == s \in Seq(p.of)
Flatten == INSTANCE Recursion WITH Base <- FlattenBase, Step <- FlattenStep, Holds <- FlattenHolds

LEMMA FlattenRuns ==
  ASSUME NEW p, Len(p.seqs) # 0
  PROVE  FlattenSeq(p.seqs) = Flatten!Run(p, 1, Len(p.seqs))[Len(p.seqs)]
BY DEF FlattenSeq, Flatten!Run, Flatten!Loop, FlattenBase, FlattenStep

LEMMA FlattenSequence ==
  ASSUME NEW S, NEW seqs \in Seq(Seq(S))
  PROVE  FlattenSeq(seqs) \in Seq(S)
<1> DEFINE n == Len(seqs)
           p == [seqs |-> seqs, of |-> S]
<1>1. n \in Nat /\ \A i \in 1 .. n : seqs[i] \in Seq(S)
  OBVIOUS
<1>2. CASE n = 0
  <2>1. seqs = <<>>
    BY <1>2
  <2>2. FlattenSeq(seqs) = seqs
    BY <1>2 DEF FlattenSeq
  <2>3. QED
    BY <2>1, <2>2, EmptySeq
<1>3. CASE n # 0
  <2>1. p.seqs = seqs /\ p.of = S
    OBVIOUS
  <2> HIDE DEF n, p
  <2>2. 1 \in Int /\ n \in Int /\ 1 <= n /\ 1 \in 1 .. n
    BY <1>1, <1>3
  <2>3. FlattenHolds(p, FlattenBase(p), 1)
    BY <1>1, <2>1, <2>2 DEF FlattenHolds, FlattenBase
  <2>4. ASSUME NEW i \in 1 + 1 .. n, NEW s, FlattenHolds(p, s, i - 1)
        PROVE  FlattenHolds(p, FlattenStep(p, s, i), i)
    <3>1. seqs[i] \in Seq(S)
      BY <1>1, <2>2
    <3>2. s \in Seq(S)
      BY <2>1, <2>4 DEF FlattenHolds
    <3>3. s \o seqs[i] \in Seq(S)
      BY <3>1, <3>2, ConcatProperties
    <3>4. QED
      BY <2>1, <3>3 DEF FlattenHolds, FlattenStep
  <2>5. FlattenHolds(p, Flatten!Run(p, 1, n)[n], n)
    BY <2>2, <2>3, <2>4, Flatten!Invariant
  <2>6. FlattenSeq(seqs) = Flatten!Run(p, 1, n)[n]
    BY <1>3, <2>1, FlattenRuns DEF n
  <2>7. QED
    BY <2>1, <2>5, <2>6 DEF FlattenHolds
<1>4. QED
  BY <1>2, <1>3

LEMMA FlattenAppend ==
  ASSUME NEW S, NEW seqs \in Seq(Seq(S)), NEW one \in Seq(S)
  PROVE  FlattenSeq(Append(seqs, one)) = FlattenSeq(seqs) \o one
<1> DEFINE n == Len(seqs)
           more == Append(seqs, one)
           p == [seqs |-> seqs, of |-> S]
           q == [seqs |-> more, of |-> S]
           f == Flatten!Run(q, 1, n + 1)
<1>1. /\ n \in Nat /\ Len(more) = n + 1 /\ more[n + 1] = one
      /\ \A i \in 1 .. n : more[i] = seqs[i]
  OBVIOUS
<1>2. p.seqs = seqs /\ q.seqs = more
  OBVIOUS
<1> HIDE DEF more, p, q
<1>3. FlattenSeq(more) = f[n + 1]
  <2>1. Len(more) # 0
    BY <1>1
  <2>2. QED
    BY <1>1, <1>2, <2>1, FlattenRuns
<1>4. f[1] = FlattenBase(q) /\ \A i \in 1 + 1 .. n + 1 : f[i] = FlattenStep(q, f[i - 1], i)
  <2>1. 1 \in Int /\ n + 1 \in Int /\ 1 <= n + 1
    BY <1>1
  <2>2. QED
    BY <2>1, Flatten!Unfolded
<1>5. CASE n = 0
  <2>1. seqs = <<>>
    BY <1>5
  <2>2. FlattenSeq(seqs) = <<>>
    BY <1>5, <2>1 DEF FlattenSeq
  <2>3. FlattenSeq(more) = one
    BY <1>1, <1>2, <1>3, <1>4, <1>5 DEF FlattenBase
  <2>4. QED
    BY <2>2, <2>3, ConcatEmptySeq DEF more
<1>6. CASE n # 0
  <2>1. FlattenSeq(seqs) = Flatten!Run(p, 1, n)[n]
    BY <1>2, <1>6, FlattenRuns
  <2> HIDE DEF n
  <2>2. Flatten!Run(p, 1, n)[n] = f[n]
    <3>1. 1 \in Int /\ n \in Int /\ n + 1 \in Int /\ 1 <= n /\ n <= n + 1
      BY <1>1, <1>6
    <3>2. FlattenBase(p) = FlattenBase(q)
      BY <1>1, <1>2, <1>6 DEF FlattenBase
    <3>3. ASSUME NEW i \in 1 + 1 .. n, NEW x PROVE FlattenStep(p, x, i) = FlattenStep(q, x, i)
      <4>1. more[i] = seqs[i]
        BY <1>1
      <4>2. QED
        BY <1>2, <4>1 DEF FlattenStep
    <3>4. QED
      BY <3>1, <3>2, <3>3, Flatten!Agree
  <2> HIDE DEF f
  <2>3. f[n + 1] = FlattenStep(q, f[n], n + 1)
    <3> DEFINE j == n + 1
    <3>1. j \in 1 + 1 .. n + 1 /\ j - 1 = n
      BY <1>1, <1>6
    <3> HIDE DEF j
    <3>2. f[j] = FlattenStep(q, f[j - 1], j)
      BY <1>4, <3>1
    <3>3. QED
      BY <3>1, <3>2 DEF j
  <2>4. QED
    BY <1>1, <1>2, <1>3, <2>1, <2>2, <2>3 DEF FlattenStep, more
<1>7. QED
  BY <1>5, <1>6

-----------------------------------------------------------------------------
(* What a call says, and the ',' that the builder writes behind it.        *)
KeyOf(c) == IF c.key = <<>> THEN <<>> ELSE Quoted(c.key) \o <<":">>
Said(c) == KeyOf(c) \o Element(c)
Trail(b) == IF b.key_state = "TO_CLOSE" THEN Char(",") ELSE <<>>
Body(b) == IF b.key_state = "TO_CLOSE" THEN Front(b.string) ELSE b.string
Uncounted(c) == c.op = "number" /\ c.key = <<>>
Plainly(c) == Leaves(c) => c.key = <<>>

(* b with the text s and the state k.                                      *)
Becomes(b, d, s, k) == d.string = s /\ d.key_state = k /\ d.type = b.type

LEMMA Mark ==
  /\ Char(",") \in Text /\ Char(":") \in Text /\ Char("{") \in Text /\ Char("}") \in Text
  /\ Char("[") \in Text /\ Char("]") \in Text /\ <<>> \in Text
  /\ "]" \in Symbol /\ "}" \in Symbol
BY MarkText, EmptySeq DEF Marks, Text

LEMMA PutWrites ==
  ASSUME NEW b, InMemory(b), NEW size, NEW text
  PROVE  Becomes(b, Put(b, size, text), b.string \o text, "TO_CLOSE")
<1>1. b \in Builder
  BY DEF InMemory
<1> DEFINE s == b.string \o text
           m == Len(b.string) + size
           n == Len(b.string) + Len(text)
<1>2. Put(b, size, text) = [b EXCEPT !.string = s, !.allocated = m, !.written = n,
                                     !.key_state = "TO_CLOSE"]
  BY DEF Put
<1> HIDE DEF s, m, n
<1>3. QED
  BY <1>1, <1>2 DEF Builder, Becomes, s

LEMMA MarkWrites ==
  ASSUME NEW b, InMemory(b), NEW k
  PROVE  Becomes(b, [b EXCEPT !.key_state = k], b.string, k)
BY DEF InMemory, Builder, Becomes

LEMMA FrontText ==
  ASSUME NEW s \in Text, s # <<>>
  PROVE  Front(s) \in Text /\ Len(Front(s)) = Len(s) - 1
<1> DEFINE n == Len(s) - 1
           t == SubSeq(s, 1, n)
<1>1. Len(s) \in Nat \ {0}
  BY EmptySeq DEF Text
<1>2. n \in Nat /\ 1 \in Int /\ n \in Int /\ \A i \in 1 .. n : s[i] \in Symbol
  BY <1>1 DEF Text
<1> HIDE DEF n
<1>3. t \in Seq(Symbol) /\ Len(t) = IF 1 <= n THEN n - 1 + 1 ELSE 0
  BY <1>2, SubSeqProperties
<1> HIDE DEF t
<1>4. Len(t) = n
  BY <1>2, <1>3
<1>5. Front(s) = t
  BY DEF Front, t, n
<1>6. QED
  BY <1>3, <1>4, <1>5 DEF n, Text

(* A text is its front and its last symbol.                                *)
LEMMA FrontOf ==
  ASSUME NEW s \in Text, NEW x \in Symbol
  PROVE  Front(s \o Char(x)) = s
<1> DEFINE t == s \o Char(x)
<1>1. Char(x) \in Seq(Symbol) /\ Len(Char(x)) = 1 /\ s \in Seq(Symbol)
  BY Single DEF Text
<1>2. /\ t \in Seq(Symbol) /\ Len(t) = Len(s) + 1 /\ Len(s) \in Nat
      /\ \A i \in 1 .. Len(s) + 1 : t[i] = IF i <= Len(s) THEN s[i] ELSE Char(x)[i - Len(s)]
  BY <1>1, ConcatProperties
<1> HIDE DEF t
<1>3. /\ Front(t) \in Seq(Symbol) /\ Len(Front(t)) = Len(s)
      /\ \A i \in 1 .. Len(s) : Front(t)[i] = t[i]
  BY <1>2, SubSeqProperties DEF Front
<1>4. Front(t) = s
  BY <1>1, <1>2, <1>3, SeqEqual
<1>5. QED
  BY <1>4 DEF t

LEMMA CloseWrites ==
  ASSUME NEW b, InMemory(b), NEW x \in Symbol
  PROVE  Becomes(b, CloseLast(b, x), Front(b.string) \o Char(x), b.key_state)
<1> DEFINE s == b.string
           t == [s EXCEPT ![Len(s)] = x]
           u == Front(s) \o Char(x)
<1>1. s \in Seq(Symbol) /\ Len(s) \in Nat \ {0} /\ s # <<>>
  BY EmptySeq DEF InMemory, Builder, Text
<1> HIDE DEF s
<1>2. t \in Seq(Symbol) /\ Len(t) = Len(s) /\ \A j \in 1 .. Len(s) : t[j] = IF j = Len(s) THEN x ELSE s[j]
  BY <1>1, ExceptSeq
<1>3. Front(s) \in Seq(Symbol) /\ Len(Front(s)) = Len(s) - 1 /\ Char(x) \in Seq(Symbol) /\ Len(Char(x)) = 1
  BY <1>1, FrontText, Single DEF Text
<1>4. \A i \in 1 .. Len(s) - 1 : Front(s)[i] = s[i]
  BY <1>1, SubSeqProperties DEF Front
<1> DEFINE f == Front(s)
<1>5. /\ u \in Seq(Symbol) /\ Len(u) = Len(s) - 1 + 1
      /\ \A i \in 1 .. Len(s) - 1 + 1 :
           u[i] = IF i <= Len(s) - 1 THEN Front(s)[i] ELSE Char(x)[i - (Len(s) - 1)]
  <2> HIDE DEF f
  <2>1. f \in Seq(Symbol) /\ Len(f) = Len(s) - 1 /\ Char(x) \in Seq(Symbol) /\ Len(Char(x)) = 1
    BY <1>3 DEF f
  <2> DEFINE v == f \o Char(x)
  <2>2. /\ v \in Seq(Symbol) /\ Len(v) = Len(f) + Len(Char(x))
        /\ \A i \in 1 .. Len(f) + Len(Char(x)) :
             v[i] = IF i <= Len(f) THEN f[i] ELSE Char(x)[i - Len(f)]
    BY <2>1, ConcatProperties
  <2>3. u = v
    BY DEF f
  <2> HIDE DEF u, v
  <2>4. QED
    BY <2>1, <2>2, <2>3 DEF f
<1> HIDE DEF t, u
<1>6. ASSUME NEW i \in 1 .. Len(s) PROVE t[i] = u[i]
  <2>1. CASE i = Len(s)
    <3>1. Char(x)[1] = x /\ i - (Len(s) - 1) = 1
      BY <1>1, <2>1 DEF Char
    <3>2. QED
      BY <1>1, <1>2, <1>5, <2>1, <3>1
  <2>2. CASE i # Len(s)
    BY <1>1, <1>2, <1>4, <1>5, <2>2
  <2>3. QED
    BY <2>1, <2>2
<1>7. t = u
  <2>1. Len(t) = Len(u)
    BY <1>1, <1>2, <1>5
  <2>2. QED
    BY <1>2, <1>5, <1>6, <2>1, SeqEqual
<1>8. CloseLast(b, x) = [b EXCEPT !.string = t]
  BY DEF CloseLast, t, s
<1>9. QED
  BY <1>7, <1>8 DEF InMemory, Builder, Becomes, u, s

LEMMA SaidText ==
  ASSUME NEW c \in Calls
  PROVE  /\ c.key \in Text /\ c.value \in Text /\ c.op \in Ops
         /\ Element(c) \in Text /\ KeyOf(c) \in Text /\ Said(c) \in Text
         /\ c.key = <<>> => Said(c) = Element(c)
<1>1. c.key \in Text /\ c.value \in Text /\ c.op \in Ops
  BY DEF Calls
<1>2. Quoted(c.value) \in Text /\ Quoted(c.key) \in Text
  BY <1>1, QuotedText
<1>3. <<"{">> \in Text /\ <<"[">> \in Text /\ <<"}">> \in Text /\ <<"]">> \in Text /\ <<":">> \in Text
  BY Mark DEF Char
<1>4. Element(c) \in Text
  BY <1>1, <1>2, <1>3 DEF Element, Ops
<1>5. KeyOf(c) \in Text
  BY <1>2, <1>3, Joined, Mark DEF KeyOf
<1>6. Said(c) \in Text
  BY <1>4, <1>5, Joined DEF Said
<1>7. c.key = <<>> => Said(c) = Element(c)
  <2>1. <<>> \o Element(c) = Element(c)
    BY <1>4, ConcatEmptySeq DEF Text
  <2>2. QED
    BY <2>1 DEF Said, KeyOf
<1>8. QED
  BY <1>1, <1>4, <1>5, <1>6, <1>7

(* A value with the ',' behind it, but for a number of an array.           *)
LEMMA SetWrites ==
  ASSUME NEW b, InMemory(b), NEW c \in Calls, c.op \in {"string", "bool", "number"}, ~Uncounted(c)
  PROVE  Becomes(b, Do(b, c), b.string \o (Said(c) \o Char(",")), "TO_CLOSE")
<1> DEFINE t == Element(c) \o Char(",")
           n == Quoted(c.key) \o Char(":") \o Element(c) \o Char(",")
<1>1. c.key = <<>> => t = Said(c) \o Char(",")
  BY SaidText
<1>2. c.key # <<>> => n = Said(c) \o Char(",")
  BY DEF Said, KeyOf, Char
<1>3. \E size : Do(b, c) = Put(b, size, IF c.key = <<>> THEN t ELSE n)
  <2>1. CASE c.op = "string"
    BY <2>1 DEF Do, SetString, Element
  <2>2. CASE c.op = "bool"
    BY <2>2 DEF Do, SetBool, Element
  <2>3. CASE c.op = "number"
    BY <2>3 DEF Do, SetNumber, Element, Uncounted
  <2>4. QED
    BY <2>1, <2>2, <2>3
<1>4. (IF c.key = <<>> THEN t ELSE n) = Said(c) \o Char(",")
  BY <1>1, <1>2
<1> HIDE DEF t, n
<1>5. QED
  BY <1>3, <1>4, PutWrites

LEMMA NumberWrites ==
  ASSUME NEW b, InMemory(b), NEW c \in Calls, Uncounted(c)
  PROVE  Becomes(b, Do(b, c), b.string \o Said(c), "TO_CLOSE")
<1> DEFINE s == b.string \o c.value
           p == Put(b, Len(c.value) + 1, c.value \o Char(","))
<1>1. Do(b, c) = [p EXCEPT !.string = s]
  BY DEF Do, SetNumber, Uncounted
<1>2. Said(c) = c.value
  BY SaidText DEF Element, Uncounted
<1>3. p.key_state = "TO_CLOSE" /\ p.type = b.type
  BY PutWrites DEF Becomes
<1>4. p = [b EXCEPT !.string = p.string, !.allocated = p.allocated, !.written = p.written,
                    !.key_state = p.key_state]
  BY DEF Put, InMemory, Builder
<1> HIDE DEF p
<1>5. QED
  BY <1>1, <1>2, <1>3, <1>4 DEF InMemory, Builder, Becomes

LEMMA EnterWrites ==
  ASSUME NEW b, InMemory(b), NEW c \in Calls, Enters(c)
  PROVE  Becomes(b, Do(b, c), b.string \o Said(c), "NONE")
<1> DEFINE m == Element(c)
           n == Quoted(c.key) \o Char(":") \o m
           t == IF c.key = <<>> THEN m ELSE n
<1>1. t = Said(c) /\ t \in Text
  BY SaidText DEF Said, KeyOf, Char
<1>2. \E size : Do(b, c) = [Put(b, size, t) EXCEPT !.key_state = "NONE"]
  <2>1. CASE c.op = "enter_object"
    BY <2>1 DEF Do, EnterObject, Enter, Element, Char
  <2>2. CASE c.op = "enter_array"
    BY <2>2 DEF Do, EnterArray, Enter, Element, Char
  <2>3. QED
    BY <2>1, <2>2 DEF Enters
<1> HIDE DEF t
<1>3. PICK size : Do(b, c) = [Put(b, size, t) EXCEPT !.key_state = "NONE"]
  BY <1>2
<1> DEFINE p == Put(b, size, t)
<1>4. Becomes(b, p, b.string \o t, "TO_CLOSE")
  BY PutWrites
<1>5. p = [b EXCEPT !.string = p.string, !.allocated = p.allocated, !.written = p.written,
                    !.key_state = p.key_state]
  BY DEF Put, InMemory, Builder
<1> HIDE DEF p
<1>6. Do(b, c) = [p EXCEPT !.key_state = "NONE"]
  BY <1>3 DEF p
<1>7. QED
  BY <1>1, <1>4, <1>5, <1>6 DEF InMemory, Builder, Becomes

LEMMA Regroup ==
  ASSUME NEW s \in Text, NEW t \in Text, NEW u \in Text
  PROVE  (s \o t) \o u = s \o (t \o u)
BY ConcatAssociative DEF Text

LEMMA Bodied ==
  ASSUME NEW b, InMemory(b)
  PROVE  /\ Body(b) \in Text /\ Trail(b) \in Text /\ b.string \in Text
         /\ Len(Body(b)) + Len(Trail(b)) = Len(b.string)
         /\ Len(Body(b)) \in Nat /\ Len(Trail(b)) \in Nat /\ Len(b.string) \in Nat
<1>1. b.string \in Text /\ Len(b.string) \in Nat \ {0} /\ b.string # <<>>
  BY EmptySeq DEF InMemory, Builder
<1>2. Front(b.string) \in Text /\ Len(Front(b.string)) = Len(b.string) - 1
  BY <1>1, FrontText
<1>3. Char(",") \in Text /\ Len(Char(",")) = 1 /\ <<>> \in Text /\ Len(<<>>) = 0
  BY MarkText, Mark DEF Marks
<1>4. CASE b.key_state = "TO_CLOSE"
  <2>1. Body(b) = Front(b.string) /\ Trail(b) = Char(",")
    BY <1>4 DEF Body, Trail
  <2>2. Body(b) \in Text /\ Len(Body(b)) = Len(b.string) - 1
    BY <1>2, <2>1
  <2>3. Trail(b) \in Text /\ Len(Trail(b)) = 1
    BY <1>3, <2>1
  <2>4. Len(Body(b)) + Len(Trail(b)) = Len(b.string)
    BY <1>1, <2>2, <2>3
  <2>5. QED
    BY <1>1, <2>2, <2>3, <2>4
<1>5. CASE b.key_state # "TO_CLOSE"
  <2>1. Body(b) = b.string /\ Trail(b) = <<>>
    BY <1>5 DEF Body, Trail
  <2>2. Trail(b) \in Text /\ Len(Trail(b)) = 0
    BY <1>3, <2>1
  <2>3. QED
    BY <1>1, <2>1, <2>2
<1>6. QED
  BY <1>4, <1>5

(* What closes a bracket puts it where the last ',' was.                   *)
LEMMA LeaveObjectWrites ==
  ASSUME NEW b, InMemory(b)
  PROVE  Becomes(b, LeaveObject(b), Body(b) \o (Char("}") \o Char(",")), "TO_CLOSE")
<1>1. CASE b.key_state = "TO_CLOSE"
  <2> DEFINE p == CloseLast(b, "}")
             f == Front(b.string)
  <2>1. InMemory(p) /\ Becomes(b, p, f \o Char("}"), b.key_state)
    BY CloseSafe, CloseWrites, Mark
  <2>2. LeaveObject(b) = Put(p, 1, Char(",")) /\ Body(b) = f
    BY <1>1 DEF LeaveObject, Body
  <2>3. f \in Text
    BY <2>2, Bodied
  <2> HIDE DEF p, f
  <2>4. Becomes(p, Put(p, 1, Char(",")), p.string \o Char(","), "TO_CLOSE")
    BY <2>1, PutWrites
  <2>5. (f \o Char("}")) \o Char(",") = f \o (Char("}") \o Char(","))
    <3>1. Char("}") \in Text /\ Char(",") \in Text
      BY ONLY Mark
    <3> DEFINE x == Char("}")
               y == Char(",")
    <3> HIDE DEF x, y
    <3>2. (f \o x) \o y = f \o (x \o y)
      <4>1. x \in Text /\ y \in Text
        BY ONLY <3>1 DEF x, y
      <4>2. QED
        BY ONLY <2>3, <4>1, Regroup
    <3>3. QED
      BY ONLY <3>2 DEF x, y
  <2>6. QED
    BY <2>1, <2>2, <2>4, <2>5 DEF Becomes
<1>2. CASE b.key_state # "TO_CLOSE"
  BY <1>2, PutWrites DEF LeaveObject, Body
<1>3. QED
  BY <1>1, <1>2

LEMMA LeaveArrayWrites ==
  ASSUME NEW b, InMemory(b)
  PROVE  Becomes(b, LeaveArray(b), Body(b) \o Char("]"), "NONE")
<1>1. CASE b.key_state = "TO_CLOSE"
  <2> DEFINE p == CloseLast(b, "]")
  <2>1. InMemory(p) /\ Becomes(b, p, Front(b.string) \o Char("]"), b.key_state)
    BY CloseSafe, CloseWrites, Mark
  <2>2. LeaveArray(b) = [p EXCEPT !.key_state = "NONE"] /\ Body(b) = Front(b.string)
    BY <1>1 DEF LeaveArray, Body
  <2> HIDE DEF p
  <2>3. Becomes(p, [p EXCEPT !.key_state = "NONE"], p.string, "NONE")
    BY <2>1, MarkWrites
  <2>4. QED
    BY <2>1, <2>2, <2>3 DEF Becomes
<1>2. CASE b.key_state # "TO_CLOSE"
  <2> DEFINE p == Put(b, 1, Char("]"))
  <2>1. InMemory(p) /\ Becomes(b, p, b.string \o Char("]"), "TO_CLOSE")
    BY PutMark, PutWrites DEF Marks
  <2>2. b.key_state = "NONE"
    BY <1>2 DEF InMemory, Builder
  <2>3. LeaveArray(b) = [p EXCEPT !.key_state = "NONE"] /\ Body(b) = b.string
    BY <1>2, <2>2 DEF LeaveArray, Body
  <2> HIDE DEF p
  <2>4. Becomes(p, [p EXCEPT !.key_state = "NONE"], p.string, "NONE")
    BY <2>1, MarkWrites
  <2>5. QED
    BY <2>1, <2>3, <2>4 DEF Becomes
<1>3. QED
  BY <1>1, <1>2

LEMMA EndWrites ==
  ASSUME NEW b, InMemory(b)
  PROVE  End(b).string = Body(b) \o Char(Closing(b.type)) /\ End(b).type = b.type
<1> DEFINE x == Closing(b.type)
<1>1. x \in Marks /\ x \in Symbol
  BY MarkText DEF Closing, Marks
<1> HIDE DEF x
<1>2. CASE b.key_state = "TO_CLOSE"
  <2>1. Becomes(b, CloseLast(b, x), Front(b.string) \o Char(x), b.key_state)
    BY <1>1, CloseWrites
  <2>2. End(b) = CloseLast(b, x) /\ Body(b) = Front(b.string)
    BY <1>2 DEF End, Body, x
  <2>3. QED
    BY <2>1, <2>2 DEF Becomes, x
<1>3. CASE b.key_state # "TO_CLOSE"
  <2> DEFINE p == Put(b, 1, Char(x))
             k == b.key_state
  <2>1. InMemory(p) /\ Becomes(b, p, b.string \o Char(x), "TO_CLOSE")
    BY <1>1, PutMark, PutWrites
  <2>2. End(b) = [p EXCEPT !.key_state = k] /\ Body(b) = b.string
    BY <1>3 DEF End, Body, x
  <2> HIDE DEF p, k
  <2>3. Becomes(p, [p EXCEPT !.key_state = k], p.string, k)
    BY <2>1, MarkWrites
  <2>4. QED
    BY <2>1, <2>2, <2>3 DEF Becomes, x
<1>4. QED
  BY <1>2, <1>3

(* Any call: the builder says it, behind the text or in place of the last  *)
(* ',' of it, and puts a ',' behind it, but for a number of an array.      *)
LEMMA DoWrites ==
  ASSUME NEW b, InMemory(b), NEW c \in Calls, Plainly(c)
  PROVE  LET d == Do(b, c) IN
         /\ InMemory(d) /\ d.type = b.type
         /\ d.key_state = "TO_CLOSE" <=> ~Enters(c) /\ c.op # "leave_array"
         /\ d.string = (IF Leaves(c) THEN Body(b) ELSE b.string)
                         \o (IF Uncounted(c) THEN Said(c) ELSE Said(c) \o Trail(d))
<1> DEFINE d == Do(b, c)
<1>1. InMemory(d)
  BY DoSafe
<1> HIDE DEF d
<1>2. CASE c.op \in {"string", "bool", "number"} /\ ~Uncounted(c)
  <2>1. Becomes(b, d, b.string \o (Said(c) \o Char(",")), "TO_CLOSE")
    BY <1>2, SetWrites DEF d
  <2>2. QED
    BY <1>1, <1>2, <2>1 DEF Becomes, Trail, Leaves, Enters, d
<1>3. CASE Uncounted(c)
  <2>1. Becomes(b, d, b.string \o Said(c), "TO_CLOSE")
    BY <1>3, NumberWrites DEF d
  <2>2. QED
    BY <1>1, <1>3, <2>1 DEF Becomes, Uncounted, Leaves, Enters, d
<1>4. CASE Enters(c)
  <2>1. Becomes(b, d, b.string \o Said(c), "NONE")
    BY <1>4, EnterWrites DEF d
  <2>2. Said(c) \o <<>> = Said(c)
    BY SaidText, ConcatEmptySeq DEF Text
  <2>3. ~Leaves(c) /\ ~Uncounted(c) /\ Trail(d) = <<>>
    BY <1>4, <2>1 DEF Becomes, Trail, Leaves, Enters, Uncounted
  <2>4. QED
    BY <1>1, <1>4, <2>1, <2>2, <2>3 DEF Becomes, d
<1>5. CASE c.op = "leave_object"
  <2>1. Becomes(b, d, Body(b) \o (Char("}") \o Char(",")), "TO_CLOSE")
    BY <1>5, LeaveObjectWrites DEF d, Do
  <2>2. Said(c) = Char("}") /\ Leaves(c) /\ ~Enters(c) /\ ~Uncounted(c)
    BY <1>5, SaidText DEF Plainly, Leaves, Enters, Uncounted, Element, Char
  <2>3. QED
    BY <1>1, <1>5, <2>1, <2>2 DEF Becomes, Trail, d
<1>6. CASE c.op = "leave_array"
  <2>1. Becomes(b, d, Body(b) \o Char("]"), "NONE")
    BY <1>6, LeaveArrayWrites DEF d, Do
  <2>2. Said(c) = Char("]") /\ Leaves(c) /\ ~Uncounted(c)
    BY <1>6, SaidText DEF Plainly, Leaves, Uncounted, Element, Char
  <2>3. Said(c) \o <<>> = Said(c)
    BY SaidText, ConcatEmptySeq DEF Text
  <2>4. QED
    BY <1>1, <1>6, <2>1, <2>2, <2>3 DEF Becomes, Trail, d
<1>7. c.op \in Ops
  BY SaidText
<1>8. QED
  BY <1>2, <1>3, <1>4, <1>5, <1>6, <1>7 DEF Ops, Enters

-----------------------------------------------------------------------------
(* What calls ask for, for any sequence of them.                           *)
Comma(s, i) == IF ~Leaves(s[i]) /\ i > 1 /\ ~Enters(s[i - 1]) THEN Char(",") ELSE <<>>
Pieces(s) == [i \in 1 .. Len(s) |-> Comma(s, i) \o Said(s[i])]
Told(type, s) == Begin(type).string \o FlattenSeq(Pieces(s))
AllSupported(s) ==
  \A i \in 1 .. Len(s) :
    ~Uncounted(s[i]) /\ (s[i].op = "leave_array" /\ i < Len(s) => Leaves(s[i + 1]))

LEMMA CommaText ==
  ASSUME NEW s, NEW i
  PROVE  Comma(s, i) \in Text
BY Mark DEF Comma

LEMMA PiecesText ==
  ASSUME NEW s \in Seq(Calls)
  PROVE  Pieces(s) \in Seq(Text)
<1>1. Len(s) \in Nat /\ \A i \in 1 .. Len(s) : s[i] \in Calls
  OBVIOUS
<1>2. \A i \in 1 .. Len(s) : Comma(s, i) \o Said(s[i]) \in Text
  BY <1>1, CommaText, SaidText, Joined
<1>3. Pieces(s) \in [1 .. Len(s) -> Text]
  BY <1>2 DEF Pieces
<1>4. QED
  BY <1>1, <1>3

LEMMA ToldText ==
  ASSUME NEW s \in Seq(Calls), NEW type
  PROVE  Told(type, s) \in Text /\ Begin(type).string \in Text
<1>1. FlattenSeq(Pieces(s)) \in Text
  BY PiecesText, FlattenSequence DEF Text
<1>2. Begin(type).string \in Text
  BY Mark DEF Begin, Char
<1>3. QED
  BY <1>1, <1>2, Joined DEF Told

(* What the properties of Listing say of calls, said here of s.            *)
LEMMA ToldIsDocument ==
  ASSUME calls \in Seq(Calls)
  PROVE  /\ Document = Told(builder.type, calls) \o Char(Closing(builder.type))
         /\ Supported <=> AllSupported(calls)
<1>1. DOMAIN calls = 1 .. Len(calls) /\ \A i \in 1 .. Len(calls) : calls[i] \in Calls
  OBVIOUS
<1>2. ASSUME NEW i \in 1 .. Len(calls)
      PROVE  Rendered(i) = Comma(calls, i) \o Said(calls[i])
  <2> DEFINE c == calls[i]
  <2>1. /\ Comma(calls, i) = IF ~Leaves(c) /\ i > 1 /\ ~Enters(calls[i - 1]) THEN <<",">> ELSE <<>>
        /\ KeyOf(c) = IF c.key = <<>> THEN <<>> ELSE Quoted(c.key) \o <<":">>
    BY DEF Comma, Char, KeyOf
  <2>2. Rendered(i) = (Comma(calls, i) \o KeyOf(c)) \o Element(c)
    BY <2>1 DEF Rendered
  <2>3. Comma(calls, i) \in Text /\ KeyOf(c) \in Text /\ Element(c) \in Text
    BY <1>1, CommaText, SaidText
  <2>4. QED
    BY <2>2, <2>3, Regroup DEF Said
<1>3. [i \in DOMAIN calls |-> Rendered(i)] = Pieces(calls)
  BY <1>1, <1>2 DEF Pieces
<1>4. Document = Told(builder.type, calls) \o Char(Closing(builder.type))
  BY <1>3 DEF Document, Told, Char
<1>5. Supported <=> AllSupported(calls)
  BY <1>1 DEF Supported, AllSupported, Uncounted
<1>6. QED
  BY <1>4, <1>5

(* One more call.                                                          *)
LEMMA OneMore ==
  ASSUME NEW s \in Seq(Calls), NEW c \in Calls
  PROVE  LET t == Append(s, c) IN
         /\ t \in Seq(Calls) /\ Len(t) = Len(s) + 1 /\ t[Len(s) + 1] = c
         /\ \A i \in 1 .. Len(s) : t[i] = s[i]
         /\ Comma(t, Len(s) + 1)
              = IF ~Leaves(c) /\ Len(s) > 0 /\ ~Enters(s[Len(s)]) THEN Char(",") ELSE <<>>
<1> DEFINE t == Append(s, c)
           n == Len(s)
<1>1. /\ t \in Seq(Calls) /\ n \in Nat /\ Len(t) = n + 1 /\ t[n + 1] = c
      /\ \A i \in 1 .. n : t[i] = s[i]
  OBVIOUS
<1> HIDE DEF t, n
<1>2. n + 1 - 1 = n /\ (n + 1 > 1 <=> n > 0) /\ (n > 0 => n \in 1 .. n)
  BY <1>1
<1>3. Comma(t, n + 1) = IF ~Leaves(c) /\ n > 0 /\ ~Enters(s[n]) THEN Char(",") ELSE <<>>
  <2> DEFINE j == n + 1
             k == j - 1
  <2>1. t[j] = c /\ (j > 1 <=> n > 0) /\ (n > 0 => t[k] = s[n])
    BY <1>1, <1>2
  <2> HIDE DEF j
  <2>2. QED
    BY <2>1 DEF Comma, j
<1>4. QED
  BY <1>1, <1>3 DEF t, n

LEMMA ToldMore ==
  ASSUME NEW s \in Seq(Calls), NEW c \in Calls, NEW type
  PROVE  Told(type, Append(s, c)) = Told(type, s) \o (Comma(Append(s, c), Len(s) + 1) \o Said(c))
<1> DEFINE t == Append(s, c)
           n == Len(s)
           piece == Comma(t, n + 1) \o Said(c)
<1>1. /\ n \in Nat /\ Len(t) = n + 1 /\ t[n + 1] = c
      /\ \A i \in 1 .. n : t[i] = s[i]
  OBVIOUS
<1> HIDE DEF t
<1>2. piece \in Text
  BY CommaText, SaidText, Joined
<1>3. \A i \in 1 .. n : Comma(t, i) = Comma(s, i)
  <2> SUFFICES ASSUME NEW i \in 1 .. n PROVE Comma(t, i) = Comma(s, i)
    OBVIOUS
  <2>1. t[i] = s[i] /\ (i > 1 => t[i - 1] = s[i - 1])
    BY <1>1
  <2> HIDE DEF n
  <2>2. QED
    BY <2>1 DEF Comma
<1>4. Pieces(s) \in Seq(Text) /\ Len(Pieces(s)) = n
  BY <1>1, PiecesText DEF Pieces
<1>5. Pieces(t) = Append(Pieces(s), piece)
  <2>1. Pieces(t) = [i \in 1 .. n + 1 |-> Comma(t, i) \o Said(t[i])]
    BY <1>1 DEF Pieces
  <2>2. \A i \in 1 .. n : Pieces(s)[i] = Comma(s, i) \o Said(s[i])
    BY DEF Pieces
  <2>3. Append(Pieces(s), piece) = [i \in 1 .. n + 1 |-> IF i = n + 1 THEN piece ELSE Pieces(s)[i]]
    BY <1>4
  <2>4. \A i \in 1 .. n + 1 :
          Comma(t, i) \o Said(t[i]) = IF i = n + 1 THEN piece ELSE Pieces(s)[i]
    <3>1. ASSUME NEW i \in 1 .. n, i # n + 1
          PROVE  Comma(t, i) \o Said(t[i]) = Pieces(s)[i]
      BY <1>1, <1>3, <2>2
    <3>2. Comma(t, n + 1) \o Said(t[n + 1]) = piece
      BY <1>1
    <3>3. n \in Nat
      BY <1>1
    <3> HIDE DEF piece, n
    <3>4. ASSUME NEW i \in 1 .. n + 1
          PROVE  Comma(t, i) \o Said(t[i]) = IF i = n + 1 THEN piece ELSE Pieces(s)[i]
      <4>1. i = n + 1 \/ (i \in 1 .. n /\ i # n + 1)
        BY <3>3
      <4>2. QED
        BY <3>1, <3>2, <4>1
    <3>5. QED
      BY <3>4
  <2>5. QED
    BY <2>1, <2>3, <2>4
<1> HIDE DEF piece
<1>6. FlattenSeq(Pieces(t)) = FlattenSeq(Pieces(s)) \o piece
  BY <1>2, <1>4, <1>5, FlattenAppend DEF Text
<1>7. FlattenSeq(Pieces(s)) \in Text /\ Begin(type).string \in Text
  BY <1>4, FlattenSequence, ToldText DEF Text
<1> DEFINE b == Begin(type).string
           f == FlattenSeq(Pieces(s))
<1> HIDE DEF b, f
<1>8. b \o (f \o piece) = (b \o f) \o piece
  BY <1>2, <1>7, Regroup DEF b, f
<1>9. QED
  BY <1>6, <1>8 DEF Told, piece, t, b, f

LEMMA SupportedMore ==
  ASSUME NEW s \in Seq(Calls), NEW c \in Calls
  PROVE  AllSupported(Append(s, c)) <=>
           /\ AllSupported(s) /\ ~Uncounted(c)
           /\ Len(s) > 0 /\ s[Len(s)].op = "leave_array" => Leaves(c)
<1> DEFINE t == Append(s, c)
           n == Len(s)
<1>1. /\ n \in Nat /\ Len(t) = n + 1 /\ t[n + 1] = c
      /\ \A i \in 1 .. n : t[i] = s[i]
  OBVIOUS
<1> HIDE DEF t, n
<1>2. ASSUME AllSupported(t)
      PROVE  /\ AllSupported(s) /\ ~Uncounted(c)
             /\ n > 0 /\ s[n].op = "leave_array" => Leaves(c)
  <2>1. ~Uncounted(c)
    BY <1>1, <1>2 DEF AllSupported
  <2>2. ASSUME n > 0, s[n].op = "leave_array" PROVE Leaves(c)
    BY <1>1, <1>2, <2>2 DEF AllSupported
  <2>3. AllSupported(s)
    BY <1>1, <1>2 DEF AllSupported, n
  <2>4. QED
    BY <2>1, <2>2, <2>3
<1>3. ASSUME AllSupported(s), ~Uncounted(c), n > 0 /\ s[n].op = "leave_array" => Leaves(c)
      PROVE  AllSupported(t)
  <2> SUFFICES ASSUME NEW i \in 1 .. n + 1
               PROVE  ~Uncounted(t[i]) /\ (t[i].op = "leave_array" /\ i < n + 1 => Leaves(t[i + 1]))
    BY <1>1 DEF AllSupported
  <2>1. CASE i = n + 1
    BY <1>1, <1>3, <2>1
  <2>2. CASE i = n
    BY <1>1, <1>3, <2>2 DEF AllSupported, n
  <2>3. CASE i < n
    <3>1. i \in 1 .. n /\ i + 1 \in 1 .. n /\ t[i] = s[i] /\ t[i + 1] = s[i + 1]
      BY <1>1, <2>3
    <3>2. QED
      BY <1>3, <2>3, <3>1 DEF AllSupported, n
  <2>4. QED
    BY <1>1, <2>1, <2>2, <2>3
<1>4. QED
  BY <1>2, <1>3 DEF t, n

-----------------------------------------------------------------------------
(* What the builder holds, behind the calls s.  The text is what the calls *)
(* said, with the last ',' behind it, or shorter by what was lost.         *)
Held(b, s) ==
  /\ InMemory(b)
  /\ b.key_state = "TO_CLOSE"
       <=> Len(s) > 0 /\ ~Enters(s[Len(s)]) /\ s[Len(s)].op # "leave_array"
  /\ AllSupported(s) => b.string = Told(b.type, s) \o Trail(b)
  /\ ~AllSupported(s) => Len(b.string) < Len(Told(b.type, s)) + Len(Trail(b))

LEMMA HeldExactly ==
  ASSUME NEW b, NEW s \in Seq(Calls), Held(b, s), AllSupported(s)
  PROVE  Body(b) = Told(b.type, s)
<1>1. InMemory(b) /\ b.string = Told(b.type, s) \o Trail(b)
  BY DEF Held
<1>2. Told(b.type, s) \in Text
  BY ToldText
<1>3. CASE b.key_state = "TO_CLOSE"
  <2>1. "," \in Symbol
    BY MarkText DEF Marks
  <2>2. QED
    BY <1>1, <1>2, <1>3, <2>1, FrontOf DEF Body, Trail
<1>4. CASE b.key_state # "TO_CLOSE"
  <2>1. Told(b.type, s) \o <<>> = Told(b.type, s)
    BY <1>2, ConcatEmptySeq DEF Text
  <2>2. QED
    BY <1>1, <1>4, <2>1 DEF Body, Trail
<1>5. QED
  BY <1>3, <1>4

(* The lengths: of the text before (w), of its ',' (t), of what was told   *)
(* (r), of the comma asked for (k) and of what is said (z).                *)
LEMMA HeldMore ==
  ASSUME NEW b, NEW s \in Seq(Calls), Held(b, s), NEW c \in Calls, Plainly(c)
  PROVE  Held(Do(b, c), Append(s, c))
<1> DEFINE d == Do(b, c)
           u == Append(s, c)
           n == Len(s)
           comma == Comma(u, n + 1)
           said == Said(c)
           told == Told(b.type, s)
<1>1. InMemory(b)
  BY DEF Held
<1>2. /\ InMemory(d) /\ d.type = b.type
      /\ d.key_state = "TO_CLOSE" <=> ~Enters(c) /\ c.op # "leave_array"
      /\ d.string = (IF Leaves(c) THEN Body(b) ELSE b.string)
                      \o (IF Uncounted(c) THEN said ELSE said \o Trail(d))
  BY <1>1, DoWrites
<1>3. /\ n \in Nat /\ Len(u) = n + 1 /\ u[n + 1] = c
      /\ comma = IF ~Leaves(c) /\ n > 0 /\ ~Enters(s[n]) THEN Char(",") ELSE <<>>
  <2>1. n \in Nat
    OBVIOUS
  <2>2. QED
    BY <2>1, OneMore
<1>4. Told(b.type, u) = told \o (comma \o said)
  BY ToldMore
<1>5. AllSupported(u) <=> /\ AllSupported(s) /\ ~Uncounted(c)
                          /\ n > 0 /\ s[n].op = "leave_array" => Leaves(c)
  BY SupportedMore
<1>6. told \in Text /\ comma \in Text /\ said \in Text
  BY ToldText, CommaText, SaidText
<1>7. /\ Body(b) \in Text /\ Trail(b) \in Text /\ b.string \in Text
      /\ Len(Body(b)) + Len(Trail(b)) = Len(b.string)
      /\ Trail(d) \in Text
  BY <1>1, <1>2, Bodied
<1>8. /\ b.key_state = "TO_CLOSE" <=> n > 0 /\ ~Enters(s[n]) /\ s[n].op # "leave_array"
      /\ AllSupported(s) => b.string = told \o Trail(b)
      /\ ~AllSupported(s) => Len(b.string) < Len(told) + Len(Trail(b))
  BY DEF Held
<1>9. AllSupported(s) => Body(b) = told
  BY HeldExactly
<1> HIDE DEF d, u, n, comma, said, told
<1>10. d.key_state = "TO_CLOSE"
         <=> Len(u) > 0 /\ ~Enters(u[Len(u)]) /\ u[Len(u)].op # "leave_array"
  <2>1. n \in Nat /\ Len(u) = n + 1 /\ u[n + 1] = c
    BY <1>3
  <2>2. Len(u) > 0
    BY <2>1
  <2>3. u[Len(u)] = c
    BY <2>1
  <2>4. QED
    BY <1>2, <2>2, <2>3
<1> DEFINE tail == said \o Trail(d)
           more == comma \o said
<1>11. /\ tail \in Text /\ more \in Text
       /\ comma \o tail = more \o Trail(d)
       /\ (told \o comma) \o tail = told \o (comma \o tail)
       /\ told \o (more \o Trail(d)) = (told \o more) \o Trail(d)
  <2>1. tail \in Text /\ more \in Text /\ Trail(d) \in Text /\ told \in Text
    BY <1>6, <1>7, Joined
  <2>2. comma \o tail = more \o Trail(d)
    <3>1. comma \in Text /\ said \in Text /\ Trail(d) \in Text
      BY ONLY <1>6, <1>7
    <3> HIDE DEF comma, said
    <3>2. (comma \o said) \o Trail(d) = comma \o (said \o Trail(d))
      BY ONLY <3>1, Regroup
    <3>3. QED
      BY ONLY <3>2
  <2> HIDE DEF tail, more
  <2>3. (told \o comma) \o tail = told \o (comma \o tail)
    <3>1. comma \in Text /\ tail \in Text /\ told \in Text
      BY ONLY <1>6, <2>1
    <3> HIDE DEF comma, told
    <3>2. QED
      BY ONLY <3>1, Regroup
  <2>4. told \o (more \o Trail(d)) = (told \o more) \o Trail(d)
    BY <2>1, Regroup
  <2>5. QED
    BY <2>1, <2>2, <2>3, <2>4
<1>12. Leaves(c) => ~Uncounted(c) /\ ~Enters(c)
  BY DEF Leaves, Uncounted, Enters
<1>13. ASSUME AllSupported(u) PROVE d.string = Told(d.type, u) \o Trail(d)
  <2>1. CASE Leaves(c)
    <3>1. d.string = told \o tail
      BY <1>2, <1>5, <1>9, <1>12, <1>13, <2>1
    <3>2. more = said
      BY <1>3, <1>6, <2>1, ConcatEmptySeq DEF Text
    <3>3. d.string = told \o (more \o Trail(d))
      BY <3>1, <3>2
    <3> HIDE DEF tail
    <3>4. QED
      BY <1>2, <1>4, <1>11, <3>3
  <2>2. CASE ~Leaves(c)
    <3>1. comma = Trail(b)
      BY <1>3, <1>5, <1>8, <1>13, <2>2 DEF Trail
    <3>2. d.string = (told \o comma) \o tail
      BY <1>2, <1>5, <1>8, <1>13, <2>2, <3>1
    <3> HIDE DEF tail
    <3>3. QED
      BY <1>2, <1>4, <1>11, <3>2
  <2>3. QED
    BY <2>1, <2>2
<1>14. ASSUME ~AllSupported(u) PROVE Len(d.string) < Len(Told(d.type, u)) + Len(Trail(d))
  <2> DEFINE w == Len(b.string)
             t == Len(Trail(b))
             r == Len(told)
             k == Len(comma)
             z == Len(said)
             e == Len(Trail(d))
  <2>1. /\ w \in Nat /\ t \in Nat /\ r \in Nat /\ k \in Nat /\ z \in Nat /\ e \in Nat
        /\ Len(Body(b)) = w - t
    BY <1>6, <1>7, Lengths
  <2>2. Len(Told(d.type, u)) = r + (k + z)
    BY <1>2, <1>4, <1>6, Joined
  <2>3. Len(said \o Trail(d)) = z + e /\ said \o Trail(d) \in Text
    BY <1>6, <1>7, Joined
  <2>4. Len(d.string) = (IF Leaves(c) THEN w - t ELSE w) + (IF Uncounted(c) THEN z ELSE z + e)
    <3> DEFINE x == IF Leaves(c) THEN Body(b) ELSE b.string
               y == IF Uncounted(c) THEN said ELSE said \o Trail(d)
    <3>1. x \in Text /\ Len(x) = IF Leaves(c) THEN w - t ELSE w
      BY <1>7, <2>1
    <3>2. y \in Text /\ Len(y) = IF Uncounted(c) THEN z ELSE z + e
      BY <1>6, <2>3
    <3> HIDE DEF x, y
    <3>3. Len(x \o y) = Len(x) + Len(y)
      BY <3>1, <3>2, Joined
    <3>4. d.string = x \o y
      BY <1>2 DEF x, y
    <3> HIDE DEF w, z, e, t
    <3>5. QED
      BY <3>1, <3>2, <3>3, <3>4
  <2>5. t = IF b.key_state = "TO_CLOSE" THEN 1 ELSE 0
    BY MarkText DEF Trail, Marks
  <2>6. e = IF d.key_state = "TO_CLOSE" THEN 1 ELSE 0
    BY MarkText DEF Trail, Marks
  <2>7. k = IF ~Leaves(c) /\ n > 0 /\ ~Enters(s[n]) THEN 1 ELSE 0
    BY <1>3, MarkText DEF Marks
  <2>8. AllSupported(s) => w = r + t
    BY <1>6, <1>7, <1>8, Joined
  <2>9. ~AllSupported(s) => w < r + t
    BY <1>8
  <2> HIDE DEF w, t, r, k, z, e
  <2>10. Len(d.string) < r + (k + z) + e
    <3>1. CASE Leaves(c)
      <4>1. ~AllSupported(s) /\ ~Uncounted(c)
        BY <1>5, <1>12, <1>14, <3>1
      <4>2. QED
        BY <2>1, <2>4, <2>7, <2>9, <3>1, <4>1
    <3>2. CASE ~Leaves(c)
      <4>1. t <= k
        BY <1>8, <2>5, <2>7, <3>2
      <4>2. Uncounted(c) => e = 1
        BY <1>2, <2>6 DEF Uncounted, Enters
      <4>3. CASE ~AllSupported(s)
        BY <2>1, <2>4, <2>9, <3>2, <4>1, <4>2, <4>3
      <4>4. CASE AllSupported(s) /\ Uncounted(c)
        BY <2>1, <2>4, <2>8, <3>2, <4>1, <4>2, <4>4
      <4>5. CASE AllSupported(s) /\ n > 0 /\ s[n].op = "leave_array"
        <5>1. t = 0 /\ k = 1
          BY <1>8, <2>5, <2>7, <3>2, <4>5 DEF Enters
        <5>2. QED
          BY <2>1, <2>4, <2>8, <3>2, <4>2, <4>5, <5>1
      <4>6. QED
        BY <1>5, <1>14, <4>3, <4>4, <4>5
    <3>3. QED
      BY <3>1, <3>2
  <2>11. QED
    BY <2>2, <2>10 DEF e
<1>15. Held(d, u)
  BY <1>2, <1>10, <1>13, <1>14 DEF Held
<1>16. QED
  BY <1>15 DEF d, u

LEMMA HeldFirst ==
  ASSUME NEW type, InMemory(Begin(type))
  PROVE  Held(Begin(type), <<>>)
<1> DEFINE b == Begin(type)
<1>1. b.key_state = "NONE" /\ b.type = type
  BY DEF Begin
<1>2. FlattenSeq(Pieces(<<>>)) = <<>>
  <2>1. Pieces(<<>>) = <<>>
    BY DEF Pieces
  <2>2. QED
    BY <2>1 DEF FlattenSeq
<1>3. Told(type, <<>>) = b.string \o <<>> /\ b.string \in Text
  <2>1. <<>> \in Seq(Calls)
    BY EmptySeq
  <2>2. QED
    BY <1>2, <2>1, ToldText DEF Told
<1>4. b.string \o <<>> = b.string
  BY <1>3, ConcatEmptySeq DEF Text
<1> HIDE DEF b
<1>5. AllSupported(<<>>)
  BY DEF AllSupported
<1>6. Trail(b) = <<>>
  BY <1>1 DEF Trail
<1>7. QED
  BY <1>1, <1>3, <1>4, <1>5, <1>6 DEF Held, b

(* At the end: the text is the document, unless something was lost.        *)
LEMMA HeldLast ==
  ASSUME NEW b, NEW s \in Seq(Calls), Held(b, s)
  PROVE  /\ End(b).type = b.type
         /\ End(b).string = Told(b.type, s) \o Char(Closing(b.type)) <=> AllSupported(s)
<1> DEFINE x == Char(Closing(b.type))
<1>1. InMemory(b)
  BY DEF Held
<1>2. End(b).string = Body(b) \o x /\ End(b).type = b.type
  BY <1>1, EndWrites
<1>3. AllSupported(s) => Body(b) = Told(b.type, s)
  BY HeldExactly
<1>4. ASSUME ~AllSupported(s) PROVE End(b).string # Told(b.type, s) \o x
  <2>1. Len(b.string) < Len(Told(b.type, s)) + Len(Trail(b))
    BY <1>4 DEF Held
  <2>2. /\ Len(Body(b)) + Len(Trail(b)) = Len(b.string) /\ Body(b) \in Text
        /\ Len(Body(b)) \in Nat /\ Len(Trail(b)) \in Nat
    BY <1>1, Bodied
  <2>3. Told(b.type, s) \in Text /\ Len(Told(b.type, s)) \in Nat
    BY ToldText, Lengths
  <2>4. x \in Text /\ Len(x) = 1
    BY MarkText DEF Closing, Marks
  <2> HIDE DEF x
  <2>5. Len(Body(b)) < Len(Told(b.type, s))
    BY <2>1, <2>2, <2>3
  <2>6. Len(Body(b) \o x) = Len(Body(b)) + 1 /\ Len(Told(b.type, s) \o x) = Len(Told(b.type, s)) + 1
    <3>1. Len(Body(b) \o x) = Len(Body(b)) + Len(x)
      BY ONLY <2>2, <2>4, Joined
    <3>2. Len(Told(b.type, s) \o x) = Len(Told(b.type, s)) + Len(x)
      BY ONLY <2>3, <2>4, Joined
    <3>3. QED
      BY ONLY <2>4, <3>1, <3>2
  <2>7. Len(Body(b) \o x) # Len(Told(b.type, s) \o x)
    BY <2>2, <2>3, <2>5, <2>6
  <2>8. QED
    BY <1>2, <2>7
<1>5. QED
  BY <1>2, <1>3, <1>4

-----------------------------------------------------------------------------
(* The calls for a row are none of those the library gets wrong.           *)
LEMMA RowCallsSupported ==
  ASSUME NEW who, NEW row, NEW i \in 1 .. 7
  PROVE  LET c == RowCalls(who, row)[i] IN
         ~Uncounted(c) /\ c.op # "leave_array" /\ Plainly(c)
<1>1. i = 1 \/ i = 2 \/ i = 3 \/ i = 4 \/ i = 5 \/ i = 6 \/ i = 7
  OBVIOUS
<1>2. QED
  BY <1>1 DEF RowCalls, Call, Uncounted, Plainly, Leaves

LEMMA ProgramSupported ==
  ASSUME rows \in Seq(Products), NEW i \in 1 .. Len(Program)
  PROVE  ~Uncounted(Program[i]) /\ Program[i].op # "leave_array" /\ Plainly(Program[i])
<1>1. 7 * Len(rows) \in Nat
  OBVIOUS
<1>2. Len(Program) = 7 * Len(rows)
  BY <1>1 DEF Program
<1>3. Program[i] = RowCalls(caller, rows[((i - 1) \div 7) + 1])[((i - 1) % 7) + 1]
  BY <1>2 DEF Program
<1>4. ((i - 1) % 7) + 1 \in 1 .. 7
  BY <1>1, <1>2
<1>5. QED
  BY <1>3, <1>4, RowCallsSupported

LEMMA AnyCallPlain ==
  ASSUME NEW c \in AnyCall
  PROVE  Plainly(c)
BY DEF AnyCall, Call, Plainly, Leaves

(* The second inductive invariant, on top of the first.                    *)
InOrder ==
  caller \in Listings =>
    /\ Len(calls) <= Len(Program)
    /\ \A i \in 1 .. Len(calls) : calls[i] = Program[i]
    /\ phase = "ended" => Len(calls) = Len(Program)
Complete == builder.string = Told(builder.type, calls) \o Char(Closing(builder.type))
Written ==
  /\ InOrder
  /\ phase = "building" => Held(builder, calls)
  /\ phase = "ended" => (Complete <=> AllSupported(calls))

LEMMA WrittenFirst == Init => Written
<1> SUFFICES ASSUME Init PROVE Written
  OBVIOUS
<1>1. PICK type : builder = Begin(type)
  BY DEF Init
<1>2. InMemory(builder) /\ calls = <<>> /\ phase = "building"
  BY Starting DEF Init, IInv
<1>3. Held(builder, calls)
  BY <1>1, <1>2, HeldFirst
<1>4. InOrder
  <2>1. caller \in Listings => rows \in Seq(Products)
    BY Starting DEF IInv, Ready
  <2>2. caller \in Listings => Program \in Seq(Calls)
    BY <2>1, ProgramTyped
  <2>3. Len(calls) = 0 /\ phase # "ended"
    BY <1>2
  <2>4. caller \in Listings => Len(Program) \in Nat
    BY <2>2
  <2>5. QED
    BY <2>3, <2>4 DEF InOrder
<1>5. QED
  BY <1>2, <1>3, <1>4 DEF Written

LEMMA WrittenStays == IInv /\ Written /\ [Next]_vars => Written'
<1> SUFFICES ASSUME IInv, Written, [Next]_vars PROVE Written'
  OBVIOUS
<1>1. /\ calls \in Seq(Calls) /\ (caller \in Listings => rows \in Seq(Products))
      /\ InMemory(builder)
  BY DEF IInv, Ready
<1>2. ASSUME NEW c \in Calls, Plainly(c), Step(c)
      PROVE  calls' \in Seq(Calls) /\ Held(builder, calls)'
  <2>1. Held(builder, calls)
    BY <1>2 DEF Step, Written
  <2>2. Held(Do(builder, c), Append(calls, c))
    BY <1>1, <1>2, <2>1, HeldMore
  <2>3. builder' = Do(builder, c) /\ calls' = Append(calls, c)
    BY <1>2 DEF Step
  <2>4. QED
    BY <1>1, <2>2, <2>3
<1>3. CASE HandlerStep
  <2> DEFINE n == Len(calls)
             c == Program[n + 1]
  <2>1. Step(c) /\ caller \in Listings /\ n < Len(Program) /\ phase = "building"
    BY <1>3 DEF HandlerStep, Step
  <2>2. Program \in Seq(Calls)
    BY <1>1, <2>1, ProgramTyped
  <2>3. n \in Nat /\ n + 1 \in 1 .. Len(Program) /\ Len(Program) \in Nat
    BY <1>1, <2>1, <2>2
  <2>4. c \in Calls /\ Plainly(c)
    BY <1>1, <2>1, <2>2, <2>3, ProgramSupported
  <2>5. Held(builder, calls)'
    BY <1>2, <2>1, <2>4
  <2>6. Program' = Program
    BY <2>1 DEF Step, Program
  <2>7. InOrder'
    <3>1. calls' = Append(calls, c) /\ phase' = phase /\ caller' = caller
      BY <2>1 DEF Step
    <3>2. \A i \in 1 .. n : calls[i] = Program[i]
      BY <2>1 DEF Written, InOrder
    <3>3. Len(calls') = n + 1 /\ \A i \in 1 .. n + 1 : calls'[i] = Program[i]
      BY <1>1, <3>1, <3>2
    <3> HIDE DEF n, c
    <3>4. QED
      BY <2>1, <2>3, <2>6, <3>1, <3>3 DEF InOrder
  <2>8. phase' = "building"
    BY <2>1 DEF Step
  <2>9. QED
    BY <2>5, <2>7, <2>8 DEF Written
<1>4. CASE AnyStep
  <2>1. PICK c \in AnyCall : Step(c)
    BY <1>4 DEF AnyStep
  <2>2. c \in Calls /\ Plainly(c)
    BY AnyCallTyped, AnyCallPlain
  <2>3. Held(builder, calls)'
    BY <1>2, <2>1, <2>2
  <2>4. phase' = "building" /\ caller' \notin Listings
    BY <1>4, <2>1 DEF AnyStep, Step, Listings
  <2>5. QED
    BY <2>3, <2>4 DEF Written, InOrder
<1>5. CASE Finish
  <2>1. /\ phase = "building" /\ phase' = "ended" /\ builder' = End(builder) /\ calls' = calls
        /\ caller' = caller /\ rows' = rows
        /\ caller \in Listings => Len(calls) = Len(Program)
    BY <1>5 DEF Finish
  <2>2. Held(builder, calls)
    BY <2>1 DEF Written
  <2>3. /\ End(builder).type = builder.type
        /\ End(builder).string = Told(builder.type, calls) \o Char(Closing(builder.type))
             <=> AllSupported(calls)
    BY <1>1, <2>2, HeldLast
  <2>4. (Complete <=> AllSupported(calls))'
    BY <2>1, <2>3 DEF Complete
  <2>5. InOrder'
    <3>1. Program' = Program
      BY <2>1 DEF Program
    <3>2. QED
      BY <2>1, <3>1 DEF Written, InOrder
  <2>6. QED
    BY <2>1, <2>4, <2>5 DEF Written
<1>6. ASSUME UNCHANGED <<caller, rows, builder, calls>>, phase' = phase \/ phase' = "answered"
      PROVE  Written'
  <2>1. Program' = Program /\ (Complete' <=> Complete)
    BY <1>6 DEF Program, Complete
  <2>2. InOrder'
    BY <1>6, <2>1 DEF Written, InOrder
  <2>3. QED
    BY <1>6, <2>1, <2>2 DEF Written
<1>7. CASE Answer \/ AnswerPlain \/ UNCHANGED vars
  BY <1>6, <1>7 DEF Answer, AnswerPlain, Reply, vars
<1>8. QED
  BY <1>3, <1>4, <1>5, <1>7 DEF Next

(* The builder's text says what was called, at every moment.               *)
THEOREM WrittenAlways == Spec => [](IInv /\ Written)
<1>1. Init => IInv /\ Written
  BY Starting, WrittenFirst
<1>2. IInv /\ Written /\ [Next]_vars => (IInv /\ Written)'
  BY Staying, WrittenStays
<1>3. QED
  BY <1>1, <1>2, PTL DEF Spec

(* For any calls, rows and texts: what the builder ends with is the        *)
(* document its calls describe, exactly when none of them is one of the    *)
(* two uses pjsonb.c gets wrong, and the two listings have neither.        *)
THEOREM Documents == Spec => []BuildsDocument
<1>1. ASSUME IInv, Written PROVE BuildsDocument
  <2> SUFFICES ASSUME phase = "ended"
               PROVE  /\ builder.string = Document <=> Supported
                      /\ caller \in Listings => Supported
    BY DEF BuildsDocument
  <2>1. calls \in Seq(Calls) /\ (caller \in Listings => rows \in Seq(Products))
    BY <1>1 DEF IInv, Ready
  <2>2. /\ Document = Told(builder.type, calls) \o Char(Closing(builder.type))
        /\ Supported <=> AllSupported(calls)
    BY <2>1, ToldIsDocument
  <2>3. builder.string = Document <=> Supported
    BY <1>1, <2>2 DEF Written, Complete
  <2>4. ASSUME caller \in Listings PROVE AllSupported(calls)
    <3>1. \A i \in 1 .. Len(calls) : calls[i] = Program[i] /\ i \in 1 .. Len(Program)
      BY <1>1, <2>4 DEF Written, InOrder
    <3>2. \A i \in 1 .. Len(calls) : ~Uncounted(calls[i]) /\ calls[i].op # "leave_array"
      BY <2>1, <2>4, <3>1, ProgramSupported
    <3>3. QED
      BY <3>2 DEF AllSupported
  <2>5. QED
    BY <2>2, <2>3, <2>4
<1>2. QED
  BY <1>1, WrittenAlways, PTL

-----------------------------------------------------------------------------
(* What is so of <<>>, and of a sequence with one more when it is so of    *)
(* the sequence, is so of every sequence.                                  *)
LEMMA SequenceInduction ==
  ASSUME NEW E, NEW S, <<>> \in S,
         \A s \in Seq(E) : \A x \in E : s \in S => Append(s, x) \in S
  PROVE  Seq(E) \subseteq S
<1> DEFINE N == {n \in Nat : \A s \in Seq(E) : Len(s) = n => s \in S}
<1>1. 0 \in N
  BY EmptySeq
<1>2. ASSUME NEW n \in Nat, n \in N PROVE n + 1 \in N
  <2> SUFFICES ASSUME NEW t \in Seq(E), Len(t) = n + 1 PROVE t \in S
    OBVIOUS
  <2>1. t # <<>>
    BY EmptySeq
  <2>2. PICK s \in Seq(E), x \in E : t = Append(s, x)
    BY <2>1, SequenceEmptyOrAppend
  <2>3. Len(s) = n
    BY <2>2, AppendProperties
  <2>4. QED
    BY <1>2, <2>2, <2>3
<1> HIDE DEF N
<1>3. Nat \subseteq N
  BY <1>1, <1>2, Flatten!Induction
<1>4. QED
  BY <1>3 DEF N

LEMMA TextInduction ==
  ASSUME NEW S, <<>> \in S,
         \A s \in Text : \A x \in Symbol : s \in S => s \o Char(x) \in S
  PROVE  Text \subseteq S
<1>1. \A s \in Seq(Symbol) : \A x \in Symbol : s \in S => Append(s, x) \in S
  BY AppendIsConcat DEF Char, Text
<1>2. QED
  BY <1>1, SequenceInduction DEF Text

(* A client that goes on to read a text.                                   *)
ScanBase(p) == p.from
ScanStep(p, r, i) == Reads(r, p.text[i])
ScanHolds(p, r, i) == TRUE
Scanning == INSTANCE Recursion WITH Base <- ScanBase, Step <- ScanStep, Holds <- ScanHolds
Scan(r, s) == Scanning!Run([from |-> r, text |-> s], 0, Len(s))[Len(s)]

Outside(found) == Reader(FALSE, <<>>, found)

LEMMA ReadsAsScan ==
  ASSUME NEW s \in Text
  PROVE  StringsIn(s) = Scan(Outside(<<>>), s).found
<1> DEFINE p == [from |-> Outside(<<>>), text |-> s]
<1>1. p.from = Reader(FALSE, <<>>, <<>>) /\ p.text = s
  BY DEF Outside
<1> HIDE DEF p
<1>2. StringsIn(s) = Scanning!Run(p, 0, Len(s))[Len(s)].found
  BY <1>1 DEF StringsIn, Scanning!Run, Scanning!Loop, ScanBase, ScanStep
<1>3. QED
  BY <1>2 DEF Scan, p

LEMMA ScanEmpty ==
  ASSUME NEW r
  PROVE  Scan(r, <<>>) = r
<1> DEFINE p == [from |-> r, text |-> <<>>]
<1>1. Scanning!Run(p, 0, 0)[0] = ScanBase(p)
  BY Scanning!Unfolded
<1>2. QED
  BY <1>1 DEF Scan, ScanBase

LEMMA ScanMore ==
  ASSUME NEW r, NEW s \in Text, NEW x \in Symbol
  PROVE  Scan(r, s \o Char(x)) = Reads(Scan(r, s), x)
<1> DEFINE t == s \o Char(x)
           p == [from |-> r, text |-> s]
           q == [from |-> r, text |-> t]
           n == Len(s)
           f == Scanning!Run(q, 0, n + 1)
<1>1. Char(x) \in Seq(Symbol) /\ Len(Char(x)) = 1 /\ s \in Seq(Symbol) /\ Char(x)[1] = x
  BY Single DEF Text, Char
<1>2. /\ n \in Nat /\ Len(t) = n + 1
      /\ \A i \in 1 .. n + 1 : t[i] = IF i <= n THEN s[i] ELSE Char(x)[i - n]
  BY <1>1, ConcatProperties
<1> HIDE DEF t, n
<1>3. t[n + 1] = x /\ \A i \in 1 .. n : t[i] = s[i]
  <2>1. n + 1 \in 1 .. n + 1 /\ ~(n + 1 <= n) /\ n + 1 - n = 1
    BY <1>2
  <2>2. t[n + 1] = Char(x)[n + 1 - n]
    BY <1>2, <2>1
  <2>3. \A i \in 1 .. n : t[i] = s[i]
    BY <1>2
  <2>4. QED
    BY <1>1, <2>1, <2>2, <2>3
<1>4. p.from = r /\ q.from = r /\ p.text = s /\ q.text = t
  OBVIOUS
<1> HIDE DEF p, q
<1>5. Scanning!Run(p, 0, n)[n] = f[n]
  <2>1. 0 \in Int /\ n \in Int /\ n + 1 \in Int /\ 0 <= n /\ n <= n + 1 /\ 0 + 1 = 1
    BY <1>2
  <2>2. ScanBase(p) = ScanBase(q)
    BY <1>4 DEF ScanBase
  <2>3. \A i \in 0 + 1 .. n : \A y : ScanStep(p, y, i) = ScanStep(q, y, i)
    BY <1>3, <1>4, <2>1 DEF ScanStep
  <2>4. QED
    BY <2>1, <2>2, <2>3, Scanning!Agree
<1>6. f[n + 1] = ScanStep(q, f[n], n + 1)
  <2> DEFINE j == n + 1
  <2>1. 0 \in Int /\ j \in Int /\ 0 <= j /\ j \in 0 + 1 .. n + 1 /\ j - 1 = n
    BY <1>2
  <2>2. \A i \in 0 + 1 .. j : f[i] = ScanStep(q, f[i - 1], i)
    BY <2>1, Scanning!Unfolded
  <2> HIDE DEF j, f
  <2>3. f[j] = ScanStep(q, f[j - 1], j)
    BY <2>1, <2>2 DEF j
  <2>4. QED
    BY <2>1, <2>3 DEF j
<1>7. f[n + 1] = Reads(f[n], x)
  BY <1>3, <1>4, <1>6 DEF ScanStep
<1>8. Scan(r, s) = f[n] /\ Scan(r, t) = f[n + 1]
  BY <1>2, <1>5 DEF Scan, p, q, n
<1>9. QED
  BY <1>7, <1>8 DEF t

LEMMA ScanJoin ==
  ASSUME NEW r, NEW s \in Text, NEW t \in Text
  PROVE  Scan(r, s \o t) = Scan(Scan(r, s), t)
<1> DEFINE S == {u \in Text : Scan(r, s \o u) = Scan(Scan(r, s), u)}
<1>1. <<>> \in S
  <2>1. s \o <<>> = s /\ <<>> \in Text
    BY ConcatEmptySeq, Mark DEF Text
  <2>2. QED
    BY <2>1, ScanEmpty
<1>2. ASSUME NEW u \in Text, NEW x \in Symbol, u \in S
      PROVE  u \o Char(x) \in S
  <2>1. Char(x) \in Text
    BY Single
  <2>2. u \o Char(x) \in Text /\ s \o u \in Text
    BY <2>1, Joined
  <2>3. s \o (u \o Char(x)) = (s \o u) \o Char(x)
    BY <2>1, Regroup
  <2>4. Scan(r, (s \o u) \o Char(x)) = Reads(Scan(r, s \o u), x)
    BY <2>2, ScanMore
  <2>5. Scan(Scan(r, s), u \o Char(x)) = Reads(Scan(Scan(r, s), u), x)
    BY ScanMore
  <2>6. Scan(r, s \o u) = Scan(Scan(r, s), u)
    BY <1>2
  <2>7. QED
    BY <2>2, <2>3, <2>4, <2>5, <2>6
<1> HIDE DEF S
<1>3. Text \subseteq S
  BY <1>1, <1>2, TextInduction
<1>4. QED
  BY <1>3 DEF S

(* A text without a quote.                                                 *)
Unquoted(s) == \A i \in 1 .. Len(s) : s[i] # "QT"

LEMMA UnquotedMore ==
  ASSUME NEW s \in Text, NEW x \in Symbol, Unquoted(s \o Char(x))
  PROVE  Unquoted(s) /\ x # "QT"
<1> DEFINE t == s \o Char(x)
<1>1. Char(x) \in Seq(Symbol) /\ Len(Char(x)) = 1 /\ s \in Seq(Symbol) /\ Char(x)[1] = x
  BY Single DEF Text, Char
<1>2. /\ Len(s) \in Nat /\ Len(t) = Len(s) + 1
      /\ \A i \in 1 .. Len(s) + 1 : t[i] = IF i <= Len(s) THEN s[i] ELSE Char(x)[i - Len(s)]
  BY <1>1, ConcatProperties
<1> HIDE DEF t
<1>3. \A i \in 1 .. Len(s) + 1 : t[i] # "QT"
  BY <1>2 DEF Unquoted, t
<1>4. Unquoted(s)
  BY <1>2, <1>3 DEF Unquoted
<1>5. Len(s) + 1 \in 1 .. Len(s) + 1 /\ ~(Len(s) + 1 <= Len(s)) /\ Len(s) + 1 - Len(s) = 1
  BY <1>2
<1>6. t[Len(s) + 1] = Char(x)[Len(s) + 1 - Len(s)]
  BY <1>2, <1>5
<1>7. QED
  BY <1>1, <1>3, <1>4, <1>5, <1>6

LEMMA ScanOutside ==
  ASSUME NEW found, NEW s \in Text, Unquoted(s)
  PROVE  Scan(Outside(found), s) = Outside(found)
<1> DEFINE S == {u \in Text : Unquoted(u) => Scan(Outside(found), u) = Outside(found)}
<1>1. <<>> \in S
  BY ScanEmpty, Mark
<1>2. ASSUME NEW u \in Text, NEW x \in Symbol, u \in S
      PROVE  u \o Char(x) \in S
  <2>1. u \o Char(x) \in Text
    BY Single, Joined
  <2>2. ASSUME Unquoted(u \o Char(x))
        PROVE  Scan(Outside(found), u \o Char(x)) = Outside(found)
    <3>1. Unquoted(u) /\ x # "QT"
      BY <2>2, UnquotedMore
    <3>2. Scan(Outside(found), u \o Char(x)) = Reads(Outside(found), x)
      BY <1>2, <3>1, ScanMore
    <3>3. QED
      BY <3>1, <3>2 DEF Reads, Outside, Reader
  <2>3. QED
    BY <2>1, <2>2
<1> HIDE DEF S
<1>3. Text \subseteq S
  BY <1>1, <1>2, TextInduction
<1>4. QED
  BY <1>3 DEF S

LEMMA ScanInside ==
  ASSUME NEW found, NEW s \in Text, Unquoted(s)
  PROVE  Scan(Reader(TRUE, <<>>, found), s) = Reader(TRUE, s, found)
<1> DEFINE r == Reader(TRUE, <<>>, found)
           S == {u \in Text : Unquoted(u) => Scan(r, u) = Reader(TRUE, u, found)}
<1>1. <<>> \in S
  BY ScanEmpty, Mark
<1>2. ASSUME NEW u \in Text, NEW x \in Symbol, u \in S
      PROVE  u \o Char(x) \in S
  <2>1. u \o Char(x) \in Text
    BY Single, Joined
  <2>2. ASSUME Unquoted(u \o Char(x))
        PROVE  Scan(r, u \o Char(x)) = Reader(TRUE, u \o Char(x), found)
    <3>1. Unquoted(u) /\ x # "QT"
      BY <2>2, UnquotedMore
    <3>2. Scan(r, u \o Char(x)) = Reads(Reader(TRUE, u, found), x)
      BY <1>2, <3>1, ScanMore
    <3>3. Append(u, x) = u \o Char(x)
      BY AppendIsConcat DEF Text, Char
    <3> HIDE DEF r
    <3>4. QED
      BY <3>1, <3>2, <3>3 DEF Reads, Reader
  <2>3. QED
    BY <2>1, <2>2
<1> HIDE DEF S
<1>3. Text \subseteq S
  BY <1>1, <1>2, TextInduction
<1>4. QED
  BY <1>3 DEF S, r

LEMMA ScanQuoted ==
  ASSUME NEW found, NEW s \in Text, Unquoted(s)
  PROVE  Scan(Outside(found), Quoted(s)) = Outside(Append(found, s))
<1>1. "QT" \in Symbol
  BY MarkText DEF Marks
<1>2. Char("QT") \in Text /\ <<>> \in Text
  BY <1>1, Single, Mark
<1>3. Scan(Outside(found), Char("QT")) = Reader(TRUE, <<>>, found)
  <2>1. <<>> \o Char("QT") = Char("QT")
    BY <1>2, ConcatEmptySeq DEF Text
  <2>2. Scan(Outside(found), <<>> \o Char("QT")) = Reads(Scan(Outside(found), <<>>), "QT")
    BY <1>1, <1>2, ScanMore
  <2>3. Scan(Outside(found), <<>>) = Outside(found)
    BY ScanEmpty
  <2>4. Reads(Outside(found), "QT") = Reader(TRUE, <<>>, found)
    BY DEF Reads, Outside, Reader
  <2>5. QED
    BY <2>1, <2>2, <2>3, <2>4
<1>4. Scan(Outside(found), Char("QT") \o s) = Reader(TRUE, s, found)
  <2>1. Scan(Outside(found), Char("QT") \o s) = Scan(Scan(Outside(found), Char("QT")), s)
    BY <1>2, ScanJoin
  <2>2. QED
    BY <1>3, <2>1, ScanInside
<1>5. Char("QT") \o s \in Text
  BY <1>2, Joined
<1>6. Scan(Outside(found), (Char("QT") \o s) \o Char("QT")) = Reads(Reader(TRUE, s, found), "QT")
  BY <1>1, <1>4, <1>5, ScanMore
<1>7. Reads(Reader(TRUE, s, found), "QT") = Outside(Append(found, s))
  BY DEF Reads, Reader, Outside
<1>8. QED
  BY <1>6, <1>7 DEF Quoted

LEMMA UnquotedJoin ==
  ASSUME NEW s \in Text, NEW t \in Text, Unquoted(s \o t)
  PROVE  Unquoted(s) /\ Unquoted(t)
<1> DEFINE u == s \o t
           m == Len(s)
           n == Len(t)
<1>1. /\ Len(u) = m + n
      /\ \A i \in 1 .. m + n : u[i] = IF i <= m THEN s[i] ELSE t[i - m]
  BY ConcatProperties DEF Text
<1>2. m \in Nat /\ n \in Nat
  BY Lengths
<1> HIDE DEF u, m, n
<1>3. \A i \in 1 .. m + n : u[i] # "QT"
  BY <1>1 DEF Unquoted, u
<1>4. \A i \in 1 .. m : s[i] # "QT"
  BY <1>1, <1>2, <1>3
<1>5. ASSUME NEW j \in 1 .. n PROVE t[j] # "QT"
  <2> DEFINE i == m + j
  <2>1. i \in 1 .. m + n /\ ~(i <= m) /\ i - m = j
    BY <1>2
  <2> HIDE DEF i
  <2>2. QED
    BY <1>1, <1>3, <2>1
<1>6. QED
  BY <1>4, <1>5 DEF Unquoted, m, n

(* What a reader finds in a call.                                          *)
Names(found, c) == IF c.key = <<>> THEN found ELSE Append(found, c.key)
Adds(found, c) == IF c.op = "string" THEN Append(Names(found, c), c.value) ELSE Names(found, c)

LEMMA UnquotedMark ==
  ASSUME NEW x, x # "QT"
  PROVE  Unquoted(Char(x))
BY DEF Unquoted, Char

LEMMA ScanMark ==
  ASSUME NEW found, NEW x \in Marks, x # "QT"
  PROVE  Scan(Outside(found), Char(x)) = Outside(found)
BY MarkText, UnquotedMark, ScanOutside

LEMMA ScanCall ==
  ASSUME NEW found, NEW c \in Calls, Unquoted(c.key), Unquoted(c.value), NEW s, NEW i
  PROVE  Scan(Outside(found), Comma(s, i) \o Said(c)) = Outside(Adds(found, c))
<1>1. /\ Comma(s, i) \in Text /\ KeyOf(c) \in Text /\ Element(c) \in Text /\ Said(c) \in Text
      /\ c.key \in Text /\ c.value \in Text /\ c.op \in Ops
  BY CommaText, SaidText
<1>2. Scan(Outside(found), Comma(s, i)) = Outside(found)
  <2>1. Comma(s, i) = <<>> \/ Comma(s, i) = Char(",")
    BY DEF Comma
  <2>2. "," \in Marks /\ "," # "QT"
    BY DEF Marks
  <2>3. Scan(Outside(found), Char(",")) = Outside(found)
    BY <2>2, ScanMark
  <2>4. Scan(Outside(found), <<>>) = Outside(found)
    BY ScanEmpty
  <2>5. QED
    BY <2>1, <2>3, <2>4
<1>3. Scan(Outside(found), KeyOf(c)) = Outside(Names(found, c))
  <2>1. CASE c.key = <<>>
    BY <2>1, ScanEmpty DEF KeyOf, Names
  <2>2. CASE c.key # <<>>
    <3>1. Scan(Outside(found), Quoted(c.key)) = Outside(Append(found, c.key))
      BY <1>1, ScanQuoted
    <3>2. Quoted(c.key) \in Text /\ Char(":") \in Text
      BY <1>1, QuotedText, Mark
    <3>3. Scan(Outside(Append(found, c.key)), Char(":")) = Outside(Append(found, c.key))
      <4>1. ":" \in Marks /\ ":" # "QT"
        BY DEF Marks
      <4>2. QED
        BY <4>1, ScanMark
    <3>4. Scan(Outside(found), Quoted(c.key) \o Char(":"))
            = Scan(Scan(Outside(found), Quoted(c.key)), Char(":"))
      BY <3>2, ScanJoin
    <3>5. KeyOf(c) = Quoted(c.key) \o Char(":")
      BY <2>2 DEF KeyOf, Char
    <3>6. QED
      BY <2>2, <3>1, <3>3, <3>4, <3>5 DEF Names
  <2>3. QED
    BY <2>1, <2>2
<1>4. Scan(Outside(Names(found, c)), Element(c)) = Outside(Adds(found, c))
  <2>1. CASE c.op = "string"
    <3>1. Element(c) = Quoted(c.value)
      BY <2>1 DEF Element
    <3>2. QED
      BY <1>1, <2>1, <3>1, ScanQuoted DEF Adds
  <2>2. CASE c.op # "string"
    <3>1. Unquoted(Element(c))
      <4>1. /\ Unquoted(Char("{")) /\ Unquoted(Char("[")) /\ Unquoted(Char("}"))
            /\ Unquoted(Char("]"))
        BY UnquotedMark
      <4>2. \/ Element(c) = Char("{") \/ Element(c) = Char("[") \/ Element(c) = Char("}")
            \/ Element(c) = Char("]") \/ Element(c) = c.value
        BY <2>2 DEF Element, Char
      <4>3. QED
        BY <4>1, <4>2
    <3>2. QED
      BY <1>1, <2>2, <3>1, ScanOutside DEF Adds
  <2>3. QED
    BY <2>1, <2>2
<1>5. Scan(Outside(found), Said(c)) = Outside(Adds(found, c))
  <2>1. Scan(Outside(found), KeyOf(c) \o Element(c)) = Scan(Scan(Outside(found), KeyOf(c)), Element(c))
    BY <1>1, ScanJoin
  <2>2. QED
    BY <1>3, <1>4, <2>1 DEF Said
<1>6. Scan(Outside(found), Comma(s, i) \o Said(c)) = Scan(Scan(Outside(found), Comma(s, i)), Said(c))
  BY <1>1, ScanJoin
<1>7. QED
  BY <1>2, <1>5, <1>6

LEMMA ScanTold ==
  ASSUME NEW type, NEW s \in Seq(Calls), NEW c \in Calls, Unquoted(c.key), Unquoted(c.value),
         NEW found, Scan(Outside(<<>>), Told(type, s)) = Outside(found)
  PROVE  Scan(Outside(<<>>), Told(type, Append(s, c))) = Outside(Adds(found, c))
<1> DEFINE u == Append(s, c)
           piece == Comma(u, Len(s) + 1) \o Said(c)
           told == Told(type, s)
<1>1. Told(type, u) = told \o piece
  BY ToldMore
<1>2. told \in Text /\ piece \in Text
  BY ToldText, CommaText, SaidText, Joined
<1>3. Scan(Outside(found), piece) = Outside(Adds(found, c))
  BY ScanCall
<1> HIDE DEF u, piece, told
<1>4. Scan(Outside(<<>>), told \o piece) = Scan(Scan(Outside(<<>>), told), piece)
  BY <1>2, ScanJoin
<1>5. Scan(Outside(<<>>), told) = Outside(found)
  BY DEF told
<1>6. QED
  BY <1>1, <1>3, <1>4, <1>5 DEF u

(* The strings of the rows, and of the first r calls of a row behind f.    *)
RowsFound(n) == FlattenSeq([i \in 1 .. n |-> RowStrings(rows[i])])
Partly(f, row, r) ==
  CASE r = 2 -> Append(Append(f, <<"nome">>), row.nome)
    [] r = 3 -> Append(Append(Append(Append(f, <<"nome">>), row.nome), <<"tipo">>), row.tipo)
    [] r = 4 -> Append(Append(Append(Append(Append(Append(f, <<"nome">>), row.nome), <<"tipo">>),
                  row.tipo), <<"imagem">>), row.imagem)
    [] r = 5 -> Append(Append(Append(Append(Append(Append(Append(f, <<"nome">>), row.nome), <<"tipo">>),
                  row.tipo), <<"imagem">>), row.imagem), <<"preco">>)
    [] r = 6 -> Append(Append(Append(Append(Append(Append(Append(Append(f, <<"nome">>), row.nome),
                  <<"tipo">>), row.tipo), <<"imagem">>), row.imagem), <<"preco">>), <<"avaliacao">>)
    [] OTHER -> f

LEMMA RowTexts ==
  ASSUME NEW row \in Products
  PROVE  /\ row.nome \in Text /\ row.tipo \in Text /\ row.imagem \in Text
         /\ <<"nome">> \in Text /\ <<"tipo">> \in Text /\ <<"imagem">> \in Text
         /\ <<"preco">> \in Text /\ <<"avaliacao">> \in Text
BY ListingAssumption, WordText DEF Words

LEMMA AddsRow ==
  ASSUME NEW row, NEW who, NEW f, NEW r \in 0 .. 5
  PROVE  Adds(Partly(f, row, r), RowCalls(who, row)[r + 1]) = Partly(f, row, r + 1)
<1>1. r = 0 \/ r = 1 \/ r = 2 \/ r = 3 \/ r = 4 \/ r = 5
  OBVIOUS
<1>2. QED
  BY <1>1 DEF RowCalls, Call, Adds, Names, Partly

(* Eight elements more, appended or joined.                                *)
LEMMA EightMore ==
  ASSUME NEW S, NEW f \in Seq(S), NEW t \in Seq(S), Len(t) = 8
  PROVE  Append(Append(Append(Append(Append(Append(Append(Append(
             f, t[1]), t[2]), t[3]), t[4]), t[5]), t[6]), t[7]), t[8]) = f \o t
<1> DEFINE n == Len(f)
           w == Append(Append(Append(Append(f, t[1]), t[2]), t[3]), t[4])
           v == Append(Append(Append(Append(w, t[5]), t[6]), t[7]), t[8])
<1>1. n \in Nat /\ \A i \in 1 .. 8 : t[i] \in S
  <2>1. n \in Nat
    BY LenProperties
  <2>2. ASSUME NEW i \in 1 .. 8 PROVE t[i] \in S
    <3>1. i \in 1 .. Len(t)
      OBVIOUS
    <3>2. QED
      BY <3>1, ElementOfSeq
  <2>3. QED
    BY <2>1, <2>2
<1>2. /\ w \in Seq(S) /\ Len(w) = n + 4 /\ \A i \in 1 .. n : w[i] = f[i]
      /\ w[n + 1] = t[1] /\ w[n + 2] = t[2] /\ w[n + 3] = t[3] /\ w[n + 4] = t[4]
  BY <1>1
<1> HIDE DEF w
<1>3. /\ v \in Seq(S) /\ Len(v) = n + 8 /\ \A i \in 1 .. n + 4 : v[i] = w[i]
      /\ v[n + 5] = t[5] /\ v[n + 6] = t[6] /\ v[n + 7] = t[7] /\ v[n + 8] = t[8]
  <2> DEFINE x == Append(Append(w, t[5]), t[6])
  <2>1. t[5] \in S /\ t[6] \in S /\ t[7] \in S /\ t[8] \in S
    BY <1>1
  <2>2. /\ x \in Seq(S) /\ Len(x) = n + 6 /\ \A i \in 1 .. n + 4 : x[i] = w[i]
        /\ x[n + 5] = t[5] /\ x[n + 6] = t[6]
    BY <1>1, <1>2, <2>1
  <2> HIDE DEF x
  <2>3. /\ v = Append(Append(x, t[7]), t[8])
        /\ Append(Append(x, t[7]), t[8]) \in Seq(S)
        /\ Len(Append(Append(x, t[7]), t[8])) = n + 8
        /\ \A i \in 1 .. n + 6 : Append(Append(x, t[7]), t[8])[i] = x[i]
        /\ Append(Append(x, t[7]), t[8])[n + 7] = t[7] /\ Append(Append(x, t[7]), t[8])[n + 8] = t[8]
    BY <1>1, <2>1, <2>2 DEF x
  <2> HIDE DEF v
  <2>4. QED
    BY <1>1, <2>2, <2>3
<1>4. /\ f \o t \in Seq(S) /\ Len(f \o t) = n + 8
      /\ \A i \in 1 .. n + 8 : (f \o t)[i] = IF i <= n THEN f[i] ELSE t[i - n]
  <2>1. /\ f \o t \in Seq(S) /\ Len(f \o t) = n + Len(t)
        /\ \A i \in 1 .. n + Len(t) : (f \o t)[i] = IF i <= n THEN f[i] ELSE t[i - n]
    BY ConcatProperties
  <2>2. QED
    BY <2>1
<1> HIDE DEF v, n
<1>5. \A i \in 1 .. n : v[i] = f[i]
  BY <1>1, <1>2, <1>3
<1>6. \A i \in 1 .. 8 : v[n + i] = t[i]
  <2>1. v[n + 1] = t[1] /\ v[n + 2] = t[2] /\ v[n + 3] = t[3] /\ v[n + 4] = t[4]
    BY <1>1, <1>2, <1>3
  <2>2. QED
    BY <1>3, <2>1
<1>7. ASSUME NEW i \in 1 .. n + 8 PROVE v[i] = (f \o t)[i]
  <2>1. CASE i <= n
    BY <1>1, <1>4, <1>5, <2>1
  <2>2. CASE ~(i <= n)
    <3> DEFINE k == i - n
    <3>1. k \in 1 .. 8 /\ n + k = i
      BY <1>1, <2>2
    <3>2. (f \o t)[i] = t[k]
      BY <1>4, <2>2
    <3> HIDE DEF k
    <3>3. v[n + k] = t[k]
      BY <1>6, <3>1
    <3>4. QED
      BY <3>1, <3>2, <3>3
  <2>3. QED
    BY <2>1, <2>2
<1>8. v = f \o t
  BY <1>3, <1>4, <1>7, SeqEqual
<1>9. QED
  BY <1>8 DEF v, w

LEMMA AddsLast ==
  ASSUME NEW row \in Products, NEW who, NEW f \in Seq(Text)
  PROVE  Adds(Partly(f, row, 6), RowCalls(who, row)[7]) = f \o RowStrings(row)
<1>1. Adds(Partly(f, row, 6), RowCalls(who, row)[7]) = Partly(f, row, 6)
  BY DEF RowCalls, Call, Adds, Names
<1> DEFINE a == row.nome
           b == row.tipo
           c == row.imagem
           A == <<"nome">>
           B == <<"tipo">>
           C == <<"imagem">>
           D == <<"preco">>
           E == <<"avaliacao">>
<1>2. /\ a \in Text /\ b \in Text /\ c \in Text
      /\ A \in Text /\ B \in Text /\ C \in Text /\ D \in Text /\ E \in Text
  BY RowTexts
<1>3. /\ Partly(f, row, 6)
           = Append(Append(Append(Append(Append(Append(Append(Append(f, A), a), B), b), C), c), D), E)
      /\ RowStrings(row) = <<A, a, B, b, C, c, D, E>>
  BY DEF Partly, RowStrings
<1> HIDE DEF a, b, c, A, B, C, D, E
<1>4. Partly(f, row, 6) = f \o RowStrings(row)
  <2> DEFINE t == <<A, a, B, b, C, c, D, E>>
  <2>1. /\ t \in Seq(Text) /\ Len(t) = 8
        /\ t[1] = A /\ t[2] = a /\ t[3] = B /\ t[4] = b
        /\ t[5] = C /\ t[6] = c /\ t[7] = D /\ t[8] = E
    BY <1>2
  <2>2. RowStrings(row) = t
    BY <1>3
  <2> HIDE DEF t
  <2>3. Append(Append(Append(Append(Append(Append(Append(Append(
             f, t[1]), t[2]), t[3]), t[4]), t[5]), t[6]), t[7]), t[8]) = f \o t
    BY <2>1, EightMore
  <2>4. QED
    BY <1>3, <2>1, <2>2, <2>3
<1>5. QED
  BY <1>1, <1>4

LEMMA RowUnquoted ==
  ASSUME NEW row \in Products, NEW who \in Listings, NEW i \in 1 .. 7,
         "QT" \notin ToSet(row.nome \o row.tipo \o row.imagem)
  PROVE  Unquoted(RowCalls(who, row)[i].key) /\ Unquoted(RowCalls(who, row)[i].value)
<1>1. row.nome \in Text /\ row.tipo \in Text /\ row.imagem \in Text
  BY RowTexts
<1>2. PriceOf(who, row) \in Number
  BY ListingAssumption DEF PriceOf
<1>3. Unquoted(row.nome \o row.tipo \o row.imagem)
  <2> DEFINE s == row.nome \o row.tipo \o row.imagem
  <2>1. s \in Text
    BY <1>1, Joined
  <2>2. DOMAIN s = 1 .. Len(s)
    BY <2>1 DEF Text
  <2>3. \A j \in DOMAIN s : s[j] # "QT"
    BY DEF ToSet
  <2>4. QED
    BY <2>2, <2>3 DEF Unquoted
<1>4. Unquoted(row.nome) /\ Unquoted(row.tipo) /\ Unquoted(row.imagem)
  BY <1>1, <1>3, Joined, UnquotedJoin
<1>5. Unquoted(PriceOf(who, row))
  BY <1>2, NumberText DEF Unquoted, Marks
<1>6. /\ Unquoted(<<>>) /\ Unquoted(<<"nome">>) /\ Unquoted(<<"tipo">>) /\ Unquoted(<<"imagem">>)
      /\ Unquoted(<<"preco">>) /\ Unquoted(<<"avaliacao">>) /\ Unquoted(<<"5">>)
  BY DEF Unquoted
<1>7. i = 1 \/ i = 2 \/ i = 3 \/ i = 4 \/ i = 5 \/ i = 6 \/ i = 7
  OBVIOUS
<1>8. QED
  BY <1>4, <1>5, <1>6, <1>7 DEF RowCalls, Call

(* The strings of a program of which k calls were made.                    *)
FoundAt(k) == Partly(RowsFound(k \div 7), rows[(k \div 7) + 1], k % 7)

LEMMA RowsFoundMore ==
  ASSUME rows \in Seq(Products), NEW n \in 0 .. Len(rows) - 1
  PROVE  /\ RowsFound(n) \in Seq(Text)
         /\ RowsFound(n + 1) = RowsFound(n) \o RowStrings(rows[n + 1])
<1> DEFINE s == [i \in 1 .. n |-> RowStrings(rows[i])]
           t == [i \in 1 .. n + 1 |-> RowStrings(rows[i])]
           one == RowStrings(rows[n + 1])
<1>1. n \in Nat /\ \A i \in 1 .. n + 1 : rows[i] \in Products
  OBVIOUS
<1>2. \A i \in 1 .. n + 1 : RowStrings(rows[i]) \in Seq(Text)
  BY <1>1, RowTexts DEF RowStrings
<1>3. one \in Seq(Text) /\ s \in [1 .. n -> Seq(Text)]
  BY <1>1, <1>2
<1>4. s \in Seq(Seq(Text)) /\ Len(s) = n
  BY <1>1, <1>3
<1>5. t = Append(s, one)
  <2>1. Append(s, one) = [i \in 1 .. n + 1 |-> IF i = n + 1 THEN one ELSE s[i]]
    BY <1>4
  <2>2. \A i \in 1 .. n + 1 : RowStrings(rows[i]) = IF i = n + 1 THEN one ELSE s[i]
    BY <1>1
  <2>3. QED
    BY <2>1, <2>2
<1> HIDE DEF s, t, one
<1>6. FlattenSeq(t) = FlattenSeq(s) \o one /\ FlattenSeq(s) \in Seq(Text)
  BY <1>3, <1>4, <1>5, FlattenAppend, FlattenSequence
<1>7. RowsFound(n) = FlattenSeq(s) /\ RowsFound(n + 1) = FlattenSeq(t)
  BY DEF RowsFound, s, t
<1>8. QED
  BY <1>6, <1>7 DEF one

LEMMA FoundMore ==
  ASSUME rows \in Seq(Products), NEW k \in Nat, k < 7 * Len(rows)
  PROVE  Adds(FoundAt(k), RowCalls(caller, rows[(k \div 7) + 1])[(k % 7) + 1]) = FoundAt(k + 1)
<1> DEFINE q == k \div 7
           r == k % 7
           row == rows[q + 1]
           f == RowsFound(q)
<1>1. /\ q \in 0 .. Len(rows) - 1 /\ r \in 0 .. 6
      /\ r < 6 => (k + 1) \div 7 = q /\ (k + 1) % 7 = r + 1
      /\ r = 6 => (k + 1) \div 7 = q + 1 /\ (k + 1) % 7 = 0
  OBVIOUS
<1>2. row \in Products
  BY <1>1
<1>3. f \in Seq(Text) /\ RowsFound(q + 1) = f \o RowStrings(row)
  BY <1>1, RowsFoundMore
<1> HIDE DEF q, r, row, f
<1>4. FoundAt(k) = Partly(f, row, r)
  BY DEF FoundAt, q, r, row, f
<1>5. CASE r < 6
  <2>1. FoundAt(k + 1) = Partly(f, row, r + 1)
    BY <1>1, <1>5 DEF FoundAt, row, f
  <2>2. r \in 0 .. 5
    BY <1>1, <1>5
  <2>3. QED
    BY <1>4, <2>1, <2>2, AddsRow DEF q, r, row
<1>6. CASE r = 6
  <2>1. FoundAt(k + 1) = Partly(RowsFound(q + 1), rows[q + 2], 0)
    BY <1>1, <1>6 DEF FoundAt
  <2>2. FoundAt(k + 1) = f \o RowStrings(row)
    BY <1>3, <2>1 DEF Partly
  <2>3. Adds(Partly(f, row, 6), RowCalls(caller, row)[7]) = f \o RowStrings(row)
    BY <1>2, <1>3, AddsLast
  <2>4. QED
    BY <1>4, <1>6, <2>2, <2>3 DEF q, r, row
<1>7. QED
  BY <1>1, <1>5, <1>6

(* The third inductive invariant: a reader of what was told so far.        *)
Quoteless ==
  \A i \in DOMAIN rows : "QT" \notin ToSet(rows[i].nome \o rows[i].tipo \o rows[i].imagem)
ReadSoFar ==
  caller \in Listings /\ Quoteless =>
    Scan(Outside(<<>>), Told(builder.type, calls)) = Outside(FoundAt(Len(calls)))

LEMMA ReadFirst == Init => ReadSoFar
<1> SUFFICES ASSUME Init, caller \in Listings
             PROVE  Scan(Outside(<<>>), Told(builder.type, calls)) = Outside(FoundAt(Len(calls)))
  BY DEF ReadSoFar
<1>1. calls = <<>> /\ Len(calls) = 0
  BY DEF Init
<1>2. FoundAt(0) = <<>>
  <2>1. [i \in 1 .. 0 |-> RowStrings(rows[i])] = <<>>
    OBVIOUS
  <2>2. RowsFound(0) = <<>>
    BY <2>1 DEF RowsFound, FlattenSeq
  <2>3. 0 \div 7 = 0 /\ 0 % 7 = 0
    OBVIOUS
  <2>4. QED
    BY <2>2, <2>3 DEF FoundAt, Partly
<1> DEFINE type == builder.type
           s == Begin(type).string
<1>3. FlattenSeq(Pieces(<<>>)) = <<>>
  <2>1. Pieces(<<>>) = <<>>
    BY DEF Pieces
  <2>2. QED
    BY <2>1 DEF FlattenSeq
<1>4. s \in Text
  BY EmptySeq, ToldText
<1>5. Told(type, <<>>) = s
  <2>1. s \o <<>> = s
    BY <1>4, ConcatEmptySeq DEF Text
  <2>2. QED
    BY <1>3, <2>1 DEF Told
<1>6. s = Char("[") \/ s = Char("{")
  BY DEF Begin, Char
<1>7. "[" \in Marks /\ "{" \in Marks /\ "[" # "QT" /\ "{" # "QT"
  BY DEF Marks
<1> HIDE DEF s
<1>8. Scan(Outside(<<>>), s) = Outside(<<>>)
  BY <1>6, <1>7, ScanMark
<1>9. QED
  BY <1>1, <1>2, <1>5, <1>8

LEMMA ReadStays == IInv /\ Written /\ ReadSoFar /\ [Next]_vars => ReadSoFar'
<1> SUFFICES ASSUME IInv, Written, ReadSoFar, [Next]_vars, caller' \in Listings, Quoteless'
             PROVE  (Scan(Outside(<<>>), Told(builder.type, calls)) = Outside(FoundAt(Len(calls))))'
  BY DEF ReadSoFar
<1>1. caller' = caller /\ rows' = rows
  BY DEF Next, HandlerStep, AnyStep, Step, Finish, Answer, AnswerPlain, Reply, vars
<1>2. caller \in Listings /\ Quoteless
  BY <1>1 DEF Quoteless
<1>3. Scan(Outside(<<>>), Told(builder.type, calls)) = Outside(FoundAt(Len(calls)))
  BY <1>2 DEF ReadSoFar
<1>4. calls \in Seq(Calls) /\ rows \in Seq(Products) /\ InMemory(builder)
  BY <1>2 DEF IInv, Ready
<1>5. CASE builder'.type = builder.type /\ calls' = calls
  <2>1. FoundAt(Len(calls))' = FoundAt(Len(calls))
    BY <1>1, <1>5 DEF FoundAt, RowsFound
  <2>2. QED
    BY <1>3, <1>5, <2>1
<1>6. CASE HandlerStep
  <2> DEFINE k == Len(calls)
             c == Program[k + 1]
             row == rows[(k \div 7) + 1]
  <2>1. builder' = Do(builder, c) /\ calls' = Append(calls, c) /\ k < Len(Program)
    BY <1>6 DEF HandlerStep, Step
  <2>2. Program \in Seq(Calls) /\ Len(Program) = 7 * Len(rows)
    <3>1. 7 * Len(rows) \in Nat
      BY <1>4
    <3>2. QED
      BY <1>2, <1>4, <3>1, ProgramTyped DEF Program
  <2>3. /\ k \in Nat /\ k + 1 \in 1 .. Len(Program) /\ k < 7 * Len(rows)
        /\ (k + 1) - 1 = k /\ row \in Products /\ (k % 7) + 1 \in 1 .. 7
    BY <1>4, <2>1, <2>2
  <2>4. c \in Calls /\ Plainly(c)
    BY <1>4, <2>2, <2>3, ProgramSupported
  <2>5. c = RowCalls(caller, row)[(k % 7) + 1]
    BY <2>2, <2>3 DEF Program
  <2>6. Unquoted(c.key) /\ Unquoted(c.value)
    <3>1. "QT" \notin ToSet(row.nome \o row.tipo \o row.imagem)
      BY <1>2, <1>4, <2>3 DEF Quoteless
    <3>2. QED
      BY <1>2, <2>3, <2>5, <3>1, RowUnquoted
  <2>7. builder'.type = builder.type
    BY <1>4, <2>1, <2>4, DoWrites
  <2> HIDE DEF c, row
  <2>8. Scan(Outside(<<>>), Told(builder.type, Append(calls, c))) = Outside(Adds(FoundAt(k), c))
    BY <1>3, <1>4, <2>4, <2>6, ScanTold
  <2>9. Adds(FoundAt(k), c) = FoundAt(k + 1)
    BY <1>4, <2>3, <2>5, FoundMore DEF row
  <2>10. Len(calls') = k + 1
    BY <1>4, <2>1, <2>4
  <2>11. FoundAt(Len(calls))' = FoundAt(k + 1)
    BY <1>1, <2>10 DEF FoundAt, RowsFound
  <2>12. QED
    BY <2>1, <2>7, <2>8, <2>9, <2>11
<1>7. CASE AnyStep
  BY <1>2, <1>7 DEF AnyStep, Listings
<1>8. CASE Finish
  <2>1. phase = "building" /\ builder' = End(builder) /\ calls' = calls
    BY <1>8 DEF Finish
  <2>2. builder'.type = builder.type
    BY <1>4, <2>1, HeldLast DEF Written
  <2>3. QED
    BY <1>5, <2>1, <2>2
<1>9. CASE Answer \/ AnswerPlain \/ UNCHANGED vars
  BY <1>5, <1>9 DEF Answer, AnswerPlain, Reply, vars
<1>10. QED
  BY <1>6, <1>7, <1>8, <1>9 DEF Next

(* A client that read what the builder holds so far of a listing has found *)
(* what the calls so far were to tell it.                                  *)
THEOREM ReadAlways == Spec => []ReadSoFar
<1>1. Init => IInv /\ Written /\ ReadSoFar
  BY Starting, WrittenFirst, ReadFirst
<1>2. IInv /\ Written /\ ReadSoFar /\ [Next]_vars => (IInv /\ Written /\ ReadSoFar)'
  BY Staying, WrittenStays, ReadStays
<1>3. QED
  BY <1>1, <1>2, PTL DEF Spec

(* A client that reads the strings of a listing finds the names of the     *)
(* fields and the texts of every row, for any number of rows, unless a     *)
(* text holds a quote.                                                     *)
THEOREM ReadsBack == Spec => []ListingReadsBack
<1>1. ASSUME IInv, Written, ReadSoFar, BuildsDocument PROVE ListingReadsBack
  <2> SUFFICES ASSUME phase = "ended", caller \in Listings, Quoteless
               PROVE  StringsIn(builder.string)
                        = FlattenSeq([i \in DOMAIN rows |-> RowStrings(rows[i])])
    BY DEF ListingReadsBack, Quoteless
  <2> DEFINE told == Told(builder.type, calls)
             x == Closing(builder.type)
  <2>1. calls \in Seq(Calls) /\ rows \in Seq(Products)
    BY <1>1 DEF IInv, Ready
  <2>2. builder.string = told \o Char(x)
    BY <1>1, <2>1, ToldIsDocument DEF BuildsDocument
  <2>3. told \in Text /\ x \in Marks /\ x # "QT" /\ Char(x) \in Text
    BY <2>1, ToldText, MarkText DEF Closing, Marks
  <2>4. Scan(Outside(<<>>), told) = Outside(FoundAt(Len(calls)))
    BY <1>1 DEF ReadSoFar
  <2> HIDE DEF told, x
  <2>5. Scan(Outside(<<>>), told \o Char(x)) = Scan(Scan(Outside(<<>>), told), Char(x))
    BY <2>3, ScanJoin
  <2>6. Scan(Outside(<<>>), told \o Char(x)) = Outside(FoundAt(Len(calls)))
    BY <2>3, <2>4, <2>5, ScanMark
  <2>7. StringsIn(builder.string) = FoundAt(Len(calls))
    <3>1. told \o Char(x) \in Text
      BY <2>3, Joined
    <3>2. QED
      BY <2>2, <2>6, <3>1, ReadsAsScan DEF Outside, Reader
  <2>8. Len(calls) = 7 * Len(rows)
    <3>1. Len(calls) = Len(Program)
      BY <1>1 DEF Written, InOrder
    <3>2. 7 * Len(rows) \in Nat
      BY <2>1
    <3>3. Len(Program) = 7 * Len(rows)
      BY <3>2 DEF Program
    <3>4. QED
      BY <3>1, <3>3
  <2>9. (7 * Len(rows)) \div 7 = Len(rows) /\ (7 * Len(rows)) % 7 = 0
    BY <2>1
  <2>10. FoundAt(Len(calls)) = RowsFound(Len(rows))
    BY <2>8, <2>9 DEF FoundAt, Partly
  <2>11. DOMAIN rows = 1 .. Len(rows)
    BY <2>1
  <2>12. QED
    BY <2>7, <2>10, <2>11 DEF RowsFound
<1>2. QED
  BY <1>1, WrittenAlways, ReadAlways, Documents, PTL

-----------------------------------------------------------------------------
(* A response.  The two loops that add lengths up: over strings, and over  *)
(* headers.                                                                *)
StrlenBase(p) == 0
StrlenStep(p, x, i) == x + Len(p[i])
HeadersBase(p) == 0
HeadersStep(p, x, i) == x + (Len(p[i].key) + Strlen(p[i].value) + 4)
Always(p, x, i) == TRUE
StrlenLoop == INSTANCE Recursion WITH Base <- StrlenBase, Step <- StrlenStep, Holds <- Always
HeadersLoop == INSTANCE Recursion WITH Base <- HeadersBase, Step <- HeadersStep, Holds <- Always

LEMMA StrlenMore ==
  ASSUME NEW S, NEW s \in Seq(S), NEW x \in S
  PROVE  Strlen(Append(s, x)) = Strlen(s) + Len(x)
<1> DEFINE t == Append(s, x)
           n == Len(s)
<1>1. n \in Nat /\ Len(t) = n + 1 /\ t[n + 1] = x /\ \A i \in 1 .. n : t[i] = s[i]
  BY AppendProperties
<1>2. Strlen(s) = StrlenLoop!Run(s, 0, n)[n] /\ Strlen(t) = StrlenLoop!Run(t, 0, Len(t))[Len(t)]
  BY DEF Strlen, StrlenLoop!Run, StrlenLoop!Loop, StrlenBase, StrlenStep
<1> HIDE DEF t, n
<1>3. StrlenLoop!Run(t, 0, n + 1)[n + 1] = StrlenStep(t, StrlenLoop!Run(s, 0, n)[n], n + 1)
  <2>1. 0 \in Int /\ n \in Int /\ 0 <= n /\ 0 + 1 = 1 /\ StrlenBase(s) = StrlenBase(t)
    BY <1>1 DEF StrlenBase
  <2>2. \A i \in 0 + 1 .. n : \A y : StrlenStep(s, y, i) = StrlenStep(t, y, i)
    BY <1>1, <2>1 DEF StrlenStep
  <2>3. QED
    BY <2>1, <2>2, StrlenLoop!Further
<1>4. QED
  BY <1>1, <1>2, <1>3 DEF StrlenStep, t

LEMMA StrlenEmpty == Strlen(<<>>) = 0
<1>1. Strlen(<<>>) = StrlenLoop!Run(<<>>, 0, 0)[0]
  BY DEF Strlen, StrlenLoop!Run, StrlenLoop!Loop, StrlenBase, StrlenStep
<1>2. StrlenLoop!Run(<<>>, 0, 0)[0] = StrlenBase(<<>>)
  BY StrlenLoop!Unfolded
<1>3. QED
  BY <1>1, <1>2 DEF StrlenBase

LEMMA HeadersMore ==
  ASSUME NEW S, NEW s \in Seq(S), NEW h \in S
  PROVE  HeadersLength(Append(s, h)) = HeadersLength(s) + (Len(h.key) + Strlen(h.value) + 4)
<1> DEFINE t == Append(s, h)
           n == Len(s)
<1>1. n \in Nat /\ Len(t) = n + 1 /\ t[n + 1] = h /\ \A i \in 1 .. n : t[i] = s[i]
  BY AppendProperties
<1>2. /\ HeadersLength(s) = HeadersLoop!Run(s, 0, n)[n]
      /\ HeadersLength(t) = HeadersLoop!Run(t, 0, Len(t))[Len(t)]
  BY DEF HeadersLength, HeadersLoop!Run, HeadersLoop!Loop, HeadersBase, HeadersStep
<1> HIDE DEF t, n
<1>3. HeadersLoop!Run(t, 0, n + 1)[n + 1] = HeadersStep(t, HeadersLoop!Run(s, 0, n)[n], n + 1)
  <2>1. 0 \in Int /\ n \in Int /\ 0 <= n /\ 0 + 1 = 1 /\ HeadersBase(s) = HeadersBase(t)
    BY <1>1 DEF HeadersBase
  <2>2. \A i \in 0 + 1 .. n : \A y : HeadersStep(s, y, i) = HeadersStep(t, y, i)
    BY <1>1, <2>1 DEF HeadersStep
  <2>3. QED
    BY <2>1, <2>2, HeadersLoop!Further
<1>4. QED
  BY <1>1, <1>2, <1>3 DEF HeadersStep, t

LEMMA HeadersEmpty == HeadersLength(<<>>) = 0
<1>1. HeadersLength(<<>>) = HeadersLoop!Run(<<>>, 0, 0)[0]
  BY DEF HeadersLength, HeadersLoop!Run, HeadersLoop!Loop, HeadersBase, HeadersStep
<1>2. HeadersLoop!Run(<<>>, 0, 0)[0] = HeadersBase(<<>>)
  BY HeadersLoop!Unfolded
<1>3. QED
  BY <1>1, <1>2 DEF HeadersBase

LEMMA StrlenJoin ==
  ASSUME NEW S, \A x \in S : Len(x) \in Nat, NEW s \in Seq(S), NEW t \in Seq(S)
  PROVE  Strlen(s \o t) = Strlen(s) + Strlen(t) /\ Strlen(s) \in Nat
<1> DEFINE A == {u \in Seq(S) : Strlen(u) \in Nat}
           J == {u \in Seq(S) : Strlen(s \o u) = Strlen(s) + Strlen(u)}
<1>1. <<>> \in A
  BY EmptySeq, StrlenEmpty
<1>2. ASSUME NEW u \in Seq(S), NEW x \in S, u \in A PROVE Append(u, x) \in A
  <2>1. Strlen(Append(u, x)) = Strlen(u) + Len(x) /\ Append(u, x) \in Seq(S) /\ Len(x) \in Nat
    BY StrlenMore, AppendProperties
  <2>2. QED
    BY <1>2, <2>1
<1> HIDE DEF A
<1>3. Seq(S) \subseteq A
  BY <1>1, <1>2, SequenceInduction
<1>4. \A u \in Seq(S) : Strlen(u) \in Nat
  BY <1>3 DEF A
<1>5. <<>> \in J
  <2>1. s \o <<>> = s /\ <<>> \in Seq(S)
    BY ConcatEmptySeq, EmptySeq
  <2>2. QED
    BY <1>4, <2>1, StrlenEmpty
<1>6. ASSUME NEW u \in Seq(S), NEW x \in S, u \in J PROVE Append(u, x) \in J
  <2>1. /\ Strlen(Append(u, x)) = Strlen(u) + Len(x) /\ Append(u, x) \in Seq(S) /\ Len(x) \in Nat
        /\ Append(u, x) = u \o <<x>>
    BY StrlenMore, AppendProperties, AppendIsConcat
  <2>2. s \o u \in Seq(S) /\ <<x>> \in Seq(S)
    BY ConcatProperties
  <2>3. s \o Append(u, x) = Append(s \o u, x)
    BY <2>1, <2>2, ConcatAssociative, AppendIsConcat
  <2>4. Strlen(Append(s \o u, x)) = Strlen(s \o u) + Len(x)
    BY <2>2, StrlenMore
  <2>5. Strlen(s \o u) = Strlen(s) + Strlen(u) /\ Strlen(s) \in Nat /\ Strlen(u) \in Nat
    BY <1>4, <1>6
  <2>6. Strlen(s \o Append(u, x)) = Strlen(s) + Strlen(Append(u, x))
    <3> DEFINE a == Append(u, x)
    <3>1. Strlen(s \o a) = Strlen(s \o u) + Len(x) /\ Strlen(a) = Strlen(u) + Len(x)
      BY <2>1, <2>3, <2>4
    <3> HIDE DEF a
    <3>2. Strlen(s \o a) = Strlen(s) + Strlen(a)
      BY <2>1, <2>5, <3>1
    <3>3. QED
      BY <3>2 DEF a
  <2>7. QED
    BY <2>1, <2>6
<1> HIDE DEF J
<1>7. Seq(S) \subseteq J
  BY <1>5, <1>6, SequenceInduction
<1>8. QED
  BY <1>4, <1>7 DEF J

(* A short one is added up as it stands.                                   *)
LEMMA StrlenFew ==
  ASSUME NEW S, \A x \in S : Len(x) \in Nat, NEW s \in Seq(S), Len(s) \in {1, 2, 5}
  PROVE  /\ Len(s) = 1 => Strlen(s) = Len(s[1])
         /\ Len(s) = 2 => Strlen(s) = Len(s[1]) + Len(s[2])
         /\ Len(s) = 5 => Strlen(s) = Len(s[1]) + Len(s[2]) + Len(s[3]) + Len(s[4]) + Len(s[5])
<1> DEFINE n == Len(s)
           f == StrlenLoop!Run(s, 0, n)
<1>1. Strlen(s) = f[n]
  BY DEF Strlen, StrlenLoop!Run, StrlenLoop!Loop, StrlenBase, StrlenStep
<1>2. 0 \in Int /\ n \in Int /\ 0 <= n /\ 0 + 1 = 1
  OBVIOUS
<1>3. f[0] = 0 /\ \A i \in 0 + 1 .. n : f[i] = f[i - 1] + Len(s[i])
  <2>1. f[0] = StrlenBase(s) /\ \A i \in 0 + 1 .. n : f[i] = StrlenStep(s, f[i - 1], i)
    BY <1>2, StrlenLoop!Unfolded
  <2>2. QED
    BY <2>1 DEF StrlenBase, StrlenStep
<1> HIDE DEF f
<1>4. \A i \in 1 .. n : Len(s[i]) \in Nat
  BY ElementOfSeq
<1>5. \A i \in {1, 2, 3, 4, 5} : i <= n => Len(s[i]) \in Nat /\ f[i] = f[i - 1] + Len(s[i])
  BY <1>2, <1>3, <1>4
<1>6. 1 <= n => Len(s[1]) \in Nat /\ f[1] = Len(s[1])
  <2>1. 1 - 1 = 0
    OBVIOUS
  <2>2. QED
    BY <1>3, <1>5, <2>1
<1>7. 2 <= n => Len(s[2]) \in Nat /\ f[2] = f[1] + Len(s[2])
  <2>1. 2 - 1 = 1
    OBVIOUS
  <2>2. QED
    BY <1>5, <2>1
<1>8. 5 <= n => /\ Len(s[3]) \in Nat /\ f[3] = f[2] + Len(s[3])
                /\ Len(s[4]) \in Nat /\ f[4] = f[3] + Len(s[4])
                /\ Len(s[5]) \in Nat /\ f[5] = f[4] + Len(s[5])
  <2>1. 3 - 1 = 2 /\ 4 - 1 = 3 /\ 5 - 1 = 4
    OBVIOUS
  <2>2. QED
    BY <1>5, <2>1
<1> HIDE DEF n
<1>9. CASE n = 1
  BY <1>1, <1>6, <1>9 DEF n
<1>10. CASE n = 2
  BY <1>1, <1>6, <1>7, <1>10 DEF n
<1>11. CASE n = 5
  <2>1. 1 <= n /\ 2 <= n /\ 5 <= n
    BY <1>11
  <2>2. f[1] = Len(s[1]) /\ f[2] = f[1] + Len(s[2])
    BY <1>6, <1>7, <2>1
  <2>3. f[3] = f[2] + Len(s[3]) /\ f[4] = f[3] + Len(s[4]) /\ f[5] = f[4] + Len(s[5])
    BY <1>8, <2>1
  <2>4. f[5] = Len(s[1]) + Len(s[2]) + Len(s[3]) + Len(s[4]) + Len(s[5])
    BY <2>2, <2>3
  <2>5. QED
    BY <1>1, <1>11, <2>4 DEF n
<1>12. QED
  BY <1>9, <1>10, <1>11 DEF n

(* The strings and headers of a response.                                  *)
Strings ==
  {Version, Space, Colon, Line, "application/json", "*"} \cup Keys
    \cup {Digit[i] : i \in 1 .. 10}
    \cup {ToString(status) : status \in Statuses} \cup {StatusText(status) : status \in Statuses}
Headers == [key : Keys, value : Seq(Strings)]

LEMMA Measured ==
  /\ \A x \in Strings : Len(x) \in Nat
  /\ Line \in Strings /\ Colon \in Strings /\ Version \in Strings /\ Space \in Strings
  /\ \A status \in Statuses : ToString(status) \in Strings /\ StatusText(status) \in Strings
<1>1. \A i \in 1 .. 10 : Digit[i] \in ToSet(Digit)
  BY DEF Digit, ToSet
<1>2. \A x \in {Version, Space, Colon, Line} : Len(x) \in Nat
  BY StringLengths
<1>3. \A x \in {"application/json", "*"} \cup Keys : Len(x) \in Nat
  BY StringLengths
<1>4. \A i \in 1 .. 10 : Len(Digit[i]) \in Nat
  BY <1>1, StringLengths
<1>5. \A status \in Statuses : Len(ToString(status)) \in Nat /\ Len(StatusText(status)) \in Nat
  BY StringLengths
<1>6. ASSUME NEW x \in Strings PROVE Len(x) \in Nat
  BY <1>2, <1>3, <1>4, <1>5 DEF Strings
<1>7. /\ Line \in Strings /\ Colon \in Strings /\ Version \in Strings /\ Space \in Strings
      /\ \A status \in Statuses : ToString(status) \in Strings /\ StatusText(status) \in Strings
  BY DEF Strings
<1>8. QED
  BY <1>6, <1>7

LEMMA HeaderStrlen ==
  ASSUME NEW h \in Headers
  PROVE  /\ HeaderText(h) \in Seq(Strings)
         /\ Strlen(HeaderText(h)) = Len(h.key) + Strlen(h.value) + 4
         /\ Strlen(h.value) \in Nat /\ Len(h.key) \in Nat
<1> DEFINE a == <<h.key, Colon>>
           c == <<Line>>
           v == h.value
<1>1. h.key \in Strings /\ v \in Seq(Strings) /\ Colon \in Strings /\ Line \in Strings
  BY Measured DEF Headers, Strings
<1>2. a \in Seq(Strings) /\ Len(a) = 2 /\ a[1] = h.key /\ a[2] = Colon
  BY <1>1
<1>3. c \in Seq(Strings) /\ Len(c) = 1 /\ c[1] = Line
  BY <1>1
<1>4. HeaderText(h) = (a \o v) \o c
  BY DEF HeaderText
<1> HIDE DEF a, c, v
<1>5. Strlen(a) = Len(h.key) + 2 /\ Strlen(c) = 2
  BY <1>2, <1>3, Measured, StrlenFew, StringLengths
<1>6. a \o v \in Seq(Strings) /\ (a \o v) \o c \in Seq(Strings)
  BY <1>1, <1>2, <1>3, ConcatProperties
<1>7. Strlen(a \o v) = Strlen(a) + Strlen(v) /\ Strlen(v) \in Nat
  BY <1>1, <1>2, Measured, StrlenJoin
<1>8. Strlen((a \o v) \o c) = Strlen(a \o v) + Strlen(c)
  BY <1>3, <1>6, Measured, StrlenJoin
<1>9. Len(h.key) \in Nat
  BY <1>1, Measured
<1>10. QED
  BY <1>4, <1>5, <1>6, <1>7, <1>8, <1>9 DEF v

HeadersText(hs) == FlattenSeq([i \in DOMAIN hs |-> HeaderText(hs[i])])

LEMMA HeadersStrlen ==
  ASSUME NEW hs \in Seq(Headers)
  PROVE  /\ HeadersText(hs) \in Seq(Strings)
         /\ Strlen(HeadersText(hs)) = HeadersLength(hs)
<1> DEFINE S == {u \in Seq(Headers) : /\ HeadersText(u) \in Seq(Strings)
                                      /\ Strlen(HeadersText(u)) = HeadersLength(u)}
<1>1. <<>> \in S
  <2>1. HeadersText(<<>>) = <<>>
    <3>1. [i \in DOMAIN <<>> |-> HeaderText(<<>>[i])] = <<>>
      OBVIOUS
    <3>2. QED
      BY <3>1 DEF HeadersText, FlattenSeq
  <2>2. QED
    BY <2>1, EmptySeq, StrlenEmpty, HeadersEmpty
<1>2. ASSUME NEW u \in Seq(Headers), NEW h \in Headers, u \in S PROVE Append(u, h) \in S
  <2> DEFINE t == Append(u, h)
             A == [i \in DOMAIN u |-> HeaderText(u[i])]
             B == [i \in DOMAIN t |-> HeaderText(t[i])]
  <2>1. /\ t \in Seq(Headers) /\ Len(t) = Len(u) + 1 /\ t[Len(u) + 1] = h /\ Len(u) \in Nat
        /\ \A i \in 1 .. Len(u) : t[i] = u[i]
    BY AppendProperties
  <2>2. DOMAIN u = 1 .. Len(u) /\ DOMAIN t = 1 .. Len(u) + 1
    BY <2>1, LenProperties
  <2>3. \A i \in 1 .. Len(u) : HeaderText(u[i]) \in Seq(Strings)
    BY ElementOfSeq, HeaderStrlen
  <2>4. A \in Seq(Seq(Strings)) /\ Len(A) = Len(u)
    BY <2>1, <2>2, <2>3
  <2>5. HeaderText(h) \in Seq(Strings)
    BY HeaderStrlen
  <2> HIDE DEF t
  <2>6. B = Append(A, HeaderText(h))
    <3>1. /\ Append(A, HeaderText(h)) \in Seq(Seq(Strings))
          /\ Len(Append(A, HeaderText(h))) = Len(u) + 1
          /\ \A i \in 1 .. Len(u) : Append(A, HeaderText(h))[i] = A[i]
          /\ Append(A, HeaderText(h))[Len(u) + 1] = HeaderText(h)
      <4> HIDE DEF A
      <4>1. QED
        BY <2>4, <2>5, AppendProperties
    <3>2. \A i \in 1 .. Len(u) : A[i] = HeaderText(u[i])
      BY <2>2
    <3>3. \A i \in 1 .. Len(u) + 1 : B[i] = HeaderText(t[i])
      BY <2>2
    <3>4. \A i \in 1 .. Len(u) + 1 : HeaderText(t[i]) \in Seq(Strings)
      <4>1. \A i \in 1 .. Len(u) : HeaderText(t[i]) \in Seq(Strings)
        BY <2>1, <2>3
      <4>2. HeaderText(t[Len(u) + 1]) \in Seq(Strings)
        BY <2>1, <2>5
      <4>3. QED
        BY <2>1, <4>1, <4>2
    <3>5. B \in Seq(Seq(Strings)) /\ Len(B) = Len(u) + 1
      BY <2>1, <2>2, <3>4
    <3> HIDE DEF A, B
    <3>6. \A i \in 1 .. Len(u) + 1 : B[i] = Append(A, HeaderText(h))[i]
      BY <2>1, <3>1, <3>2, <3>3
    <3>7. QED
      BY <3>1, <3>5, <3>6, SeqEqual
  <2> HIDE DEF A, B
  <2>7. HeadersText(t) = HeadersText(u) \o HeaderText(h)
    BY <2>4, <2>5, <2>6, FlattenAppend DEF HeadersText, A, B
  <2>8. HeadersText(u) \in Seq(Strings) /\ Strlen(HeadersText(u)) = HeadersLength(u)
    BY <1>2
  <2>9. /\ HeadersText(t) \in Seq(Strings)
        /\ Strlen(HeadersText(t)) = HeadersLength(u) + Strlen(HeaderText(h))
    <3>1. HeadersText(t) \in Seq(Strings)
      BY <2>5, <2>7, <2>8, ConcatProperties
    <3>2. Strlen(HeadersText(u) \o HeaderText(h)) = Strlen(HeadersText(u)) + Strlen(HeaderText(h))
      BY <2>5, <2>8, Measured, StrlenJoin
    <3>3. QED
      BY <2>7, <2>8, <3>1, <3>2
  <2>10. HeadersLength(t) = HeadersLength(u) + Strlen(HeaderText(h))
    BY HeadersMore, HeaderStrlen DEF t
  <2>11. QED
    BY <2>1, <2>9, <2>10 DEF t
<1> HIDE DEF S
<1>3. Seq(Headers) \subseteq S
  BY <1>1, <1>2, SequenceInduction
<1>4. QED
  BY <1>3 DEF S

(* Every byte of a response is written, whatever its headers say and       *)
(* however long its body is.                                               *)
LEMMA SendExact ==
  ASSUME NEW r, r.status \in Statuses, r.headers \in Seq(Headers),
         NEW B, r.body \in Seq(B), r.body_length = Len(r.body)
  PROVE  Send(r).length = Send(r).written /\ BodyText(r) = r.body
<1> DEFINE a == <<Version, ToString(r.status), Space, StatusText(r.status), Line>>
           h == HeadersText(r.headers)
           c == <<Line>>
<1>1. /\ a \in Seq(Strings) /\ Len(a) = 5
      /\ a[1] = Version /\ a[2] = ToString(r.status) /\ a[3] = Space
      /\ a[4] = StatusText(r.status) /\ a[5] = Line
  <2>1. /\ Version \in Strings /\ ToString(r.status) \in Strings /\ Space \in Strings
        /\ StatusText(r.status) \in Strings /\ Line \in Strings
    BY Measured
  <2>2. QED
    BY <2>1
<1>2. c \in Seq(Strings) /\ Len(c) = 1 /\ c[1] = Line
  <2>1. Line \in Strings
    BY Measured
  <2>2. QED
    BY <2>1
<1>3. h \in Seq(Strings) /\ Strlen(h) = HeadersLength(r.headers)
  BY HeadersStrlen
<1>4. HeadText(r) = (a \o h) \o c
  BY DEF HeadText, HeadersText
<1> HIDE DEF a, h, c
<1> DEFINE t == Len(StatusText(r.status))
<1>5. t \in Nat /\ Strlen(a) = 9 + 3 + 1 + t + 2 /\ Strlen(c) = 2
  <2>1. /\ t \in Nat /\ Len(ToString(r.status)) = 3
        /\ Len(Version) = 9 /\ Len(Space) = 1 /\ Len(Line) = 2
    BY StringLengths
  <2>2. Strlen(a) = Len(a[1]) + Len(a[2]) + Len(a[3]) + Len(a[4]) + Len(a[5])
    BY <1>1, Measured, StrlenFew
  <2>3. Strlen(c) = Len(c[1])
    BY <1>2, Measured, StrlenFew
  <2>4. QED
    BY <1>1, <1>2, <2>1, <2>2, <2>3
<1>6. Strlen(h) \in Nat /\ Strlen((a \o h) \o c) = Strlen(a) + Strlen(h) + Strlen(c)
  <2>1. a \o h \in Seq(Strings)
    BY <1>1, <1>3, ConcatProperties
  <2>2. Strlen(a \o h) = Strlen(a) + Strlen(h)
    BY <1>1, <1>3, Measured, StrlenJoin
  <2>3. Strlen((a \o h) \o c) = Strlen(a \o h) + Strlen(c)
    BY <1>2, <2>1, Measured, StrlenJoin
  <2>4. Strlen(h) \in Nat
    BY <1>3, Measured, StrlenJoin
  <2>5. QED
    BY <2>2, <2>3, <2>4
<1>7. BodyText(r) = r.body
  <2>1. SubSeq(r.body, 1, Len(r.body)) = r.body
    OBVIOUS
  <2>2. QED
    BY <2>1 DEF BodyText
<1>8. Len(r.body) \in Nat /\ (r.body = <<>> => Len(r.body) = 0)
  BY LenProperties
<1> DEFINE w == Strlen(HeadText(r))
           n == Len(r.body)
           k == HeadersLength(r.headers)
<1>9. w = 9 + 3 + 1 + t + 2 + k + 2 /\ k \in Nat
  BY <1>3, <1>4, <1>5, <1>6
<1>10. Send(r).written = w + n
  BY <1>7 DEF Send
<1>11. Send(r).length = (9 + 1) + 3 + t + 2 + k + 2 + n
  <2>1. Send(r).length = (Len(Version) + 1) + 3 + t + 2 + k + 2 + (IF r.body = <<>> THEN 0 ELSE n)
    BY DEF Send, CalculateLength
  <2>2. (IF r.body = <<>> THEN 0 ELSE n) = n /\ Len(Version) = 9
    BY <1>8, StringLengths
  <2>3. QED
    BY <2>1, <2>2
<1> HIDE DEF w, n, k, t
<1>12. n \in Nat
  BY <1>8 DEF n
<1>13. QED
  BY <1>5, <1>7, <1>9, <1>10, <1>11, <1>12

(* The decimal digits of a number.                                         *)
LEMMA DecimalDigits ==
  ASSUME NEW n \in Nat
  PROVE  /\ Decimal(n) \in Seq(Strings) /\ Printed(n) \in Seq(Strings)
         /\ n < Tens[10] => Printed(n) = Decimal(n)
<1> DEFINE Fits(k) == (k > 1 => n >= Tens[k]) /\ (k < 10 => n < Tens[k + 1])
           m == CHOOSE k \in 1 .. 10 : Fits(k)
           d == [i \in 1 .. m |-> Digit[((n \div Tens[m + 1 - i]) % 10) + 1]]
<1>1. \A i \in 1 .. 10 : Tens[i] \in Nat \ {0}
  BY DEF Tens
<1>2. \E k \in 1 .. 10 : Fits(k)
  <2> DEFINE S == {i \in 1 .. 10 : i = 1 \/ n >= Tens[i]}
  <2>1. CASE n < Tens[2]
    BY <2>1 DEF Tens
  <2>2. CASE n >= Tens[2] /\ n < Tens[3]
    BY <2>2 DEF Tens
  <2>3. CASE n >= Tens[3] /\ n < Tens[4]
    BY <2>3 DEF Tens
  <2>4. CASE n >= Tens[4] /\ n < Tens[5]
    BY <2>4 DEF Tens
  <2>5. CASE n >= Tens[5] /\ n < Tens[6]
    BY <2>5 DEF Tens
  <2>6. CASE n >= Tens[6] /\ n < Tens[7]
    BY <2>6 DEF Tens
  <2>7. CASE n >= Tens[7] /\ n < Tens[8]
    BY <2>7 DEF Tens
  <2>8. CASE n >= Tens[8] /\ n < Tens[9]
    BY <2>8 DEF Tens
  <2>9. CASE n >= Tens[9] /\ n < Tens[10]
    BY <2>9 DEF Tens
  <2>10. CASE n >= Tens[10]
    BY <2>10 DEF Tens
  <2>11. \A i \in 1 .. 10 : n < Tens[i] \/ n >= Tens[i]
    BY <1>1
  <2> HIDE DEF Fits
  <2>12. QED
    BY <2>1, <2>2, <2>3, <2>4, <2>5, <2>6, <2>7, <2>8, <2>9, <2>10, <2>11
<1>3. m \in 1 .. 10 /\ Fits(m)
  BY <1>2
<1>4. Decimal(n) = d
  BY DEF Decimal
<1> HIDE DEF m
<1>5. ASSUME NEW i \in 1 .. m PROVE d[i] \in Strings
  <2> DEFINE t == Tens[m + 1 - i]
             j == ((n \div t) % 10) + 1
  <2>1. t \in Nat \ {0}
    <3>1. m + 1 - i \in 1 .. 10
      BY <1>3
    <3>2. QED
      BY <1>1, <3>1
  <2>2. d[i] = Digit[j]
    OBVIOUS
  <2> HIDE DEF t
  <2>3. n \div t \in Nat
    BY <2>1
  <2>4. j \in 1 .. 10
    BY <2>3
  <2> HIDE DEF j
  <2>5. QED
    BY <2>2, <2>4 DEF Strings
<1>6. d \in Seq(Strings) /\ Len(d) = m
  BY <1>3, <1>5
<1> HIDE DEF d
<1>7. Printed(n) \in Seq(Strings)
  <2>1. CASE m <= 9
    BY <1>4, <1>6, <2>1 DEF Printed
  <2>2. CASE ~(m <= 9)
    <3>1. SubSeq(d, 1, 9) \in Seq(Strings)
      BY <1>3, <1>6, <2>2
    <3>2. QED
      BY <1>4, <1>6, <2>2, <3>1 DEF Printed
  <2>3. QED
    BY <2>1, <2>2
<1>8. ASSUME n < Tens[10] PROVE Printed(n) = Decimal(n)
  <2>1. m # 10
    BY <1>1, <1>3, <1>8
  <2>2. QED
    BY <1>3, <1>4, <1>6, <2>1 DEF Printed
<1>9. QED
  BY <1>4, <1>6, <1>7, <1>8

(* What a handler answers with: a body is announced by its printed length. *)
Answerable(r) ==
  /\ r.status \in Statuses /\ r.headers \in Seq(Headers)
  /\ \E B : r.body \in Seq(B)
  /\ r.body_length = Len(r.body)
  /\ r.body # <<>> => Header("Content-Length", Printed(Len(r.body))) \in ToSet(r.headers)

LEMMA WithBodyAnswerable ==
  ASSUME NEW status \in Statuses, NEW B, NEW body \in Seq(B)
  PROVE  Answerable(WithBody(status, body))
<1> DEFINE r == WithBody(status, body)
           x == Header("Content-Type", <<"application/json">>)
           y == Header("Content-Length", Printed(Len(body)))
<1>1. Len(body) \in Nat
  BY LenProperties
<1>2. x \in Headers /\ y \in Headers /\ Origin \in Headers
  <2>1. "application/json" \in Strings /\ "*" \in Strings
    BY DEF Strings
  <2>2. <<"application/json">> \in Seq(Strings) /\ <<"*">> \in Seq(Strings)
    BY <2>1
  <2>3. Printed(Len(body)) \in Seq(Strings)
    BY <1>1, DecimalDigits
  <2>4. QED
    BY <2>2, <2>3 DEF Headers, Header, Origin, Keys
<1>3. r = [status |-> status, body |-> body, body_length |-> Len(body), headers |-> <<x, y, Origin>>]
  BY DEF WithBody
<1> HIDE DEF x, y, r
<1>4. r.headers \in Seq(Headers) /\ y \in ToSet(r.headers)
  <2>1. r.headers = <<x, y, Origin>>
    BY <1>3
  <2>2. <<x, y, Origin>> \in Seq(Headers)
    BY <1>2
  <2>3. y \in ToSet(<<x, y, Origin>>)
    BY DEF ToSet
  <2>4. QED
    BY <2>1, <2>2, <2>3
<1>5. QED
  BY <1>3, <1>4 DEF Answerable, r, y

LEMMA BareAnswerable ==
  ASSUME NEW status \in Statuses, NEW headers \in Seq(Headers)
  PROVE  Answerable(Bare(status, headers))
<1>1. <<>> \in Seq({}) /\ Len(<<>>) = 0
  BY EmptySeq
<1>2. QED
  BY <1>1 DEF Bare, Answerable

LEMMA PlainAnswerable ==
  ASSUME NEW r, r \in Plain \/ r \in {Bare(status, <<Origin>>) : status \in Statuses}
  PROVE  Answerable(r)
<1>1. <<Origin>> \in Seq(Headers) /\ <<Header("Content-Length", <<"0">>)>> \in Seq(Headers)
  <2>1. "*" \in Strings /\ "0" \in Strings
    <3>1. "0" = Digit[1] /\ 1 \in 1 .. 10
      BY DEF Digit
    <3>2. QED
      BY <3>1 DEF Strings
  <2>2. <<"*">> \in Seq(Strings) /\ <<"0">> \in Seq(Strings)
    BY <2>1
  <2>3. Origin \in Headers /\ Header("Content-Length", <<"0">>) \in Headers
    BY <2>2 DEF Origin, Headers, Header, Keys
  <2>4. QED
    BY <2>3
<1>2. 200 \in Statuses /\ 404 \in Statuses /\ 400 \in Statuses /\ {204, 400, 403, 500} \subseteq Statuses
  BY DEF Statuses
<1>3. Repeat(16) \in Seq({"c"}) /\ Repeat(29) \in Seq({"c"})
  BY DEF Repeat
<1>4. Answerable(WithBody(200, Repeat(16))) /\ Answerable(WithBody(404, Repeat(29)))
  BY <1>2, <1>3, WithBodyAnswerable
<1>5. Answerable(Bare(400, <<Header("Content-Length", <<"0">>)>>))
  <2> DEFINE h == <<Header("Content-Length", <<"0">>)>>
  <2>1. 400 \in Statuses /\ h \in Seq(Headers)
    BY ONLY <1>1, <1>2
  <2> HIDE DEF h
  <2>2. Answerable(Bare(400, h))
    BY ONLY <2>1, BareAnswerable
  <2>3. QED
    BY ONLY <2>2 DEF h
<1>6. \A status \in Statuses : Answerable(Bare(status, <<Origin>>))
  BY <1>1, BareAnswerable
<1>7. QED
  BY <1>2, <1>4, <1>5, <1>6 DEF Plain

(* The fourth inductive invariant: what was sent is what was to be sent.   *)
Sent == \A x \in response : Answerable(x.r) /\ x.sent = Send(x.r)

(* Every response, with a body of any length or none, is sent as long as   *)
(* it was written, and its body is announced with its length if that has   *)
(* no more than 9 digits.                                                  *)
THEOREM Exact == Spec => []ResponseIsExact
<1>1. Init => Sent
  BY DEF Init, Sent
<1>2. ASSUME IInv, Sent, [Next]_vars PROVE Sent'
  <2>1. ASSUME NEW r, Reply(r), Answerable(r) PROVE Sent'
    BY <2>1 DEF Reply, Sent
  <2>2. CASE Answer
    <3>1. builder.string \in Seq(Symbol) /\ 200 \in Statuses
      BY <1>2, <2>2 DEF IInv, InMemory, Builder, Text, Statuses, Answer
    <3>2. QED
      BY <2>1, <2>2, <3>1, WithBodyAnswerable DEF Answer
  <2>3. CASE AnswerPlain
    <3>1. PICK r : /\ Reply(r)
                   /\ r \in CASE caller = "other"    -> Plain
                             [] caller = "produtos" -> {Bare(status, <<Origin>>) : status \in {400, 500}}
                             [] caller = "carrinho" -> {Bare(status, <<Origin>>) : status \in {400, 403, 500}}
      BY <2>3 DEF AnswerPlain
    <3>2. caller \in {"other", "produtos", "carrinho"}
      BY <1>2, <2>3 DEF AnswerPlain, IInv, Ready, Listings
    <3>3. {400, 500} \subseteq Statuses /\ {400, 403, 500} \subseteq Statuses
      BY DEF Statuses
    <3>4. r \in Plain \/ r \in {Bare(status, <<Origin>>) : status \in Statuses}
      BY <3>1, <3>2, <3>3
    <3>5. QED
      BY <2>1, <3>1, <3>4, PlainAnswerable
  <2>4. CASE HandlerStep \/ AnyStep \/ Finish \/ UNCHANGED vars
    BY <1>2, <2>4 DEF Sent, HandlerStep, AnyStep, Step, Finish, vars
  <2>5. QED
    BY <1>2, <2>2, <2>3, <2>4 DEF Next
<1>3. ASSUME Sent PROVE ResponseIsExact
  <2> SUFFICES ASSUME NEW x \in response
               PROVE  /\ x.sent.length = x.sent.written
                      /\ x.r.body # <<>> /\ Len(x.r.body) < Tens[10] =>
                           Header("Content-Length", Decimal(Len(BodyText(x.r)))) \in ToSet(x.r.headers)
    BY DEF ResponseIsExact
  <2>1. Answerable(x.r) /\ x.sent = Send(x.r)
    BY <1>3 DEF Sent
  <2>2. PICK B : x.r.body \in Seq(B)
    BY <2>1 DEF Answerable
  <2>3. Send(x.r).length = Send(x.r).written /\ BodyText(x.r) = x.r.body
    BY <2>1, <2>2, SendExact DEF Answerable
  <2>4. Len(x.r.body) \in Nat
    BY <2>2, LenProperties
  <2>5. Len(x.r.body) < Tens[10] => Printed(Len(x.r.body)) = Decimal(Len(x.r.body))
    BY <2>4, DecimalDigits
  <2>6. QED
    BY <2>1, <2>3, <2>5 DEF Answerable
<1>4. QED
  BY <1>1, <1>2, <1>3, Starting, Staying, PTL DEF Spec
=============================================================================
