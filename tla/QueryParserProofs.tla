-------------------------- MODULE QueryParserProofs --------------------------
(***************************************************************************)
(* The query parser, for any limits, any letters and any url.              *)
(***************************************************************************)
EXTENDS QueryParser, SequenceTheorems, FiniteSetTheorems, TLAPS

Character == Letters \cup Marks
Query == [key : [0 .. KeyMax - 1 -> Letters \cup {Nul}], value : [0 .. ValueMax - 1 -> Letters \cup {Nul}]]
States == {"none", "KEY", "KEY_VALUE_END", "VALUE", "VALUE_KEY_END"}

(* A state of the parser: what TypeOK says of it, as a record.             *)
Parser == [queries : [0 .. Length - 1 -> Query], queries_length : 0 .. Length,
           keyIndex : 0 .. KeyMax, valueIndex : 0 .. ValueMax,
           state : States, status : {"parsing", "stopped", "overrun"}]
Room(p) == Parsing(p) => p.queries_length < Length
Typed(p) == p \in Parser /\ Room(p)

LEMMA Limits ==
  /\ KeyMax \in Nat \ {0} /\ ValueMax \in Nat \ {0} /\ Length \in Nat \ {0}
  /\ Nul \notin Character /\ Letters \cap Marks = {}
BY ParserAssumption DEF Character

LEMMA NewTyped == Typed(New)
<1>1. \A n \in Nat \ {0} : Empty(n) \in [0 .. n - 1 -> Letters \cup {Nul}]
  BY DEF Empty
<1>2. [key |-> Empty(KeyMax), value |-> Empty(ValueMax)] \in Query
  BY <1>1, Limits DEF Query
<1>3. QED
  BY <1>2, Limits DEF New, Typed, Parser, Room, Parsing, States

LEMMA PutKeyTyped ==
  ASSUME NEW p \in Parser, p.queries_length < Length, NEW c \in Letters \cup {Nul}
  PROVE  /\ PutKey(p, c) \in Parser
         /\ PutKey(p, c).queries_length = p.queries_length /\ PutKey(p, c).keyIndex = p.keyIndex
         /\ PutKey(p, c).valueIndex = p.valueIndex /\ PutKey(p, c).state = p.state
         /\ PutKey(p, c).status = IF p.keyIndex = KeyMax THEN "overrun" ELSE p.status
<1>1. CASE p.keyIndex = KeyMax
  BY <1>1 DEF PutKey, Overrun, Parser
<1>2. CASE p.keyIndex # KeyMax
  <2> DEFINE n == p.queries_length
             k == p.keyIndex
             q == [p.queries[n] EXCEPT !.key[k] = c]
             all == [p.queries EXCEPT ![n] = q]
  <2>1. n \in 0 .. Length - 1 /\ k \in 0 .. KeyMax - 1
    BY <1>2, Limits DEF Parser
  <2>2. p.queries[n] \in Query
    BY <2>1 DEF Parser
  <2>3. q \in Query
    BY <2>1, <2>2 DEF Query
  <2> HIDE DEF q
  <2>4. all \in [0 .. Length - 1 -> Query]
    BY <2>1, <2>3 DEF Parser
  <2>5. PutKey(p, c) = [p EXCEPT !.queries = all]
    BY <1>2 DEF PutKey, q
  <2> HIDE DEF all
  <2>6. QED
    BY <1>2, <2>4, <2>5 DEF Parser
<1>3. QED
  BY <1>1, <1>2

LEMMA PutValueTyped ==
  ASSUME NEW p \in Parser, p.queries_length < Length, NEW c \in Letters \cup {Nul}
  PROVE  /\ PutValue(p, c) \in Parser
         /\ PutValue(p, c).queries_length = p.queries_length /\ PutValue(p, c).keyIndex = p.keyIndex
         /\ PutValue(p, c).valueIndex = p.valueIndex /\ PutValue(p, c).state = p.state
         /\ PutValue(p, c).status = IF p.valueIndex = ValueMax THEN "overrun" ELSE p.status
<1>1. CASE p.valueIndex = ValueMax
  BY <1>1 DEF PutValue, Overrun, Parser
<1>2. CASE p.valueIndex # ValueMax
  <2> DEFINE n == p.queries_length
             k == p.valueIndex
             q == [p.queries[n] EXCEPT !.value[k] = c]
             all == [p.queries EXCEPT ![n] = q]
  <2>1. n \in 0 .. Length - 1 /\ k \in 0 .. ValueMax - 1
    BY <1>2, Limits DEF Parser
  <2>2. p.queries[n] \in Query
    BY <2>1 DEF Parser
  <2>3. q \in Query
    BY <2>1, <2>2 DEF Query
  <2> HIDE DEF q
  <2>4. all \in [0 .. Length - 1 -> Query]
    BY <2>1, <2>3 DEF Parser
  <2>5. PutValue(p, c) = [p EXCEPT !.queries = all]
    BY <1>2 DEF PutValue, q
  <2> HIDE DEF all
  <2>6. QED
    BY <1>2, <2>4, <2>5 DEF Parser
<1>3. QED
  BY <1>1, <1>2

LEMMA StopTyped ==
  ASSUME NEW p \in Parser
  PROVE  Typed(Stop(p))
BY DEF Parser, Stop, Typed, Room, Parsing

LEMMA EndValueTyped ==
  ASSUME NEW p, Typed(p), Parsing(p)
  PROVE  Typed(EndValue(p))
<1>1. CASE p.keyIndex >= KeyMax
  BY <1>1, StopTyped DEF EndValue, Typed
<1>2. CASE ~(p.keyIndex >= KeyMax)
  <2> DEFINE v == PutValue(p, Nul)
             q == [v EXCEPT !.state = "KEY", !.valueIndex = 0, !.queries_length = @ + 1]
  <2>1. v \in Parser /\ v.queries_length = p.queries_length /\ p.queries_length < Length
    BY PutValueTyped DEF Typed, Room
  <2> HIDE DEF v
  <2>2. q \in Parser
    <3>1. v.queries_length + 1 \in 0 .. Length /\ 0 \in 0 .. ValueMax
      BY <2>1, Limits DEF Parser
    <3>2. QED
      BY <2>1, <3>1 DEF Parser, States
  <2>3. EndValue(p) = IF q.queries_length >= Length /\ Parsing(q) THEN Stop(q) ELSE q
    BY <1>2 DEF EndValue, v
  <2> HIDE DEF q
  <2>4. q.queries_length \in Int /\ Length \in Int
    BY <2>2, Limits DEF Parser
  <2>5. QED
    BY <2>2, <2>3, <2>4, StopTyped DEF Typed, Room
<1>3. QED
  BY <1>1, <1>2

LEMMA EndKeyTyped ==
  ASSUME NEW p, Typed(p), Parsing(p)
  PROVE  Typed(EndKey(p)) /\ EndKey(p).valueIndex = p.valueIndex
<1> DEFINE v == PutKey(p, Nul)
<1>1. /\ v \in Parser /\ v.queries_length = p.queries_length /\ p.queries_length < Length
      /\ v.valueIndex = p.valueIndex
  BY PutKeyTyped DEF Typed, Room
<1>2. EndKey(p) = [v EXCEPT !.state = "VALUE", !.keyIndex = 0]
  BY DEF EndKey
<1> HIDE DEF v
<1>3. EndKey(p) = [queries |-> v.queries, queries_length |-> v.queries_length, keyIndex |-> 0,
                   valueIndex |-> v.valueIndex, state |-> "VALUE", status |-> v.status]
  BY <1>1, <1>2 DEF Parser
<1>4. 0 \in 0 .. KeyMax
  BY Limits
<1>5. EndKey(p) \in Parser
  BY <1>1, <1>3, <1>4 DEF Parser, States
<1>6. QED
  BY <1>1, <1>3, <1>5 DEF Typed, Room

LEMMA LetterOfKeyTyped ==
  ASSUME NEW p, Typed(p), Parsing(p), NEW c \in Letters
  PROVE  Typed(LetterOfKey(p, c))
<1> DEFINE q == IF p.state = "KEY_VALUE_END" THEN EndValue(p) ELSE p
           v == PutKey(q, c)
<1>1. Typed(q)
  BY EndValueTyped
<1>2. LetterOfKey(p, c) = IF ~Parsing(q) THEN q
                          ELSE IF q.keyIndex >= KeyMax THEN Stop(q)
                          ELSE [v EXCEPT !.keyIndex = @ + 1]
  BY DEF LetterOfKey
<1> HIDE DEF q
<1>3. CASE Parsing(q) /\ ~(q.keyIndex >= KeyMax)
  <2>1. /\ v \in Parser /\ v.queries_length = q.queries_length /\ q.queries_length < Length
        /\ v.keyIndex = q.keyIndex
    BY <1>1, <1>3, PutKeyTyped DEF Typed, Room
  <2> HIDE DEF v
  <2>2. v.keyIndex + 1 \in 0 .. KeyMax
    BY <1>3, <2>1, Limits DEF Parser
  <2>3. QED
    BY <1>2, <1>3, <2>1, <2>2 DEF Typed, Parser, Room, Parsing
<1>4. QED
  BY <1>1, <1>2, <1>3, StopTyped DEF Typed

LEMMA LetterOfValueTyped ==
  ASSUME NEW p, Typed(p), Parsing(p), NEW c \in Letters
  PROVE  Typed(LetterOfValue(p, c))
<1> DEFINE q == IF p.state = "VALUE_KEY_END" THEN EndKey(p) ELSE p
           v == PutValue(q, c)
<1>1. Typed(q) /\ q.valueIndex = p.valueIndex
  BY EndKeyTyped
<1>2. LetterOfValue(p, c) = IF p.valueIndex >= ValueMax THEN Stop(p)
                            ELSE IF Parsing(q) THEN [v EXCEPT !.valueIndex = @ + 1] ELSE q
  BY DEF LetterOfValue
<1> HIDE DEF q
<1>3. CASE Parsing(q) /\ ~(p.valueIndex >= ValueMax)
  <2>1. /\ v \in Parser /\ v.queries_length = q.queries_length /\ q.queries_length < Length
        /\ v.valueIndex = q.valueIndex
    BY <1>1, <1>3, PutValueTyped DEF Typed, Room
  <2> HIDE DEF v
  <2>2. v.valueIndex + 1 \in 0 .. ValueMax
    BY <1>1, <1>3, <2>1, Limits DEF Parser
  <2>3. QED
    BY <1>2, <1>3, <2>1, <2>2 DEF Typed, Parser, Room, Parsing
<1>4. QED
  BY <1>1, <1>2, <1>3, StopTyped DEF Typed

LEMMA ReadTyped ==
  ASSUME NEW p, Typed(p), NEW c \in Character
  PROVE  Typed(Read(p, c))
<1>1. CASE ~Parsing(p) \/ p.queries_length >= Length
  BY <1>1, StopTyped DEF Read, Typed
<1>2. CASE Parsing(p) /\ ~(p.queries_length >= Length)
  <2>1. Read(p, c) = Turn(p, c)
    BY <1>2 DEF Read
  <2>2. CASE c \in Marks
    <3>1. \A s \in States : Typed([p EXCEPT !.state = s])
      BY DEF Typed, Parser, Room, Parsing
    <3>2. Turn(p, c) \in {[p EXCEPT !.state = s] : s \in States}
      <4>1. CASE c = "?"
        BY <2>2, <4>1, Limits DEF Turn, States
      <4>2. CASE c = "="
        BY <2>2, <4>2, Limits DEF Turn, States
      <4>3. CASE c = "&"
        BY <2>2, <4>3, Limits DEF Turn, States
      <4>4. QED
        BY <2>2, <4>1, <4>2, <4>3 DEF Marks
    <3>3. QED
      BY <2>1, <3>1, <3>2
  <2>3. CASE c \in Letters
    <3>1. c \notin Marks
      BY <2>3, Limits
    <3>2. p.state \in States
      BY DEF Typed, Parser
    <3>3. Turn(p, c) = CASE p.state \in {"KEY", "KEY_VALUE_END"}   -> LetterOfKey(p, c)
                         [] p.state \in {"VALUE", "VALUE_KEY_END"} -> LetterOfValue(p, c)
                         [] p.state = "none"                       -> p
      BY <2>3, <3>1, <3>2 DEF Turn, Marks, States
    <3>4. Typed(LetterOfKey(p, c)) /\ Typed(LetterOfValue(p, c))
      BY <1>2, <2>3, LetterOfKeyTyped, LetterOfValueTyped
    <3>5. QED
      BY <2>1, <3>2, <3>3, <3>4 DEF States
  <2>4. QED
    BY <2>2, <2>3 DEF Character
<1>3. QED
  BY <1>1, <1>2

-----------------------------------------------------------------------------
(* The loop over a piece, for the arguments a: where it begins and the     *)
(* piece.                                                                  *)
LoopBase(a) == a.from
LoopStep(a, p, i) == Read(p, a.piece[i])
LoopTyped(a, p, i) == Typed(p)
Loop == INSTANCE Recursion WITH Base <- LoopBase, Step <- LoopStep, Holds <- LoopTyped

LEMMA ReadAllTyped ==
  ASSUME NEW p, Typed(p), NEW piece \in Seq(Character)
  PROVE  Typed(ReadAll(p, piece))
<1> DEFINE a == [from |-> p, piece |-> piece]
           n == Len(piece)
<1>1. a.from = p /\ a.piece = piece /\ n \in Nat
  BY LenProperties
<1> HIDE DEF a
<1>2. ReadAll(p, piece) = Loop!Run(a, 0, n)[n]
  BY <1>1 DEF ReadAll, Loop!Run, Loop!Loop, LoopBase, LoopStep
<1> HIDE DEF n
<1>3. LoopTyped(a, LoopBase(a), 0)
  BY <1>1 DEF LoopTyped, LoopBase
<1>4. ASSUME NEW i \in 0 + 1 .. n, NEW x, LoopTyped(a, x, i - 1)
      PROVE  LoopTyped(a, LoopStep(a, x, i), i)
  <2>1. piece[i] \in Character
    BY <1>1, ElementOfSeq DEF n
  <2>2. QED
    BY <1>1, <1>4, <2>1, ReadTyped DEF LoopTyped, LoopStep
<1>5. LoopTyped(a, Loop!Run(a, 0, n)[n], n)
  <2>1. 0 \in Int /\ n \in Int /\ 0 <= n
    BY <1>1
  <2>2. QED
    BY <1>3, <1>4, <2>1, Loop!Invariant
<1>6. QED
  BY <1>2, <1>5 DEF LoopTyped

(* Whatever a url says and however long it is, the parser's indices stay   *)
(* inside its arrays as long as no write left one.                         *)
THEOREM Typing == Spec => []TypeOK
<1> DEFINE Inv == url \in Seq(Character) /\ pieces \in 0 .. MaxPieces /\ Typed(parser)
<1>1. Init => Inv
  BY NewTyped, EmptySeq, ParserAssumption DEF Init
<1>2. ASSUME Inv, [Next]_vars PROVE Inv'
  <2>1. ASSUME NEW piece \in Pieces, Grow(piece) PROVE Inv'
    <3>1. piece \in Seq(Character)
      BY ParserAssumption DEF Character
    <3>2. Typed(parser')
      BY <1>2, <2>1, <3>1, ReadAllTyped DEF Grow
    <3>3. url' \in Seq(Character)
      BY <1>2, <2>1, <3>1, ConcatProperties DEF Grow
    <3>4. pieces' \in 0 .. MaxPieces
      BY <1>2, <2>1, ParserAssumption DEF Grow
    <3>5. QED
      BY <3>2, <3>3, <3>4
  <2>2. CASE UNCHANGED vars
    BY <1>2, <2>2 DEF vars
  <2>3. QED
    BY <1>2, <2>1, <2>2 DEF Next
<1>3. Inv => TypeOK
  BY DEF TypeOK, Character, Typed, Parser, Query, Room, States
<1>4. QED
  BY <1>1, <1>2, <1>3, PTL DEF Spec

-----------------------------------------------------------------------------
(* How a tidy url is laid out.  A parameter begins at its mark, s; the last *)
(* letters of its key and of its value are at KeyEnd(s) and ValueEnd(s).    *)
KeyEnd(s) == EndOfRun(s)
ValueEnd(s) == EndOfRun(KeyEnd(s) + 1)

LEMMA RunEnds ==
  ASSUME url \in Seq(Character), NEW i \in 0 .. Len(url)
  PROVE  /\ EndOfRun(i) \in i .. Len(url)
         /\ At(EndOfRun(i) + 1) \notin Letters
         /\ \A h \in i + 1 .. EndOfRun(i) : url[h] \in Letters
<1> DEFINE n == Len(url)
           S == {j \in i .. n : \A h \in i + 1 .. j : url[h] \in Letters}
<1>1. n \in Nat /\ DOMAIN url = 1 .. n
  BY LenProperties
<1> HIDE DEF n
<1>2. PICK j \in S : \A k \in S : k <= j
  <2>1. i \in S /\ S \in SUBSET (0 .. n)
    BY <1>1 DEF n
  <2>2. QED
    BY <1>1, <2>1, Loop!LastExists
<1>3. At(j + 1) \notin Letters
  <2> SUFFICES ASSUME At(j + 1) \in Letters PROVE FALSE
    OBVIOUS
  <2>1. j + 1 \in 1 .. n /\ url[j + 1] \in Letters
    BY <1>1, Limits DEF At, Character
  <2>2. j + 1 \in S
    BY <1>2, <2>1
  <2>3. QED
    BY <1>2, <2>2
<1>4. QED
  BY <1>2, <1>3 DEF EndOfRun, n

LEMMA Layout ==
  ASSUME url \in Seq(Character), Tidy, NEW s \in Starts
  PROVE  /\ s \in 1 .. Len(url) /\ KeyEnd(s) \in s + 1 .. Len(url) - 1
         /\ ValueEnd(s) \in KeyEnd(s) + 1 .. Len(url)
         /\ url[KeyEnd(s) + 1] = "="
         /\ \A h \in s + 1 .. KeyEnd(s) : url[h] \in Letters
         /\ \A h \in KeyEnd(s) + 2 .. ValueEnd(s) : url[h] \in Letters
         /\ ValueEnd(s) = Len(url) \/ (ValueEnd(s) + 1 \in Starts /\ url[ValueEnd(s) + 1] = "&")
         /\ Len(Key(s)) = KeyEnd(s) - s
         /\ \A h \in 1 .. KeyEnd(s) - s : Key(s)[h] = url[s + h]
         /\ Len(Value(s)) = ValueEnd(s) - KeyEnd(s) - 1
         /\ \A h \in 1 .. ValueEnd(s) - KeyEnd(s) - 1 : Value(s)[h] = url[KeyEnd(s) + 1 + h]
         /\ Value(s) = <<>> <=> ValueEnd(s) = KeyEnd(s) + 1
         /\ Key(s) \in Seq(Letters) /\ Value(s) \in Seq(Letters)
<1> DEFINE n == Len(url)
           k == KeyEnd(s)
           v == ValueEnd(s)
<1>1. n \in Nat /\ DOMAIN url = 1 .. n /\ n = Len(url)
  BY LenProperties
<1>0. k = EndOfRun(s) /\ v = EndOfRun(k + 1)
  BY DEF KeyEnd, ValueEnd
<1> HIDE DEF n, k, v
<1>2. s \in 1 .. n
  BY <1>1 DEF Starts
<1>3. k \in s .. n /\ \A h \in s + 1 .. k : url[h] \in Letters
  <2>1. s \in 0 .. Len(url)
    BY <1>1, <1>2
  <2>2. QED
    BY <1>0, <1>1, <2>1, RunEnds
<1>4. Key(s) # <<>> /\ At(k + 1) = "=" /\ At(v + 1) \in {"&", Nul}
  BY <1>0 DEF Tidy
<1>5. k + 1 \in 1 .. n /\ url[k + 1] = "="
  BY <1>1, <1>3, <1>4, Limits DEF At, Character, Marks
<1>6. v \in k + 1 .. n /\ \A h \in k + 2 .. v : url[h] \in Letters
  <2>1. k + 1 \in 0 .. Len(url) /\ k + 1 + 1 = k + 2
    BY <1>1, <1>3, <1>5
  <2>2. v \in k + 1 .. Len(url) /\ \A h \in k + 1 + 1 .. v : url[h] \in Letters
    BY <1>0, <2>1, RunEnds
  <2>3. QED
    BY <1>1, <2>1, <2>2
<1>7. v = n \/ (v + 1 \in Starts /\ url[v + 1] = "&")
  <2>1. CASE v + 1 \in DOMAIN url
    <3>1. url[v + 1] # Nul
      BY <2>1, <1>1, Limits, ElementOfSeq
    <3>2. QED
      BY <2>1, <3>1, <1>4 DEF At, Starts
  <2>2. CASE v + 1 \notin DOMAIN url
    <3>1. k + 1 \in Int /\ k + 1 >= 1
      BY <1>5
    <3>2. v \in Int /\ v >= 1 /\ v <= n
      BY <1>1, <1>5, <1>6, <3>1
    <3>3. v + 1 \notin 1 .. n /\ n \in Int
      BY <1>1, <2>2
    <3>4. v = n
      BY <3>2, <3>3
    <3>5. QED
      BY <3>4
  <2>3. QED
    BY <2>1, <2>2
<1>8. \A a, b \in 0 .. n : a <= b /\ (\A h \in a + 1 .. b : url[h] \in Letters) =>
        /\ SubSeq(url, a + 1, b) \in Seq(Letters)
        /\ Len(SubSeq(url, a + 1, b)) = b - a
        /\ \A h \in 1 .. b - a : SubSeq(url, a + 1, b)[h] = url[a + h]
        /\ SubSeq(url, a + 1, b) = <<>> <=> a = b
  <2> SUFFICES ASSUME NEW a \in 0 .. n, NEW b \in 0 .. n, a <= b,
                      \A h \in a + 1 .. b : url[h] \in Letters
               PROVE  /\ SubSeq(url, a + 1, b) \in Seq(Letters)
                      /\ Len(SubSeq(url, a + 1, b)) = b - a
                      /\ \A h \in 1 .. b - a : SubSeq(url, a + 1, b)[h] = url[a + h]
                      /\ SubSeq(url, a + 1, b) = <<>> <=> a = b
    OBVIOUS
  <2> DEFINE t == SubSeq(url, a + 1, b)
  <2>1. t = [h \in 1 .. b - a |-> url[a + h]]
    <3>1. t = [h \in 1 .. (b - (a + 1) + 1) |-> url[(a + 1) + h - 1]]
      BY DEF SubSeq
    <3>2. b - (a + 1) + 1 = b - a /\ \A h \in 1 .. b - a : (a + 1) + h - 1 = a + h
      BY <1>1
    <3>3. QED
      BY <3>1, <3>2
  <2> HIDE DEF t
  <2>2. \A h \in 1 .. b - a : t[h] = url[a + h] /\ url[a + h] \in Letters
    BY <1>1, <2>1
  <2>3. b - a \in Nat
    BY <1>1
  <2>4. t \in Seq(Letters) /\ Len(t) = b - a
    <3> DEFINE m == b - a
    <3>1. t = [h \in 1 .. m |-> t[h]] /\ \A h \in 1 .. m : t[h] \in Letters
      BY <2>1, <2>2
    <3>2. m \in Nat
      BY <2>3
    <3> HIDE DEF m
    <3>3. t \in Seq(Letters)
      BY <3>1, <3>2, IsASeq
    <3>4. DOMAIN t = 1 .. m
      BY <3>1
    <3>5. Len(t) = m
      BY <3>2, <3>3, <3>4, LenProperties
    <3>6. QED
      BY <3>3, <3>5 DEF m
  <2>5. t = <<>> <=> a = b
    BY <2>4, <2>3, EmptySeq
  <2>6. QED
    BY <2>2, <2>4, <2>5 DEF t
<1>9. /\ Key(s) \in Seq(Letters) /\ Len(Key(s)) = k - s /\ (Key(s) = <<>> <=> s = k)
      /\ \A h \in 1 .. k - s : Key(s)[h] = url[s + h]
  <2>1. s \in 0 .. n /\ k \in 0 .. n /\ s <= k
    BY <1>1, <1>2, <1>3
  <2>2. Key(s) = SubSeq(url, s + 1, k)
    BY <1>0 DEF Key, Run
  <2>3. QED
    BY <1>3, <1>8, <2>1, <2>2
<1>10. /\ Value(s) \in Seq(Letters) /\ Len(Value(s)) = v - (k + 1) /\ (Value(s) = <<>> <=> k + 1 = v)
       /\ \A h \in 1 .. v - (k + 1) : Value(s)[h] = url[k + 1 + h]
  <2>1. k + 1 \in 0 .. n /\ v \in 0 .. n /\ k + 1 <= v
    BY <1>1, <1>2, <1>3, <1>5, <1>6
  <2>2. k + 2 = (k + 1) + 1
    BY <1>1, <1>3
  <2>3. Value(s) = SubSeq(url, (k + 1) + 1, v)
    BY <1>0 DEF Value, Run
  <2>4. \A h \in (k + 1) + 1 .. v : url[h] \in Letters
    BY <1>6, <2>2
  <2>5. QED
    BY <1>8, <2>1, <2>3, <2>4
<1>11. v - (k + 1) = v - k - 1 /\ (k + 1 = v <=> v = k + 1) /\ s # k /\ k \in s + 1 .. n - 1
  BY <1>1, <1>2, <1>3, <1>4, <1>5, <1>6, <1>9
<1>12. QED
  BY <1>1, <1>2, <1>3, <1>5, <1>6, <1>7, <1>9, <1>10, <1>11 DEF n, k, v

LEMMA Ends ==
  ASSUME url \in Seq(Character), Tidy, NEW s \in Starts
  PROVE  /\ s \in Nat /\ KeyEnd(s) \in Nat /\ ValueEnd(s) \in Nat /\ Len(url) \in Nat
         /\ 1 <= s /\ s < KeyEnd(s) /\ KeyEnd(s) < ValueEnd(s) /\ ValueEnd(s) <= Len(url)
<1>1. Len(url) \in Nat
  BY LenProperties
<1>2. s \in 1 .. Len(url) /\ KeyEnd(s) \in s + 1 .. Len(url) - 1
      /\ ValueEnd(s) \in KeyEnd(s) + 1 .. Len(url)
  BY Layout
<1> HIDE DEF KeyEnd, ValueEnd
<1>3. QED
  BY <1>1, <1>2

LEMMA NoneInside ==
  ASSUME url \in Seq(Character), Tidy, NEW s \in Starts, NEW h \in s + 1 .. ValueEnd(s)
  PROVE  h \notin Starts
<1> DEFINE k == KeyEnd(s)
           v == ValueEnd(s)
<1>1. /\ s \in Int /\ k \in Int /\ v \in Int /\ url[k + 1] = "="
      /\ \A i \in s + 1 .. k : url[i] \in Letters
      /\ \A i \in k + 2 .. v : url[i] \in Letters
  BY Layout
<1>2. url[h] \notin {"?", "&"}
  <2> HIDE DEF k, v
  <2>1. CASE h = k + 1
    BY <1>1, <2>1
  <2>2. CASE h # k + 1
    <3>1. h \in s + 1 .. k \/ h \in k + 2 .. v
      BY <1>1, <2>2 DEF v
    <3>2. url[h] \in Letters
      BY <1>1, <3>1
    <3>3. QED
      BY <3>2, Limits DEF Marks
  <2>3. QED
    BY <2>1, <2>2
<1>3. QED
  BY <1>2 DEF Starts

(* The parameter behind another one.                                       *)
LEMMA Following ==
  ASSUME url \in Seq(Character), Tidy, NEW r \in Starts, NEW s \in Starts, s = ValueEnd(r) + 1
  PROVE  Before(s) = Before(r) \cup {r} /\ r \notin Before(r)
<1> DEFINE v == ValueEnd(r)
<1>1. r \in Int /\ v \in Int /\ r < v
  BY Ends
<1>2. \A h \in Starts : h \in Int
  BY Layout
<1>3. \A h \in Starts : h \notin r + 1 .. v
  BY NoneInside
<1>4. s = v + 1
  OBVIOUS
<1> HIDE DEF v
<1>5. \A h \in Starts : h < s <=> (h < r \/ h = r)
  BY <1>1, <1>2, <1>3, <1>4
<1>6. Before(s) = Before(r) \cup {r}
  BY <1>5 DEF Before
<1>7. r \notin Before(r)
  BY <1>1 DEF Before
<1>8. QED
  BY <1>6, <1>7

LEMMA Preceded ==
  ASSUME url \in Seq(Character), Tidy, NEW s \in Starts, Before(s) # {}
  PROVE  \E r \in Starts : s = ValueEnd(r) + 1
<1> DEFINE n == Len(url)
<1>1. n \in Nat /\ \A h \in Starts : h \in 1 .. n
  BY Layout, LenProperties
<1> HIDE DEF n
<1>2. PICK r \in Before(s) : \A h \in Before(s) : h <= r
  <2>1. Before(s) \in SUBSET (0 .. n)
    BY <1>1 DEF Before
  <2>2. QED
    BY <1>1, <2>1, Loop!LastExists
<1>3. r \in Starts /\ r < s
  BY <1>2 DEF Before
<1> DEFINE v == ValueEnd(r)
<1>4. v \in Int /\ v <= n /\ (v = n \/ v + 1 \in Starts) /\ r < v
  BY <1>3, Layout DEF n
<1>5. s \notin r + 1 .. v
  BY <1>3, NoneInside
<1> HIDE DEF v
<1>6. v < s
  BY <1>1, <1>3, <1>4, <1>5
<1>7. v + 1 \in Starts
  BY <1>1, <1>4, <1>6
<1>8. ~(v + 1 < s)
  BY <1>1, <1>2, <1>3, <1>4, <1>7 DEF Before
<1>9. s = v + 1
  BY <1>1, <1>4, <1>6, <1>8
<1>10. QED
  BY <1>3, <1>9 DEF v

(* How many parameters there are before one: where the parser stores it.   *)
Index(s) == Cardinality(Before(s))

LEMMA Indices ==
  ASSUME url \in Seq(Character), Tidy, NEW s \in Starts
  PROVE  /\ IsFiniteSet(Before(s)) /\ Index(s) \in Nat
         /\ Before(s) = {} => Index(s) = 0
         /\ \A r \in Starts : s = ValueEnd(r) + 1 => Index(s) = Index(r) + 1
         /\ \A r \in Before(s) : Index(r) < Index(s)
<1> DEFINE n == Len(url)
<1>1. n \in Nat /\ \A h \in Starts : h \in 1 .. n
  BY Layout, LenProperties
<1>2. ASSUME NEW h \in Starts PROVE IsFiniteSet(Before(h)) /\ Index(h) \in Nat
  <2>1. Before(h) \subseteq 1 .. n /\ IsFiniteSet(1 .. n)
    BY <1>1, FS_Interval DEF Before
  <2>2. IsFiniteSet(Before(h))
    BY <2>1, FS_Subset
  <2>3. QED
    BY <2>2, FS_CardinalityType DEF Index
<1>3. Before(s) = {} => Index(s) = 0
  BY FS_EmptySet DEF Index
<1>4. ASSUME NEW r \in Starts, s = ValueEnd(r) + 1 PROVE Index(s) = Index(r) + 1
  <2>1. Before(s) = Before(r) \cup {r} /\ r \notin Before(r)
    BY <1>4, Following
  <2>2. QED
    BY <1>2, <2>1, FS_AddElement DEF Index
<1>5. ASSUME NEW r \in Before(s) PROVE Index(r) < Index(s)
  <2>1. r \in Starts /\ r < s
    BY <1>5 DEF Before
  <2>2. r \notin Before(r) /\ Before(r) \cup {r} \subseteq Before(s)
    BY <1>1, <2>1 DEF Before
  <2>3. IsFiniteSet(Before(r)) /\ IsFiniteSet(Before(s)) /\ Index(r) \in Nat /\ Index(s) \in Nat
    BY <1>2, <2>1
  <2>4. Cardinality(Before(r) \cup {r}) = Index(r) + 1
    BY <2>2, <2>3, FS_AddElement DEF Index
  <2>5. Cardinality(Before(r) \cup {r}) <= Index(s)
    BY <2>2, <2>3, FS_Subset DEF Index
  <2>6. QED
    BY <2>3, <2>4, <2>5
<1>6. QED
  BY <1>2, <1>3, <1>4, <1>5

LEMMA IndexedOnce ==
  ASSUME url \in Seq(Character), Tidy, NEW r \in Starts, NEW s \in Starts
  PROVE  (Index(r) < Index(s) <=> r < s) /\ (Index(r) = Index(s) <=> r = s)
<1>1. r \in Int /\ s \in Int /\ Index(r) \in Int /\ Index(s) \in Int
  BY Layout, Indices
<1>2. r < s => Index(r) < Index(s)
  BY Indices DEF Before
<1>3. s < r => Index(s) < Index(r)
  BY Indices DEF Before
<1>4. QED
  BY <1>1, <1>2, <1>3

(* Every query that is filled is one of the parameters.                    *)
LEMMA EachIndexed ==
  ASSUME url \in Seq(Character), Tidy, NEW s \in Starts, NEW q \in 0 .. Index(s) - 1
  PROVE  \E r \in Before(s) : Index(r) = q
<1> DEFINE Found(h) == \A i \in 0 .. Index(h) - 1 : \E r \in Before(h) : Index(r) = i
           S == {n \in Nat : \A h \in Starts : h <= n => Found(h)}
<1>1. \A h \in Starts : h \in Nat /\ h >= 1 /\ Index(h) \in Nat
  BY Layout, Indices
<1>2. 0 \in S
  BY <1>1
<1>3. ASSUME NEW n \in Nat, n \in S PROVE n + 1 \in S
  <2> SUFFICES ASSUME NEW h \in Starts, h <= n + 1, NEW i \in 0 .. Index(h) - 1
               PROVE  \E r \in Before(h) : Index(r) = i
    OBVIOUS
  <2>1. Before(h) # {}
    BY Indices
  <2>2. PICK r \in Starts : h = ValueEnd(r) + 1
    BY <2>1, Preceded
  <2>3. Before(h) = Before(r) \cup {r} /\ Index(h) = Index(r) + 1
    BY <2>2, Following, Indices
  <2>4. r <= n
    <3>1. r \in Before(h)
      BY <2>3
    <3>2. QED
      BY <1>1, <3>1 DEF Before
  <2>5. Found(r)
    BY <1>3, <2>4
  <2>6. CASE i = Index(r)
    BY <2>3, <2>6
  <2>7. CASE i # Index(r)
    <3>1. i \in 0 .. Index(r) - 1
      <4>1. Index(r) \in Nat /\ Index(h) = Index(r) + 1
        BY <1>1, <2>3
      <4>2. QED
        BY ONLY <2>7, <4>1, i \in 0 .. Index(h) - 1
    <3>2. QED
      BY <2>3, <2>5, <3>1
  <2>8. QED
    BY <2>6, <2>7
<1>4. s \in S
  <2> HIDE DEF S
  <2>1. QED
    BY <1>1, <1>2, <1>3, Loop!Induction
<1>5. QED
  BY <1>1, <1>4

-----------------------------------------------------------------------------
(* Where a key is stored in its array: behind the keys of the empty values *)
(* right before it.                                                        *)
Offset(s) == KeyMax - KeyRoom(s) - (KeyEnd(s) - s)

Filled(s) == {r \in Before(s) : Value(r) # <<>>}
Chain(s) == {r \in Starts : r <= s /\ \A f \in Filled(s) : f < r}
Cells(s) == UNION {r + 1 .. KeyEnd(r) : r \in Chain(s)}

LEMMA HiddenBehind ==
  ASSUME url \in Seq(Character), Tidy, NEW s \in Starts
  PROVE  /\ Before(s) = {} => ~Hidden(s)
         /\ \A r \in Starts : s = ValueEnd(r) + 1 => (Hidden(s) <=> ValueEnd(r) = KeyEnd(r) + 1)
<1>1. ASSUME NEW r \in Starts, s = ValueEnd(r) + 1 PROVE Hidden(s) <=> ValueEnd(r) = KeyEnd(r) + 1
  <2>1. Before(s) = Before(r) \cup {r}
    BY <1>1, Following
  <2>2. r \in Int /\ \A h \in Before(r) : h \in Int /\ h < r
    BY Ends DEF Before
  <2>3. r \in Before(s) /\ \A h \in Before(s) : h <= r
    BY <2>1, <2>2
  <2>4. \A h \in Before(s) : (\A q \in Before(s) : q <= h) => h = r
    BY <2>1, <2>2, <2>3
  <2>5. Value(r) = <<>> <=> ValueEnd(r) = KeyEnd(r) + 1
    BY Layout
  <2>6. QED
    BY <2>3, <2>4, <2>5 DEF Hidden
<1>2. QED
  BY <1>1 DEF Hidden

LEMMA CellsFinite ==
  ASSUME url \in Seq(Character), Tidy, NEW s \in Starts
  PROVE  /\ IsFiniteSet(Cells(s)) /\ Cardinality(Cells(s)) \in Nat
         /\ \A i \in Cells(s) : i \in 1 .. KeyEnd(s)
         /\ KeyRoom(s) = KeyMax - Cardinality(Cells(s))
<1>1. \A r \in Starts : r \in Int /\ r >= 1 /\ KeyEnd(r) \in Int /\ r < KeyEnd(r) /\ KeyEnd(r) < ValueEnd(r) /\ ValueEnd(r) \in Int
  BY Ends
<1>2. ASSUME NEW i \in Cells(s) PROVE i \in 1 .. KeyEnd(s)
  <2>1. PICK r \in Starts : r <= s /\ i \in r + 1 .. KeyEnd(r)
    BY DEF Cells, Chain
  <2>2. s \notin r + 1 .. ValueEnd(r)
    BY NoneInside
  <2>3. r = s \/ ValueEnd(r) < s
    BY <1>1, <2>1, <2>2
  <2>4. QED
    BY <1>1, <2>1, <2>3
<1>3. IsFiniteSet(Cells(s)) /\ Cardinality(Cells(s)) \in Nat
  <2>1. IsFiniteSet(1 .. KeyEnd(s)) /\ Cells(s) \subseteq 1 .. KeyEnd(s)
    BY <1>1, <1>2, FS_Interval
  <2>2. QED
    BY <2>1, FS_Subset, FS_CardinalityType
<1>4. KeyRoom(s) = KeyMax - Cardinality(Cells(s))
  BY DEF KeyRoom, Cells, Chain, Filled, KeyEnd
<1>5. QED
  BY <1>2, <1>3, <1>4

LEMMA Offsets ==
  ASSUME url \in Seq(Character), Tidy, NEW s \in Starts
  PROVE  /\ KeyRoom(s) \in Int /\ Offset(s) \in Nat
         /\ Hidden(s) => Offset(s) > 0
         /\ ~Hidden(s) => Offset(s) = 0
         /\ \A r \in Starts : s = ValueEnd(r) + 1 /\ Hidden(s) => Offset(s) = KeyMax - KeyRoom(r)
         /\ KeyMax - KeyRoom(s) = Offset(s) + (KeyEnd(s) - s)
<1> DEFINE own == s + 1 .. KeyEnd(s)
<1>1. \A r \in Starts : r \in Int /\ KeyEnd(r) \in Int /\ r < KeyEnd(r) /\ KeyEnd(r) < ValueEnd(r) /\ ValueEnd(r) \in Int
  BY Ends
<1>2. IsFiniteSet(own) /\ Cardinality(own) = KeyEnd(s) - s
  <2> DEFINE k == KeyEnd(s)
  <2>1. s + 1 \in Int /\ k \in Int /\ s + 1 <= k /\ k - (s + 1) + 1 = k - s
    BY <1>1
  <2> HIDE DEF k
  <2>2. IsFiniteSet(s + 1 .. k) /\ Cardinality(s + 1 .. k) = k - (s + 1) + 1
    BY <2>1, FS_Interval
  <2>3. QED
    BY <2>1, <2>2 DEF k
<1>3. s \in Chain(s)
  BY <1>1 DEF Chain, Filled, Before
<1>4. \A r \in Starts : /\ IsFiniteSet(Cells(r)) /\ Cardinality(Cells(r)) \in Nat
                        /\ \A i \in Cells(r) : i \in 1 .. KeyEnd(r)
                        /\ KeyRoom(r) = KeyMax - Cardinality(Cells(r))
  BY CellsFinite
<1>5. ASSUME ~Hidden(s) PROVE Cells(s) = own
  <2>1. Chain(s) = {s}
    <3>1. CASE Before(s) = {}
      <4>1. \A h \in Starts : ~(h < s)
        BY <3>1 DEF Before
      <4>2. QED
        BY <1>1, <1>3, <4>1 DEF Chain
    <3>2. CASE Before(s) # {}
      <4>1. PICK r \in Starts : s = ValueEnd(r) + 1
        BY <3>2, Preceded
      <4>2. Before(s) = Before(r) \cup {r} /\ Value(r) # <<>>
        BY <1>5, <4>1, Following, HiddenBehind, Layout
      <4>3. r \in Filled(s)
        BY <4>2 DEF Filled
      <4>4. \A h \in Chain(s) : h \in Starts /\ h <= s /\ r < h
        BY <4>3 DEF Chain
      <4>5. \A h \in Starts : h < s => h \in Before(r) \/ h = r
        BY <4>2 DEF Before
      <4>6. \A h \in Chain(s) : h = s
        BY <1>1, <4>4, <4>5 DEF Before
      <4>7. QED
        BY <1>3, <4>6
    <3>3. QED
      BY <3>1, <3>2
  <2>2. QED
    BY <2>1 DEF Cells
<1>6. ASSUME Hidden(s), NEW r \in Starts, s = ValueEnd(r) + 1
      PROVE  Cells(s) = Cells(r) \cup own /\ Cells(r) \cap own = {}
  <2>1. Before(s) = Before(r) \cup {r} /\ Value(r) = <<>>
    BY <1>6, Following, HiddenBehind, Layout
  <2>2. Filled(s) = Filled(r)
    BY <2>1 DEF Filled
  <2>3. Chain(s) = Chain(r) \cup {s}
    <3>1. \A h \in Starts : h <= s <=> (h <= r \/ h = s)
      <4>1. \A h \in Starts : h < s <=> (h < r \/ h = r)
        BY <2>1 DEF Before
      <4>2. QED
        BY <1>1, <4>1
    <3>2. QED
      BY <1>3, <2>2, <3>1 DEF Chain
  <2>4. Cells(s) = Cells(r) \cup own
    BY <2>3 DEF Cells
  <2>5. \A i \in Cells(r) : i \notin own
    BY <1>1, <1>4, <1>6
  <2>6. QED
    BY <2>4, <2>5
<1>7. ASSUME Hidden(s), NEW r \in Starts, s = ValueEnd(r) + 1
      PROVE  Cardinality(Cells(s)) = Cardinality(Cells(r)) + (KeyEnd(s) - s)
  <2>1. Cardinality(Cells(r) \cap own) = 0
    BY <1>6, <1>7, FS_EmptySet
  <2>2. Cardinality(Cells(r) \cup own) = Cardinality(Cells(r)) + Cardinality(own) - Cardinality(Cells(r) \cap own)
    BY <1>2, <1>4, FS_Union
  <2>3. Cells(s) = Cells(r) \cup own
    BY <1>6, <1>7
  <2> HIDE DEF own
  <2>4. Cardinality(Cells(r)) \in Nat /\ KeyEnd(s) - s \in Int
    BY <1>1, <1>4
  <2>5. QED
    BY <1>2, <2>1, <2>2, <2>3, <2>4
<1>8. \A r \in Starts : Cardinality(Cells(r)) > 0
  <2> SUFFICES ASSUME NEW r \in Starts PROVE Cardinality(Cells(r)) > 0
    OBVIOUS
  <2>1. r \in Chain(r) /\ r + 1 \in r + 1 .. KeyEnd(r)
    BY <1>1 DEF Chain, Filled, Before
  <2>2. Cells(r) # {}
    BY <2>1 DEF Cells
  <2>3. QED
    BY <1>4, <2>2, FS_EmptySet
<1>9. Hidden(s) => \E r \in Starts : s = ValueEnd(r) + 1
  BY HiddenBehind, Preceded
<1>10. KeyMax \in Int
  BY Limits
<1> HIDE DEF own
<1>11. ~Hidden(s) => Offset(s) = 0
  BY <1>1, <1>2, <1>4, <1>5, <1>10 DEF Offset
<1>12. \A r \in Starts : s = ValueEnd(r) + 1 /\ Hidden(s) => Offset(s) = KeyMax - KeyRoom(r)
  <2> SUFFICES ASSUME NEW r \in Starts, s = ValueEnd(r) + 1, Hidden(s) PROVE Offset(s) = KeyMax - KeyRoom(r)
    OBVIOUS
  <2>1. Cardinality(Cells(s)) = Cardinality(Cells(r)) + (KeyEnd(s) - s)
    BY <1>7
  <2>2. /\ Cardinality(Cells(s)) \in Nat /\ KeyRoom(s) = KeyMax - Cardinality(Cells(s))
        /\ Cardinality(Cells(r)) \in Nat /\ KeyRoom(r) = KeyMax - Cardinality(Cells(r))
        /\ s \in Int /\ KeyEnd(s) \in Int
    BY <1>1, <1>4
  <2>3. QED
    BY ONLY <1>10, <2>1, <2>2 DEF Offset
<1>13. Hidden(s) => Offset(s) > 0 /\ Offset(s) \in Nat
  BY <1>4, <1>8, <1>9, <1>10, <1>12
<1>14. KeyRoom(s) \in Int /\ KeyEnd(s) - s \in Int
  BY <1>1, <1>4, <1>10
<1>15. KeyMax - KeyRoom(s) = Offset(s) + (KeyEnd(s) - s)
  BY <1>10, <1>14 DEF Offset
<1>16. Offset(s) \in Nat
  BY <1>11, <1>13
<1>17. QED
  BY <1>11, <1>12, <1>13, <1>14, <1>15, <1>16

-----------------------------------------------------------------------------
(* What the parser has stored of a tidy url when it has read i characters. *)
KeyPart(s, i) ==
  [j \in 0 .. KeyMax - 1 |->
     IF Offset(s) <= j /\ s + 1 + j - Offset(s) <= KeyEnd(s) /\ s + 1 + j - Offset(s) <= i
       THEN url[s + 1 + j - Offset(s)] ELSE Nul]
ValuePart(s, i) ==
  [j \in 0 .. ValueMax - 1 |->
     IF KeyEnd(s) + 2 + j <= ValueEnd(s) /\ KeyEnd(s) + 2 + j <= i
       THEN url[KeyEnd(s) + 2 + j] ELSE Nul]
Part(s, i) == [key |-> KeyPart(s, i), value |-> ValuePart(s, i)]
Blank == [key |-> Empty(KeyMax), value |-> Empty(ValueMax)]
Stored(p, s) == \A r \in Before(s) : Fits(r) /\ p.queries[Index(r)] = Part(r, ValueEnd(r))

(* The parser fills the query of s and has filled those before it.         *)
Filling(p, s, i) ==
  /\ Parsing(p) /\ p.queries_length = Index(s)
  /\ Stored(p, s) /\ p.queries[Index(s)] = Part(s, i)
  /\ \A q \in Index(s) + 1 .. Length - 1 : p.queries[q] = Blank

(* It is somewhere between the mark of s and the end of its value.         *)
InKey(p, s, i) ==
  /\ Filling(p, s, i) /\ p.valueIndex = 0
  /\ p.keyIndex = IF i <= KeyEnd(s) THEN Offset(s) + (i - s) ELSE KeyMax - KeyRoom(s)
InValue(p, s, i) ==
  /\ Filling(p, s, i) /\ KeyRoom(s) > 0
  /\ p.keyIndex = 0 /\ p.valueIndex = i - KeyEnd(s) - 1
Inside(p, s, i) == IF i <= KeyEnd(s) + 1 THEN InKey(p, s, i) ELSE InValue(p, s, i)
StateAt(s, i) == IF i <= KeyEnd(s) THEN "KEY" ELSE IF i = KeyEnd(s) + 1 THEN "VALUE_KEY_END" ELSE "VALUE"

(* A write leaves its array at the parameter s: OverrunAtLimit says where. *)
Bursts(s) ==
  \/ KeyRoom(s) = 0 /\ Value(s) # <<>>
  \/ KeyRoom(s) > 0 /\ Len(Value(s)) = ValueMax /\ (Hidden(s) => \E r \in Starts : s < r)

(* It stopped at the parameter t, the first for which there is no room, or *)
(* left an array there.                                                    *)
EndedAt(p, t) ==
  /\ Stored(p, t) /\ Index(t) <= Length
  /\ \/ /\ p.status = "stopped" /\ p.queries_length = Index(t)
        /\ Index(t) = Length \/ (~Fits(t) /\ ~Bursts(t))
     \/ p.status = "overrun" /\ Index(t) < Length /\ Bursts(t)

Reading(p, i) ==
  \/ (\A s \in Starts : i < s) /\ p = New
  \/ \E r \in Starts : /\ i = ValueEnd(r) + 1 /\ i \in Starts
                       /\ Inside(p, r, ValueEnd(r)) /\ p.state = "KEY_VALUE_END"
  \/ \E s \in Starts : i \in s .. ValueEnd(s) /\ Inside(p, s, i) /\ p.state = StateAt(s, i)
  \/ \E t \in Starts : EndedAt(p, t)

LEMMA Reads ==
  ASSUME NEW p, Typed(p), Parsing(p)
  PROVE  /\ Read(p, "?") = [p EXCEPT !.state = "KEY"]
         /\ Read(p, "=") = [p EXCEPT !.state = "VALUE_KEY_END"]
         /\ Read(p, "&") = [p EXCEPT !.state = "KEY_VALUE_END"]
         /\ \A c \in Letters :
              /\ p.state \in {"KEY", "KEY_VALUE_END"} => Read(p, c) = LetterOfKey(p, c)
              /\ p.state \in {"VALUE", "VALUE_KEY_END"} => Read(p, c) = LetterOfValue(p, c)
              /\ p.state = "none" => Read(p, c) = p
<1>1. \A c : Read(p, c) = Turn(p, c)
  <2>1. p.queries_length \in Int /\ Length \in Int /\ p.queries_length < Length
    BY Limits DEF Typed, Parser, Room
  <2>2. ~(p.queries_length >= Length)
    BY <2>1
  <2>3. QED
    BY <2>2 DEF Read
<1>2. \A c \in Letters : c \notin {"?", "=", "&"}
  BY Limits DEF Marks
<1>3. Turn(p, "?") = [p EXCEPT !.state = "KEY"]
  BY <1>2 DEF Turn
<1>4. Turn(p, "=") = [p EXCEPT !.state = "VALUE_KEY_END"]
  BY <1>2 DEF Turn
<1>5. Turn(p, "&") = [p EXCEPT !.state = "KEY_VALUE_END"]
  BY <1>2 DEF Turn
<1>6. ASSUME NEW c \in Letters, p.state \in {"KEY", "KEY_VALUE_END"} PROVE Turn(p, c) = LetterOfKey(p, c)
  BY <1>2, <1>6 DEF Turn
<1>7. ASSUME NEW c \in Letters, p.state \in {"VALUE", "VALUE_KEY_END"} PROVE Turn(p, c) = LetterOfValue(p, c)
  BY <1>2, <1>7 DEF Turn
<1>8. ASSUME NEW c \in Letters, p.state = "none" PROVE Turn(p, c) = p
  BY <1>2, <1>8 DEF Turn
<1>9. QED
  BY <1>1, <1>3, <1>4, <1>5, <1>6, <1>7, <1>8

LEMMA PutKeyStores ==
  ASSUME NEW p \in Parser, p.queries_length < Length, p.keyIndex < KeyMax, NEW c \in Letters \cup {Nul}
  PROVE  LET w == PutKey(p, c)
             n == p.queries_length IN
         /\ w \in Parser /\ w.queries_length = n /\ w.keyIndex = p.keyIndex
         /\ w.valueIndex = p.valueIndex /\ w.state = p.state /\ w.status = p.status
         /\ w.queries[n] = [key |-> [p.queries[n].key EXCEPT ![p.keyIndex] = c], value |-> p.queries[n].value]
         /\ \A q \in 0 .. Length - 1 : q # n => w.queries[q] = p.queries[q]
<1> DEFINE n == p.queries_length
           k == p.keyIndex
           r == [p.queries[n] EXCEPT !.key[k] = c]
           all == [p.queries EXCEPT ![n] = r]
<1>1. k # KeyMax /\ n \in 0 .. Length - 1 /\ k \in 0 .. KeyMax - 1
  BY Limits DEF Parser
<1>2. PutKey(p, c) = [p EXCEPT !.queries = all]
  BY <1>1 DEF PutKey
<1>3. p.queries[n] \in Query /\ DOMAIN p.queries = 0 .. Length - 1
  BY <1>1 DEF Parser
<1>4. r = [key |-> [p.queries[n].key EXCEPT ![k] = c], value |-> p.queries[n].value]
  BY <1>3 DEF Query
<1> HIDE DEF r
<1>5. all[n] = r /\ \A q \in 0 .. Length - 1 : q # n => all[q] = p.queries[q]
  BY <1>1, <1>3
<1> HIDE DEF all
<1>6. PutKey(p, c).queries = all
  BY <1>2 DEF Parser
<1>7. QED
  BY <1>1, <1>4, <1>5, <1>6, PutKeyTyped

LEMMA PutValueStores ==
  ASSUME NEW p \in Parser, p.queries_length < Length, p.valueIndex < ValueMax, NEW c \in Letters \cup {Nul}
  PROVE  LET w == PutValue(p, c)
             n == p.queries_length IN
         /\ w \in Parser /\ w.queries_length = n /\ w.keyIndex = p.keyIndex
         /\ w.valueIndex = p.valueIndex /\ w.state = p.state /\ w.status = p.status
         /\ w.queries[n] = [key |-> p.queries[n].key, value |-> [p.queries[n].value EXCEPT ![p.valueIndex] = c]]
         /\ \A q \in 0 .. Length - 1 : q # n => w.queries[q] = p.queries[q]
<1> DEFINE n == p.queries_length
           k == p.valueIndex
           r == [p.queries[n] EXCEPT !.value[k] = c]
           all == [p.queries EXCEPT ![n] = r]
<1>1. k # ValueMax /\ n \in 0 .. Length - 1 /\ k \in 0 .. ValueMax - 1
  BY Limits DEF Parser
<1>2. PutValue(p, c) = [p EXCEPT !.queries = all]
  BY <1>1 DEF PutValue
<1>3. p.queries[n] \in Query /\ DOMAIN p.queries = 0 .. Length - 1
  BY <1>1 DEF Parser
<1>4. r = [key |-> p.queries[n].key, value |-> [p.queries[n].value EXCEPT ![k] = c]]
  BY <1>3 DEF Query
<1> HIDE DEF r
<1>5. all[n] = r /\ \A q \in 0 .. Length - 1 : q # n => all[q] = p.queries[q]
  BY <1>1, <1>3
<1> HIDE DEF all
<1>6. PutValue(p, c).queries = all
  BY <1>2 DEF Parser
<1>7. QED
  BY <1>1, <1>4, <1>5, <1>6, PutValueTyped

(* One character more of a key or a value, or the '\0' behind it.          *)
LEMMA KeyGrows ==
  ASSUME url \in Seq(Character), Tidy, NEW s \in Starts, NEW i \in s .. KeyEnd(s) - 1, Offset(s) + (i - s) < KeyMax
  PROVE  Part(s, i + 1) = [key |-> [Part(s, i).key EXCEPT ![Offset(s) + (i - s)] = url[i + 1]],
                           value |-> Part(s, i).value]
<1> DEFINE o == Offset(s)
           k == KeyEnd(s)
           v == ValueEnd(s)
<1>1. s \in Nat /\ k \in Nat /\ v \in Nat /\ s < k /\ k < v /\ o \in Nat /\ i \in Int /\ s <= i /\ i < k
  BY Ends, Offsets
<1>2. KeyMax \in Nat /\ ValueMax \in Nat
  BY Limits
<1> HIDE DEF o, k, v
<1>3. KeyPart(s, i + 1) = [KeyPart(s, i) EXCEPT ![o + (i - s)] = url[i + 1]]
  <2> DEFINE f == [KeyPart(s, i) EXCEPT ![o + (i - s)] = url[i + 1]]
  <2>1. DOMAIN f = 0 .. KeyMax - 1 /\ f = [j \in 0 .. KeyMax - 1 |-> f[j]]
    BY DEF KeyPart
  <2>2. ASSUME NEW j \in 0 .. KeyMax - 1
        PROVE  f[j] = IF o <= j /\ s + 1 + j - o <= k /\ s + 1 + j - o <= i + 1 THEN url[s + 1 + j - o] ELSE Nul
    <3>1. KeyPart(s, i)[j] = IF o <= j /\ s + 1 + j - o <= k /\ s + 1 + j - o <= i THEN url[s + 1 + j - o] ELSE Nul
      BY DEF KeyPart, o, k
    <3>2. CASE j = o + (i - s)
      <4>1. s + 1 + j - o = i + 1 /\ o <= j /\ i + 1 <= k
        BY <1>1, <3>2
      <4>2. f[j] = url[i + 1]
        BY <2>1, <3>2 DEF KeyPart
      <4>3. QED
        BY <4>1, <4>2
    <3>3. CASE j # o + (i - s)
      <4>1. f[j] = KeyPart(s, i)[j]
        BY <2>1, <3>3 DEF KeyPart
      <4>2. s + 1 + j - o # i + 1
        BY <1>1, <3>3
      <4>3. s + 1 + j - o <= i + 1 <=> s + 1 + j - o <= i
        BY <1>1, <4>2
      <4>4. QED
        BY <3>1, <4>1, <4>3
    <3>4. QED
      BY <3>2, <3>3
  <2>3. KeyPart(s, i + 1) = [j \in 0 .. KeyMax - 1 |->
             IF o <= j /\ s + 1 + j - o <= k /\ s + 1 + j - o <= i + 1 THEN url[s + 1 + j - o] ELSE Nul]
    BY DEF KeyPart, o, k
  <2> HIDE DEF f
  <2>4. KeyPart(s, i + 1) = f
    BY <2>1, <2>2, <2>3
  <2>5. QED
    BY <2>4 DEF f
<1>4. ValuePart(s, i + 1) = ValuePart(s, i)
  <2>1. \A j \in 0 .. ValueMax - 1 : ~(k + 2 + j <= i) /\ ~(k + 2 + j <= i + 1)
    BY <1>1, <1>2
  <2>2. QED
    BY <2>1 DEF ValuePart, k
<1>5. QED
  BY <1>3, <1>4 DEF Part, o

LEMMA ValueGrows ==
  ASSUME url \in Seq(Character), Tidy, NEW s \in Starts, NEW i \in KeyEnd(s) + 1 .. ValueEnd(s) - 1,
         i - KeyEnd(s) - 1 < ValueMax
  PROVE  Part(s, i + 1) = [key |-> Part(s, i).key,
                           value |-> [Part(s, i).value EXCEPT ![i - KeyEnd(s) - 1] = url[i + 1]]]
<1> DEFINE o == Offset(s)
           k == KeyEnd(s)
           v == ValueEnd(s)
<1>1. s \in Nat /\ k \in Nat /\ v \in Nat /\ s < k /\ k < v /\ o \in Nat /\ i \in Int /\ k < i /\ i < v
  BY Ends, Offsets
<1>2. KeyMax \in Nat /\ ValueMax \in Nat
  BY Limits
<1> HIDE DEF o, k, v
<1>3. ValuePart(s, i + 1) = [ValuePart(s, i) EXCEPT ![i - k - 1] = url[i + 1]]
  <2> DEFINE f == [ValuePart(s, i) EXCEPT ![i - k - 1] = url[i + 1]]
  <2>1. DOMAIN f = 0 .. ValueMax - 1 /\ f = [j \in 0 .. ValueMax - 1 |-> f[j]]
    BY DEF ValuePart
  <2>2. ASSUME NEW j \in 0 .. ValueMax - 1
        PROVE  f[j] = IF k + 2 + j <= v /\ k + 2 + j <= i + 1 THEN url[k + 2 + j] ELSE Nul
    <3>1. ValuePart(s, i)[j] = IF k + 2 + j <= v /\ k + 2 + j <= i THEN url[k + 2 + j] ELSE Nul
      BY DEF ValuePart, k, v
    <3>2. CASE j = i - k - 1
      <4>1. k + 2 + j = i + 1 /\ i + 1 <= v
        BY <1>1, <3>2
      <4>2. f[j] = url[i + 1]
        BY <2>1, <3>2 DEF ValuePart
      <4>3. QED
        BY <4>1, <4>2
    <3>3. CASE j # i - k - 1
      <4>1. f[j] = ValuePart(s, i)[j]
        BY <2>1, <3>3 DEF ValuePart
      <4>2. k + 2 + j # i + 1
        BY <1>1, <3>3
      <4>3. k + 2 + j <= i + 1 <=> k + 2 + j <= i
        BY <1>1, <4>2
      <4>4. QED
        BY <3>1, <4>1, <4>3
    <3>4. QED
      BY <3>2, <3>3
  <2>3. ValuePart(s, i + 1) = [j \in 0 .. ValueMax - 1 |->
             IF k + 2 + j <= v /\ k + 2 + j <= i + 1 THEN url[k + 2 + j] ELSE Nul]
    BY DEF ValuePart, k, v
  <2> HIDE DEF f
  <2>4. ValuePart(s, i + 1) = f
    BY <2>1, <2>2, <2>3
  <2>5. QED
    BY <2>4 DEF f
<1>4. KeyPart(s, i + 1) = KeyPart(s, i)
  <2>1. \A j \in 0 .. KeyMax - 1 : s + 1 + j - o <= k => s + 1 + j - o <= i /\ s + 1 + j - o <= i + 1
    BY <1>1, <1>2
  <2>2. QED
    BY <2>1 DEF KeyPart, k, o
<1>5. QED
  BY <1>3, <1>4 DEF Part, k

LEMMA NothingYet ==
  ASSUME url \in Seq(Character), Tidy, NEW s \in Starts
  PROVE  Part(s, s) = Blank
<1>1. s \in Nat /\ s < KeyEnd(s) /\ KeyEnd(s) \in Nat /\ Offset(s) \in Nat /\ KeyMax \in Nat /\ ValueMax \in Nat
  BY Ends, Offsets, Limits
<1>2. KeyPart(s, s) = Empty(KeyMax)
  <2>1. \A j \in 0 .. KeyMax - 1 : Offset(s) <= j => ~(s + 1 + j - Offset(s) <= s)
    BY <1>1
  <2>2. QED
    BY <2>1 DEF KeyPart, Empty
<1>3. ValuePart(s, s) = Empty(ValueMax)
  <2>1. \A j \in 0 .. ValueMax - 1 : ~(KeyEnd(s) + 2 + j <= s)
    BY <1>1
  <2>2. QED
    BY <2>1 DEF ValuePart, Empty
<1>4. QED
  BY <1>2, <1>3 DEF Blank, Part

LEMMA MarkAddsNothing ==
  ASSUME url \in Seq(Character), Tidy, NEW s \in Starts
  PROVE  Part(s, KeyEnd(s) + 1) = Part(s, KeyEnd(s))
<1> DEFINE o == Offset(s)
           k == KeyEnd(s)
<1>1. s \in Nat /\ k \in Nat /\ o \in Nat /\ KeyMax \in Nat /\ ValueMax \in Nat
  BY Ends, Offsets, Limits
<1> HIDE DEF o, k
<1>2. KeyPart(s, k + 1) = KeyPart(s, k)
  <2>1. \A j \in 0 .. KeyMax - 1 : s + 1 + j - o <= k => s + 1 + j - o <= k + 1
    BY <1>1
  <2>2. QED
    BY <2>1 DEF KeyPart, o, k
<1>3. ValuePart(s, k + 1) = ValuePart(s, k)
  <2>1. \A j \in 0 .. ValueMax - 1 : ~(k + 2 + j <= k) /\ ~(k + 2 + j <= k + 1)
    BY <1>1
  <2>2. QED
    BY <2>1 DEF ValuePart, k
<1>4. QED
  BY <1>2, <1>3 DEF Part, k

(* A '\0' written behind a key or a value that fits changes nothing: the   *)
(* array was cleared before.                                               *)
LEMMA EndsAlready ==
  ASSUME url \in Seq(Character), Tidy, NEW s \in Starts
  PROVE  /\ \A i \in KeyEnd(s) .. ValueEnd(s) : KeyRoom(s) > 0 =>
            [key |-> [Part(s, i).key EXCEPT ![KeyMax - KeyRoom(s)] = Nul], value |-> Part(s, i).value] = Part(s, i)
         /\ \A i \in KeyEnd(s) + 1 .. ValueEnd(s) : i - KeyEnd(s) - 1 < ValueMax =>
            [key |-> Part(s, i).key, value |-> [Part(s, i).value EXCEPT ![i - KeyEnd(s) - 1] = Nul]] = Part(s, i)
<1> DEFINE o == Offset(s)
           k == KeyEnd(s)
           v == ValueEnd(s)
           m == KeyMax - KeyRoom(s)
<1>1. s \in Nat /\ k \in Nat /\ v \in Nat /\ s < k /\ k < v /\ o \in Nat /\ KeyRoom(s) \in Int /\ m = o + (k - s)
  BY Ends, Offsets
<1>2. KeyMax \in Nat /\ ValueMax \in Nat
  BY Limits
<1> HIDE DEF o, k, v
<1>3. ASSUME NEW i \in k .. v, KeyRoom(s) > 0
      PROVE  [key |-> [Part(s, i).key EXCEPT ![m] = Nul], value |-> Part(s, i).value] = Part(s, i)
  <2>1. m \in 0 .. KeyMax - 1 /\ ~(s + 1 + m - o <= k)
    BY <1>1, <1>2, <1>3
  <2>2. KeyPart(s, i)[m] = Nul
    BY <2>1 DEF KeyPart, o, k
  <2>3. [KeyPart(s, i) EXCEPT ![m] = Nul] = KeyPart(s, i)
    BY <2>2 DEF KeyPart
  <2>4. QED
    BY <2>3 DEF Part
<1>4. ASSUME NEW i \in k + 1 .. v, i - k - 1 < ValueMax
      PROVE  [key |-> Part(s, i).key, value |-> [Part(s, i).value EXCEPT ![i - k - 1] = Nul]] = Part(s, i)
  <2>1. i - k - 1 \in 0 .. ValueMax - 1 /\ ~(k + 2 + (i - k - 1) <= i)
    BY <1>1, <1>2, <1>4
  <2>2. ValuePart(s, i)[i - k - 1] = Nul
    BY <2>1 DEF ValuePart, k
  <2>3. [ValuePart(s, i) EXCEPT ![i - k - 1] = Nul] = ValuePart(s, i)
    BY <2>2 DEF ValuePart
  <2>4. QED
    BY <2>3 DEF Part
<1>5. QED
  BY <1>3, <1>4 DEF k, v

-----------------------------------------------------------------------------
(* One turn of the parser over a tidy url, part by part.                   *)
TakeLetter(p, c) ==
  IF p.keyIndex >= KeyMax THEN Stop(p) ELSE [PutKey(p, c) EXCEPT !.keyIndex = @ + 1]

LEMMA Filled1 ==
  ASSUME url \in Seq(Character), Tidy, NEW s \in Starts, NEW i, NEW j, NEW p, Typed(p), Filling(p, s, i),
         NEW w \in Parser, w.queries_length = p.queries_length, w.status = p.status,
         w.queries[Index(s)] = Part(s, j),
         \A q \in 0 .. Length - 1 : q # Index(s) => w.queries[q] = p.queries[q]
  PROVE  Filling(w, s, j) /\ Index(s) < Length
<1>1. Index(s) \in Nat /\ Length \in Nat /\ Index(s) < Length
  BY Indices, Limits DEF Filling, Typed, Room
<1>2. \A r \in Before(s) : Index(r) \in Nat /\ Index(r) < Index(s)
  BY Indices DEF Before
<1>3. \A r \in Before(s) : w.queries[Index(r)] = p.queries[Index(r)]
  BY <1>1, <1>2
<1>4. Stored(w, s)
  BY <1>3 DEF Stored, Filling
<1>5. \A q \in Index(s) + 1 .. Length - 1 : w.queries[q] = Blank
  BY <1>1 DEF Filling
<1>6. QED
  BY <1>1, <1>4, <1>5 DEF Filling, Parsing

LEMMA KeyLetter ==
  ASSUME url \in Seq(Character), Tidy, NEW s \in Starts, NEW i \in s .. KeyEnd(s) - 1,
         NEW p, Typed(p), InKey(p, s, i), p.state = "KEY"
  PROVE  LET w == TakeLetter(p, url[i + 1]) IN
         EndedAt(w, s) \/ (InKey(w, s, i + 1) /\ w.state = "KEY")
<1> DEFINE c == url[i + 1]
           o == Offset(s)
           k == KeyEnd(s)
           w == TakeLetter(p, c)
<1>1. /\ s \in Nat /\ k \in Nat /\ s < k /\ o \in Nat /\ i \in Int /\ s <= i /\ i < k
      /\ KeyRoom(s) \in Int /\ KeyMax - KeyRoom(s) = o + (k - s) /\ KeyMax \in Nat /\ Length \in Nat
  BY Ends, Offsets, Limits
<1>2. /\ p \in Parser /\ Parsing(p) /\ p.queries_length = Index(s) /\ Index(s) < Length /\ Index(s) \in Nat
      /\ p.keyIndex = o + (i - s) /\ p.valueIndex = 0 /\ Stored(p, s) /\ Filling(p, s, i)
  BY <1>1, Indices DEF InKey, Filling, Typed, Room
<1>3. c \in Letters
  BY <1>1, Layout
<1> HIDE DEF o, k, c
<1>4. CASE p.keyIndex >= KeyMax
  <2>1. w = Stop(p)
    BY <1>4 DEF TakeLetter
  <2>2. w.status = "stopped" /\ w.queries_length = Index(s) /\ w.queries = p.queries
    BY <1>2, <2>1 DEF Stop, Parser
  <2>3. KeyRoom(s) < 0
    BY <1>1, <1>2, <1>4
  <2>4. ~Fits(s) /\ ~Bursts(s)
    BY <1>1, <2>3 DEF Fits, Bursts
  <2>5. Stored(w, s)
    BY <1>2, <2>2 DEF Stored
  <2> HIDE DEF w
  <2>6. QED
    BY <1>1, <1>2, <2>2, <2>4, <2>5 DEF EndedAt, w, c
<1>5. CASE ~(p.keyIndex >= KeyMax)
  <2> DEFINE v == PutKey(p, c)
  <2>1. p.keyIndex < KeyMax /\ c \in Letters \cup {Nul}
    BY <1>1, <1>2, <1>3, <1>5
  <2>2. /\ v \in Parser /\ v.queries_length = Index(s) /\ v.keyIndex = o + (i - s)
        /\ v.valueIndex = 0 /\ v.state = "KEY" /\ v.status = p.status
        /\ v.queries[Index(s)] = [key |-> [p.queries[Index(s)].key EXCEPT ![o + (i - s)] = c],
                                  value |-> p.queries[Index(s)].value]
        /\ \A q \in 0 .. Length - 1 : q # Index(s) => v.queries[q] = p.queries[q]
    <3> DEFINE n == p.queries_length
    <3>1. p \in Parser /\ n < Length /\ p.keyIndex < KeyMax /\ c \in Letters \cup {Nul}
      BY <1>2, <2>1
    <3>2. /\ v \in Parser /\ v.queries_length = n /\ v.keyIndex = p.keyIndex
          /\ v.valueIndex = p.valueIndex /\ v.state = p.state /\ v.status = p.status
          /\ v.queries[n] = [key |-> [p.queries[n].key EXCEPT ![p.keyIndex] = c], value |-> p.queries[n].value]
          /\ \A q \in 0 .. Length - 1 : q # n => v.queries[q] = p.queries[q]
      BY ONLY <3>1, PutKeyStores
    <3> HIDE DEF v
    <3>3. QED
      BY ONLY <1>2, <3>2, p.state = "KEY"
  <2>3. v.queries[Index(s)] = Part(s, i + 1)
    <3>1. Offset(s) + (i - s) < KeyMax
      BY <1>2, <2>1 DEF o
    <3>2. p.queries[Index(s)] = Part(s, i)
      BY <1>2 DEF Filling
    <3>3. QED
      BY <2>2, <3>1, <3>2, KeyGrows DEF o, c
  <2> HIDE DEF v
  <2>4. w = [v EXCEPT !.keyIndex = @ + 1]
    BY <1>5 DEF TakeLetter, v
  <2>5. /\ w \in Parser /\ w.queries = v.queries /\ w.queries_length = v.queries_length /\ w.state = "KEY"
        /\ w.status = p.status /\ w.valueIndex = 0 /\ w.keyIndex = o + (i - s) + 1
    <3>1. o + (i - s) + 1 \in 0 .. KeyMax
      BY <1>1, <1>2, <2>1
    <3>2. QED
      BY <2>2, <2>4, <3>1 DEF Parser
  <2> HIDE DEF w
  <2>6. Filling(w, s, i + 1)
    BY <1>2, <2>2, <2>3, <2>5, Filled1
  <2>7. w.keyIndex = o + ((i + 1) - s) /\ i + 1 <= k
    BY <1>1, <2>5
  <2>8. InKey(w, s, i + 1)
    <3>1. i + 1 <= KeyEnd(s) /\ w.keyIndex = Offset(s) + ((i + 1) - s) /\ w.valueIndex = 0
      <4>1. w.valueIndex = 0
        BY <2>5
      <4>2. i + 1 <= KeyEnd(s)
        BY <2>7 DEF k
      <4>3. w.keyIndex = Offset(s) + ((i + 1) - s)
        BY <2>7 DEF o
      <4>4. QED
        BY <4>1, <4>2, <4>3
    <3>2. QED
      BY <2>6, <3>1 DEF InKey
  <2>9. QED
    BY <2>5, <2>8 DEF w, c
<1>6. QED
  BY <1>4, <1>5

(* Where the parser stands at the end of the value of s.                   *)
LEMMA AtEnd ==
  ASSUME url \in Seq(Character), Tidy, NEW s \in Starts, NEW p, Typed(p), Inside(p, s, ValueEnd(s))
  PROVE  LET k == KeyEnd(s)
             v == ValueEnd(s) IN
         /\ Filling(p, s, v) /\ p \in Parser /\ p.status = "parsing" /\ p.queries_length = Index(s)
         /\ Index(s) < Length /\ Stored(p, s) /\ p.queries[Index(s)] = Part(s, v)
         /\ p.keyIndex = IF v = k + 1 THEN KeyMax - KeyRoom(s) ELSE 0
         /\ p.valueIndex = v - k - 1 /\ (v # k + 1 => KeyRoom(s) > 0)
<1> DEFINE k == KeyEnd(s)
           v == ValueEnd(s)
<1>1. k \in Nat /\ v \in Nat /\ k < v
  BY Ends
<1>2. v = k + 1 => Filling(p, s, v) /\ p.valueIndex = 0 /\ p.keyIndex = KeyMax - KeyRoom(s)
  <2> SUFFICES ASSUME v = k + 1 PROVE Filling(p, s, v) /\ p.valueIndex = 0 /\ p.keyIndex = KeyMax - KeyRoom(s)
    OBVIOUS
  <2>1. v <= KeyEnd(s) + 1 /\ ~(v <= KeyEnd(s))
    BY ONLY <1>1, v = k + 1
  <2>2. InKey(p, s, v)
    BY <2>1 DEF Inside
  <2>3. QED
    BY ONLY <2>1, <2>2 DEF InKey
<1>3. v # k + 1 => Filling(p, s, v) /\ p.valueIndex = v - k - 1 /\ p.keyIndex = 0 /\ KeyRoom(s) > 0
  <2> SUFFICES ASSUME v # k + 1
               PROVE  Filling(p, s, v) /\ p.valueIndex = v - k - 1 /\ p.keyIndex = 0 /\ KeyRoom(s) > 0
    OBVIOUS
  <2>1. ~(v <= KeyEnd(s) + 1)
    BY ONLY <1>1, v # k + 1
  <2>2. InValue(p, s, v)
    BY <2>1 DEF Inside
  <2>3. QED
    BY ONLY <2>2 DEF InValue
<1> HIDE DEF k, v
<1>4. Filling(p, s, v) /\ p.valueIndex = v - k - 1 /\ (v # k + 1 => KeyRoom(s) > 0)
      /\ p.keyIndex = IF v = k + 1 THEN KeyMax - KeyRoom(s) ELSE 0
  BY ONLY <1>1, <1>2, <1>3
<1>5. /\ p.status = "parsing" /\ p.queries_length = Index(s)
      /\ Stored(p, s) /\ p.queries[Index(s)] = Part(s, v)
  BY ONLY <1>4 DEF Filling, Parsing
<1>6. p \in Parser /\ Index(s) < Length
  BY ONLY <1>5, Typed(p) DEF Typed, Room, Parsing
<1>7. QED
  BY ONLY <1>4, <1>5, <1>6 DEF k, v

(* The letter behind a & ends the value before it.                         *)
LEMMA ValueEnds ==
  ASSUME url \in Seq(Character), Tidy, NEW r \in Starts, NEW s \in Starts, s = ValueEnd(r) + 1,
         NEW p, Typed(p), Inside(p, r, ValueEnd(r)), p.state = "KEY_VALUE_END"
  PROVE  LET w == EndValue(p) IN
         \/ ~Parsing(w) /\ \E t \in {r, s} : EndedAt(w, t)
         \/ Parsing(w) /\ InKey(w, s, s) /\ w.state = "KEY"
<1> DEFINE k == KeyEnd(r)
           v == ValueEnd(r)
           w == EndValue(p)
           x == PutValue(p, Nul)
<1>1. /\ r \in Nat /\ k \in Nat /\ v \in Nat /\ k < v /\ KeyRoom(r) \in Int /\ Offset(r) \in Nat
      /\ KeyMax - KeyRoom(r) = Offset(r) + (k - r)
      /\ KeyMax \in Nat /\ ValueMax \in Nat \ {0} /\ Length \in Nat
      /\ Index(r) \in Nat /\ Index(s) = Index(r) + 1 /\ s = v + 1
  BY Ends, Offsets, Limits, Indices
<1>2. Len(Value(r)) = v - k - 1 /\ (Value(r) = <<>> <=> v = k + 1)
  BY Layout
<1>3. Hidden(s) <=> v = k + 1
  BY HiddenBehind
<1>4. /\ Filling(p, r, v) /\ p \in Parser /\ p.status = "parsing" /\ p.queries_length = Index(r)
      /\ Index(r) < Length /\ Stored(p, r) /\ p.queries[Index(r)] = Part(r, v)
      /\ p.keyIndex = IF v = k + 1 THEN KeyMax - KeyRoom(r) ELSE 0
      /\ p.valueIndex = v - k - 1 /\ (v # k + 1 => KeyRoom(r) > 0)
  BY AtEnd
<1>5. p.keyIndex \in 0 .. KeyMax /\ p.valueIndex \in 0 .. ValueMax
  BY <1>4 DEF Parser
<1>6. Before(s) = Before(r) \cup {r}
  BY Following
<1> HIDE DEF k, v
<1>7. r < s
  <2>1. r < k
    BY Ends DEF k
  <2>2. QED
    BY <1>1, <2>1
<1>8. CASE p.keyIndex >= KeyMax
  <2>1. w = Stop(p)
    BY <1>8 DEF EndValue
  <2>2. w.status = "stopped" /\ w.queries_length = Index(r) /\ w.queries = p.queries
    BY <1>4, <2>1 DEF Stop, Parser
  <2>3. v = k + 1
    BY <1>4, <1>8, Limits
  <2>4. KeyRoom(r) <= 0
    BY <1>1, <1>4, <1>8, <2>3
  <2>5. ~Fits(r) /\ ~Bursts(r)
    BY <1>1, <1>2, <2>3, <2>4 DEF Fits, Bursts
  <2>6. Stored(w, r) /\ ~Parsing(w)
    BY <1>4, <2>2 DEF Stored, Parsing
  <2> HIDE DEF w
  <2>7. EndedAt(w, r)
    BY <1>1, <1>4, <2>2, <2>5, <2>6 DEF EndedAt
  <2>8. QED
    BY <2>6, <2>7 DEF w
<1>9. CASE ~(p.keyIndex >= KeyMax)
  <2> DEFINE q == [x EXCEPT !.state = "KEY", !.valueIndex = 0, !.queries_length = @ + 1]
  <2>1. w = IF q.queries_length >= Length /\ Parsing(q) THEN Stop(q) ELSE q
    BY <1>9 DEF EndValue
  <2>2. KeyRoom(r) > 0
    BY <1>1, <1>4, <1>5, <1>9
  <2>3. /\ x \in Parser /\ x.queries_length = Index(r) /\ x.keyIndex = p.keyIndex
        /\ x.status = IF p.valueIndex = ValueMax THEN "overrun" ELSE p.status
    BY <1>4, PutValueTyped
  <2>4. x.queries = p.queries
    <3>1. CASE p.valueIndex = ValueMax
      BY <1>4, <3>1 DEF PutValue, Overrun, Parser
    <3>2. CASE p.valueIndex # ValueMax
      <4>1. p.valueIndex < ValueMax
        BY <1>1, <1>5, <3>2
      <4>2. /\ x.queries[Index(r)] = [key |-> p.queries[Index(r)].key,
                                      value |-> [p.queries[Index(r)].value EXCEPT ![v - k - 1] = Nul]]
            /\ \A n \in 0 .. Length - 1 : n # Index(r) => x.queries[n] = p.queries[n]
        <5>1. p.queries_length < Length /\ Nul \in Letters \cup {Nul}
          BY <1>4
        <5>2. /\ x.queries[p.queries_length] = [key |-> p.queries[p.queries_length].key,
                    value |-> [p.queries[p.queries_length].value EXCEPT ![p.valueIndex] = Nul]]
              /\ \A n \in 0 .. Length - 1 : n # p.queries_length => x.queries[n] = p.queries[n]
          BY <1>4, <4>1, <5>1, PutValueStores
        <5> HIDE DEF x
        <5>3. QED
          BY <1>4, <5>2
      <4>3. x.queries[Index(r)] = p.queries[Index(r)]
        <5>1. v \in k + 1 .. v /\ v - k - 1 < ValueMax
          BY <1>1, <1>4, <4>1
        <5>2. QED
          BY <1>4, <4>2, <5>1, EndsAlready DEF k, v
      <4>4. \A n \in 0 .. Length - 1 : x.queries[n] = p.queries[n]
        BY <4>2, <4>3
      <4> HIDE DEF x
      <4>5. x.queries \in [0 .. Length - 1 -> Query] /\ p.queries \in [0 .. Length - 1 -> Query]
        BY <1>4, <2>3 DEF Parser
      <4>6. /\ x.queries = [n \in 0 .. Length - 1 |-> x.queries[n]]
            /\ p.queries = [n \in 0 .. Length - 1 |-> p.queries[n]]
        BY <4>5
      <4>7. QED
        BY <4>4, <4>6
    <3>3. QED
      BY <3>1, <3>2
  <2> HIDE DEF x
  <2>5. /\ q.queries = p.queries /\ q.queries_length = Index(s) /\ q.keyIndex = p.keyIndex /\ q.valueIndex = 0
        /\ q.state = "KEY" /\ q.status = x.status
    BY <1>1, <2>3, <2>4 DEF Parser
  <2>6. q \in Parser
    <3>1. x.queries_length + 1 \in 0 .. Length /\ 0 \in 0 .. ValueMax
      BY <1>1, <1>4, <2>3
    <3>2. QED
      BY <2>3, <3>1 DEF Parser, States
  <2> HIDE DEF q
  <2>7. CASE p.valueIndex = ValueMax
    <3>1. w = q /\ q.status = "overrun"
      BY <2>1, <2>3, <2>5, <2>7 DEF Parsing
    <3>2. Bursts(r)
      <4>1. Len(Value(r)) = ValueMax
        BY <1>2, <1>4, <2>7
      <4>2. QED
        BY <1>7, <2>2, <4>1 DEF Bursts
    <3>3. Stored(w, r)
      BY <1>4, <2>5, <3>1 DEF Stored
    <3> HIDE DEF w
    <3>4. EndedAt(w, r)
      BY <1>1, <1>4, <3>1, <3>2, <3>3 DEF EndedAt
    <3>5. QED
      BY <3>1, <3>4 DEF w, Parsing
  <2>8. CASE p.valueIndex # ValueMax
    <3>1. q.status = "parsing"
      BY <1>4, <2>3, <2>5, <2>8
    <3>2. Fits(r)
      <4>1. Len(Value(r)) < ValueMax
        BY ONLY <1>1, <1>2, <1>4, <1>5, <2>8
      <4>2. QED
        BY <2>2, <4>1 DEF Fits
    <3>3. Stored(q, s)
      BY <1>4, <1>6, <2>5, <3>2 DEF Stored, v
    <3>4. CASE q.queries_length >= Length
      <4>1. w = Stop(q)
        BY <2>1, <3>1, <3>4 DEF Parsing
      <4>2. w.queries = q.queries /\ w.queries_length = Index(s) /\ w.status = "stopped"
        BY <2>5, <2>6, <4>1 DEF Stop, Parser
      <4>3. Index(s) = Length
        <5>1. Index(r) < Length /\ Index(s) >= Length
          BY ONLY <1>4, <2>5, <3>4
        <5>2. QED
          BY ONLY <1>1, <5>1
      <4>4. Stored(w, s)
        BY <3>3, <4>2 DEF Stored
      <4> HIDE DEF w
      <4>5. EndedAt(w, s)
        BY ONLY <1>1, <4>2, <4>3, <4>4 DEF EndedAt
      <4>6. QED
        BY <4>2, <4>5 DEF w, Parsing
    <3>5. CASE ~(q.queries_length >= Length)
      <4>1. w = q /\ Index(s) < Length
        BY <1>1, <2>1, <2>5, <3>5
      <4>2. q.queries[Index(s)] = Part(s, s)
        <5>1. q.queries[Index(s)] = Blank
          <6>1. \A n \in Index(r) + 1 .. Length - 1 : p.queries[n] = Blank
            BY <1>4 DEF Filling
          <6>2. Index(s) \in Index(r) + 1 .. Length - 1
            BY ONLY <1>1, <4>1
          <6>3. QED
            BY ONLY <2>5, <6>1, <6>2
        <5>2. QED
          BY <5>1, NothingYet
      <4>3. \A n \in Index(s) + 1 .. Length - 1 : q.queries[n] = Blank
        BY <1>1, <1>4, <2>5 DEF Filling
      <4>4. Filling(q, s, s)
        BY <2>5, <3>1, <3>3, <4>2, <4>3 DEF Filling, Parsing
      <4>5. q.keyIndex = Offset(s)
        <5>1. CASE v = k + 1
          <6>1. Offset(s) = KeyMax - KeyRoom(r)
            BY <1>3, <5>1, Offsets
          <6>2. QED
            BY ONLY <1>4, <2>5, <5>1, <6>1
        <5>2. CASE v # k + 1
          <6>1. Offset(s) = 0
            BY <1>3, <5>2, Offsets
          <6>2. QED
            BY ONLY <1>4, <2>5, <5>2, <6>1
        <5>3. QED
          BY <5>1, <5>2
      <4>6. s <= KeyEnd(s) /\ Offset(s) + (s - s) = Offset(s)
        <5>1. s \in Nat /\ KeyEnd(s) \in Nat /\ s < KeyEnd(s)
          BY Ends
        <5>2. Offset(s) \in Nat
          BY Offsets
        <5>3. QED
          BY ONLY <5>1, <5>2
      <4>7. InKey(q, s, s)
        BY <2>5, <4>4, <4>5, <4>6 DEF InKey
      <4> HIDE DEF w
      <4>8. Parsing(w) /\ InKey(w, s, s) /\ w.state = "KEY"
        BY ONLY <2>5, <3>1, <4>1, <4>7 DEF Parsing
      <4>9. QED
        BY ONLY <4>8 DEF w
    <3>6. QED
      BY <3>4, <3>5
  <2>9. QED
    BY <2>7, <2>8
<1>10. QED
  BY <1>8, <1>9

LEMMA ValueLetter ==
  ASSUME url \in Seq(Character), Tidy, NEW s \in Starts, NEW i \in KeyEnd(s) + 1 .. ValueEnd(s) - 1,
         NEW p, Typed(p), InValue(p, s, i), p.state = "VALUE", p.valueIndex < ValueMax
  PROVE  LET w == [PutValue(p, url[i + 1]) EXCEPT !.valueIndex = @ + 1] IN
         InValue(w, s, i + 1) /\ w.state = "VALUE"
<1> DEFINE c == url[i + 1]
           k == KeyEnd(s)
           v == ValueEnd(s)
           x == PutValue(p, c)
           w == [x EXCEPT !.valueIndex = @ + 1]
<1>1. /\ s \in Nat /\ k \in Nat /\ v \in Nat /\ s < k /\ k < v /\ i \in Int /\ k < i /\ i < v
      /\ ValueMax \in Nat /\ Length \in Nat
  BY Ends, Limits
<1>2. /\ p \in Parser /\ p.queries_length = Index(s) /\ Index(s) < Length
      /\ p.keyIndex = 0 /\ p.valueIndex = i - k - 1 /\ Filling(p, s, i) /\ KeyRoom(s) > 0
      /\ p.queries[Index(s)] = Part(s, i)
  BY DEF InValue, Filling, Typed, Room
<1>3. c \in Letters
  <2>1. i + 1 \in k + 2 .. v
    BY <1>1
  <2>2. QED
    BY <2>1, Layout
<1> HIDE DEF k, v, c
<1>4. /\ x \in Parser /\ x.queries_length = Index(s) /\ x.keyIndex = 0 /\ x.valueIndex = i - k - 1
      /\ x.state = "VALUE" /\ x.status = p.status
      /\ x.queries[Index(s)] = [key |-> p.queries[Index(s)].key,
                                value |-> [p.queries[Index(s)].value EXCEPT ![i - k - 1] = c]]
      /\ \A q \in 0 .. Length - 1 : q # Index(s) => x.queries[q] = p.queries[q]
  BY <1>2, <1>3, PutValueStores
<1>5. x.queries[Index(s)] = Part(s, i + 1)
  <2>1. i - KeyEnd(s) - 1 < ValueMax
    BY <1>2 DEF k
  <2>2. QED
    BY <1>2, <1>4, <2>1, ValueGrows DEF k, c
<1> HIDE DEF x
<1>6. /\ w \in Parser /\ w.queries = x.queries /\ w.queries_length = Index(s) /\ w.state = "VALUE"
      /\ w.status = p.status /\ w.keyIndex = 0 /\ w.valueIndex = i - k - 1 + 1
  <2>1. i - k - 1 + 1 \in 0 .. ValueMax
    BY <1>1, <1>2
  <2>2. QED
    BY <1>4, <2>1 DEF Parser
<1> HIDE DEF w
<1>7. Filling(w, s, i + 1)
  BY <1>2, <1>4, <1>5, <1>6, Filled1
<1>8. w.valueIndex = (i + 1) - k - 1
  BY <1>1, <1>6
<1>9. InValue(w, s, i + 1) /\ w.state = "VALUE"
  BY <1>2, <1>6, <1>7, <1>8 DEF InValue, k
<1>10. QED
  BY <1>9 DEF w, x, c

LEMMA ValueStops ==
  ASSUME url \in Seq(Character), Tidy, NEW s \in Starts, NEW i \in KeyEnd(s) + 1 .. ValueEnd(s) - 1,
         NEW p, Typed(p), InValue(p, s, i), p.valueIndex >= ValueMax
  PROVE  EndedAt(Stop(p), s)
<1> DEFINE w == Stop(p)
<1>1. /\ KeyEnd(s) \in Nat /\ ValueEnd(s) \in Nat /\ i \in Int /\ i < ValueEnd(s)
      /\ ValueMax \in Nat /\ Length \in Nat /\ Index(s) \in Nat
  BY Ends, Limits, Indices
<1>2. /\ p \in Parser /\ p.queries_length = Index(s) /\ Index(s) < Length /\ Stored(p, s)
      /\ p.valueIndex = i - KeyEnd(s) - 1 /\ KeyRoom(s) > 0
  BY DEF InValue, Filling, Typed, Room
<1>3. Len(Value(s)) = ValueEnd(s) - KeyEnd(s) - 1
  BY Layout
<1>4. Len(Value(s)) \in Int /\ Len(Value(s)) > ValueMax
  BY <1>1, <1>2, <1>3
<1>5. KeyRoom(s) \in Int
  BY Offsets
<1>6. ~Fits(s) /\ ~Bursts(s)
  BY <1>1, <1>2, <1>4, <1>5 DEF Fits, Bursts
<1>7. w.status = "stopped" /\ w.queries_length = Index(s) /\ w.queries = p.queries
  BY <1>2 DEF Stop, Parser
<1>8. Stored(w, s)
  BY <1>2, <1>7 DEF Stored
<1> HIDE DEF w
<1>9. EndedAt(w, s)
  BY <1>1, <1>2, <1>6, <1>7, <1>8 DEF EndedAt
<1>10. QED
  BY <1>9 DEF w

(* The first letter of a value ends the key.                               *)
LEMMA KeyEnds ==
  ASSUME url \in Seq(Character), Tidy, NEW s \in Starts, KeyEnd(s) + 1 < ValueEnd(s),
         NEW p, Typed(p), InKey(p, s, KeyEnd(s) + 1), p.state = "VALUE_KEY_END"
  PROVE  LET w == EndKey(p) IN
         \/ ~Parsing(w) /\ EndedAt(w, s)
         \/ Parsing(w) /\ InValue(w, s, KeyEnd(s) + 1) /\ w.state = "VALUE"
<1> DEFINE k == KeyEnd(s)
           x == PutKey(p, Nul)
           w == EndKey(p)
           i == k + 1
<1>1. /\ s \in Nat /\ k \in Nat /\ KeyRoom(s) \in Int /\ KeyMax - KeyRoom(s) = Offset(s) + (k - s)
      /\ KeyMax \in Nat /\ Length \in Nat /\ Index(s) \in Nat /\ ~(i <= k)
  BY Ends, Offsets, Limits, Indices
<1>2. /\ p \in Parser /\ p.status = "parsing" /\ p.queries_length = Index(s) /\ Index(s) < Length
      /\ p.keyIndex = KeyMax - KeyRoom(s) /\ p.valueIndex = 0 /\ Filling(p, s, i) /\ Stored(p, s)
      /\ p.queries[Index(s)] = Part(s, i)
  BY <1>1 DEF InKey, Filling, Parsing, Typed, Room
<1>3. p.keyIndex \in 0 .. KeyMax
  BY <1>2 DEF Parser
<1>4. /\ x \in Parser /\ x.queries_length = Index(s) /\ x.valueIndex = 0
      /\ x.status = IF p.keyIndex = KeyMax THEN "overrun" ELSE p.status
  BY <1>2, PutKeyTyped
<1>5. w = [x EXCEPT !.state = "VALUE", !.keyIndex = 0]
  BY DEF EndKey
<1> HIDE DEF x
<1>6. /\ w \in Parser /\ w.queries = x.queries /\ w.queries_length = Index(s) /\ w.valueIndex = 0
      /\ w.state = "VALUE" /\ w.status = x.status /\ w.keyIndex = 0
  <2>1. 0 \in 0 .. KeyMax
    BY <1>1
  <2>2. QED
    BY <1>4, <1>5, <2>1 DEF Parser, States
<1> HIDE DEF w, k, i
<1>7. CASE p.keyIndex = KeyMax
  <2>1. x.queries = p.queries
    BY <1>2, <1>7 DEF x, PutKey, Overrun, Parser
  <2>2. KeyRoom(s) = 0
    BY <1>1, <1>2, <1>7
  <2>3. Value(s) # <<>>
    <3>1. ValueEnd(s) # KeyEnd(s) + 1
      BY Ends
    <3>2. QED
      BY <3>1, Layout
  <2>4. Bursts(s)
    BY <2>2, <2>3 DEF Bursts
  <2>5. Stored(w, s)
    BY <1>2, <1>6, <2>1 DEF Stored
  <2>6. w.status = "overrun"
    BY <1>4, <1>6, <1>7
  <2>7. EndedAt(w, s) /\ ~Parsing(w)
    BY <1>1, <1>2, <2>4, <2>5, <2>6 DEF EndedAt, Parsing
  <2>8. QED
    BY <2>7 DEF w
<1>8. CASE p.keyIndex # KeyMax
  <2>1. p.keyIndex < KeyMax /\ KeyRoom(s) > 0
    BY <1>1, <1>2, <1>3, <1>8
  <2>2. p.queries_length < Length /\ Nul \in Letters \cup {Nul}
    BY <1>2
  <2>3. /\ x.queries[p.queries_length] = [key |-> [p.queries[p.queries_length].key EXCEPT ![p.keyIndex] = Nul],
                                          value |-> p.queries[p.queries_length].value]
        /\ \A q \in 0 .. Length - 1 : q # p.queries_length => x.queries[q] = p.queries[q]
    BY <1>2, <2>1, <2>2, PutKeyStores DEF x
  <2>4. w.queries[Index(s)] = Part(s, i)
    <3>1. i \in KeyEnd(s) .. ValueEnd(s)
      BY Ends DEF i, k
    <3>2. [key |-> [Part(s, i).key EXCEPT ![KeyMax - KeyRoom(s)] = Nul], value |-> Part(s, i).value] = Part(s, i)
      BY <2>1, <3>1, EndsAlready
    <3>3. QED
      BY <1>2, <1>6, <2>3, <3>2
  <2>5. Filling(w, s, i)
    BY <1>2, <1>4, <1>6, <1>8, <2>3, <2>4, Filled1
  <2>6. i - KeyEnd(s) - 1 = 0
    BY <1>1 DEF i, k
  <2>7. InValue(w, s, i)
    BY <1>6, <2>1, <2>5, <2>6 DEF InValue
  <2>8. w.status = "parsing"
    BY <1>2, <1>4, <1>6, <1>8
  <2>9. QED
    BY <1>6, <2>7, <2>8 DEF Parsing, w, i, k
<1>9. QED
  BY <1>7, <1>8

LEMMA NewFills ==
  ASSUME url \in Seq(Character), Tidy, NEW s \in Starts, Before(s) = {}
  PROVE  InKey([New EXCEPT !.state = "KEY"], s, s)
<1> DEFINE p == [New EXCEPT !.state = "KEY"]
<1>1. /\ p.queries = [q \in 0 .. Length - 1 |-> Blank] /\ p.queries_length = 0 /\ p.keyIndex = 0
      /\ p.valueIndex = 0 /\ p.status = "parsing"
  BY DEF New, Blank
<1> HIDE DEF p
<1>2. Index(s) = 0 /\ Offset(s) = 0 /\ Length \in Nat \ {0}
  BY Indices, HiddenBehind, Offsets, Limits
<1>3. Part(s, s) = Blank
  BY NothingYet
<1>4. Stored(p, s)
  BY DEF Stored
<1>5. p.queries[Index(s)] = Part(s, s) /\ \A q \in Index(s) + 1 .. Length - 1 : p.queries[q] = Blank
  BY <1>1, <1>2, <1>3
<1>6. s <= KeyEnd(s) /\ 0 + (s - s) = 0
  BY Ends
<1>7. Filling(p, s, s)
  BY <1>1, <1>2, <1>4, <1>5 DEF Filling, Parsing
<1>8. InKey(p, s, s)
  BY <1>1, <1>2, <1>6, <1>7 DEF InKey
<1>9. QED
  BY <1>8 DEF p

(* A mark changes the state and nothing else.                              *)
LEMMA MarkRead ==
  ASSUME NEW s, NEW i, NEW p, Typed(p), NEW x, NEW w, w = [p EXCEPT !.state = x]
  PROVE  /\ w.state = x /\ w.keyIndex = p.keyIndex /\ w.valueIndex = p.valueIndex
         /\ Filling(p, s, i) => Filling(w, s, i)
         /\ Inside(p, s, i) => Inside(w, s, i)
<1>1. /\ w.state = x /\ w.keyIndex = p.keyIndex /\ w.valueIndex = p.valueIndex
      /\ w.queries = p.queries /\ w.queries_length = p.queries_length /\ w.status = p.status
  BY DEF Typed, Parser
<1>2. Filling(p, s, i) => Filling(w, s, i)
  BY <1>1 DEF Filling, Stored, Parsing
<1>3. Inside(p, s, i) => Inside(w, s, i)
  BY <1>1, <1>2 DEF Inside, InKey, InValue
<1>4. QED
  BY <1>1, <1>2, <1>3

LEMMA TurnFromNew ==
  ASSUME url \in Seq(Character), Tidy, NEW i \in 0 .. Len(url) - 1, \A s \in Starts : i < s
  PROVE  Reading(Read(New, url[i + 1]), i + 1)
<1> DEFINE c == url[i + 1]
           l == i + 1
<1>1. l \in DOMAIN url /\ c \in Letters \cup Marks /\ l \in Int
  BY LenProperties, ElementOfSeq DEF Character
<1>2. Typed(New) /\ Parsing(New) /\ New.state = "none"
  BY NewTyped DEF New, Parsing
<1>3. \A s \in Starts : s \in Nat /\ KeyEnd(s) \in Nat /\ ValueEnd(s) \in Nat /\ s < KeyEnd(s) /\ KeyEnd(s) < ValueEnd(s)
  BY Ends
<1>4. CASE c \in Letters
  <2>1. Read(New, c) = New
    BY <1>2, <1>4, Reads
  <2>2. l \notin Starts
    BY <1>4, Limits DEF Starts, Marks
  <2>3. \A s \in Starts : l < s
    BY <1>1, <1>3, <2>2
  <2>4. QED
    BY <2>1, <2>3 DEF Reading
<1>5. CASE l \in Starts
  <2>1. \A s \in Starts : l <= s
    BY <1>1, <1>3
  <2>2. Before(l) = {}
    BY <1>1, <1>3, <2>1 DEF Before
  <2>3. c = "?"
    BY <1>1, <1>5, <2>1 DEF Tidy
  <2>4. Read(New, c) = [New EXCEPT !.state = "KEY"]
    BY <1>2, <2>3, Reads
  <2> DEFINE w == [New EXCEPT !.state = "KEY"]
  <2>5. InKey(w, l, l)
    BY <1>5, <2>2, NewFills
  <2>6. w.state = "KEY"
    BY DEF New
  <2> HIDE DEF w, l
  <2>7. l \in l .. ValueEnd(l) /\ l <= KeyEnd(l) /\ l <= KeyEnd(l) + 1
    BY <1>1, <1>3, <1>5
  <2>8. Inside(w, l, l) /\ w.state = StateAt(l, l)
    BY <2>5, <2>6, <2>7 DEF Inside, StateAt
  <2>9. Reading(w, l)
    BY <1>5, <2>7, <2>8 DEF Reading
  <2>10. QED
    BY <2>4, <2>9 DEF w, l
<1>6. c # "="
  <2> SUFFICES ASSUME c = "=" PROVE FALSE
    OBVIOUS
  <2>1. PICK s \in Starts : l = KeyEnd(s) + 1
    BY <1>1 DEF Tidy, KeyEnd
  <2>2. QED
    BY <1>1, <1>3, <2>1
<1>7. c \in Letters \/ l \in Starts
  BY <1>1, <1>6 DEF Marks, Starts
<1>8. QED
  BY <1>4, <1>5, <1>7

LEMMA TurnBehindAnd ==
  ASSUME url \in Seq(Character), Tidy, NEW r \in Starts, NEW s \in Starts, s = ValueEnd(r) + 1,
         NEW p, Typed(p), Inside(p, r, ValueEnd(r)), p.state = "KEY_VALUE_END"
  PROVE  Reading(Read(p, url[s + 1]), s + 1)
<1> DEFINE c == url[s + 1]
           q == EndValue(p)
           w == Read(p, c)
<1>1. /\ s \in Nat /\ KeyEnd(s) \in Nat /\ ValueEnd(s) \in Nat /\ s < KeyEnd(s) /\ KeyEnd(s) < ValueEnd(s)
  BY Ends
<1>2. c \in Letters
  <2>1. s + 1 \in s + 1 .. KeyEnd(s)
    BY <1>1
  <2>2. QED
    BY <2>1, Layout
<1>3. Parsing(p)
  BY DEF Inside, InKey, InValue, Filling
<1>4. w = LetterOfKey(p, c) /\ Typed(q)
  BY <1>2, <1>3, Reads, EndValueTyped
<1>5. w = IF ~Parsing(q) THEN q ELSE TakeLetter(q, c)
  BY <1>4 DEF LetterOfKey, TakeLetter
<1>6. \/ ~Parsing(q) /\ \E t \in {r, s} : EndedAt(q, t)
      \/ Parsing(q) /\ InKey(q, s, s) /\ q.state = "KEY"
  BY ValueEnds
<1> HIDE DEF q, w
<1>7. CASE ~Parsing(q) /\ \E t \in {r, s} : EndedAt(q, t)
  <2>1. \E t \in Starts : EndedAt(w, t)
    BY <1>5, <1>7
  <2>2. QED
    BY <2>1 DEF Reading, w, c
<1>8. CASE Parsing(q) /\ InKey(q, s, s) /\ q.state = "KEY"
  <2>1. w = TakeLetter(q, url[s + 1])
    BY <1>5, <1>8
  <2>2. s \in s .. KeyEnd(s) - 1
    BY <1>1
  <2>3. EndedAt(w, s) \/ (InKey(w, s, s + 1) /\ w.state = "KEY")
    BY <1>4, <1>8, <2>1, <2>2, KeyLetter
  <2>4. CASE EndedAt(w, s)
    BY <2>4 DEF Reading, w, c
  <2>5. CASE InKey(w, s, s + 1) /\ w.state = "KEY"
    <3>1. s + 1 \in s .. ValueEnd(s) /\ s + 1 <= KeyEnd(s) /\ s + 1 <= KeyEnd(s) + 1
      BY <1>1
    <3>2. Inside(w, s, s + 1) /\ w.state = StateAt(s, s + 1)
      BY <2>5, <3>1 DEF Inside, StateAt
    <3>3. Reading(w, s + 1)
      BY <3>1, <3>2 DEF Reading
    <3>4. QED
      BY <3>3 DEF w, c
  <2>6. QED
    BY <2>3, <2>4, <2>5
<1>9. QED
  BY <1>6, <1>7, <1>8

LEMMA TurnInside ==
  ASSUME url \in Seq(Character), Tidy, NEW s \in Starts, NEW i \in s .. ValueEnd(s), i < Len(url),
         NEW p, Typed(p), Inside(p, s, i), p.state = StateAt(s, i)
  PROVE  Reading(Read(p, url[i + 1]), i + 1)
<1> DEFINE c == url[i + 1]
           k == KeyEnd(s)
           v == ValueEnd(s)
           w == Read(p, c)
           l == i + 1
<1>1. s \in Nat /\ k \in Nat /\ v \in Nat /\ s < k /\ k < v /\ i \in Int /\ s <= i /\ i <= v /\ l \in Int /\ Len(url) \in Nat
  BY Ends
<1>2. Parsing(p) /\ p \in Parser
  BY DEF Inside, InKey, InValue, Filling, Typed
<1>3. /\ \A h \in s + 1 .. k : url[h] \in Letters
      /\ \A h \in k + 2 .. v : url[h] \in Letters
      /\ url[k + 1] = "="
      /\ v = Len(url) \/ (v + 1 \in Starts /\ url[v + 1] = "&")
  BY Layout
<1>4. ASSUME EndedAt(w, s) PROVE Reading(w, l)
  BY <1>4 DEF Reading
<1>5. ASSUME l <= v, Inside(w, s, l), w.state = StateAt(s, l) PROVE Reading(w, l)
  <2>1. l \in s .. ValueEnd(s)
    BY <1>1, <1>5
  <2> HIDE DEF w, l
  <2>2. QED
    BY <1>5, <2>1 DEF Reading
<1> HIDE DEF k, v, w, l
<1>6. CASE i < k
  <2>1. c \in Letters /\ i <= k /\ l <= k /\ l <= k + 1 /\ i <= k + 1 /\ l <= v
    <3>1. i + 1 \in s + 1 .. k
      BY <1>1, <1>6
    <3>2. QED
      BY <1>1, <1>3, <1>6, <3>1 DEF l
  <2>2. InKey(p, s, i) /\ p.state = "KEY"
    BY <2>1 DEF Inside, StateAt, k
  <2>3. w = TakeLetter(p, c)
    <3>1. w = LetterOfKey(p, c)
      BY <1>2, <2>1, <2>2, Reads DEF w
    <3>2. QED
      BY <1>2, <2>2, <3>1 DEF LetterOfKey, TakeLetter
  <2>4. EndedAt(w, s) \/ (InKey(w, s, l) /\ w.state = "KEY")
    <3>1. i \in s .. KeyEnd(s) - 1
      BY <1>1, <1>6 DEF k
    <3>2. QED
      BY <2>2, <2>3, <3>1, KeyLetter DEF l
  <2>5. ASSUME InKey(w, s, l), w.state = "KEY" PROVE Inside(w, s, l) /\ w.state = StateAt(s, l)
    BY <2>1, <2>5 DEF Inside, StateAt, k
  <2>6. Reading(w, l)
    BY <1>4, <1>5, <2>1, <2>4, <2>5
  <2>7. QED
    BY <2>6 DEF w, l
<1>7. CASE i = k
  <2>1. c = "=" /\ w = [p EXCEPT !.state = "VALUE_KEY_END"]
    <3>1. c = "="
      BY <1>3, <1>7
    <3>2. QED
      BY <1>2, <3>1, Reads DEF w
  <2>2. l = k + 1 /\ l <= v /\ i <= k /\ i <= k + 1 /\ ~(l <= k)
    BY <1>1, <1>7 DEF l
  <2>3. InKey(p, s, k)
    BY <1>7, <2>2 DEF Inside, k
  <2>4. Filling(p, s, k) /\ p.valueIndex = 0 /\ p.keyIndex = KeyMax - KeyRoom(s)
    <3>1. KeyMax - KeyRoom(s) = Offset(s) + (k - s)
      BY Offsets DEF k
    <3>2. k <= KeyEnd(s)
      BY <1>1 DEF k
    <3>3. QED
      BY <2>3, <3>1, <3>2 DEF InKey
  <2>5. Filling(p, s, l)
    BY <2>2, <2>4, MarkAddsNothing DEF Filling, k
  <2>6. /\ w.state = "VALUE_KEY_END" /\ w.keyIndex = p.keyIndex /\ w.valueIndex = p.valueIndex /\ Filling(w, s, l)
    BY ONLY <2>1, <2>5, Typed(p), MarkRead
  <2>7. InKey(w, s, l)
    BY <2>2, <2>4, <2>6 DEF InKey, k
  <2>8. Inside(w, s, l) /\ w.state = StateAt(s, l)
    <3>1. l = KeyEnd(s) + 1 /\ l <= KeyEnd(s) + 1 /\ ~(l <= KeyEnd(s))
      BY <1>1, <2>2 DEF k
    <3>2. QED
      BY <2>6, <2>7, <3>1 DEF Inside, StateAt
  <2>9. Reading(w, l)
    BY <1>5, <2>2, <2>8
  <2>10. QED
    BY <2>9 DEF w, l
<1>8. CASE k < i /\ i < v
  <2>1. c \in Letters /\ l <= v /\ ~(l <= k + 1) /\ ~(l <= k) /\ l # k + 1
    <3>1. i + 1 \in k + 2 .. v
      BY <1>1, <1>8
    <3>2. QED
      BY <1>1, <1>3, <1>8, <3>1 DEF l
  <2>2. i \in KeyEnd(s) + 1 .. ValueEnd(s) - 1
    BY <1>1, <1>8 DEF k, v
  <2>3. ASSUME InValue(w, s, l), w.state = "VALUE" PROVE Reading(w, l)
    <3>1. Inside(w, s, l) /\ w.state = StateAt(s, l)
      BY <2>1, <2>3 DEF Inside, StateAt, k
    <3>2. QED
      BY <1>5, <2>1, <3>1
  <2>4. ValueMax \in Nat \ {0} /\ p.valueIndex \in Int
    BY <1>2, Limits DEF Parser
  <2>5. CASE i = k + 1
    <3> DEFINE q == EndKey(p)
    <3>1. InKey(p, s, KeyEnd(s) + 1) /\ p.state = "VALUE_KEY_END" /\ p.valueIndex = 0
      <4>1. i = KeyEnd(s) + 1 /\ i <= KeyEnd(s) + 1 /\ ~(i <= KeyEnd(s))
        BY <1>1, <2>5 DEF k
      <4>2. InKey(p, s, i) /\ p.state = "VALUE_KEY_END"
        BY <4>1 DEF Inside, StateAt
      <4>3. QED
        BY <4>1, <4>2 DEF InKey
    <3>2. KeyEnd(s) + 1 < ValueEnd(s)
      BY <1>1, <1>8, <2>5 DEF k, v
    <3>3. w = LetterOfValue(p, c)
      BY <1>2, <2>1, <3>1, Reads DEF w
    <3>4. w = IF Parsing(q) THEN [PutValue(q, c) EXCEPT !.valueIndex = @ + 1] ELSE q
      <4>1. ~(p.valueIndex >= ValueMax)
        BY <2>4, <3>1
      <4>2. QED
        BY <3>1, <3>3, <4>1 DEF LetterOfValue
    <3>5. \/ ~Parsing(q) /\ EndedAt(q, s)
          \/ Parsing(q) /\ InValue(q, s, i) /\ q.state = "VALUE"
      <4>1. i = KeyEnd(s) + 1
        BY <2>5 DEF k
      <4>2. QED
        BY <3>1, <3>2, <4>1, KeyEnds
    <3>6. Typed(q) /\ q.valueIndex = p.valueIndex
      BY <1>2, EndKeyTyped
    <3> HIDE DEF q
    <3>7. CASE ~Parsing(q) /\ EndedAt(q, s)
      <4>1. Reading(w, l)
        BY <1>4, <3>4, <3>7
      <4>2. QED
        BY <4>1 DEF w, l
    <3>8. CASE Parsing(q) /\ InValue(q, s, i) /\ q.state = "VALUE"
      <4>1. q.valueIndex < ValueMax
        BY <2>4, <3>1, <3>6
      <4>2. InValue(w, s, l) /\ w.state = "VALUE"
        BY <2>2, <3>4, <3>6, <3>8, <4>1, ValueLetter DEF l
      <4>3. Reading(w, l)
        BY <2>3, <4>2
      <4>4. QED
        BY <4>3 DEF w, l
    <3>9. QED
      BY <3>5, <3>7, <3>8
  <2>6. CASE i # k + 1
    <3>1. ~(i <= KeyEnd(s)) /\ i # KeyEnd(s) + 1 /\ ~(i <= KeyEnd(s) + 1)
      BY <1>1, <1>8, <2>6 DEF k
    <3>2. InValue(p, s, i) /\ p.state = "VALUE"
      BY <3>1 DEF Inside, StateAt
    <3>3. w = LetterOfValue(p, c)
      BY <1>2, <2>1, <3>2, Reads DEF w
    <3>4. CASE p.valueIndex >= ValueMax
      <4>1. w = Stop(p)
        BY <3>3, <3>4 DEF LetterOfValue
      <4>2. EndedAt(w, s)
        BY <2>2, <3>2, <3>4, <4>1, ValueStops
      <4>3. Reading(w, l)
        BY <1>4, <4>2
      <4>4. QED
        BY <4>3 DEF w, l
    <3>5. CASE ~(p.valueIndex >= ValueMax)
      <4>1. w = [PutValue(p, c) EXCEPT !.valueIndex = @ + 1]
        BY <1>2, <3>2, <3>3, <3>5 DEF LetterOfValue
      <4>2. p.valueIndex < ValueMax
        BY <2>4, <3>5
      <4>3. InValue(w, s, l) /\ w.state = "VALUE"
        BY <2>2, <3>2, <4>1, <4>2, ValueLetter DEF l
      <4>4. Reading(w, l)
        BY <2>3, <4>3
      <4>5. QED
        BY <4>4 DEF w, l
    <3>6. QED
      BY <3>4, <3>5
  <2>7. QED
    BY <2>5, <2>6
<1>9. CASE i = v
  <2>1. c = "&" /\ l \in Starts /\ l = ValueEnd(s) + 1
    BY <1>1, <1>3, <1>9 DEF l, v
  <2>2. w = [p EXCEPT !.state = "KEY_VALUE_END"]
    BY <1>2, <2>1, Reads DEF w
  <2>3. Inside(w, s, ValueEnd(s)) /\ w.state = "KEY_VALUE_END"
    <3>1. w.state = "KEY_VALUE_END" /\ (Inside(p, s, i) => Inside(w, s, i))
      BY ONLY <2>2, Typed(p), MarkRead
    <3>2. QED
      BY ONLY <1>9, <3>1, Inside(p, s, i) DEF v
  <2>4. Reading(w, l)
    BY <2>1, <2>3 DEF Reading
  <2>5. QED
    BY <2>4 DEF w, l
<1>10. QED
  BY <1>1, <1>6, <1>7, <1>8, <1>9

LEMMA TurnReads ==
  ASSUME url \in Seq(Character), Tidy, NEW i \in 0 .. Len(url) - 1, NEW p, Typed(p), Reading(p, i)
  PROVE  Reading(Read(p, url[i + 1]), i + 1)
<1>1. i \in Nat /\ i < Len(url) /\ Len(url) \in Nat
  BY LenProperties
<1>2. CASE (\A s \in Starts : i < s) /\ p = New
  BY <1>2, TurnFromNew
<1>3. ASSUME NEW r \in Starts, i = ValueEnd(r) + 1, i \in Starts, Inside(p, r, ValueEnd(r)), p.state = "KEY_VALUE_END"
      PROVE  Reading(Read(p, url[i + 1]), i + 1)
  BY <1>3, TurnBehindAnd
<1>4. ASSUME NEW s \in Starts, i \in s .. ValueEnd(s), Inside(p, s, i), p.state = StateAt(s, i)
      PROVE  Reading(Read(p, url[i + 1]), i + 1)
  BY <1>1, <1>4, TurnInside
<1>5. ASSUME NEW t \in Starts, EndedAt(p, t) PROVE Reading(Read(p, url[i + 1]), i + 1)
  <2>1. ~Parsing(p)
    BY <1>5 DEF EndedAt, Parsing
  <2>2. Read(p, url[i + 1]) = p
    BY <2>1 DEF Read
  <2>3. QED
    BY <1>5, <2>2 DEF Reading
<1>6. QED
  BY <1>2, <1>3, <1>4, <1>5 DEF Reading

-----------------------------------------------------------------------------
(* The whole url.                                                          *)
LoopReads(a, p, i) == Typed(p) /\ Reading(p, i)
Walk == INSTANCE Recursion WITH Base <- LoopBase, Step <- LoopStep, Holds <- LoopReads

LEMMA ReadAllReads ==
  ASSUME url \in Seq(Character), Tidy
  PROVE  Typed(ReadAll(New, url)) /\ Reading(ReadAll(New, url), Len(url))
<1> DEFINE a == [from |-> New, piece |-> url]
           n == Len(url)
<1>1. a.from = New /\ a.piece = url /\ n \in Nat
  BY LenProperties
<1> HIDE DEF a
<1>2. ReadAll(New, url) = Walk!Run(a, 0, n)[n]
  BY <1>1 DEF ReadAll, Walk!Run, Walk!Loop, LoopBase, LoopStep
<1>3. LoopReads(a, LoopBase(a), 0)
  <2>1. \A s \in Starts : 0 < s
    BY Ends
  <2>2. Reading(New, 0)
    BY <2>1 DEF Reading
  <2>3. QED
    BY <1>1, <2>2, NewTyped DEF LoopReads, LoopBase
<1>4. ASSUME NEW i \in 0 + 1 .. n, NEW x, LoopReads(a, x, i - 1)
      PROVE  LoopReads(a, LoopStep(a, x, i), i)
  <2>1. i - 1 \in 0 .. Len(url) - 1 /\ (i - 1) + 1 = i /\ i \in 1 .. Len(url)
    BY <1>1
  <2>2. url[i] \in Character
    BY <2>1, ElementOfSeq
  <2>3. Typed(x) /\ Reading(x, i - 1)
    BY <1>4 DEF LoopReads
  <2>4. Reading(Read(x, url[(i - 1) + 1]), (i - 1) + 1)
    BY <2>1, <2>3, TurnReads
  <2>5. Typed(Read(x, url[i]))
    BY <2>2, <2>3, ReadTyped
  <2>6. QED
    BY <1>1, <2>1, <2>4, <2>5 DEF LoopReads, LoopStep
<1> HIDE DEF n
<1>5. LoopReads(a, Walk!Run(a, 0, n)[n], n)
  <2>1. 0 \in Int /\ n \in Int /\ 0 <= n
    BY <1>1
  <2>2. QED
    BY <1>3, <1>4, <2>1, Walk!Invariant
<1>6. QED
  BY <1>2, <1>5 DEF LoopReads, n

(* Reading a url piece by piece is reading it at once: a piece that begins *)
(* at a.at of the text is read as that part of the text is.                *)
AtOnce(s) == [from |-> New, piece |-> s]
Whole(s) == Loop!Run(AtOnce(s), 0, Len(s))
LoopContinues(a, p, i) == p = Whole(a.text)[a.at + i]
Ahead == INSTANCE Recursion WITH Base <- LoopBase, Step <- LoopStep, Holds <- LoopContinues

LEMMA ReadAllRuns ==
  ASSUME NEW s \in Seq(Character)
  PROVE  ReadAll(New, s) = Whole(s)[Len(s)]
BY DEF ReadAll, AtOnce, Whole, Loop!Run, Loop!Loop, LoopBase, LoopStep

LEMMA WholeSteps ==
  ASSUME NEW s \in Seq(Character)
  PROVE  /\ Whole(s)[0] = New
         /\ \A i \in 1 .. Len(s) : Whole(s)[i] = Read(Whole(s)[i - 1], s[i])
<1> DEFINE n == Len(s)
           q == AtOnce(s)
           z == 0
<1>1. z \in Int /\ n \in Int /\ z <= n /\ \A i \in 1 .. n : i \in z + 1 .. n
  BY LenProperties
<1>2. q.from = New /\ q.piece = s
  BY DEF AtOnce
<1>3. Whole(s) = Loop!Run(q, z, n)
  BY DEF Whole
<1> HIDE DEF n, q, z
<1>4. /\ Loop!Run(q, z, n)[z] = LoopBase(q)
      /\ \A i \in z + 1 .. n : Loop!Run(q, z, n)[i] = LoopStep(q, Loop!Run(q, z, n)[i - 1], i)
  BY <1>1, Loop!Unfolded
<1>5. /\ Whole(s)[0] = New
      /\ \A i \in 1 .. n : Whole(s)[i] = Read(Whole(s)[i - 1], s[i])
  BY <1>1, <1>2, <1>3, <1>4 DEF LoopBase, LoopStep, z
<1>6. QED
  BY <1>5 DEF n

LEMMA Continues ==
  ASSUME NEW s \in Seq(Character), NEW t \in Seq(Character), NEW m \in Nat,
         m + Len(t) <= Len(s), \A i \in 1 .. Len(t) : s[m + i] = t[i]
  PROVE  ReadAll(Whole(s)[m], t) = Whole(s)[m + Len(t)]
<1> DEFINE n == Len(t)
           z == 0
           a == [from |-> Whole(s)[m], piece |-> t, text |-> s, at |-> m]
<1>1. a.from = Whole(s)[m] /\ a.piece = t /\ a.text = s /\ a.at = m
  OBVIOUS
<1>2. /\ n \in Nat /\ Len(s) \in Nat /\ m + n <= Len(s)
      /\ z \in Int /\ n \in Int /\ z <= n /\ m + z = m
      /\ \A i \in z + 1 .. n : i \in 1 .. n /\ m + i \in 1 .. Len(s) /\ (m + i) - 1 = m + (i - 1)
  BY LenProperties
<1>3. ReadAll(Whole(s)[m], t) = Ahead!Run(a, z, n)[n]
  BY <1>1 DEF ReadAll, Ahead!Run, Ahead!Loop, LoopBase, LoopStep
<1>4. \A i \in 1 .. n : s[m + i] = t[i]
  OBVIOUS
<1> HIDE DEF a, n, z
<1>5. LoopContinues(a, LoopBase(a), z)
  BY <1>1, <1>2 DEF LoopContinues, LoopBase
<1>6. ASSUME NEW i \in z + 1 .. n, NEW x, LoopContinues(a, x, i - 1)
      PROVE  LoopContinues(a, LoopStep(a, x, i), i)
  <2>1. x = Whole(s)[m + (i - 1)]
    BY <1>1, <1>6 DEF LoopContinues
  <2>2. Whole(s)[m + i] = Read(Whole(s)[(m + i) - 1], s[m + i])
    BY <1>2, WholeSteps
  <2>3. Whole(s)[m + i] = Read(x, t[i])
    BY <1>2, <1>4, <2>1, <2>2
  <2>4. QED
    BY <1>1, <2>3 DEF LoopContinues, LoopStep
<1>7. LoopContinues(a, Ahead!Run(a, z, n)[n], n)
  BY <1>2, <1>5, <1>6, Ahead!Invariant
<1>8. QED
  BY <1>1, <1>3, <1>7 DEF LoopContinues, n

LEMMA ReadAllPieces ==
  ASSUME NEW s \in Seq(Character), NEW t \in Seq(Character)
  PROVE  ReadAll(New, s \o t) = ReadAll(ReadAll(New, s), t)
<1> DEFINE u == s \o t
           m == Len(s)
<1>1. /\ u \in Seq(Character) /\ Len(u) = m + Len(t) /\ m \in Nat /\ Len(t) \in Nat
      /\ \A i \in 1 .. m : u[i] = s[i]
      /\ \A i \in 1 .. Len(t) : u[m + i] = t[i]
  BY ConcatProperties, LenProperties
<1> HIDE DEF u
<1>2. 0 \in Nat /\ 0 + m = m /\ m <= Len(u) /\ \A i \in 1 .. m : 0 + i = i
  BY <1>1
<1>3. ReadAll(Whole(u)[0], s) = Whole(u)[m]
  <2>1. \A i \in 1 .. m : u[0 + i] = s[i]
    BY <1>1, <1>2
  <2>2. 0 + m <= Len(u)
    BY <1>2
  <2>3. ReadAll(Whole(u)[0], s) = Whole(u)[0 + m]
    BY <1>1, <1>2, <2>1, <2>2, Continues
  <2>4. QED
    BY <1>2, <2>3
<1>4. Whole(u)[0] = New
  BY <1>1, WholeSteps
<1>5. ReadAll(Whole(u)[m], t) = Whole(u)[m + Len(t)]
  BY <1>1, Continues
<1>6. ReadAll(New, u) = Whole(u)[Len(u)]
  BY <1>1, ReadAllRuns
<1>7. QED
  BY <1>1, <1>3, <1>4, <1>5, <1>6 DEF u

-----------------------------------------------------------------------------
(* What the parser returns when the url ends: it left an array where       *)
(* OverrunAtLimit says, or it has the parameters that fit, but perhaps one *)
(* that cannot be found anyway.                                            *)
WhereBursts == \E s \in Starts : Index(s) < Length /\ Before(s) \subseteq Kept /\ Bursts(s)
Complete(end) ==
  /\ \A q \in 0 .. end.queries_length - 1 : \E s \in Kept : Index(s) = q
  /\ \A s \in Kept : IF Index(s) < end.queries_length
                       THEN end.queries[Index(s)] = Part(s, ValueEnd(s)) ELSE Hidden(s)
Outcome(end) == IF end.status = "overrun" THEN WhereBursts ELSE ~WhereBursts /\ Complete(end)

LEMMA BurstsTooLong ==
  ASSUME url \in Seq(Character), Tidy, NEW s \in Starts, Bursts(s)
  PROVE  ~Fits(s)
<1>1. KeyRoom(s) \in Int /\ ValueMax \in Int
  BY Offsets, Limits
<1>2. QED
  BY <1>1 DEF Bursts, Fits

LEMMA BeforeKept ==
  ASSUME url \in Seq(Character), Tidy, NEW t \in Starts, Index(t) <= Length, NEW p, Stored(p, t)
  PROVE  Before(t) \subseteq Kept
<1> SUFFICES ASSUME NEW r \in Before(t) PROVE r \in Kept
  OBVIOUS
<1>1. r \in Starts /\ r < t /\ r \in Nat /\ t \in Nat
  BY Ends DEF Before
<1>2. Index(r) < Length
  <2>1. Index(r) \in Nat /\ Index(t) \in Nat /\ Index(r) < Index(t) /\ Length \in Nat
    BY <1>1, Indices, Limits
  <2>2. QED
    BY <2>1
<1>3. ASSUME NEW q \in Before(r) \cup {r} PROVE Fits(q)
  <2>1. q \in Starts /\ q < t
    <3>1. CASE q = r
      BY <1>1, <3>1
    <3>2. CASE q \in Before(r)
      <4>1. q \in Starts /\ q < r /\ q \in Nat
        BY <3>2, Ends DEF Before
      <4>2. QED
        BY <1>1, <4>1
    <3>3. QED
      BY <3>1, <3>2
  <2>2. QED
    BY <2>1 DEF Stored, Before
<1>4. QED
  BY <1>1, <1>2, <1>3 DEF Kept, Index

LEMMA KeptBefore ==
  ASSUME url \in Seq(Character), Tidy, NEW s \in Kept, NEW r \in Starts, r <= s
  PROVE  Index(r) < Length /\ Fits(r) /\ s \in Starts
<1>1. s \in Starts /\ Index(s) < Length /\ \A q \in Before(s) \cup {s} : Fits(q)
  BY DEF Kept, Index
<1>2. r \in Nat /\ s \in Nat /\ Index(r) \in Nat /\ Index(s) \in Nat /\ Length \in Nat
  BY <1>1, Ends, Indices, Limits
<1>3. CASE r = s
  BY <1>1, <1>3
<1>4. CASE r # s
  <2>1. r \in Before(s)
    BY <1>2, <1>4 DEF Before
  <2>2. Index(r) < Index(s)
    BY <1>1, <2>1, Indices
  <2>3. QED
    BY <1>1, <1>2, <2>1, <2>2
<1>5. QED
  BY <1>3, <1>4

(* The parser has the parameters that fit if it has those before t and all *)
(* others that fit are hidden.                                             *)
LEMMA CompleteUpTo ==
  ASSUME url \in Seq(Character), Tidy, NEW t \in Starts, Index(t) <= Length,
         NEW p, Stored(p, t), p.queries_length = Index(t),
         \A s \in Kept : s < t \/ Hidden(s)
  PROVE  Complete(p)
<1>1. Before(t) \subseteq Kept
  BY BeforeKept
<1>2. \A q \in 0 .. p.queries_length - 1 : \E s \in Kept : Index(s) = q
  BY <1>1, EachIndexed
<1>3. ASSUME NEW s \in Kept
      PROVE  IF Index(s) < p.queries_length THEN p.queries[Index(s)] = Part(s, ValueEnd(s)) ELSE Hidden(s)
  <2>1. s \in Starts
    BY DEF Kept
  <2>2. Index(s) < Index(t) <=> s < t
    BY <2>1, IndexedOnce
  <2>3. s < t => s \in Before(t)
    BY <2>1 DEF Before
  <2>4. QED
    BY <2>2, <2>3 DEF Stored
<1>4. QED
  BY <1>2, <1>3 DEF Complete

(* Where the parser stopped before the end of the url, it stays.           *)
LEMMA EndedOutcome ==
  ASSUME url \in Seq(Character), Tidy, NEW t \in Starts, NEW p, EndedAt(p, t)
  PROVE  Outcome(Finish(p))
<1>1. Finish(p) = p
  BY DEF EndedAt, Finish, Parsing
<1>2. Index(t) <= Length /\ Stored(p, t) /\ Index(t) \in Nat /\ Length \in Nat
  BY Indices, Limits DEF EndedAt
<1>3. Before(t) \subseteq Kept
  BY <1>2, BeforeKept
<1>4. CASE p.status = "overrun"
  BY <1>1, <1>3, <1>4 DEF EndedAt, Outcome, WhereBursts
<1>5. CASE p.status # "overrun"
  <2>1. p.queries_length = Index(t) /\ (Index(t) = Length \/ (~Fits(t) /\ ~Bursts(t)))
    BY <1>5 DEF EndedAt
  <2>2. t \in Nat /\ \A s \in Starts : s \in Nat
    BY Ends
  <2>3. ASSUME NEW s \in Kept PROVE s < t
    <3>1. s \in Starts
      BY DEF Kept
    <3>2. ~(t <= s)
      BY <1>2, <2>1, KeptBefore
    <3>3. QED
      BY <2>2, <3>1, <3>2
  <2>4. Complete(p)
    BY <1>2, <2>1, <2>3, CompleteUpTo
  <2>5. ASSUME NEW s \in Starts, Index(s) < Length, Before(s) \subseteq Kept, Bursts(s) PROVE FALSE
    <3>1. ~Fits(s)
      BY <2>5, BurstsTooLong
    <3>2. CASE s < t
      BY <1>2, <3>1, <3>2 DEF Stored, Before
    <3>3. CASE s = t
      BY <1>2, <2>1, <2>5, <3>3
    <3>4. CASE t < s
      <4>1. t \in Kept
        BY <2>5, <3>4 DEF Before
      <4>2. QED
        BY <2>2, <2>3, <4>1
    <3>5. QED
      BY <2>2, <3>2, <3>3, <3>4
  <2>6. QED
    BY <1>1, <1>5, <2>4, <2>5 DEF Outcome, WhereBursts
<1>6. QED
  BY <1>4, <1>5

(* Where a key can be found, its first letter is the first of its array.   *)
LEMMA FirstLetter ==
  ASSUME url \in Seq(Character), Tidy, NEW s \in Starts
  PROVE  Part(s, ValueEnd(s)).key[0] = IF Hidden(s) THEN Nul ELSE url[s + 1]
<1> DEFINE o == Offset(s)
           k == KeyEnd(s)
           v == ValueEnd(s)
<1>1. /\ s \in Nat /\ k \in Nat /\ v \in Nat /\ s < k /\ k < v /\ o \in Nat /\ KeyMax \in Nat \ {0}
      /\ Hidden(s) => o > 0
      /\ ~Hidden(s) => o = 0
  BY Ends, Offsets, Limits
<1> HIDE DEF o, k, v
<1>2. Part(s, v).key[0] = IF o <= 0 /\ s + 1 + 0 - o <= k /\ s + 1 + 0 - o <= v THEN url[s + 1 + 0 - o] ELSE Nul
  <2>1. 0 \in 0 .. KeyMax - 1
    BY <1>1
  <2>2. QED
    BY <2>1 DEF Part, KeyPart, o, k
<1>3. Hidden(s) => ~(o <= 0)
  BY <1>1
<1>4. ~Hidden(s) => o <= 0 /\ s + 1 + 0 - o <= k /\ s + 1 + 0 - o <= v /\ s + 1 + 0 - o = s + 1
  BY <1>1
<1>5. QED
  BY <1>2, <1>3, <1>4 DEF v

(* The last parameter, when the url ends behind its value.                 *)
LEMMA LastOutcome ==
  ASSUME url \in Seq(Character), Tidy, NEW s \in Starts, Len(url) = ValueEnd(s),
         NEW p, Typed(p), Inside(p, s, ValueEnd(s))
  PROVE  Outcome(Finish(p))
<1> DEFINE k == KeyEnd(s)
           v == ValueEnd(s)
           x == PutValue(p, Nul)
<1>1. /\ s \in Nat /\ k \in Nat /\ v \in Nat /\ s < k /\ k < v /\ KeyRoom(s) \in Int /\ Offset(s) \in Nat
      /\ KeyMax - KeyRoom(s) = Offset(s) + (k - s)
      /\ KeyMax \in Nat /\ ValueMax \in Nat \ {0} /\ Length \in Nat /\ Index(s) \in Nat
  BY Ends, Offsets, Limits, Indices
<1>2. Len(Value(s)) = v - k - 1 /\ (Value(s) = <<>> <=> v = k + 1)
  BY Layout
<1>3. \A r \in Starts : r \in Nat /\ r <= s
  <2> SUFFICES ASSUME NEW r \in Starts PROVE r \in Nat /\ r <= s
    OBVIOUS
  <2>1. r \in Nat /\ r <= v
    <3>1. r \in 1 .. Len(url)
      BY Layout
    <3>2. QED
      BY <1>1, <3>1
  <2>2. r \notin s + 1 .. v
    BY NoneInside
  <2> HIDE DEF v
  <2>3. QED
    BY <1>1, <2>1, <2>2
<1> HIDE DEF k, v
<1>4. /\ Filling(p, s, v) /\ p \in Parser /\ p.status = "parsing" /\ p.queries_length = Index(s)
      /\ Index(s) < Length /\ Stored(p, s) /\ p.queries[Index(s)] = Part(s, v)
      /\ p.keyIndex = IF v = k + 1 THEN KeyMax - KeyRoom(s) ELSE 0
      /\ p.valueIndex = v - k - 1 /\ (v # k + 1 => KeyRoom(s) > 0)
  BY AtEnd DEF k, v
<1>5. p.keyIndex \in 0 .. KeyMax /\ p.valueIndex \in 0 .. ValueMax
  BY <1>4 DEF Parser
<1>6. Index(s) <= Length /\ Before(s) \subseteq Kept
  <2>1. Index(s) <= Length
    BY <1>1, <1>4
  <2>2. QED
    BY <1>4, <2>1, BeforeKept
<1>7. WhereBursts <=> KeyRoom(s) > 0 /\ Len(Value(s)) = ValueMax /\ ~Hidden(s)
  <2>1. Bursts(s) <=> KeyRoom(s) > 0 /\ Len(Value(s)) = ValueMax /\ ~Hidden(s)
    <3>1. ~(KeyRoom(s) = 0 /\ Value(s) # <<>>)
      BY <1>1, <1>2, <1>4
    <3>2. ~(\E r \in Starts : s < r)
      BY <1>1, <1>3
    <3>3. QED
      BY <3>1, <3>2 DEF Bursts
  <2>2. ASSUME NEW r \in Starts, Bursts(r) PROVE r = s
    <3>1. ~Fits(r)
      BY <2>2, BurstsTooLong
    <3>2. ~(r < s)
      BY <1>4, <3>1 DEF Stored, Before
    <3>3. QED
      BY <1>1, <1>3, <3>2
  <2>3. QED
    BY <1>4, <1>6, <2>1, <2>2 DEF WhereBursts
<1>8. p.queries[p.queries_length].key[0] = IF Hidden(s) THEN Nul ELSE url[s + 1]
  BY <1>4, FirstLetter DEF v
<1>9. \A r \in Kept : r < s \/ r = s
  BY <1>1, <1>3 DEF Kept
<1>10. CASE Hidden(s)
  <2>1. Finish(p) = p
    BY <1>8, <1>10 DEF Finish
  <2>2. Complete(p)
    BY <1>4, <1>6, <1>9, <1>10, CompleteUpTo
  <2>3. QED
    BY <1>4, <1>7, <1>10, <2>1, <2>2 DEF Outcome
<1>11. CASE ~Hidden(s) /\ p.keyIndex >= KeyMax
  <2>1. Finish(p) = p
    BY <1>11 DEF Finish
  <2>2. KeyRoom(s) <= 0
    BY <1>1, <1>4, <1>11, Limits
  <2>3. ~Fits(s) /\ ~(KeyRoom(s) > 0)
    BY <1>1, <2>2 DEF Fits
  <2>4. s \notin Kept
    BY <2>3 DEF Kept
  <2>5. Complete(p)
    BY <1>4, <1>6, <1>9, <2>4, CompleteUpTo
  <2>6. QED
    BY <1>4, <1>7, <2>1, <2>3, <2>5 DEF Outcome
<1>12. CASE ~Hidden(s) /\ ~(p.keyIndex >= KeyMax)
  <2>1. url[s + 1] # Nul
    <3>1. s + 1 \in s + 1 .. KeyEnd(s)
      BY <1>1 DEF k
    <3>2. url[s + 1] \in Letters
      BY <3>1, Layout
    <3>3. QED
      BY <3>2, ParserAssumption
  <2>2. Parsing(p)
    BY <1>4 DEF Parsing
  <2>3. Finish(p) = IF Parsing(x) THEN [x EXCEPT !.queries_length = @ + 1] ELSE x
    BY <1>8, <1>12, <2>1, <2>2 DEF Finish
  <2>4. KeyRoom(s) > 0
    BY <1>1, <1>4, <1>5, <1>12
  <2>5. CASE p.valueIndex = ValueMax
    <3>1. x.status = "overrun"
      BY <1>4, <2>5 DEF PutValue, Overrun, Parser
    <3>2. Finish(p) = x
      BY <2>3, <3>1 DEF Parsing
    <3>3. WhereBursts
      BY <1>2, <1>4, <1>7, <1>12, <2>4, <2>5
    <3>4. QED
      BY <3>1, <3>2, <3>3 DEF Outcome
  <2>6. CASE p.valueIndex # ValueMax
    <3>1. p.valueIndex < ValueMax /\ p.queries_length < Length /\ Nul \in Letters \cup {Nul}
      BY <1>1, <1>4, <1>5, <2>6
    <3>2. /\ x \in Parser /\ x.queries_length = p.queries_length /\ x.status = p.status
          /\ x.queries[p.queries_length] = [key |-> p.queries[p.queries_length].key,
                    value |-> [p.queries[p.queries_length].value EXCEPT ![p.valueIndex] = Nul]]
          /\ \A q \in 0 .. Length - 1 : q # p.queries_length => x.queries[q] = p.queries[q]
      BY <1>4, <3>1, PutValueStores
    <3> HIDE DEF x
    <3>3. x.queries[Index(s)] = Part(s, ValueEnd(s))
      <4>1. v - KeyEnd(s) - 1 < ValueMax /\ v \in KeyEnd(s) + 1 .. ValueEnd(s)
        BY <1>1, <1>4, <3>1 DEF k, v
      <4>2. [key |-> Part(s, v).key, value |-> [Part(s, v).value EXCEPT ![v - KeyEnd(s) - 1] = Nul]] = Part(s, v)
        BY <4>1, EndsAlready
      <4>3. QED
        BY <1>4, <3>2, <4>2 DEF k, v
    <3> DEFINE w == [x EXCEPT !.queries_length = @ + 1]
    <3>4. Finish(p) = w
      BY <1>4, <2>3, <3>2 DEF Parsing
    <3>5. w.queries = x.queries /\ w.status = "parsing" /\ w.queries_length = Index(s) + 1
      <4>1. x.queries_length = Index(s) /\ x.status = "parsing"
        BY <1>4, <3>2
      <4>2. QED
        BY <3>2, <4>1 DEF Parser
    <3> HIDE DEF w
    <3>6. s \in Kept
      <4>1. Fits(s)
        BY <1>1, <1>2, <1>4, <2>4, <3>1 DEF Fits
      <4>2. QED
        BY <1>4, <4>1 DEF Stored, Kept, Index
    <3>7. \A q \in 0 .. w.queries_length - 1 : \E r \in Kept : Index(r) = q
      <4> SUFFICES ASSUME NEW q \in 0 .. Index(s), q # Index(s) PROVE \E r \in Kept : Index(r) = q
        BY <1>1, <3>5, <3>6
      <4>1. q \in 0 .. Index(s) - 1
        BY <1>1
      <4>2. QED
        BY <1>6, <4>1, EachIndexed
    <3>8. ASSUME NEW r \in Kept
          PROVE  Index(r) < w.queries_length /\ w.queries[Index(r)] = Part(r, ValueEnd(r))
      <4>1. CASE r = s
        BY <1>1, <3>3, <3>5, <4>1
      <4>2. CASE r # s
        <5>1. r \in Starts /\ r < s
          BY <1>9, <4>2 DEF Kept
        <5>2. Index(r) \in Nat /\ Index(r) < Index(s)
          BY <5>1, IndexedOnce, Indices
        <5>3. p.queries[Index(r)] = Part(r, ValueEnd(r))
          BY <1>4, <5>1 DEF Stored, Before
        <5>4. Index(r) \in 0 .. Length - 1 /\ Index(r) # Index(s) /\ Index(r) < Index(s) + 1
          BY <1>1, <1>4, <5>2
        <5>5. QED
          BY <1>4, <3>2, <3>5, <5>3, <5>4
      <4>3. QED
        BY <4>1, <4>2
    <3>9. ~WhereBursts
      BY <1>2, <1>4, <1>7, <2>6
    <3>10. Complete(w)
      BY <3>7, <3>8 DEF Complete
    <3>11. QED
      BY <3>4, <3>5, <3>9, <3>10 DEF Outcome
  <2>7. QED
    BY <2>5, <2>6
<1>13. QED
  BY <1>10, <1>11, <1>12

LEMMA Ending ==
  ASSUME url \in Seq(Character), Tidy, NEW p, Typed(p), Reading(p, Len(url))
  PROVE  Outcome(Finish(p))
<1> DEFINE n == Len(url)
<1>1. \A s \in Starts : /\ s \in Nat /\ KeyEnd(s) \in Nat /\ ValueEnd(s) \in Nat /\ n \in Nat
                        /\ s < KeyEnd(s) /\ KeyEnd(s) < ValueEnd(s) /\ ValueEnd(s) <= n
  BY Ends
<1> HIDE DEF n
<1>2. CASE (\A s \in Starts : n < s) /\ p = New
  <2>1. Starts = {}
    BY <1>1, <1>2
  <2>2. p.queries_length = 0 /\ p.status = "parsing" /\ p.queries[0].key[0] = Nul
    <3>1. 0 \in 0 .. Length - 1 /\ 0 \in 0 .. KeyMax - 1
      BY Limits
    <3>2. QED
      BY <1>2, <3>1 DEF New, Empty
  <2>3. Finish(p) = p
    BY <2>2 DEF Finish
  <2>4. QED
    BY <2>1, <2>2, <2>3 DEF Outcome, WhereBursts, Complete, Kept
<1>3. CASE \E r \in Starts : n = ValueEnd(r) + 1 /\ n \in Starts
  BY <1>1, <1>3
<1>4. ASSUME NEW s \in Starts, n \in s .. ValueEnd(s), Inside(p, s, n) PROVE Outcome(Finish(p))
  <2>1. n = ValueEnd(s)
    <3> DEFINE v == ValueEnd(s)
    <3>1. v \in Nat /\ n \in Nat /\ v <= n /\ s \in Nat /\ n \in s .. v
      BY <1>1, <1>4
    <3> HIDE DEF v
    <3>2. n = v
      BY <3>1
    <3>3. QED
      BY <3>2 DEF v
  <2>2. QED
    BY <1>4, <2>1, LastOutcome DEF n
<1>5. ASSUME NEW t \in Starts, EndedAt(p, t) PROVE Outcome(Finish(p))
  BY <1>5, EndedOutcome
<1>6. QED
  BY <1>2, <1>3, <1>4, <1>5 DEF Reading, n

(* The string in an array with a '\0' at n and none before.                *)
LEMMA TextIs ==
  ASSUME NEW m \in Nat, NEW a, DOMAIN a = 0 .. m - 1, NEW n \in 0 .. m - 1, a[n] = Nul,
         \A j \in 0 .. n - 1 : a[j] # Nul
  PROVE  Text(a) = [i \in 1 .. n |-> a[i - 1]]
<1> DEFINE ends == {i \in DOMAIN a : a[i] = Nul}
           least == CHOOSE i \in ends : \A j \in ends : i <= j
<1>1. n \in ends /\ \A j \in ends : j \in Nat /\ ~(j \in 0 .. n - 1)
  OBVIOUS
<1>2. \A j \in ends : n <= j
  BY <1>1
<1>3. \A i \in ends : (\A j \in ends : i <= j) => i = n
  BY <1>1, <1>2
<1> HIDE DEF ends
<1>4. least = n
  BY <1>1, <1>2, <1>3
<1>5. Text(a) = LET e == IF ends = {} THEN Cardinality(DOMAIN a) ELSE least
                IN  [i \in 1 .. e |-> a[i - 1]]
  BY DEF Text, ends
<1> HIDE DEF least
<1>6. QED
  BY <1>1, <1>4, <1>5

(* What is in the arrays of a parameter that fits.                         *)
LEMMA TextOfValue ==
  ASSUME url \in Seq(Character), Tidy, NEW s \in Starts, Fits(s)
  PROVE  Text(Part(s, ValueEnd(s)).value) = Value(s)
<1> DEFINE k == KeyEnd(s)
           v == ValueEnd(s)
           a == ValuePart(s, v)
           n == Len(Value(s))
<1>1. /\ s \in Nat /\ k \in Nat /\ v \in Nat /\ s < k /\ k < v /\ ValueMax \in Nat
      /\ n = v - k - 1 /\ n < ValueMax
  BY Ends, Limits, Layout DEF Fits
<1>2. /\ \A h \in 1 .. v - k - 1 : Value(s)[h] = url[k + 1 + h]
      /\ \A h \in k + 2 .. v : url[h] \in Letters
      /\ Value(s) \in Seq(Letters)
  BY Layout
<1> HIDE DEF k, v, n
<1>3. \A j \in 0 .. ValueMax - 1 : a[j] = IF k + 2 + j <= v /\ k + 2 + j <= v THEN url[k + 2 + j] ELSE Nul
  BY DEF ValuePart, k, v
<1>4. DOMAIN a = 0 .. ValueMax - 1
  BY DEF ValuePart
<1> HIDE DEF a
<1>5. n \in 0 .. ValueMax - 1 /\ a[n] = Nul
  BY <1>1, <1>3
<1>6. ASSUME NEW j \in 0 .. n - 1 PROVE a[j] = Value(s)[j + 1] /\ a[j] # Nul
  <2>1. /\ j \in 0 .. ValueMax - 1 /\ k + 2 + j <= v /\ k + 2 + j \in k + 2 .. v
        /\ j + 1 \in 1 .. v - k - 1 /\ k + 1 + (j + 1) = k + 2 + j
    BY <1>1
  <2>2. a[j] = url[k + 2 + j] /\ url[k + 2 + j] \in Letters
    BY <1>2, <1>3, <2>1
  <2>3. Value(s)[j + 1] = url[k + 2 + j]
    BY <1>2, <2>1
  <2>4. QED
    BY <2>2, <2>3, ParserAssumption
<1>7. Text(a) = [i \in 1 .. n |-> a[i - 1]]
  BY <1>1, <1>4, <1>5, <1>6, TextIs
<1>8. ASSUME NEW i \in 1 .. n PROVE a[i - 1] = Value(s)[i]
  <2>1. i - 1 \in 0 .. n - 1 /\ (i - 1) + 1 = i
    BY <1>1
  <2>2. a[i - 1] = Value(s)[(i - 1) + 1]
    BY <1>6, <2>1
  <2>3. QED
    BY <2>1, <2>2
<1>9. Value(s) = [i \in 1 .. n |-> Value(s)[i]]
  BY <1>2, LenProperties DEF n
<1>10. Text(a) = Value(s)
  BY <1>7, <1>8, <1>9
<1>11. Part(s, ValueEnd(s)).value = a
  BY DEF a, Part, v
<1>12. QED
  BY <1>10, <1>11

LEMMA TextOfKey ==
  ASSUME url \in Seq(Character), Tidy, NEW s \in Starts, Fits(s), ~Hidden(s)
  PROVE  Text(Part(s, ValueEnd(s)).key) = Key(s)
<1> DEFINE k == KeyEnd(s)
           v == ValueEnd(s)
           a == KeyPart(s, v)
           n == Len(Key(s))
<1>1. /\ s \in Nat /\ k \in Nat /\ v \in Nat /\ s < k /\ k < v /\ KeyMax \in Nat
      /\ n = k - s /\ Offset(s) = 0 /\ n < KeyMax
  <2>1. s \in Nat /\ k \in Nat /\ v \in Nat /\ s < k /\ k < v /\ KeyMax \in Nat /\ n = k - s
    BY Ends, Limits, Layout
  <2>2. KeyRoom(s) \in Int /\ Offset(s) = 0 /\ KeyMax - KeyRoom(s) = Offset(s) + (k - s) /\ KeyRoom(s) > 0
    BY Offsets DEF Fits
  <2> HIDE DEF n, k
  <2>3. n < KeyMax
    BY <2>1, <2>2
  <2>4. QED
    BY <2>1, <2>2, <2>3
<1>2. /\ \A h \in 1 .. k - s : Key(s)[h] = url[s + h]
      /\ \A h \in s + 1 .. k : url[h] \in Letters
      /\ Key(s) \in Seq(Letters)
  BY Layout
<1> HIDE DEF k, v, n
<1>3. \A j \in 0 .. KeyMax - 1 : a[j] = IF s + 1 + j <= k THEN url[s + 1 + j] ELSE Nul
  <2> SUFFICES ASSUME NEW j \in 0 .. KeyMax - 1
               PROVE  a[j] = IF s + 1 + j <= k THEN url[s + 1 + j] ELSE Nul
    OBVIOUS
  <2>1. a[j] = IF 0 <= j /\ s + 1 + j - 0 <= k /\ s + 1 + j - 0 <= v THEN url[s + 1 + j - 0] ELSE Nul
    BY <1>1 DEF KeyPart, k, v
  <2>2. 0 <= j /\ s + 1 + j - 0 = s + 1 + j /\ (s + 1 + j <= k => s + 1 + j <= v)
    BY <1>1
  <2>3. QED
    BY <2>1, <2>2
<1>4. DOMAIN a = 0 .. KeyMax - 1
  BY DEF KeyPart
<1> HIDE DEF a
<1>5. n \in 0 .. KeyMax - 1 /\ a[n] = Nul
  BY <1>1, <1>3
<1>6. ASSUME NEW j \in 0 .. n - 1 PROVE a[j] = Key(s)[j + 1] /\ a[j] # Nul
  <2>1. /\ j \in 0 .. KeyMax - 1 /\ s + 1 + j <= k /\ s + 1 + j \in s + 1 .. k
        /\ j + 1 \in 1 .. k - s /\ s + (j + 1) = s + 1 + j
    BY <1>1
  <2>2. a[j] = url[s + 1 + j] /\ url[s + 1 + j] \in Letters
    BY <1>2, <1>3, <2>1
  <2>3. Key(s)[j + 1] = url[s + 1 + j]
    BY <1>2, <2>1
  <2>4. QED
    BY <2>2, <2>3, ParserAssumption
<1>7. Text(a) = [i \in 1 .. n |-> a[i - 1]]
  <2>1. KeyMax \in Nat /\ \A j \in 0 .. n - 1 : a[j] # Nul
    BY <1>1, <1>6
  <2>2. QED
    BY <1>4, <1>5, <2>1, TextIs
<1>8. ASSUME NEW i \in 1 .. n PROVE a[i - 1] = Key(s)[i]
  <2>1. i - 1 \in 0 .. n - 1 /\ (i - 1) + 1 = i
    BY <1>1
  <2>2. a[i - 1] = Key(s)[(i - 1) + 1]
    BY <1>6, <2>1
  <2>3. QED
    BY <2>1, <2>2
<1>9. Key(s) = [i \in 1 .. n |-> Key(s)[i]]
  BY <1>2, LenProperties DEF n
<1>10. Text(a) = Key(s)
  BY <1>7, <1>8, <1>9
<1>11. Part(s, ValueEnd(s)).key = a
  BY DEF a, Part, v
<1>12. QED
  BY <1>10, <1>11

(* So looking a key up finds the value of its first parameter.             *)
LEMMA Finds ==
  ASSUME url \in Seq(Character), Tidy, NEW end, end.queries_length \in Nat, Complete(end), NEW k
  PROVE  LET found == {s \in Kept : Key(s) = k /\ ~Hidden(s)} IN
         GetQuery(end, k) = {Value(s) : s \in {t \in found : \A u \in found : t <= u}}
<1> DEFINE found == {s \in Kept : Key(s) = k /\ ~Hidden(s)}
           first == {t \in found : \A u \in found : t <= u}
           matching == Matching(end, k)
           least == {q \in matching : \A n \in matching : q <= n}
<1>1. \A s \in Kept : s \in Starts /\ s \in Nat /\ Index(s) \in Nat /\ Fits(s)
  BY Ends, Indices DEF Kept
<1>2. ASSUME NEW s \in Kept, Index(s) < end.queries_length
      PROVE  /\ Index(s) \in matching <=> s \in found
             /\ Text(end.queries[Index(s)].value) = Value(s)
  <2>1. end.queries[Index(s)] = Part(s, ValueEnd(s)) /\ Index(s) \in 0 .. end.queries_length - 1
    BY <1>1, <1>2 DEF Complete
  <2>2. Index(s) \in matching <=>
          Part(s, ValueEnd(s)).key[0] # Nul /\ Text(Part(s, ValueEnd(s)).key) = k
    BY <2>1 DEF Matching
  <2>3. Part(s, ValueEnd(s)).key[0] # Nul <=> ~Hidden(s)
    <3>1. url[s + 1] # Nul
      <4>1. s + 1 \in s + 1 .. KeyEnd(s)
        BY <1>1, Ends
      <4>2. url[s + 1] \in Letters
        BY <1>1, <4>1, Layout
      <4>3. QED
        BY <4>2, ParserAssumption
    <3>2. QED
      BY <1>1, <3>1, FirstLetter
  <2>4. ~Hidden(s) => Text(Part(s, ValueEnd(s)).key) = Key(s)
    BY <1>1, TextOfKey
  <2>5. Text(end.queries[Index(s)].value) = Value(s)
    BY <1>1, <2>1, TextOfValue
  <2>6. QED
    BY <2>2, <2>3, <2>4, <2>5
<1>3. \A s \in found : s \in Kept /\ Index(s) \in matching /\ Text(end.queries[Index(s)].value) = Value(s)
  BY <1>2 DEF Complete
<1>4. \A q \in matching : \E s \in found : Index(s) = q
  <2> SUFFICES ASSUME NEW q \in matching PROVE \E s \in found : Index(s) = q
    OBVIOUS
  <2>1. q \in 0 .. end.queries_length - 1
    BY DEF Matching
  <2>2. PICK s \in Kept : Index(s) = q
    BY <2>1 DEF Complete
  <2>3. QED
    BY <1>2, <2>1, <2>2
<1>5. \A s, t \in found : (s <= t <=> Index(s) <= Index(t)) /\ (Index(s) = Index(t) => s = t)
  <2> SUFFICES ASSUME NEW s \in found, NEW t \in found
               PROVE  (s <= t <=> Index(s) <= Index(t)) /\ (Index(s) = Index(t) => s = t)
    OBVIOUS
  <2>1. /\ s \in Starts /\ t \in Starts /\ s \in Nat /\ t \in Nat /\ Index(s) \in Nat /\ Index(t) \in Nat
    BY <1>1
  <2>2. (Index(t) < Index(s) <=> t < s) /\ (Index(s) = Index(t) <=> s = t)
    BY <2>1, IndexedOnce
  <2>3. QED
    BY <2>1, <2>2
<1> HIDE DEF found, matching
<1>6. \A s \in found : Index(s) \in least <=> s \in first
  BY <1>3, <1>4, <1>5
<1>7. \A q \in least : \E s \in first : Index(s) = q
  BY <1>4, <1>6
<1>8. \A s \in first : s \in found /\ Index(s) \in least
  BY <1>6
<1>9. GetQuery(end, k) = {Text(end.queries[q].value) : q \in least}
  BY DEF GetQuery, matching
<1> HIDE DEF first, least
<1>10. {Text(end.queries[q].value) : q \in least} = {Value(s) : s \in first}
  BY <1>3, <1>7, <1>8
<1>11. QED
  BY <1>9, <1>10 DEF first, found

(* The parser is where reading the whole url at once would take it.        *)
LEMMA ParserReads ==
  Spec => [](url \in Seq(Character) /\ Typed(parser) /\ parser = ReadAll(New, url))
<1> DEFINE Inv == url \in Seq(Character) /\ Typed(parser) /\ parser = ReadAll(New, url)
<1>1. Init => Inv
  <2> SUFFICES ASSUME Init PROVE Inv
    OBVIOUS
  <2>1. <<>> \in Seq(Character) /\ Len(<<>>) = 0
    BY EmptySeq
  <2>2. ReadAll(New, <<>>) = New
    BY <2>1, ReadAllRuns, WholeSteps
  <2>3. QED
    BY <2>1, <2>2, NewTyped DEF Init
<1>2. ASSUME Inv, [Next]_vars PROVE Inv'
  <2>1. ASSUME NEW piece \in Pieces, Grow(piece) PROVE Inv'
    <3>1. piece \in Seq(Character)
      BY ParserAssumption DEF Character
    <3>2. Typed(parser')
      BY <1>2, <2>1, <3>1, ReadAllTyped DEF Grow
    <3>3. url' \in Seq(Character)
      BY <1>2, <2>1, <3>1, ConcatProperties DEF Grow
    <3>4. parser' = ReadAll(New, url')
      BY <1>2, <2>1, <3>1, ReadAllPieces DEF Grow
    <3>5. QED
      BY <3>2, <3>3, <3>4
  <2>2. CASE UNCHANGED vars
    BY <1>2, <2>2 DEF vars
  <2>3. QED
    BY <1>2, <2>1, <2>2 DEF Next
<1>3. QED
  BY <1>1, <1>2, PTL DEF Spec

LEMMA ParserEnds ==
  ASSUME url \in Seq(Character), Typed(parser), parser = ReadAll(New, url), Tidy
  PROVE  Outcome(Finish(parser)) /\ Finish(parser).queries_length \in Nat
<1>1. Outcome(Finish(parser))
  BY ReadAllReads, Ending
<1>2. Finish(parser).queries_length \in Nat
  <2> DEFINE x == PutValue(parser, Nul)
  <2>1. parser.queries_length \in Nat /\ (Parsing(parser) => parser.queries_length < Length)
    BY Limits DEF Typed, Parser, Room
  <2>2. ASSUME Parsing(parser) PROVE x \in Parser /\ x.queries_length = parser.queries_length
    <3>1. parser \in Parser /\ parser.queries_length < Length
      BY <2>1, <2>2 DEF Typed
    <3>2. QED
      BY <3>1, PutValueTyped
  <2>3. Finish(parser) = parser \/
          (Parsing(parser) /\ Finish(parser) = IF Parsing(x) THEN [x EXCEPT !.queries_length = @ + 1] ELSE x)
    BY DEF Finish
  <2> HIDE DEF x
  <2>4. QED
    BY <2>1, <2>2, <2>3 DEF Parser
<1>3. QED
  BY <1>1, <1>2

(* For any url whose parameters are key=value pairs, however it is cut     *)
(* into pieces: what qparser_get_query answers for a key is the value of   *)
(* its first parameter, of those that fit and that no empty value hides.   *)
THEOREM ParametersFound == Spec => []FindsParameters
<1>1. ASSUME url \in Seq(Character), Typed(parser), parser = ReadAll(New, url)
      PROVE  FindsParameters
  BY <1>1, ParserEnds, Finds DEF FindsParameters, Outcome
<1>2. QED
  BY <1>1, ParserReads, PTL

(* And for any such url qparser_parse writes behind an array exactly where *)
(* a key or a value is as long as its array.                               *)
THEOREM OverrunsOnlyAtLimits == Spec => []OverrunAtLimit
<1>1. ASSUME url \in Seq(Character), Typed(parser), parser = ReadAll(New, url)
      PROVE  OverrunAtLimit
  BY <1>1, ParserEnds DEF OverrunAtLimit, Outcome, WhereBursts, Bursts, Index
<1>2. QED
  BY <1>1, ParserReads, PTL
=============================================================================
