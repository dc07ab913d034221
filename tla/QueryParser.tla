----------------------------- MODULE QueryParser -----------------------------
(***************************************************************************)
(* The query string parser of server/libs/queryparser.c, which gives the   *)
(* handlers the parameters of a request's path.                            *)
(*                                                                         *)
(* It is one pass over the characters with an index into the key and one   *)
(* into the value it is filling, both arrays of the current query.  A url  *)
(* grows here by a piece at a time, and what the parser returns for it if  *)
(* it ends there is Finish(parser).                                        *)
(*                                                                         *)
(* A definition whose name adds a word to the one below it (EndKeyKept     *)
(* before EndKey) is a faulty variant of that one, used by no action: it   *)
(* is there to show that a property notices the fault.                     *)
(***************************************************************************)
EXTENDS Integers, FiniteSets, Sequences

CONSTANTS
  Letters,      (* the characters that are not one of the three marks      *)
  Nul,          (* the character '\0'                                      *)
  KeyMax,       (* bytes in a query's key: 64                              *)
  ValueMax,     (* bytes in a query's value: 1024                          *)
  Length,       (* queries the caller has room for: 10                     *)
  Pieces,       (* what a url may grow by                                  *)
  MaxPieces     (* bound: pieces in a url                                  *)

Marks == {"?", "=", "&"}

ASSUME ParserAssumption ==
  /\ Nul \notin Letters \cup Marks /\ Letters \cap Marks = {}
  /\ {KeyMax, ValueMax, Length, MaxPieces} \subseteq Nat \ {0}
  /\ Pieces \subseteq Seq(Letters \cup Marks)

VARIABLES
  url,          (* history: the characters read so far                     *)
  pieces,       (* how many pieces they came in                            *)
  parser        (* the state of qparser_parse                              *)

vars == <<url, pieces, parser>>

Empty(n) == [i \in 0 .. n - 1 |-> Nul]

(* status: a limit was reached and the rest is not read, or a write left   *)
(* its array and what follows has no meaning.                              *)
New == [queries |-> [q \in 0 .. Length - 1 |-> [key |-> Empty(KeyMax), value |-> Empty(ValueMax)]],
        queries_length |-> 0, keyIndex |-> 0, valueIndex |-> 0,
        state |-> "none", status |-> "parsing"]

Parsing(p) == p.status = "parsing"
Stop(p) == [p EXCEPT !.status = "stopped"]
Overrun(p) == [p EXCEPT !.status = "overrun"]

(* key[keyIndex] = c and value[valueIndex] = c of the query being filled.  *)
PutKey(p, c) ==
  IF p.keyIndex = KeyMax THEN Overrun(p)
  ELSE [p EXCEPT !.queries[p.queries_length].key[p.keyIndex] = c]
PutValue(p, c) ==
  IF p.valueIndex = ValueMax THEN Overrun(p)
  ELSE [p EXCEPT !.queries[p.queries_length].value[p.valueIndex] = c]

(* The first letter after & ends the value and starts the next query.      *)
EndValue(p) ==
  IF p.keyIndex >= KeyMax THEN Stop(p)
  ELSE LET q == [PutValue(p, Nul) EXCEPT !.state = "KEY", !.valueIndex = 0,
                                         !.queries_length = @ + 1]
       IN  IF q.queries_length >= Length /\ Parsing(q) THEN Stop(q) ELSE q

(* The first letter after = ends the key.                                  *)
EndKeyKept(p) == [PutKey(p, Nul) EXCEPT !.state = "VALUE"]
EndKey(p) == [PutKey(p, Nul) EXCEPT !.state = "VALUE", !.keyIndex = 0]

LetterOfKey(p, c) ==
  LET q == IF p.state = "KEY_VALUE_END" THEN EndValue(p) ELSE p IN
  IF ~Parsing(q) THEN q
  ELSE IF q.keyIndex >= KeyMax THEN Stop(q)
  ELSE [PutKey(q, c) EXCEPT !.keyIndex = @ + 1]

LetterOfValueUnchecked(p, c) ==
  LET q == IF p.state = "VALUE_KEY_END" THEN EndKey(p) ELSE p IN
  IF Parsing(q) THEN [PutValue(q, c) EXCEPT !.valueIndex = @ + 1] ELSE q
LetterOfValue(p, c) ==
  IF p.valueIndex >= ValueMax THEN Stop(p)
  ELSE LET q == IF p.state = "VALUE_KEY_END" THEN EndKey(p) ELSE p IN
       IF Parsing(q) THEN [PutValue(q, c) EXCEPT !.valueIndex = @ + 1] ELSE q

(* One turn of the loop of qparser_parse, for a url that is still read.    *)
Turn(p, c) ==
  CASE c = "?" -> [p EXCEPT !.state = "KEY"]
    [] c = "=" -> [p EXCEPT !.state = "VALUE_KEY_END"]
    [] c = "&" -> [p EXCEPT !.state = "KEY_VALUE_END"]
    [] c \in Letters /\ p.state \in {"KEY", "KEY_VALUE_END"}   -> LetterOfKey(p, c)
    [] c \in Letters /\ p.state \in {"VALUE", "VALUE_KEY_END"} -> LetterOfValue(p, c)
    [] c \in Letters /\ p.state = "none"                       -> p

Read(p, c) ==
  IF ~Parsing(p) THEN p ELSE IF p.queries_length >= Length THEN Stop(p) ELSE Turn(p, c)

ReadAll(p, piece) ==
  LET read[i \in 0 .. Len(piece)] == IF i = 0 THEN p ELSE Read(read[i - 1], piece[i])
  IN read[Len(piece)]

(* What follows the loop: the last query counts if it has a key.           *)
Finish(p) ==
  IF ~Parsing(p) \/ p.queries[p.queries_length].key[0] = Nul \/ p.keyIndex >= KeyMax THEN p
  ELSE LET q == PutValue(p, Nul) IN
       IF Parsing(q) THEN [q EXCEPT !.queries_length = @ + 1] ELSE q

(* The string in an array: what comes before its first '\0'.               *)
Text(a) == LET ends == {i \in DOMAIN a : a[i] = Nul}
               n == IF ends = {} THEN Cardinality(DOMAIN a) ELSE CHOOSE i \in ends : \A j \in ends : i <= j
           IN  [i \in 1 .. n |-> a[i - 1]]

(* qparser_get_query: the value of the first query with key k, as a set    *)
(* that is empty where the code returns NULL.                              *)
Matching(p, k) == {q \in 0 .. p.queries_length - 1 : p.queries[q].key[0] # Nul /\ Text(p.queries[q].key) = k}
GetQuery(p, k) ==
  {Text(p.queries[q].value) : q \in {m \in Matching(p, k) : \A n \in Matching(p, k) : m <= n}}

Init == url = <<>> /\ pieces = 0 /\ parser = New

Grow(piece) ==
  /\ pieces < MaxPieces
  /\ pieces' = pieces + 1
  /\ url' = url \o piece
  /\ parser' = ReadAll(parser, piece)

Next == \E piece \in Pieces : Grow(piece)

Spec == Init /\ [][Next]_vars

-----------------------------------------------------------------------------
TypeOK ==
  /\ url \in Seq(Letters \cup Marks)
  /\ pieces \in 0 .. MaxPieces
  /\ DOMAIN parser.queries = 0 .. Length - 1
  /\ \A q \in 0 .. Length - 1 :
       /\ parser.queries[q].key \in [0 .. KeyMax - 1 -> Letters \cup {Nul}]
       /\ parser.queries[q].value \in [0 .. ValueMax - 1 -> Letters \cup {Nul}]
  /\ parser.queries_length \in 0 .. Length
  /\ parser.keyIndex \in 0 .. KeyMax /\ parser.valueIndex \in 0 .. ValueMax
  /\ parser.state \in {"none", "KEY", "KEY_VALUE_END", "VALUE", "VALUE_KEY_END"}
  /\ parser.status \in {"parsing", "stopped", "overrun"}
  /\ Parsing(parser) => parser.queries_length < Length

(* What a query string says, told from the positions of its marks.  The    *)
(* parameter at a ? or & has the letters after it as its key and those     *)
(* after the = as its value.                                               *)
At(i) == IF i \in DOMAIN url THEN url[i] ELSE Nul
EndOfRun(i) == CHOOSE j \in i .. Len(url) :
                 At(j + 1) \notin Letters /\ \A h \in i + 1 .. j : url[h] \in Letters
Run(i) == SubSeq(url, i + 1, EndOfRun(i))
Starts == {i \in DOMAIN url : url[i] \in {"?", "&"}}
Key(i) == Run(i)
Value(i) == Run(EndOfRun(i) + 1)

(* ?key=value&key=value...: keys are not empty, values may be.             *)
Tidy ==
  /\ \A i \in DOMAIN url : url[i] = "?" <=> i \in Starts /\ \A j \in Starts : i <= j
  /\ Starts # {} => url[1] \notin {"=", "&"}
  /\ \A i \in DOMAIN url : url[i] = "=" => \E s \in Starts : i = EndOfRun(s) + 1
  /\ \A s \in Starts :
       /\ Key(s) # <<>>
       /\ At(EndOfRun(s) + 1) = "="
       /\ At(EndOfRun(EndOfRun(s) + 1) + 1) \in {"&", Nul}

(* The key index is not reset by a value that is empty, so the next key is *)
(* stored after a gap: it cannot be found, and it has that much less room. *)
Before(s) == {r \in Starts : r < s}
Hidden(s) == \E r \in Before(s) : Value(r) = <<>> /\ \A q \in Before(s) : q <= r
KeyRoom(s) ==
  LET filled == {r \in Before(s) : Value(r) # <<>>}
      chain  == {r \in Starts : r <= s /\ \A f \in filled : f < r} IN
  KeyMax - Cardinality(UNION {r + 1 .. EndOfRun(r) : r \in chain})

(* The parameters that fit, and the first that does not.                   *)
Fits(s) == KeyRoom(s) > 0 /\ Len(Value(s)) < ValueMax
Kept == {s \in Starts : Cardinality(Before(s)) < Length /\ \A r \in Before(s) \cup {s} : Fits(r)}

(* Every parameter that was sent is found with the value of its first      *)
(* occurrence, up to the first that does not fit; but one that follows an  *)
(* empty value is not found.                                               *)
FindsParameters ==
  LET end == Finish(parser) IN
  Tidy /\ end.status # "overrun" =>
    \A k \in {Key(s) : s \in Starts} :
      LET found == {s \in Kept : Key(s) = k /\ ~Hidden(s)} IN
      GetQuery(end, k) = {Value(s) : s \in {t \in found : \A u \in found : t <= u}}

(* A write leaves its array exactly where a key (with a value after it) or *)
(* a value is as long as the array, in the first parameter that does not   *)
(* fit: no room is left for the '\0', which is written anyway.  The value   *)
(* of a hidden parameter at the end of the url is the exception: it is not *)
(* ended at all.                                                           *)
OverrunAtLimit ==
  Tidy =>
    (Finish(parser).status = "overrun" <=>
       \E s \in Starts :
         /\ Cardinality(Before(s)) < Length /\ Before(s) \subseteq Kept
         /\ \/ KeyRoom(s) = 0 /\ Value(s) # <<>>
            \/ /\ KeyRoom(s) > 0 /\ Len(Value(s)) = ValueMax
               /\ Hidden(s) => \E r \in Starts : s < r)
=============================================================================
