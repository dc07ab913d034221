------------------------------- MODULE Pjsonb -------------------------------
(***************************************************************************)
(* The JSON builder of server/libs/pjsonb.c: one operator per function,    *)
(* from the builder before the call to the builder after it.               *)
(*                                                                         *)
(* Every element is written with a ',' behind it, which the next bracket   *)
(* to be closed overwrites.  A text is a sequence of symbols, "QT" the     *)
(* quote; a key of NULL is the empty sequence.                             *)
(*                                                                         *)
(* EnterShort and LeaveObjectLast are faulty variants of the definitions   *)
(* below them, used by no operator: they show that a property notices the  *)
(* fault.                                                                  *)
(***************************************************************************)
EXTENDS Integers, SequencesExt

(* struct pjsonb: the bytes up to position, the bytes allocated, key_state *)
(* and type; written is where the last write that grew the text ended.     *)
Begin(type) ==
  [string |-> IF type = "array" THEN <<"[">> ELSE <<"{">>, allocated |-> 1, key_state |-> "NONE",
   type |-> type, written |-> 1]

Closing(type) == IF type = "array" THEN "]" ELSE "}"
Char(symbol) == <<symbol>>
Quoted(text) == Char("QT") \o text \o Char("QT")

(* realloc to size bytes past position, and text written there.            *)
Put(b, size, text) ==
  [b EXCEPT !.string = @ \o text,
            !.allocated = Len(b.string) + size,
            !.written = Len(b.string) + Len(text),
            !.key_state = "TO_CLOSE"]

CloseLast(b, bracket) == [b EXCEPT !.string[Len(b.string)] = bracket]

(* pjsonb_set_int, _size_t and _float, which differ in the digits only.    *)
(* Without a key the ',' is written but not counted.                       *)
SetNumber(b, key, digits) ==
  IF key = <<>>
    THEN [Put(b, Len(digits) + 1, digits \o Char(",")) EXCEPT !.string = b.string \o digits]
    ELSE Put(b, Len(digits) + 4 + Len(key) + 1, Quoted(key) \o Char(":") \o digits \o Char(","))

SetBool(b, key, word) ==
  IF key = <<>> THEN Put(b, Len(word) + 1, word \o Char(","))
  ELSE Put(b, Len(word) + 4 + Len(key) + 1, Quoted(key) \o Char(":") \o word \o Char(","))

(* The value is copied as it is: a quote in it is not escaped.             *)
SetString(b, key, value) ==
  IF key = <<>> THEN Put(b, Len(value) + 3, Quoted(value) \o Char(","))
  ELSE Put(b, Len(value) + 6 + Len(key) + 1, Quoted(key) \o Char(":") \o Quoted(value) \o Char(","))

EnterShort(b, key, bracket, room) ==
  [IF key = <<>> THEN Put(b, 1, Char(bracket))
   ELSE Put(b, 2 + Len(key), Quoted(key) \o Char(":") \o Char(bracket))
   EXCEPT !.key_state = "NONE"]
Enter(b, key, bracket, room) ==
  [IF key = <<>> THEN Put(b, 1, Char(bracket))
   ELSE Put(b, room + Len(key), Quoted(key) \o Char(":") \o Char(bracket))
   EXCEPT !.key_state = "NONE"]
EnterObject(b, key) == Enter(b, key, "{", 5)
EnterArray(b, key)  == Enter(b, key, "[", 4)

LeaveObjectLast(b) ==
  IF b.key_state = "TO_CLOSE" THEN CloseLast(b, "}") ELSE Put(b, 3, Char("}") \o Char(","))
LeaveObject(b) ==
  IF b.key_state = "TO_CLOSE" THEN Put(CloseLast(b, "}"), 1, Char(","))
  ELSE Put(b, 3, Char("}") \o Char(","))

(* No ',' is written behind an array.                                      *)
LeaveArray(b) ==
  IF b.key_state = "TO_CLOSE" THEN [CloseLast(b, "]") EXCEPT !.key_state = "NONE"]
  ELSE [Put(b, 1, Char("]")) EXCEPT !.key_state = b.key_state]

End(b) ==
  IF b.key_state = "TO_CLOSE" THEN CloseLast(b, Closing(b.type))
  ELSE [Put(b, 1, Char(Closing(b.type))) EXCEPT !.key_state = b.key_state]

(* A call of the library is [op, key, value].                              *)
Do(b, c) ==
  CASE c.op = "number"       -> SetNumber(b, c.key, c.value)
    [] c.op = "bool"         -> SetBool(b, c.key, c.value)
    [] c.op = "string"       -> SetString(b, c.key, c.value)
    [] c.op = "enter_object" -> EnterObject(b, c.key)
    [] c.op = "enter_array"  -> EnterArray(b, c.key)
    [] c.op = "leave_object" -> LeaveObject(b)
    [] c.op = "leave_array"  -> LeaveArray(b)
=============================================================================
