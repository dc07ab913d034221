------------------------------- MODULE Listing ------------------------------
(***************************************************************************)
(* The two handlers of server/main.c that answer with JSON, produtos/lista *)
(* and carrinho/lista, on the builder of Pjsonb and the response of        *)
(* Response; the answers of the other handlers, which have a fixed body or *)
(* none; and, as a caller of the builder, any program that calls it in an  *)
(* order that makes sense.                                                 *)
(*                                                                         *)
(* One thread builds one answer and shares nothing, so the calls are the   *)
(* steps.                                                                  *)
(***************************************************************************)
EXTENDS Pjsonb, Response

CONSTANTS
  Symbol,       (* what texts are made of                                  *)
  Products,     (* rows: [nome, tipo, imagem : texts, preco : digits]      *)
  Atoi,         (* the digits of what atoi makes of an image's path        *)
  Values,       (* values of strings for a caller of any kind              *)
  Digits,       (* the same of numbers                                     *)
  MaxRows,      (* bound: rows of the result                               *)
  MaxCalls      (* bound: calls of a caller of any kind                    *)

Text == Seq(Symbol)
Marks == {"QT", ":", ",", "{", "}", "[", "]"}
Words == {"nome", "tipo", "imagem", "preco", "avaliacao", "5", "k", "true"}

(* The digits of a number, which are no marks.                             *)
Number == Seq(Symbol \ Marks) \ {<<>>}

ASSUME ListingAssumption ==
  /\ Marks \union Words \subseteq Symbol
  /\ Products \subseteq [nome : Text, tipo : Text, imagem : Text, preco : Number]
  /\ \A row \in Products : Atoi[row.imagem] \in Number
  /\ Values \subseteq Text /\ Digits \subseteq Number
  /\ MaxRows \in Nat /\ MaxCalls \in Nat

VARIABLES
  caller,       (* "produtos", "carrinho", "other" or "any"                *)
  rows,         (* the result of the SELECT, for the first two             *)
  builder,      (* the struct pjsonb                                       *)
  calls,        (* the calls made, between pjsonb_init and pjsonb_end      *)
  nest,         (* what is open, the outermost first                       *)
  response,     (* what was sent, as a set of at most one                  *)
  phase         (* "building", "ended", "answered"                         *)

vars == <<caller, rows, builder, calls, nest, response, phase>>

Call(op, key, value) == [op |-> op, key |-> key, value |-> value]

-----------------------------------------------------------------------------
(* The calls of the handlers: seven for each row.  produtos/lista takes the *)
(* price from column 2, the image, and carrinho/lista from the product.    *)
(* RowCallsSwapped takes the columns in another order, and is not used.    *)
PriceOf(who, row) == IF who = "produtos" THEN Atoi[row.imagem] ELSE row.preco

RowCallsSwapped(who, row) ==
  <<Call("enter_object", <<>>, <<>>),
    Call("string", <<"nome">>, row.tipo),
    Call("string", <<"tipo">>, row.nome),
    Call("string", <<"imagem">>, row.imagem),
    Call("number", <<"preco">>, PriceOf(who, row)),
    Call("number", <<"avaliacao">>, <<"5">>),
    Call("leave_object", <<>>, <<>>)>>
RowCalls(who, row) ==
  <<Call("enter_object", <<>>, <<>>),
    Call("string", <<"nome">>, row.nome),
    Call("string", <<"tipo">>, row.tipo),
    Call("string", <<"imagem">>, row.imagem),
    Call("number", <<"preco">>, PriceOf(who, row)),
    Call("number", <<"avaliacao">>, <<"5">>),
    Call("leave_object", <<>>, <<>>)>>

Program ==
  [i \in 1 .. 7 * Len(rows) |->
     RowCalls(caller, rows[((i - 1) \div 7) + 1])[((i - 1) % 7) + 1]]

(* A call that makes sense: a key in an object and none in an array, and   *)
(* what is left was entered last.                                          *)
Sensible(c) ==
  /\ c.op \notin {"leave_object", "leave_array"} =>
       (c.key = <<>>) <=> (Last(nest) = "array")
  /\ c.op = "leave_object" => Len(nest) > 1 /\ Last(nest) = "object"
  /\ c.op = "leave_array"  => Len(nest) > 1 /\ Last(nest) = "array"

Nested(c) ==
  CASE c.op = "enter_object" -> Append(nest, "object")
    [] c.op = "enter_array"  -> Append(nest, "array")
    [] c.op \in {"leave_object", "leave_array"} -> Front(nest)
    [] OTHER -> nest

AnyCall ==
  LET keys == {<<>>, <<"k">>} IN
  {Call("string", k, v) : k \in keys, v \in Values}
    \union {Call("number", k, d) : k \in keys, d \in Digits}
    \union {Call("bool", k, <<"true">>) : k \in keys}
    \union {Call(op, k, <<>>) : op \in {"enter_object", "enter_array"}, k \in keys}
    \union {Call(op, <<>>, <<>>) : op \in {"leave_object", "leave_array"}}

-----------------------------------------------------------------------------
Listings == {"produtos", "carrinho"}

Init ==
  /\ caller \in Listings \union {"other", "any"}
  /\ rows \in IF caller \in Listings THEN UNION {[1 .. n -> Products] : n \in 0 .. MaxRows} ELSE {<<>>}
  /\ \E type \in IF caller = "any" THEN {"array", "object"} ELSE {"array"} :
       builder = Begin(type) /\ nest = <<type>>
  /\ calls = <<>>
  /\ response = {}
  /\ phase = "building"

Step(c) ==
  /\ phase = "building"
  /\ Sensible(c)
  /\ builder' = Do(builder, c)
  /\ calls' = Append(calls, c)
  /\ nest' = Nested(c)
  /\ UNCHANGED <<caller, rows, response, phase>>

HandlerStep ==
  /\ caller \in Listings
  /\ Len(calls) < Len(Program)
  /\ Step(Program[Len(calls) + 1])

AnyStep ==
  /\ caller = "any"
  /\ Len(calls) < MaxCalls
  /\ \E c \in AnyCall : Step(c)

Finish ==
  /\ phase = "building" /\ caller # "other"
  /\ Len(nest) = 1
  /\ caller \in Listings => Len(calls) = Len(Program)
  /\ builder' = End(builder)
  /\ phase' = "ended"
  /\ UNCHANGED <<caller, rows, calls, nest, response>>

Header(k, v) == [key |-> k, value |-> v]
Origin == Header("Access-Control-Allow-Origin", <<"*">>)
WithBody(status, body) ==
  [status |-> status, body |-> body, body_length |-> Len(body),
   headers |-> <<Header("Content-Type", <<"application/json">>),
                 Header("Content-Length", Printed(Len(body))), Origin>>]

Reply(r) ==
  /\ response' = {[r |-> r, sent |-> Send(r)]}
  /\ phase' = "answered"
  /\ UNCHANGED <<caller, rows, builder, calls, nest>>

Answer ==
  /\ phase = "ended"
  /\ Reply(WithBody(200, builder.string))

(* An answer without a listing: nothing but the status, the token of a     *)
(* login, the text for a path that is none, or 400 for what does not parse. *)
Bare(status, headers) == [status |-> status, headers |-> headers, body |-> <<>>, body_length |-> 0]
Repeat(n) == [i \in 1 .. n |-> "c"]

Plain ==
  {Bare(status, <<Origin>>) : status \in {204, 400, 403, 500}}
    \union {WithBody(200, Repeat(16)), WithBody(404, Repeat(29)), Bare(400, <<Header("Content-Length", <<"0">>)>>)}

AnswerPlain ==
  /\ phase = "building" /\ calls = <<>> /\ caller # "any"
  /\ \E r \in CASE caller = "other"    -> Plain
               [] caller = "produtos" -> {Bare(status, <<Origin>>) : status \in {400, 500}}
               [] caller = "carrinho" -> {Bare(status, <<Origin>>) : status \in {400, 403, 500}} : Reply(r)

Next == HandlerStep \/ AnyStep \/ Finish \/ Answer \/ AnswerPlain

Spec == Init /\ [][Next]_vars

-----------------------------------------------------------------------------
(* The builder is inside its memory, however it is called, and keeps the   *)
(* type it was given.                                                      *)
TypeOK ==
  /\ builder.key_state \in {"NONE", "TO_CLOSE"}
  /\ Len(builder.string) \in 1 .. builder.written /\ builder.written <= builder.allocated
  /\ builder.key_state = "TO_CLOSE" => Len(builder.string) > 1
  /\ phase \in {"building", "ended", "answered"}
  /\ Cardinality(response) <= 1

(* What the calls ask for, written the other way round: a ',' before every *)
(* element but the first of its object or array.                           *)
Leaves(c) == c.op \in {"leave_object", "leave_array"}
Enters(c) == c.op \in {"enter_object", "enter_array"}

Element(c) ==
  CASE c.op = "string"       -> Quoted(c.value)
    [] c.op = "enter_object" -> <<"{">>
    [] c.op = "enter_array"  -> <<"[">>
    [] c.op = "leave_object" -> <<"}">>
    [] c.op = "leave_array"  -> <<"]">>
    [] OTHER                 -> c.value

Rendered(i) ==
  LET c == calls[i]
      comma == ~Leaves(c) /\ i > 1 /\ ~Enters(calls[i - 1]) IN
  (IF comma THEN <<",">> ELSE <<>>)
    \o (IF c.key = <<>> THEN <<>> ELSE Quoted(c.key) \o <<":">>) \o Element(c)

Document ==
  Begin(builder.type).string \o FlattenSeq([i \in DOMAIN calls |-> Rendered(i)])
    \o <<Closing(builder.type)>>

(* The two uses that the library gets wrong: a number in an array, and     *)
(* anything set behind an array.                                           *)
Supported ==
  \A i \in DOMAIN calls :
    /\ ~(calls[i].op = "number" /\ calls[i].key = <<>>)
    /\ calls[i].op = "leave_array" /\ i < Len(calls) => Leaves(calls[i + 1])

(* The text at the end is the document the calls describe, exactly when    *)
(* none of them is one of the two uses the library gets wrong              *)
(* (pjsonb.c:42, :293), so the handlers, which have neither, always answer *)
(* with what they meant.                                                   *)
BuildsDocument ==
  phase = "ended" => /\ builder.string = Document <=> Supported
                     /\ caller \in Listings => Supported

(* A client that reads the strings of a listing, each from one quote to    *)
(* the next, finds the names of the fields and the texts of the rows, when *)
(* no text holds a quote (normalize_string of main.c:91 puts one where the *)
(* name had an apostrophe, and set_string copies it).                      *)
Reader(open, text, found) == [open |-> open, text |-> text, found |-> found]
Reads(r, symbol) ==
  IF symbol # "QT" THEN Reader(r.open, IF r.open THEN Append(r.text, symbol) ELSE <<>>, r.found)
  ELSE IF r.open THEN Reader(FALSE, <<>>, Append(r.found, r.text))
  ELSE Reader(TRUE, <<>>, r.found)
StringsIn(s) ==
  LET read[i \in 0 .. Len(s)] ==
        IF i = 0 THEN Reader(FALSE, <<>>, <<>>) ELSE Reads(read[i - 1], s[i])
  IN read[Len(s)].found

RowStrings(row) ==
  <<<<"nome">>, row.nome, <<"tipo">>, row.tipo, <<"imagem">>, row.imagem, <<"preco">>, <<"avaliacao">>>>

ListingReadsBack ==
  phase = "ended" /\ caller \in Listings
    /\ (\A i \in DOMAIN rows : "QT" \notin ToSet(rows[i].nome \o rows[i].tipo \o rows[i].imagem)) =>
    StringsIn(builder.string) = FlattenSeq([i \in DOMAIN rows |-> RowStrings(rows[i])])

(* Every byte of a response that is sent was written, none that was        *)
(* written is left out, and a body is announced with its own length: the   *)
(* client finds the end of a body where the server put it.  The array for  *)
(* the length has room for 9 digits (main.c:203).                          *)
ResponseIsExact ==
  \A x \in response :
    /\ x.sent.length = x.sent.written
    /\ x.r.body # <<>> /\ Len(x.r.body) < Tens[10] =>
         Header("Content-Length", Decimal(Len(BodyText(x.r)))) \in ToSet(x.r.headers)
=============================================================================
