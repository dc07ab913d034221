------------------------------- MODULE MCWire -------------------------------
(* A small instance of Wire for TLC.                                       *)
EXTENDS Wire

MCLower ==
  [c \in {"x", "content-length", "content-type", "transfer-encoding", "Content-Length", "X", "SP", ":",
          "CR", "LF", "0", "1", "2", "-", ".", "GET", "OPT", "IONS", "POST", "FOO", "/", "a", "b",
          "HTTP/", "chunked"} |->
     CASE c = "Content-Length" -> "content-length"
       [] c = "X" -> "x"
       [] OTHER -> c]
MCBlank == {"SP", "CR", "LF"}
MCDigit == [c \in {"0", "1", "2"} |-> CASE c = "0" -> 0 [] c = "1" -> 1 [] c = "2" -> 2]

(* strtol of at most two bytes, base 16.                                   *)
Values == [c \in {"0", "1", "2", "a", "b"} |-> IF c = "a" THEN 10 ELSE IF c = "b" THEN 11 ELSE MCDigit[c]]
MCHex ==
  [t \in UNION {[1 .. n -> DOMAIN MCLower] : n \in 0 .. 2} |->
     LET Is(i) == i \in DOMAIN t /\ t[i] \in DOMAIN Values IN
     CASE Is(1) /\ Is(2)  -> 16 * Values[t[1]] + Values[t[2]]
       [] Is(1) /\ ~Is(2) -> Values[t[1]]
       [] ~Is(1) /\ Is(2) -> IF t[1] = "-" THEN -Values[t[2]]
                             ELSE IF t[1] \in MCBlank THEN Values[t[2]] ELSE 0
       [] OTHER           -> 0]
MCMethods == {<<"GET">>, <<"POST">>, <<"OPT", "IONS">>}

Field(k, v) == [key |-> <<k>>, sep |-> Colon, value |-> v]
TypeX == Field("content-type", <<"x">>)
Get  == [method |-> <<"GET">>, path |-> <<"/", "a">>, version |-> Version, fields |-> <<>>, body |-> <<>>]
Post == [Get EXCEPT !.method = <<"POST">>, !.path = <<"b">>]

Sized(v, b) == [Post EXCEPT !.fields = <<TypeX, Field("Content-Length", v)>>, !.body = b]
InChunk(v, b) == [Post EXCEPT !.fields = <<TypeX, Field("transfer-encoding", Chunked)>>, !.body = v \o Crlf \o b]

MCRequests ==
  {Get,
   [Get EXCEPT !.path = <<"/">>, !.fields = <<Field("X", <<"x", "a">>)>>],
   [Get EXCEPT !.fields = <<Field("x", <<>>), Field("x", <<"a">>)>>],
   [Post EXCEPT !.fields = <<Field("Content-Length", <<"1">>)>>, !.body = <<"a">>],
   Sized(<<"SP", "2">>, <<"a", "b">>),
   Sized(<<"2">>, <<"a">>),
   Sized(<<"-", "1">>, <<>>),
   Sized(<<"2", "2">>, <<"a">>),
   Sized(<<>>, <<"1">>),
   Sized(<<"SP">>, <<"1", "2">>),
   InChunk(<<"1">>, <<"a">>),
   InChunk(<<"2">>, <<"a">>),
   InChunk(<<"-", "1">>, <<>>),
   [Get EXCEPT !.method = <<"FOO">>],
   [Get EXCEPT !.method = <<"OPT", "IONS">>],
   [Get EXCEPT !.version = <<"1", ".", "0">>],
   [Get EXCEPT !.fields = [i \in 1 .. 3 |-> Field("x", <<>>)]],
   [Get EXCEPT !.fields = <<[Field("x", <<>>) EXCEPT !.key = <<"x", "x">>]>>],
   [Get EXCEPT !.fields = <<Field("x", <<"a", "a", "a">>)>>],
   [Get EXCEPT !.fields = <<[Field("x", <<>>) EXCEPT !.sep = <<>>]>>],
   [Get EXCEPT !.path = <<"/">>, !.body = Lines(Get) \o Crlf]}

Zeros == [i \in 0 .. Size - 1 |-> Nul]
(* A stack that holds an earlier connection's request, and one of noise.   *)
Older == LET t == Wired[Get] IN
  [i \in 0 .. Size - 1 |-> IF i < Len(t) THEN t[i + 1] ELSE Nul]
Noise == [i \in 0 .. Size - 1 |-> IF i = Size - 2 THEN Nul ELSE "x"]
MCStacks == {Zeros, Older, Noise}
=============================================================================
