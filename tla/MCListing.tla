------------------------------ MODULE MCListing -----------------------------
(* A small instance of Listing for TLC: a plain product, one with an empty *)
(* text and a price of two digits, and one whose name holds a quote.       *)
EXTENDS Listing

MCSymbol == Marks \union Words \union {"a", "b", "t", "v", ".", "/", "0", "1", "2", "7", "9"}

Row(n, t, i, p) == [nome |-> n, tipo |-> t, imagem |-> i, preco |-> p]
MCProducts ==
  {Row(<<"a">>, <<"t">>, <<"5", ".">>, <<"9">>), Row(<<"b">>, <<>>, <<"/">>, <<"1", "0">>),
   Row(<<"a", "QT", "b">>, <<"t">>, <<"/">>, <<"9">>)}
MCAtoi == [i \in {<<"5", ".">>, <<"/">>} |-> IF i = <<"/">> THEN <<"0">> ELSE <<"5">>]
MCValues == {<<>>, <<"v">>}
MCDigits == {<<"7">>, <<"1", "2">>}
=============================================================================
