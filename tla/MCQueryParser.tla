---------------------------- MODULE MCQueryParser ----------------------------
(* QueryParser with short arrays, for TLC.                                 *)
EXTENDS QueryParser

MCLetters == {"a", "b"}

(* Urls grow by whole parameters, with short and long keys and empty, long *)
(* and too long values, and by single characters.                          *)
Parameter(key, value) == <<"&">> \o key \o <<"=">> \o value
MCKeys == {<<"a">>, <<"b">>, <<"a", "b">>, <<"a", "b", "a">>, <<"b", "a", "b", "b">>}
MCValues == {<<>>, <<"a">>, <<"b", "a", "b">>, <<"b", "a", "b", "a">>}
MCPieces == {Parameter(k, v) : k \in MCKeys, v \in MCValues}
              \cup {<<"?">>, <<"=">>, <<"a">>, <<"?", "a", "=", "b">>, <<"?", "a", "=">>}
=============================================================================
