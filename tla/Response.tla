------------------------------ MODULE Response ------------------------------
(***************************************************************************)
(* httpserver_send_response of server/libs/httpserver.c: the length it     *)
(* allocates and sends, computed first, and the text it then writes.       *)
(*                                                                         *)
(* A response is [status, headers, body, body_length], body <<>> for NULL. *)
(* The body is a sequence of symbols of one byte.  A header has a key, a   *)
(* string, and a value, which is a sequence of strings.                    *)
(* CalculateLengthText is a faulty variant of CalculateLength, used by no  *)
(* operator.                                                               *)
(***************************************************************************)
EXTENDS Integers, SequencesExt

Version == "HTTP/1.1 "
Space == " "
Colon == ": "
Line == "\r\n"

(* _httpserver_get_status_text, for the statuses the server sends.         *)
StatusText(status) ==
  CASE status = 200 -> "OK"
    [] status = 204 -> "No Content"
    [] status = 400 -> "Bad request"
    [] status = 403 -> "Forbidden"
    [] status = 404 -> "Not Found"
    [] status = 500 -> "Internal Server Error"

Statuses == {200, 204, 400, 403, 404, 500}

(* strlen of what is told in several strings.                              *)
Strlen(strings) ==
  LET length[i \in 0 .. Len(strings)] ==
        IF i = 0 THEN 0 ELSE length[i - 1] + Len(strings[i])
  IN length[Len(strings)]

HeadersLength(headers) ==
  LET length[i \in 0 .. Len(headers)] ==
        IF i = 0 THEN 0
        ELSE length[i - 1] + (Len(headers[i].key) + Strlen(headers[i].value) + 4)
  IN length[Len(headers)]

(* _calculate_response_length.  sizeof("HTTP/1.1 ") counts the '\0', which *)
(* stands for the space behind the status.                                 *)
CalculateLengthText(r) ==
  Len(Version) + 3 + Len(StatusText(r.status)) + 2 + HeadersLength(r.headers) + 2 + r.body_length
CalculateLength(r) ==
  (Len(Version) + 1) + 3 + Len(StatusText(r.status)) + 2 + HeadersLength(r.headers) + 2
    + (IF r.body = <<>> THEN 0 ELSE r.body_length)

(* What the calls of tstr_append write, one after the other.  A length of  *)
(* 0 means up to the '\0'.                                                 *)
HeaderText(h) == <<h.key, Colon>> \o h.value \o <<Line>>

HeadText(r) ==
  <<Version, ToString(r.status), Space, StatusText(r.status), Line>>
    \o FlattenSeq([i \in DOMAIN r.headers |-> HeaderText(r.headers[i])]) \o <<Line>>

BodyText(r) == IF r.body_length = 0 THEN r.body ELSE SubSeq(r.body, 1, r.body_length)

(* The bytes the buffer holds at the end, and those that csocket_server_   *)
(* send is told to send.                                                   *)
Send(r) ==
  [written |-> Strlen(HeadText(r)) + Len(BodyText(r)), length |-> CalculateLength(r)]

(* snprintf with "%d": the decimal digits of n, and as many of them as an  *)
(* array of 10 bytes has room for in front of the '\0'.                    *)
Digit == <<"0", "1", "2", "3", "4", "5", "6", "7", "8", "9">>
Tens == <<1, 10, 100, 1000, 10000, 100000, 1000000, 10000000, 100000000, 1000000000>>
Decimal(n) ==
  LET k == CHOOSE k \in 1 .. 10 : (k > 1 => n >= Tens[k]) /\ (k < 10 => n < Tens[k + 1])
  IN  [i \in 1 .. k |-> Digit[((n \div Tens[k + 1 - i]) % 10) + 1]]
Printed(n) == IF Len(Decimal(n)) <= 9 THEN Decimal(n) ELSE SubSeq(Decimal(n), 1, 9)

(* How many bytes the strings have that responses are made of.             *)
Keys == {"Content-Type", "Content-Length", "Access-Control-Allow-Origin"}
ASSUME StringLengths ==
  /\ Len(Version) = 9 /\ Len(Space) = 1 /\ Len(Colon) = 2 /\ Len(Line) = 2
  /\ \A status \in Statuses : Len(ToString(status)) = 3 /\ Len(StatusText(status)) \in Nat
  /\ \A x \in Keys \cup {"application/json", "*"} \cup ToSet(Digit) : Len(x) \in Nat
=============================================================================
