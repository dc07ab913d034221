-------------------------------- MODULE Wire --------------------------------
(***************************************************************************)
(* One connection as its thread sees it: the loop of listen_messages in    *)
(* server/libs/httpserver.c, which takes whatever one recv returns for one *)
(* request, over a stream that TCP may cut anywhere.                       *)
(*                                                                         *)
(* The client sends whole requests, one behind the other if it likes; a    *)
(* recv brings any part of what is on its way.  payload is never cleared:  *)
(* it starts with what the stack held and keeps the bytes of earlier       *)
(* requests.                                                               *)
(***************************************************************************)
EXTENDS HttpParser

CONSTANTS
  Requests,     (* what the client may send                                *)
  Stacks,       (* what payload may hold at the start of the thread        *)
  MaxSent       (* bound: requests on one connection                       *)

VARIABLES
  sent,         (* the requests sent, in order                             *)
  taken,        (* symbols of them that recv has returned                  *)
  payload,      (* the buffer of listen_messages                           *)
  last,         (* the last recv: where it began in the stream, how long   *)
                (* it was, whether payload held older bytes behind it, and *)
                (* what httpparser_parse_request made of it                *)
  status        (* "open"; "closed"; "undefined" after undefined behaviour *)

vars == <<sent, taken, payload, last, status>>

-----------------------------------------------------------------------------
(* A request is [method, path, version, fields, body]: sequences of        *)
(* symbols, and a sequence of [key, sep, value] for the header lines.      *)

Line(f) == f.key \o f.sep \o f.value \o Crlf

Lines(r) ==
  r.method \o Space \o r.path \o Space \o HttpWord \o r.version \o Crlf
    \o FlattenSeq([i \in DOMAIN r.fields |-> Line(r.fields[i])])

Wired == [r \in Requests |-> Lines(r) \o Crlf \o r.body]

Stream(s) == FlattenSeq([i \in DOMAIN s |-> Wired[s[i]]])

Before(s, i) == Len(Stream(SubSeq(s, 1, i - 1)))

(* What a request is: no mark in a part that it would end, and a ": " in   *)
(* each header line or a line that is a name and nothing else.             *)
Free(marks) == Seq(Symbols \ marks)
Named == Free({":", "CR", "LF"}) \ {<<>>}
Fields == [key : Named, sep : {Colon}, value : Free({"CR", "LF"})]
            \cup [key : Named, sep : {<<>>}, value : {<<>>}]

Keyed(r, k) == {i \in DOMAIN r.fields : LowerCase(r.fields[i].key) = k}
IsChunked(r) ==
  \E i \in Keyed(r, TransferEncoding) :
    r.fields[i].value = Chunked /\ \A j \in Keyed(r, TransferEncoding) : i <= j

(* The body of a chunked request is the size of a chunk, a line end, and   *)
(* the chunk.                                                              *)
Measures(r, n) ==
  /\ n + 2 <= Len(r.body) /\ SubSeq(r.body, n + 1, n + 2) = Crlf
  /\ \A h \in 1 .. n : r.body[h] # "CR"
Measured(r) == CHOOSE n \in 1 .. ChunkSize - 1 : Measures(r, n)

IsRequest(r) ==
  /\ r.method \in Free({"SP", "CR", "LF"}) \ {<<>>}
  /\ r.path \in Free({"SP", "CR", "LF"})
  /\ r.version \in Free({"CR", "LF"})
  /\ r.fields \in Seq(Fields)
  /\ r.body \in Seq(Symbols)
  /\ IsChunked(r) => \E n \in 1 .. ChunkSize - 1 : Measures(r, n)

ASSUME WireAssumption ==
  /\ \A r \in Requests : IsRequest(r)
  /\ Stacks \subseteq [0 .. Size - 1 -> Symbols \cup {Nul}]
  /\ MaxSent \in Nat

-----------------------------------------------------------------------------
Init ==
  /\ sent = <<>>
  /\ taken = 0
  /\ payload \in Stacks
  /\ last = [from |-> 0, length |-> 0, stale |-> FALSE, status |-> "none", path |-> <<>>,
              headers |-> <<>>, body |-> <<>>]
  /\ status = "open"

Send(r) ==
  /\ status = "open"
  /\ Len(sent) < MaxSent
  /\ sent' = Append(sent, r)
  /\ UNCHANGED <<taken, payload, last, status>>

(* The connection's thread goes on after a request it could read, answers  *)
(* 400 and disconnects after any other.                                    *)
StatusAfter(p) ==
  CASE p.status = "accept"    -> "open"
    [] p.status = "reject"    -> "closed"
    [] p.status = "undefined" -> "undefined"

Receive(n) ==
  LET text == SubSeq(Stream(sent), taken + 1, taken + n)
      buf  == [i \in 0 .. n - 1 |-> text[i + 1]] @@ payload
      p    == Parse(buf, n) IN
  /\ status = "open"
  /\ n <= Len(Stream(sent)) - taken
  /\ payload' = buf
  /\ taken' = taken + n
  /\ last' = [from |-> taken, length |-> n, stale |-> \E i \in n .. Size - 1 : buf[i] # Nul,
               status |-> p.status, path |-> p.path, headers |-> p.headers, body |-> p.body]
  /\ status' = StatusAfter(p)
  /\ UNCHANGED sent

(* recv returns 0 or -1.                                                   *)
Hangup ==
  /\ status = "open"
  /\ status' = "closed"
  /\ UNCHANGED <<sent, taken, payload, last>>

Next ==
  \/ \E r \in Requests : Send(r)
  \/ \E n \in 1 .. Size : Receive(n)
  \/ Hangup

Spec == Init /\ [][Next]_vars

-----------------------------------------------------------------------------
(* The state has the types listen_messages gives it: a recv never writes   *)
(* past payload nor returns more than was sent.                            *)
TypeOK ==
  /\ sent \in Seq(Requests) /\ Len(sent) <= MaxSent
  /\ taken \in 0 .. Len(Stream(sent))
  /\ DOMAIN payload = 0 .. Size - 1
  /\ last.status \in {"none", "accept", "reject", "undefined"}
  /\ last.from + last.length = taken
  /\ Len(last.headers) <= MaxHeaders
  /\ Len(last.body) <= Size
  /\ status \in {"open", "closed", "undefined"}

-----------------------------------------------------------------------------
(* What a request asks for, told from its parts and not from its bytes.    *)

(* A Content-Length is the number on its line.  One that has nothing there *)
(* but white space has no value of its own: atoi goes on to what is behind *)
(* the line, the body or older bytes (httpparser.c:99).                    *)
Told(f) == Atoi(f.value \o Crlf)
Blanked(r) ==
  \E i \in Keyed(r, ContentLength) :
    r.fields[i].sep = Colon /\ r.fields[i].value \in Seq(Blank)
Declared(r) ==
  LET told == Keyed(r, ContentLength) IN
  IF told = {} THEN 0 ELSE Told(r.fields[CHOOSE i \in told : \A j \in told : j <= i]).value
HasBody(r) == Declared(r) > 0 \/ Keyed(r, TransferEncoding) # {}

(* A part fills the array it is copied to, or is a number no int holds.    *)
Overfull(r) ==
  \/ Len(r.method) >= MethodSize
  \/ r.method \in Methods /\ Len(r.version) >= VersionSize
  \/ /\ r.method \in Methods /\ r.version = Version
     /\ \E i \in DOMAIN r.fields :
          /\ i <= MaxHeaders
          /\ \/ Len(r.fields[i].key) >= KeySize
             \/ Len(r.fields[i].value) >= ValueSize
             \/ i \in Keyed(r, ContentLength) /\ Told(r.fields[i]).over

(* A chunk is copied for as long as it declares, or for what the parser    *)
(* takes for the room behind it; a chunk declares so much that the copy    *)
(* ends behind payload, or a negative length.                              *)
ChunkDeclared(r) == Hex[SubSeq(r.body, 1, Measured(r))]
Copied(r) ==
  LET room == Len(Wired[r]) + Len(Lines(r)) - 8 - Measured(r) IN
  IF room > ChunkDeclared(r) THEN ChunkDeclared(r) ELSE room
Overdrawn(r) ==
  IsChunked(r) /\ (Copied(r) < 0 \/ Len(Lines(r)) + 4 + Measured(r) + Copied(r) > Size)

(* A header line has no ": ": the search goes on past it.                  *)
Unseparated(r) == \E i \in DOMAIN r.fields : r.fields[i].sep # Colon

Sensible(r) ==
  /\ r.method \in Methods /\ r.version = Version /\ Len(r.fields) <= MaxHeaders
  /\ HasBody(r) => /\ Keyed(r, ContentType) # {}
                   /\ ~IsChunked(r) => Len(r.body) = Declared(r)

(* The last recv began with the i-th request; it brought just that one.    *)
Begins(i) == last.length > 0 /\ last.from = Before(sent, i)
Whole(i) == Begins(i) /\ last.length = Len(Wired[sent[i]])

(* The body that is handled is the one sent; that of a chunk which         *)
(* declares more than came has bytes from behind it (httpparser.c:126 adds *)
(* the length of the headers to the room it should be taken from); with a  *)
(* blank Content-Length it is the one sent or none.                        *)
BodyIsWhatCame(r) ==
  LET size == Measured(r)
      n    == Len(r.body) - size - 2
      l    == Len(last.body) IN
  IF IsChunked(r)
    THEN ChunkDeclared(r) > n \/ (l <= n /\ last.body = SubSeq(r.body, size + 3, size + 2 + l))
  ELSE IF Blanked(r) THEN last.body \in {<<>>, r.body}
  ELSE last.body = IF HasBody(r) THEN r.body ELSE <<>>

(* A request that arrives in one recv of its own is understood as what it  *)
(* says, whatever the stack or earlier requests left in the buffer: it is  *)
(* handled with its own path, headers and body if it is well formed and    *)
(* refused if it is not.  What the parser does with it is defined, unless  *)
(* a part fills its array, a Content-Length is no int, a chunk passes the  *)
(* end of the buffer, or a header line lacks its ": " - and that last one  *)
(* is never accepted.  Whether a request with a blank Content-Length is    *)
(* accepted depends on the bytes behind that line, and is left open here.  *)
(* (httpparser.c:39, :51, :90, :99.)                                       *)
WholeRequestServed ==
  \A i \in DOMAIN sent :
    LET r == sent[i] IN
    Whole(i) =>
      /\ IF Unseparated(r) THEN last.status # "accept"
         ELSE Blanked(r)
           \/ last.status = (IF Overfull(r) \/ (Sensible(r) /\ Overdrawn(r)) THEN "undefined"
                             ELSE IF Sensible(r) THEN "accept" ELSE "reject")
      /\ last.status = "accept" =>
           /\ last.path = r.path
           /\ last.headers = [j \in DOMAIN r.fields |->
                             [key |-> LowerCase(r.fields[j].key), value |-> r.fields[j].value]]
           /\ BodyIsWhatCame(r)

(* The last recv brought what reads like a method from index p of the      *)
(* stream on, or as much of one as it brought.                             *)
ReadsAsMethod(p) ==
  \E m \in Methods \ {<<>>} :
    \A h \in 1 .. Len(m) : h <= last.length => p + h <= Len(Stream(sent)) /\ Stream(sent)[p + h] = m[h]

Inside == {p \in 0 .. Len(Stream(sent)) - 1 : \A i \in DOMAIN sent : p # Before(sent, i)}

(* However the stream is cut, the parser never takes the middle of a       *)
(* request for the beginning of one: a recv that is accepted begins where  *)
(* a request begins, unless there is a place inside a request, in its body *)
(* for one, that reads like a method.  This is about the bytes a recv      *)
(* brought, and not about those behind them: a recv of a request's first   *)
(* bytes alone may be accepted for the path of the request whose bytes are *)
(* still behind them (CutKeepsRequest is about where there are none), and  *)
(* a request may be answered by 200 and then by 400 for its rest           *)
(* (httpserver.c:123).                                                     *)
AcceptedAtBeginning ==
  last.status = "accept" => (\E i \in DOMAIN sent : Begins(i)) \/ (\E p \in Inside : ReadsAsMethod(p))

(* A recv that brings the beginning of a request, with nothing older       *)
(* behind it in the buffer, is refused or handled for the path that was    *)
(* sent, with some of the headers, and with all of the body or none of it  *)
(* if it told its length: a request cut short is never taken for another   *)
(* one.  With older bytes behind it the path may be that of an earlier     *)
(* request (httpparser.c:41 searches past request_length), and with a      *)
(* blank Content-Length what came of the body tells its length.            *)
CutKeepsRequest ==
  \A i \in DOMAIN sent :
    LET r == sent[i] IN
    last.status = "accept" /\ Begins(i) /\ ~last.stale =>
      /\ last.path = r.path
      /\ \A j \in DOMAIN last.headers :
           /\ j \in DOMAIN r.fields
           /\ last.headers[j].key = LowerCase(r.fields[j].key)
           /\ IsPrefix(last.headers[j].value, r.fields[j].value)
      /\ Sensible(r) /\ ~Blanked(r) /\ ~IsChunked(r) => last.body \in {<<>>, r.body}

(* tstr_find_between finds the first occurrence there is behind index 0,   *)
(* for each string the parser looks for, unless the byte before it begins  *)
(* the same string: a mismatch drops the byte that showed it, so the ": "  *)
(* of "a:: b" and the line end of "\r\r\n" may be missed                   *)
(* (libtstr.c:54).                                                         *)
SearchFindsFirst ==
  LET nul == NulFrom(payload, 0)
      At(pat, i) == i + Len(pat) <= nul /\ \A h \in 1 .. Len(pat) : payload[i + h - 1] = pat[h] IN
  \A pat \in {Space, Crlf, Colon, Crlf \o Crlf} :
    \A i \in 1 .. nul - 1 :
      /\ At(pat, i) /\ \A j \in 1 .. i - 1 : ~At(pat, j)
      /\ i > 1 => payload[i - 1] # pat[1]
      => Find(payload, 0, 1, pat).end = i
=============================================================================
