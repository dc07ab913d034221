----------------------------- MODULE HttpParser -----------------------------
(***************************************************************************)
(* The request parser of server/libs/httpparser.c and the search it is     *)
(* built on, tstr_find_between of server/libs/libtstr.c, as operators over *)
(* the buffer that recv filled.                                            *)
(*                                                                         *)
(* A text is a sequence of symbols, a symbol standing for a byte of a      *)
(* scaled-down alphabet in which "HTTP/" or a header's name is one or two  *)
(* bytes long; the sizes of the arrays are scaled with it.  White space,   *)
(* signs and digits, which atoi reads one by one, are symbols of their own *)
(* and no other symbol begins with one.                                    *)
(*                                                                         *)
(* A definition whose name adds a word to that of the one below it         *)
(* (FollowStuck before Follow) is a faulty variant of it which no operator *)
(* uses: it is there to show that a property notices the fault.            *)
(***************************************************************************)
EXTENDS Integers, SequencesExt

CONSTANTS
  Nul,          (* the byte '\0'                                           *)
  Lower,        (* tolower                                                 *)
  Blank,        (* white space: isspace                                    *)
  Digit,        (* the decimal digits and their values                     *)
  MaxInt,       (* the greatest int                                        *)
  Hex,          (* strtol(text, NULL, 16), for the texts that fit a chunk_size_str *)
  Methods,      (* http_methods                                            *)
  MethodSize, VersionSize, KeySize, ValueSize, ChunkSize,
                (* the arrays: 7, 4, 64, 1024 and 5 bytes                  *)
  MaxHeaders,   (* headers the caller has room for: 30                     *)
  Size          (* bytes of the buffer: 65536                              *)

Symbols == DOMAIN Lower

(* The texts that fit chunk_size_str.                                      *)
Sizes == UNION {[1 .. n -> Symbols] : n \in 0 .. ChunkSize - 1}

ASSUME ParserAssumption ==
  /\ {MethodSize, VersionSize, KeySize, ValueSize, ChunkSize, MaxHeaders, Size} \subseteq Nat \ {0}
  /\ ChunkSize > 1
  /\ Lower \in [Symbols -> Symbols] /\ \A c \in Symbols : Lower[Lower[c]] = Lower[c]
  /\ {"SP", "CR", "LF", ":", "HTTP/"} \subseteq Symbols /\ Nul \notin Symbols
  /\ {"SP", "CR", "LF"} \subseteq Blank
  /\ Digit \in [DOMAIN Digit -> 0 .. 9] /\ DOMAIN Digit \cap (Blank \cup {"-", "+", Nul}) = {}
  /\ MaxInt \in Nat
  /\ Hex \in [Sizes -> Int] /\ Hex[<<>>] = 0
  /\ Methods \subseteq Seq(Symbols)

Space    == <<"SP">>
Crlf     == <<"CR", "LF">>
Colon    == <<":", "SP">>
HttpWord == <<"HTTP/">>
Version  == <<"1", ".", "1">>
ContentLength    == <<"content-length">>
ContentType      == <<"content-type">>
TransferEncoding == <<"transfer-encoding">>
Chunked          == <<"chunked">>

-----------------------------------------------------------------------------
(* tstr_find_between with no start string: from index "from" of the string *)
(* at "base".                                                              *)

NulFrom(buf, i) ==
  CHOOSE k \in i .. Size : (k = Size \/ buf[k] = Nul) /\ \A h \in i .. k - 1 : buf[h] # Nul

(* One turn of the loop: j bytes of pat are matched, from index end.  A    *)
(* mismatch drops the match and the byte with it, and index 0 does not     *)
(* count as the beginning of a match.                                      *)
FollowStuck(s, c, i, pat) ==
  IF s.j = Len(pat) THEN s
  ELSE IF c = pat[s.j + 1] THEN [j |-> s.j + 1, end |-> IF s.end = 0 THEN i ELSE s.end]
  ELSE [s EXCEPT !.j = 0]
Follow(s, c, i, pat) ==
  IF s.j = Len(pat) THEN s
  ELSE IF c = pat[s.j + 1] THEN [j |-> s.j + 1, end |-> IF s.end = 0 THEN i ELSE s.end]
  ELSE [j |-> 0, end |-> 0]

(* When the string ends before pat is found, end is where a match was      *)
(* beginning; or else, if another '\0' follows, the index of that.         *)
Find(buf, base, from, pat) ==
  LET nul == NulFrom(buf, base + from)
      at[i \in from .. nul - base] ==
        IF i = from THEN [j |-> 0, end |-> 0] ELSE Follow(at[i - 1], buf[base + i - 1], i - 1, pat)
      s   == at[nul - base] IN
  [start |-> from,
   end   |-> IF s.j = Len(pat) \/ s.end # 0 \/ nul + 1 >= Size THEN s.end
             ELSE IF buf[nul + 1] = Nul THEN nul + 1 - base ELSE 0,
   over  |-> s.j # Len(pat) /\ (nul = Size \/ (s.end = 0 /\ nul + 1 = Size))]

(* The bytes from a up to b, and the string they are in C.                 *)
Bytes(buf, a, b) == [i \in 1 .. b - a |-> buf[a + i - 1]]
Text(buf, a, b) ==
  LET nul == NulFrom(buf, a) IN Bytes(buf, a, IF nul < b THEN nul ELSE b)

(* atoi of a text: white space, line ends with it, then a sign, then       *)
(* digits.  It reads past the end of the text when no other byte stops it, *)
(* and what an int cannot hold has no meaning.                             *)
Past(text, i, S) ==
  CHOOSE k \in i .. Len(text) + 1 :
    (k = Len(text) + 1 \/ text[k] \notin S) /\ \A h \in i .. k - 1 : text[h] \in S

Atoi(text) ==
  LET sign  == Past(text, 1, Blank)
      first == IF sign <= Len(text) /\ text[sign] \in {"-", "+"} THEN sign + 1 ELSE sign
      end   == Past(text, first, DOMAIN Digit)
      sum[i \in first .. end] == IF i = first THEN 0 ELSE 10 * sum[i - 1] + Digit[text[i - 1]]
      value == IF first > sign /\ text[sign] = "-" THEN -sum[end] ELSE sum[end] IN
  [value |-> value, over |-> end > Len(text) \/ value \notin (-MaxInt - 1) .. MaxInt]

-----------------------------------------------------------------------------
(* httpparser_parse_request, a stage for each search.  A stage ends the    *)
(* parse with -1 (Reject), leaves an array or copies a negative length,    *)
(* after which nothing has a meaning (Undefined), or goes on.              *)

Request(buf, n) ==
  [buf |-> buf, length |-> n, status |-> "parsing", headers_end |-> 0, path |-> <<>>, last |-> 0,
   headers |-> <<>>, content_length |-> 0, body |-> <<>>]

Reject(r) == [r EXCEPT !.status = "reject"]
Undefined(r) == [r EXCEPT !.status = "undefined"]
Then(r, Stage(_)) == IF r.status = "parsing" THEN Stage(r) ELSE r

FindHeadersEnd(r) ==
  LET end == Find(r.buf, 0, 0, Crlf \o Crlf) IN
  IF end.over THEN Undefined(r)
  ELSE IF end.end = 0 THEN Reject(r)
  ELSE [r EXCEPT !.headers_end = end.end]

TakeMethodAny(r) ==
  LET method == Find(r.buf, 0, 0, Space) IN
  IF method.end = 0 THEN Reject(r)
  ELSE IF method.over \/ method.end >= MethodSize THEN Undefined(r)
  ELSE [r EXCEPT !.last = method.end]
TakeMethod(r) ==
  LET method == Find(r.buf, 0, 0, Space) IN
  IF method.end = 0 /\ ~method.over THEN Reject(r)
  ELSE IF method.over \/ method.end >= MethodSize THEN Undefined(r)
  ELSE IF Text(r.buf, 0, method.end) \notin Methods THEN Reject(r)
  ELSE [r EXCEPT !.last = method.end]

TakePath(r) ==
  LET path == Find(r.buf, 0, r.last + 1, Space) IN
  IF path.over THEN Undefined(r)
  ELSE IF path.end = 0 THEN Reject(r)
  ELSE [r EXCEPT !.path = Text(r.buf, path.start, path.end), !.last = path.end]

(* The word before the version is skipped and not compared.                *)
TakeVersion(r) ==
  LET from    == r.last + 1 + Len(HttpWord)
      version == Find(r.buf, 0, from, Crlf) IN
  IF from >= Size \/ version.over THEN Undefined(r)
  ELSE IF version.end = 0 THEN Reject(r)
  ELSE IF version.end - version.start >= VersionSize THEN Undefined(r)
  ELSE IF Text(r.buf, version.start, version.end) # Version THEN Reject(r)
  ELSE [r EXCEPT !.last = version.end]

(* One turn of the loop over the headers.  The search for ": " is not      *)
(* bounded by the end of the line, nor is atoi.                            *)
LowerCase(text) == [i \in DOMAIN text |-> Lower[text[i]]]

HeaderRoomOne(r) == Len(r.headers) <= MaxHeaders
HeaderRoom(r) == Len(r.headers) < MaxHeaders

TakeHeader(r) ==
  LET from   == r.last + Len(Crlf)
      header == Find(r.buf, 0, from, Crlf)
      name   == Find(r.buf, 0, from, Colon)
      key    == LowerCase(Text(r.buf, from, name.end))
      at     == name.end + Len(Colon)
      told   == Atoi(Bytes(r.buf, from + Len(ContentLength) + Len(Colon), Size)) IN
  IF r.last = r.headers_end THEN r
  ELSE IF from >= Size \/ header.over \/ name.over THEN Undefined(r)
  ELSE IF name.end = 0 \/ ~HeaderRoom(r) THEN Reject(r)
  ELSE IF name.end - from >= KeySize \/ header.end - at \notin 0 .. ValueSize - 1 THEN Undefined(r)
  ELSE IF key = ContentLength /\ told.over THEN Undefined(r)
  ELSE [r EXCEPT
         !.headers = Append(@, [key |-> key, value |-> Text(r.buf, at, header.end)]),
         !.content_length = IF key = ContentLength THEN told.value ELSE @,
         !.last = header.end]

TakeHeaders(r) ==
  LET after[i \in 0 .. MaxHeaders + 1] == IF i = 0 THEN r ELSE Then(after[i - 1], TakeHeader)
  IN  after[MaxHeaders + 1]

(* httpparser_get_header: the first with the key, as a set that is empty   *)
(* where the code returns NULL.                                            *)
GetHeader(r, k) ==
  LET same == {i \in DOMAIN r.headers : r.headers[i].key = k} IN
  {r.headers[i].value : i \in {j \in same : \A h \in same : j <= h}}

(* The body copied is no longer than the chunk says; that it is not longer *)
(* than what came is not ensured by "room", which adds headers_end where   *)
(* it should be taken away.                                                *)
ChunkRoom(r, size) == r.length + r.headers_end - 4 - size - 2

TakeChunk(r) ==
  LET base == r.headers_end + 4
      size == Find(r.buf, base, 0, Crlf)
      room == ChunkRoom(r, size.end)
      told == Hex[Text(r.buf, base, base + size.end)]
      from == base + size.end + 2
      n    == IF room > told THEN told ELSE room IN
  IF base >= Size \/ size.over THEN Undefined(r)
  ELSE IF size.end = 0 THEN Reject(r)
  ELSE IF size.end >= ChunkSize \/ n < 0 \/ from + n > Size THEN Undefined(r)
  ELSE [r EXCEPT !.body = Bytes(r.buf, from, from + n)]

TakeLengthAny(r) ==
  LET from == r.headers_end + 4 IN
  IF r.content_length < 0 \/ from + r.content_length > Size THEN Undefined(r)
  ELSE [r EXCEPT !.body = Bytes(r.buf, from, from + r.content_length)]
TakeLength(r) ==
  LET from == r.headers_end + 4 IN
  IF r.length - from # r.content_length THEN Reject(r)
  ELSE IF r.content_length < 0 THEN Undefined(r)
  ELSE [r EXCEPT !.body = Bytes(r.buf, from, from + r.content_length)]

TakeBody(r) ==
  IF r.content_length <= 0 /\ GetHeader(r, TransferEncoding) = {} THEN r
  ELSE IF GetHeader(r, ContentType) = {} THEN Reject(r)
  ELSE IF GetHeader(r, TransferEncoding) = {Chunked} THEN TakeChunk(r)
  ELSE TakeLength(r)

Accept(r) == [r EXCEPT !.status = "accept"]

Parse(buf, n) ==
  Then(Then(Then(Then(Then(Then(Then(Request(buf, n),
    FindHeadersEnd), TakeMethod), TakePath), TakeVersion), TakeHeaders), TakeBody), Accept)
=============================================================================
