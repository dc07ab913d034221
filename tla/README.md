# A verification development for PalFT

PalFT is a small shop: a C server (`server/`) with its own HTTP stack, a session
table and a PostgreSQL database, and static pages (`web/`) that call it. This
directory holds TLA+ models of the server, TLC configurations that check them on
small instances, and TLAPS proofs that the most important of what they check
holds for instances of any size.

Paths below are relative to `server/` unless they begin with `web/`.

## 1. Inventory

| part | state it keeps | operations | how it meets the others | what makes it correct |
|---|---|---|---|---|
| connection pool, `libs/httpserver.c` | `sockets[]`, `available_sockets[]`, `sockets_capacity`, `sockets_length` | start, accept loop, `_select_position`, `_add_available_socket`, `disconnect_client`, stop | one main thread and one detached thread per connection share the arrays without a lock; the SIGINT handler stops it | an index has one owner, none is lost, the count is exact, memory is freed once and not used after |
| connection thread, `listen_messages` | stack buffer, its `thread_data` block | recv, parse, callback, answer, disconnect | calls the request parser and `callback` of `main.c` | every request is answered, the slot comes back |
| request handlers, `main.c` | `sessions`; tables `usuarios`, `produtos`, `carrinho` | register, login, list/add/del of products and cart, session check | read the session table, one database connection per request | an answer tells the truth, carts and sessions stay with their user, nothing is done twice |
| session table, `libs/tablec.c` | buckets of cells that double | set, get, del, resize | called by all connection threads, without a lock | it is a dictionary |
| query parser, `libs/queryparser.c` | ten key and value buffers | parse, get | called first in every request | what was sent is found; buffers are respected |
| request parser, `libs/httpparser.c`, `libs/libtstr.c` | header buffers, path, body | parse one buffer | called once per `recv` | accepts a request exactly when it is complete, keeps to its buffer |
| session identifiers, `libs/fq_utils.c` | the C library's shared `rand` state | make 16 characters | called by login | new for each login |
| JSON builder, `libs/pjsonb.c` | buffer and position | set, enter, leave, end | called by the two listings | the text is well formed |
| response builder, `httpserver_send_response` | none | build and send | called by every handler | the length allocated is the length written |
| sockets, `libs/csocket-server.c`; threads, `libs/cthreads.c` | descriptors; thread handles, locks | thin wrappers | used by the pool; the locks by nothing | |
| TLS, `libs/pcll.c` | | | compiled to something only under `CSOCKET_SECURE`, which the Makefile does not set | |
| web client, `web/*.js` | the cookie `token` | login, register, list, add to cart | HTTP requests | follows the server's answers |

What is hard here is concurrency without locks (the pool, the session table, the
random generator), a signal handler that frees what threads use, a database that
may commit a statement and lose its result, sessions that die with the process
while carts do not, and buffers at their limits. `PROJECT.json` lists each hazard
at its line with the properties that watch it.

## 2. Modules

| module | models | what it is |
|---|---|---|
| `SlotPool` | | what a pool of indices promises |
| `HttpServer` | `libs/httpserver.c`, with the calls it makes of `csocket-server.c` and `cthreads.c` | main thread, connection threads and stop, one action per access to shared memory |
| `HttpServerProofs` | | theorems about the pool and the memory of `HttpServer` |
| `MCHttpServer` | | instance for TLC |
| `Dict` | | what a session table promises |
| `Tablec` | `libs/tablec.c` | the table, one action per call |
| `MCTablec` | | instance for TLC |
| `TablecProofs` | | theorems about `Tablec` and its refinement of `Dict` |
| `Shop` | `main.c`, and the database as `main.c` uses it | the handlers, one action per step between which other threads can act |
| `MCShop` | | instance for TLC |
| `ShopProofs` | | theorems about `Shop` |
| `Sessions` | `libs/fq_utils.c`, `libs/tablec.c` and the session calls of `main.c` | logins and lookups by several threads at once, one action per access to shared memory |
| `MCSessions` | | instance for TLC |
| `SessionsProofs` | | theorems about the tokens and the table of `Sessions` |
| `Recursion` | | induction over the turns of a loop, for the proof modules |
| `QueryParser` | `libs/queryparser.c` | the parser as a function of a character and its state |
| `MCQueryParser` | | instance for TLC |
| `QueryParserProofs` | | a theorem about `QueryParser` |
| `HttpParser` | `libs/httpparser.c`, `libs/libtstr.c` | the request parser and its search as operators over a buffer |
| `Wire` | `listen_messages` of `libs/httpserver.c` | one connection: a stream cut anywhere, a buffer that is never cleared, `HttpParser` on each `recv` |
| `MCWire` | | instance for TLC |
| `WireProofs` | | theorems about `Wire`, the request parser and its search |
| `Pjsonb` | `libs/pjsonb.c` | the JSON builder, one operator per function |
| `Response` | `httpserver_send_response` of `libs/httpserver.c`, `tstr_append` | the length computed and the text written |
| `Listing` | the two listings of `main.c` and the other answers | a handler's calls of `Pjsonb`, then its response |
| `MCListing` | | instance for TLC |
| `ListingProofs` | | theorems about `Listing`, `Pjsonb` and `Response` |

Some definitions have a twin just above them whose name adds a word
(`NewIndexLast` above `NewIndex`). The twin is a faulty variant that no action
uses. It shows that a property notices that fault: with the variant in place of
the definition, TLC finds the property violated.

### HttpServer

State: the four fields of `struct httpserver` under their own names; per
connection a program counter `pc`, its `socket_index` (`index`), the position a
search stopped at (`slot`), the value of `sockets_length` it has read (`len`), its
`thread_data` block (`heap`) and descriptor (`open`); pending cancellations; what
main is about to publish; whether main runs, stops or has exited.

The main thread takes a connection through `Accept`, `FindAvailable`,
`TakeAvailable` or `Grow`, `LoadLength`, `StoreLength` (`sockets_length++` is a
read and a write), `Spawn` and `Publish` (line 195, after the thread has begun).
The connection's thread copies what it needs out of its `thread_data` (`Begin`, at
whatever time it first runs), goes through `Receive`, `Handle` or `Reject`, and when
its peer is gone through `Close`, `CancelThread`, `FreeData`, `FindEmpty`,
`PutAvailable`, `LoadLengthDown` and `StoreLengthDown`. `Stop` is the SIGINT
handler and `Exit` the return of `main` after it.

C gives no meaning to an access outside an array, a use of freed memory or a
`pthread_cancel` of a thread that is gone. `undefined` records such a step and the
model stops there. `races` is a history variable that guards nothing: it names the
kinds of overlap that happened.

| name in `races` | the overlap | code |
|---|---|---|
| `pool` | two threads are inside `_select_position`, `_add_available_socket` or the updates of `sockets_length` at once | lines 62-71, 84-111, 175 |
| `early` | a thread reaches `disconnect_client` before main has stored its entry | line 195 |
| `grow` | the arrays move while a thread is reading its entry | line 95 |
| `stop` | SIGINT comes while a thread still uses the arrays or its block, or has not yet read it (lines 114-118), or while main is not in `accept` | lines 49-60 |
| `spawn` | `pthread_create` failed | line 192 |

Every property of the pool holds only until an overlap, and says so. Each of the
five alone can lead to undefined behaviour, so this is as much as can be said of
the code as it is. A cancellation is deferred, as POSIX has it by default, and
takes effect at `recv`, `send` and `close`. SIGINT is taken by the main thread,
which is where Linux delivers it when that thread does not block it. The
`thread`, `data` and `socket` fields of an entry are kept; `upgraded` and `data`
(the user's pointer) are never used by the program.

### Tablec

State: the table as in `struct tablec_ht`; a bucket's capacity is the size of its
array, the table's count wraps at `Word` as a `size_t` does. `Set` covers the
three paths of `tablec_set` for a key that is not in the table, which is how the
server calls it unless `rand` gives a login a token that is in use (`Shop` has that);
the branch of lines 71 to 88 needs a bucket of length 0 with an occupied first cell,
which `BucketsAreWhole` excludes. `Del` and `Resize` are called by nothing in the
server; they are part of the library. A `Resize` to the number of buckets there
already is is not modelled.

### Shop

State: the three tables (rows of equal users and products are taken once, rows of
`carrinho` are counted), the session table as a user for each token, and for
each worker (connection thread) how far its request is, the user its session
named, the rows it has still to use, and its answer. `granted` (the users each
token was ever made for), `done`, `trouble` and `stray` (the products that were put
in a cart while the catalogue did not have them) are history.

A request is refused (`Refuse`), admitted (`Admit`) or makes the handler read a
null pointer (`ReadNullSession`), all in one step: the checks read nothing but the
request and the session table. Then come `Connect` and one statement: `Execute`
(committed; its result may be lost, and then the handler answers 400),
`ExecuteFails`, `SelectProducts`, `SelectUser` with `Grant`, or `SelectCart` with
one `LookUpProduct` for each row. `Grant` stores whatever token `rand` gave: nothing
in the code compares it with those in the table, so it may be one that is in use,
and then either of its two users is found. `LookUpProduct` follows a null pointer
when the database fails, when the catalogue has no such product, and when the name
is in `Long`: `get_produto_by_name` writes its query to `char[1024]` (`main.c:38`),
so a name of 988 bytes or more loses the quote behind it. `Reply` is the answer. `Kill` and `Start` stop
the process at any point and start it on the same tables without sessions.

`Normal` is what `normalize_string` and `normalize_query_value` make of a name.
`MCShop` has a name with a space, the same name sent with `+`, and the same name
sent with `%20` as browsers send it: the server knows nothing of `%20`, so the
third is another name. The parameters `tipo` and `avaliacao` change no decision
beyond being required and are left out; `imagem` and `preco` are the integers that
`atoi` makes of them.

### QueryParser

State: the buffers and the two indices of `qparser_parse`; `url` is what it has
read so far, kept as history. `Finish` is what follows the loop and `GetQuery` is
`qparser_get_query`. The limits 64, 1024 and 10 are constants.

### Sessions

`Tablec` and `Shop` have the session table's calls atomic; the server has no lock
around them. `Sessions` has the same table at the grain of its memory accesses.
State: `rng` (which login seeded the generator and how often it was drawn since),
`buckets` as in `struct tablec_ht`, and for each thread a program counter, the
token it makes or looks up, the user, a register for what it has read and not yet
used, and the larger array it is filling. A login goes through `StartLogin`
(`srand`), 16 times `LoadRand` and `StoreRand` (`Draws` times here), then one of
the three paths of `tablec_set`, then `Return`. `length++` and `capacity *= 2` are
a read and a write. A cart handler goes through `StartCheck`, `Find` and `Use`,
where it reads the cell that `tablec_get` returned (`main.c:823`).

Accesses are taken in the order of the code by every thread (sequential
consistency); a compiler and a processor may do more than the model shows, so a
property that names an overlap would be no stronger for it. `rand` need not be
safe for threads, so its state is a read and a write; a C library that locks it
has fewer behaviours. `races` is history, as in `HttpServer`: two threads making
tokens at once, two sets of one bucket at once, an array freed under a reader.

The branch of lines 71 to 87, which `BucketsAreWhole` of `Tablec` shows is never
taken by calls one after the other, is taken here: a set that found the length 0
can find the first cell filled by another that has not counted it yet.

### HttpParser and Wire

A text is a sequence of symbols: a delimiter's byte is a symbol, and so is a word
such as `HTTP/` or a header's name. The arrays' sizes are scaled with them:
a method of two symbols fills its array as `OPTIONS` does. `Find` is
`tstr_find_between` with all it does when it does not find: no way back after half
a match, the beginning of a match that the string's end cut off taken as the end,
or the index behind the string if another `'\0'` is there. The parser is a stage
for each search; a stage rejects, goes on, or leaves an array or copies a negative
length, and then the outcome is `undefined`.

`Wire` is the loop around it. What a client may send is anything of the form
`IsRequest`: a method, path and version without the marks that end them, header
lines with a name that are a name alone or have one `": "` behind it, any body, and
for a chunked request a body that begins with a number and a line end. Methods may
be unknown, arrays overfull, lengths wrong or negative, headers repeated. `Send`
appends such a request to the stream;
`Receive(n)` is a `recv` of any `n` symbols of it, written over what `payload`
held, and the parse; `Hangup` is a `recv` that returns 0 or -1. The initial
`payload` is zeros, an earlier connection's request or noise, since it is an array
on the stack. The request in a `recv` is not required to begin or end where one
of the client's does. Left out: what the parser stores and nothing reads
(`finished`, `chunk_length`).

### Pjsonb, Response and Listing

A builder is a record with the bytes up to `position`, the bytes allocated and
`key_state`; `written` is where the last write ended, to be compared with what
was allocated. A text is any sequence of `Symbol`. A response's headers have
strings; the value of `Content-Length` is what `snprintf` leaves in an array of 10
bytes, so a body of more than nine digits is announced with the first nine. The caller of the builder is one of the two listings, with the calls of `main.c` for each row, or
anything that calls the library in an order that makes sense (keys in objects,
none in arrays, what is left was entered last). Then `Finish` is `pjsonb_end` and
`Answer` the response; `AnswerPlain` are the answers without a listing.

`BuildsDocument` compares the builder's text, made by writing a comma behind each
element and overwriting it, with the usual way of writing one before each but the
first. They agree exactly when no number is set in an array and nothing is set
behind an array: these two uses of the library give broken text, and the server
makes neither. `ListingReadsBack` needs that no text holds a quote.
`normalize_string` makes quotes of apostrophes, so a product with one in its name
breaks the listing for everybody.

## 3. Runs

All bounds are constants of the modules or of the MC modules.

| run | instance | shows |
|---|---|---|
| `pool` | 3 connections, symmetric; 254,729 states | `SlotExclusive`, `NoSlotLost`, `LengthCounts`: the pool is a pool until threads overlap inside it. `NoUndefined`: no memory error has any cause but the five overlaps. `EntryIsOwn`, `NothingLeaks`, `OnlyStopCancelsOthers`: entries, blocks, descriptors and cancellations without overlap. `ImplementsSlotPool`: refinement of `SlotPool` |
| `pool_live` | 2 connections, fair threads | `SlotReturned`: the thread of a peer that left gives its index back. `AcceptedIsServed`: an accepted connection gets its thread and entry |
| `table` | 4 keys that collide in 2 buckets, 2 values, resizes to 1 and 3 buckets; 3,372 states | `BucketsAreWhole`, `ImplementsDict` (refinement of `Dict`), `LoneEntriesSurvive` |
| `shop_workers` | 2 workers, 2 users, 2 tokens, 3 names, symmetric; 5.4 million states | `CartsOfUsers`, `TokenNamesItsUser`, `OnlyOwnerChangesCart`, `CommitsOnce` under database failures, kills and restarts |
| `shop_requests` | 1 worker, every kind of request, one name too long to be looked up; 1.4 million states | `ListaSafe`, `AnswerIsTrue` and, with fair workers, `Answered` |
| `query` | 4 pieces, limits of 3, 3 and 2; 400,300 states | `FindsParameters`, `OverrunAtLimit` |
| `sessions` | 2 threads, 3 logins, all in one bucket, 2 draws per token, symmetric; 1.4 million states | `TokensDiffer`, `FoundIsMine`, `NoUndefined`, `WholeAtRest`: with calls that overlap in one bucket only as far as their names say |
| `wire` | 21 requests, two on one connection, every cut, 3 initial buffers; 294,415 states | `WholeRequestServed`, `AcceptedAtBeginning`, `CutKeepsRequest`, `SearchFindsFirst` |
| `listing` | 3 products, two rows; 6 calls of the builder; 572,703 states | `BuildsDocument`, `ListingReadsBack`, `ResponseIsExact` |
| `doc_product_deleted` | as `shop_requests` | finds `DeletedIsGone` violated |
| `doc_listed_price` | as `shop_requests` | finds `ListedPriceIsStored` violated |
| `doc_cart_listed` | as `shop_requests` | finds `ListaAnswers` violated |

Why the bounds are enough. The pool starts with one slot, so a second connection
makes it grow to two and a third to four; with three there are two growths, holes
from releases, one connection being accepted while two end, and every pair of the
overlaps. Four colliding keys fill a bucket of four cells after two growths, with
holes from deletes at every position. In `Shop` two workers and two users are
what a mix-up of users needs, two tokens allow a second login of one user, one
each, or one token for both, and a restart in between. The query limits are reached,
missed by one and exceeded in keys, in values, in the sum that an empty value causes,
and in the number of parameters. `ListaSafe` is checked where a catalogue name can be
too long, which two workers leave no room for in the run's time; that it holds for any
number of workers is proved (section 4). In `Sessions` one bucket grows twice for three
entries and the third login can overlap with either of the others or with a lookup. In `Wire`
each array is reached and passed by one request, the headers are one too many in
one, a second request meets the first's bytes, the body of one is itself a request
that a `recv` may begin with, and two have a `Content-Length` with nothing in it but
white space, and digits behind it. Six calls of the builder nest two deep with an
element before and after.

Deadlock is checked in `shop_workers` and `shop_requests`. It is not in the
others: the server exits, an undefined step ends the program's meaning, a table
that hashed a null key is gone, a url ends, logins are bounded, a connection is
closed and an answer is sent.

Fairness. `HttpServer` assumes weak fairness of each thread's own steps, which the
scheduler gives to threads that share no lock and so never wait for each other;
nothing is assumed of clients (`Receive`, `PeerGone`, `Accept`), of `accept`
failing or of signals. `Shop` assumes weak fairness of a worker's steps: libpq
returns from every call, be it with an error. Nothing is assumed about which
outcome is taken.

### What the violations say

* `main.c:693` builds `DELETE from produtos WHERE='...'`, which names no column.
  The statement never parses, so the handler always answers 400.
* `main.c:192` reads the price from column 2, the image, where `main.c:68` reads
  column 3.
* `main.c:1116` follows the null pointer of `get_produto_by_name` when a cart holds
  a product the catalogue does not, and `carrinho/add` accepts any name. The `%20`
  of a browser is enough. `ListaSafe` says which other ways there are: a database
  that fails, and a product whose name is too long for the query (`main.c:38`).

Three more differences between comments and code can be read off `Shop` without a
run: `session/check` falls through to the 404 answer where `main.c:488` says "true
ou false"; `register` answers 204 without a session where `main.c:236` announces
one; and 500 is answered where `main.c:493`, 643, 765 and 898 list 204, 400 and
403.

What `Wire` pins down of a cut request is less than one would hope: a `recv` that
ends after `HTTP/1.1` and a `'\r'` is handled as the whole request and the rest of
it is then refused (one request, answers 200 and 400), and a `recv` that ends
earlier, over a buffer with an earlier request, is handled with that one's path.
`CutKeepsRequest` says what holds: with nothing older behind it the right path is
handled or none, with some of the headers, the last of them perhaps without the end
of its value, and with all of the body or none of it if its length was told and not
left blank.

`AcceptedAtBeginning` says that no `recv` is accepted that begins inside a request,
unless a place there reads like a method (`ReadsAsMethod`), because a body may hold
the text of a request, and a `recv` that begins there is handled as one. The run has
such a body. It does not say that nothing is handled twice: a `recv` of the first
bytes of a request, over a buffer with an earlier one, can be handled with that
one's path again.

A `Content-Length` with nothing in it but white space (`Blanked`) has no number of
its own. `atoi` (`httpparser.c:99`) skips white space, the end of the line too, and
takes what is behind it: the digits a body begins with, or those of older bytes. Of
such a request the properties say only that it is refused, or handled with its own
path and headers and, if it came whole, with its own body or none.

`SearchFindsFirst` is about a search that does not go back after half a match: the
`": "` of `a:: b` and the line end of `\r\r\n` are not found. It says that this
is all there is to it: what the search looks for is found at its first place, unless
the byte before that place is the one it begins with.

What `FindsParameters` pins down is the parser's behaviour and not the usual
reading of a query string: the parameter after one with an empty value is not
found, because the index into the key is reset by the first letter of a value
(`queryparser.c:85`).

## 4. Proofs

The modules follow one scheme: an inductive invariant, a lemma that `Init` gives
it, one that a step keeps it with a case for each action, and the theorems by
temporal logic. Each invariant was one that TLC found to hold before it was
proved; where it quantifies over all numbers, sequences or strings, TLC had it over
those of the run.

`Recursion` has no theorem a reader need know. It is the induction the others use
about a loop: it takes what a turn of the loop does as a constant operator and
proves once that what holds before the first turn, and behind a turn if it held
before it, holds behind the last. A proof module takes an `INSTANCE` of it for each
loop of the code, with the turn and the property in place of the constants; this is
how a statement about every buffer, row or text is proved, where the library's
induction theorems, which take the property as a parameter, cannot be used.

### HttpServerProofs

`HttpServerProofs` proves, for any finite set of connections (`ConnsAssumption`):

* `Typing`: `Spec => []TypeOK`, which includes that indices stay inside the arrays
  as long as the program has a meaning.
* `PoolSafe`: `Spec => []("pool" \notin races => PoolInv)`.
* `SlotsSafe`: `Spec => []SlotExclusive`; `SlotsKept`: `Spec => []NoSlotLost`.
* `LengthSafe`: `Spec => []LengthCounts`.
* `Implements`: `Spec => ImplementsSlotPool`, the refinement.

`SlotExclusive` alone is not inductive. What a growth hands out is
`sockets_length`, so that it is free needs the count to be exact; and that a
thread finds a 0 to write its index to needs the free entries and the owners to
add up to the capacity. `PoolInv` therefore joins `Alone` (at most one connection
is inside the pool's steps), `FoundHolds` (what the search found is still there
when it is used), `Exclusive`, `Partition` (the listed indices are exactly those
nobody owns) and the count. The lemma `Counts` turns the partition into an
equation between cardinalities, from which `ReleaseFindsRoom` (a release finds a
hole, so the branch that loses an index is dead) and `GrowthIndex` (at a growth
`sockets_length` is the old capacity, the first new slot) follow. `RacesKept`,
`AloneKept` and `QuietStep` deal with the history variable and with the steps
outside the pool, and `PoolStep` has one step per action. For the refinement,
`Moves` says of every step whether it leaves who owns what alone (`Keeps`) or is
one of three changes of it, and `MovesImplement` that these are the steps of
`SlotPool`; a step that is an overlap is `Overlap`.

About memory, on top of that:

* `MemorySafe`: `Spec => [](races = {} => Quiet)`.
* `Defined`: `Spec => []NoUndefined`; `EntriesSafe`: `Spec => []EntryIsOwn`;
  `NoLeak`: `Spec => []NothingLeaks`; `CancelsItself`: `Spec =>
  OnlyStopCancelsOthers`.

That no step is undefined depends on what the step finds: a thread cancels and
frees what its entry of `sockets` holds, so the entry must be its own, so no other
connection may have been published there, which is `PoolInv`. `Quiet` says what
the memory looks like as long as nothing overlapped: the main thread is at one
connection (`OneAccepted`), the entries of served connections are theirs
(`Attached`) and the others are empty (`Vacant`), blocks are allocated for exactly
the served (`Blocks`), nobody is cancelled but by itself (`Cancels`), and after a
stop every thread is in a `recv` it will not leave or only counts down
(`Stopped`). `Vacant` is there for `Stop`, which frees the block of each entry
in use, so none may be in use twice or belong to a thread that left. `StaysQuiet`
has one step per action; `SameKind` deals with the many that change neither who is
served nor the entries.

### ShopProofs

For any users, names, tokens and workers that satisfy `ShopAssumption`:

* `Typing`: `Spec => []TypeOK`; `Carts`: `Spec => []CartsOfUsers`; `Sessioned`:
  `Spec => []TokenNamesItsUser`; `AnswersAreTrue`: `Spec => []AnswerIsTrue`;
  `ListingIsSafe`: `Spec => []ListaSafe`.
* `Ownership`: `Spec => OnlyOwnerChangesCart`; `Committing`: `Spec => CommitsOnce`.

None of them is inductive. The statements take parameters that the checks ran
over some steps before, so even `TypeOK` needs `InProgress`: a worker at the
database has a request that was admitted, with a user if it is about a cart, and
one about to make a token found its e-mail and password. On top of these two,
`Owned` is `CartsOfUsers` and `TokenNamesItsUser` together with `TableTold`: a
session in the table is of a user its token was made for, which `Grant` keeps when it
is given a token that is in use; so the cart of a request belongs to one its token
was made for, and tokens are made for registered users.
`Truthful` adds `Settled` to `AnswerIsTrue`: a worker that committed has nothing
left but to answer. `Explained` adds `Stocked` to `ListaSafe`: what a cart holds, and
a row a listing has still to look up, is in the catalogue or in `stray` (`Known`), so
a lookup that fails without the database is of a stray name or a long one. Fairness
is not used.

### TablecProofs

For any keys, values, hashes, numbers of buckets and sizes to resize to:

* `Typing`: `Spec => []TypeOK`; `BucketsSafe`: `Spec => []BucketsAreWhole`;
  `Implements`: `Spec => ImplementsDict`; `LoneSurvive`: `Spec =>
  LoneEntriesSurvive`.

The invariant is `Whole`: in every bucket the length counts the occupied cells, a
key is in the bucket its hash names, and in one cell of it. The count is what
makes `Set` safe: when a bucket is not full there is a free cell, so the search
for the first one cannot run off the array, and when it is full it doubles
(`PlaceFits`). `Putting` and `Deleting` are about one bucket; `Lookup` says that
the cell a lookup finds is the key's only one, which is the step to `Dict`.

A resize is two loops, over the buckets and over the cells of one. `MovingCells`
and `MovingBuckets` are about any number of turns of each: the new table is whole
(`Moving`, by `Setting`), it holds only entries of the old one (`OnlyMore`,
`OnlyFound`), and a bucket of one cell is moved with what it holds (`MovingBucket`),
while of a larger one the loop drops entries, which is why `Dict` allows it. Two
entries with one key cannot meet in the new table, because the old one had no two.

### SessionsProofs

About the tokens, for any threads, buckets, hashes and numbers of draws and logins:

* `DistinctTokens`: `Spec => []TokensDiffer`.

A token begins with the seed of its own login, which is no other's: `Counted` says
that a login's number is nobody else's, among the threads and among the tokens
that were given, and `Seeded` that the generator still runs on the seed of the one
login that draws from it. `Seeded` holds only until two threads make tokens at
once. The steps of `tablec_set` and of the lookups touch none of this (`Aside`,
one lemma for all of them).

About the table, for any threads, buckets and numbers of draws and logins, and any hash whose
values are numbers (`HashOfToken`; `_tablec_hash` returns an unsigned one):

* `Typing`: `Spec => []TypeOK`; `Defined`: `Spec => []NoUndefined`;
  `Whole`: `Spec => []WholeAtRest`; `FoundMine`: `Spec => []FoundIsMine`.

Calls of the table may overlap, and then its counts may be wrong, but what is
stored stays a key and a user (`Typed`). The rest is about a bucket in which no two
sets have met, which is the same as saying that at most one thread has a program
counter inside `tablec_set` for it. That thread's counter says how far the bucket
is from whole: `Sound` gives for each line of the function how the length, the
capacity, the array and what the thread has read agree, and `SetSound` that a line
leads from one to the next, with the branch of lines 71 to 87 never taken. `Shelf`
says that such buckets are sound, `Readers` that what a lookup has read of one is
inside its array or was freed under it; the two give `NoUndefined`, since all that
is left is a growth under a reader.

`FoundIsMine` needs what is in the cells (`Contents`): every key belongs to a login
that was answered or is storing it (`Owned`), no key is there twice (`OnceEach`),
an answered login's entry is below the capacity (`Kept`), and a login that is
storing has the cells `Filed` says at that line. `SetSound` also shows that a set
changes no cell of another key (`Grown`), which is why entries outlive growth. A
lookup reads the capacity before it reads the length, and a length of 0 would send
it home: `EntryMet` shows that the one state in which a key is stored and the
length still 0 is one in which the entry is not the one looked for. Tokens that
name their logins (`Apart`, from the above) are what keeps all of this from
meeting another's key, so it holds until two threads make tokens at once.

### ListingProofs

For any symbols, texts, products and bounds that satisfy `ListingAssumption`:

* `Typing`: `Spec => []TypeOK`, which says that no write of the builder ends past
  what its own `realloc` asked for, and that what is overwritten by a closing
  bracket is the `','` of an element and not the first bracket.
* `Documents`: `Spec => []BuildsDocument`; `ReadsBack`: `Spec => []ListingReadsBack`;
  `Exact`: `Spec => []ResponseIsExact`.

There is one lemma for each function of the library, on top of `PutSafe` (one
`realloc` and the text behind it) and `NamedElement` (the length of a key with its
value). The tight ones are an element of an array, a bracket, and
`pjsonb_enter_array` with a key, where room and text have the same length. The
invariant adds to `InMemory` that calls are made of texts and that numbers have a
digit (`ProgramTyped`, `AnyCallTyped`): a number without one, set first in an
array, would leave the `'['` last and the closing bracket would overwrite it.

`Documents` compares a text made with a comma behind each element with one made
with a comma before. The two differ at every moment but the last, so the invariant
`Written` says of the builder at every moment (`Held`): its text is `Told`, the
document so far with commas before, and one more comma if an element was last; or,
once one of the two broken uses was made, the text is shorter than that, and it
stays shorter, since every call writes at least what it loses (`DoWrites`,
`HeldMore`). `ToldIsDocument` is the step from the calls as a sequence to the
document as the property defines it.

`ReadsBack` follows a client through the listing. `Scan` is a reader that stops
where it likes, so that the text of one more call is one more `Scan` from where the
last stood (`ScanJoin`); outside of a string a reader passes marks and digits, and
the words between two quotes come out as they went in if they hold none
(`ScanQuoted`). `ReadSoFar` is the invariant: what was read is what the calls so far
were to tell, for any number of rows.

`Exact` is a sum: `Strlen` of the strings written, one after the other, is what
`_calculate_response_length` adds up header by header. What it needs of the strings
of the program themselves, their lengths, is the assumption `StringLengths`, which
TLC evaluates.

### QueryParserProofs

For any letters, limits and pieces that satisfy `ParserAssumption`:

* `Typing`: `Spec => []TypeOK`.
* `ParametersFound`: `Spec => []FindsParameters`.
* `OverrunsOnlyAtLimits`: `Spec => []OverrunAtLimit`.

The indices of `qparser_parse` stay inside its arrays until a write leaves one
(`overrun`), which needs `Room`: as long as it parses there is a query to write to,
since a separator that fills the last one stops the parse. One lemma for each kind
of character, and `ReadAllTyped` for the loop over a piece.

The other two are about the whole history of a url, which the parser does not keep.
The invariant says that what was read piece by piece is what the url read at once
would have given (`ReadAllPieces`: the parser has no state but its own). That leaves
one reading of one text, and `Reading(p, i)` says where it stands after i characters:
which parameters are stored, and as what; where in the next one it is (`InKey`,
`InValue`), with the index into the key not where the code means it to be but at
`Offset`, which counts the keys since the last value that was not empty
(`queryparser.c:85`); or that it stopped, and for which of the reasons. There is a
lemma for each kind of character (`KeyLetter`, `ValueLetter`, `KeyEnds`,
`ValueEnds`, `MarkRead`), one for the end of a value (`AtEnd`), and `TurnReads` over them. `LastOutcome` adds the `'\0'`
that ends the url, and `Finds` the comparison in `qparser_get_query`: what two arrays
hold up to their `'\0'` is the same if and only if the texts are.

### WireProofs

For any methods, alphabet, sizes of the arrays and of the buffer
(`ParserAssumption`), and any requests of the form `IsRequest` over any initial
buffer (`WireAssumption`):

* `Typing`: `Spec => []TypeOK`.
* `Searching`: `Spec => []SearchFindsFirst`.
* `Served`: `Spec => []WholeRequestServed`.
* `Once`: `Spec => []AcceptedAtBeginning`.
* `CutShort`: `Spec => []CutKeepsRequest`.

`ParserAssumption` holds what is C's and not the program's: which bytes are white
space, line ends among them, and which are digits, none of them a sign or `'\0'`;
and that `strtol` makes 0 of an empty string. `Atoi` is defined from these as it
reads: white space, a sign, digits, and past the end of the line if nothing there
stops it. Where it would read past the buffer, or the number is no `int`, it is
`over`. `AtoiStops` says that two texts that agree up to a byte that stops it give
the same number, so for a value that is not blank the line end behind it decides,
and the number read from the buffer is the one the request tells (`ToldHere`,
`ToldDeclared`). For a blank one nothing is known of the number, and what the
theorems say of the body then rests on `TakeBody` alone: it takes as many bytes as
came, or none (`BodyTaken`).

`Typing` holds for every way the stream is cut, so it rests on lemmas about any
buffer: each stage of the parser leaves a result that is `Sane` (`FindHeadersEndSane`
to `TakeBodySane`; `TakeHeadersSane` is the loop), so `ParseSane` the whole does.

`FindsAt` says when the search finds what is at an index: nothing like it is before,
and no part of it that could be half matched ends there (`First`). `Groping` is the
search up to there, `Matching` from there on. For `Searching`, a part half matched
where the mark begins ends in the byte before it, which is not one the mark begins
with; the only part left is the `\r\n` of an empty line, and with that one before it
an empty line would have begun two bytes earlier.

`Served` is about a request in a `recv` of its own. `InStream`, from `FlattenSplit`,
says which symbols of the stream it is, `Filled` that the buffer then begins with
them, and `WiredTyped` where that puts each part of the request (`Laid`). From there
on nothing is said of bytes but where the parts are and which marks they cannot hold:
`EndsApart` and `CrOnly` say that each `'\r'` is a line end, of the lines or of the
body, so the first two together end the headers (`FindsHeadersEnd`). Then one lemma
for each stage says what it makes of the request: `MethodTaken`, `PathTaken`,
`VersionTaken`, `HeaderTaken` (one turn: the next field is read, or the parse ends
for a reason the request gives), `HeadersTaken` (the loop, with `Passed` for the
fields read so far, of which the last `Content-Length` counts and the first
`Transfer-Encoding`), `LengthTaken`, `ChunkTaken` and `BodyTaken`. `ParseUnderstood`
puts them together. The inductive invariant is `Typed` and the property itself: a
request sent later cannot begin where the last `recv` did, because that is behind
everything sent before.

`Once` needs only the second search. What is accepted passed `TakeMethod`, so what
the `recv` brought begins as a method does, as far as it goes (`MethodFirst`,
`AcceptedBegins`). `Begun` says so of the last `recv` and its place in the stream;
if that is no place inside a request it is where one begins.

`CutShort` is about a `recv` that begins with a request and ends anywhere. If it
brought all the lines (`Opened`), the lemmas of `Served` say what each stage makes
of it, and the body is the one point left (`BodyOpened`): when its length was told
and not all of it came, or more than it, `length - from` differs from what was told.
If it did not (`Cut`, with `w` for the buffer as it would be had all the lines come),
then behind the text there is nothing but `'\0'` (`Short`), and everything rests on
what a search finds there: `FindsPart`, from `FindsCut` and `FindsPast`. It finds
what is before the end of the text, or something behind that end, or nothing, but
never a mark in another place. So each stage stops, or goes on where the request
says, or goes on behind the text (`MethodCut`, `PathCut`, `VersionCut`, `HeaderCut`).
From behind the text nothing is added: the version there is empty, which is refused,
and so is a header, which has no name (`EndsPast`). What a header takes is the value
or a beginning of it (`ValueCut`), and there is no body (`BodyCut`). `CutPassed` is
the invariant of the loop over the headers, `Kept` that of the specification.

### Only model-checked

* Liveness under fairness (`SlotReturned`, `AcceptedIsServed`, `Answered`), which is
  out of the proof system's reach, as `ENABLED` is.
* The three properties that are violated.

## 5. What is not modelled

* `cthreads` locks and condition variables, which nothing calls, so that there is
  no use of them to be right or wrong; the Windows build, where the arguments of a
  new thread share a stack slot of the accepting thread (`cthreads.c:30`).
* TLS: `pcll.c` is compiled to nothing but stubs without `CSOCKET_SECURE`.
* The failure of `csocket_server_init` (it returns -1 and `httpserver.c:30`
  compares with 1), before anything modelled here exists.
* `httpserver_set_socket_data`, `_get_socket_data`, `_upgrade_socket`,
  `tablec_full`, `tstr_find_amount`, `tstr_free`: called by nothing.
* Weak memory: `HttpServer` and `Sessions` take accesses in program order.
* The web client as a component of its own: its pages keep one cookie and make one
  request at a time, and those requests are in `MCShop`. Pages, styles and images.

## 6. Plan

Done, in this order: `HttpServer` with `SlotPool` and its proofs, `Tablec` with
`Dict`, `Shop`, `QueryParser`, `Sessions`, `HttpParser` with `Wire`, `Pjsonb` and
`Response` with `Listing`, the proofs about `Shop`, `Tablec` and the builder, the
proofs about `Sessions`, the induction over loops (`Recursion`) and with it the
proofs about `Resize`, the listings, the responses and the request parser, the
condition under which `AcceptedAtBeginning` holds for any requests, and the proofs about any
url and about requests that are cut.

With these every invariant a passing run checks is a theorem. Left are the parts of
section 5, and the hazards of `PROJECT.json` without a property: for each its note
says why.

Runs are grouped by the state space they need, so that each new component adds
one.
