----------------------------- MODULE HttpServer -----------------------------
(***************************************************************************)
(* The connection pool of server/libs/httpserver.c.                        *)
(*                                                                         *)
(* One main thread accepts connections, takes a slot index for each from   *)
(* the array available_sockets and starts one detached thread per          *)
(* connection.  Each connection thread receives requests until its peer    *)
(* leaves and then gives its slot back.  The arrays and the counter        *)
(* sockets_length are shared and no lock protects them, so an action here  *)
(* is one access (or one run of accesses no other thread's step can tell   *)
(* apart) to the shared memory, and the threads interleave freely.         *)
(*                                                                         *)
(* The C program has no defined meaning after an access outside an array,  *)
(* to freed memory or to a thread that is gone: "undefined" records it and *)
(* the model stops there.  "races" is a history variable: the names of the *)
(* kinds of overlap that have happened so far.  It guards nothing.         *)
(*                                                                         *)
(* A definition whose name adds a word to the one below it (NewIndexLast   *)
(* before NewIndex) is a faulty variant of that one, used by no action: it *)
(* is there to show that a property notices the fault.                     *)
(***************************************************************************)
EXTENDS Integers, FiniteSets

CONSTANTS
  Conns,      (* The connections a behaviour may see, each accepted once.  *)
  None        (* A null pointer or the zero thread handle.                 *)

ASSUME ConnsAssumption == IsFiniteSet(Conns) /\ None \notin Conns

VARIABLES
  capacity,       (* sockets_capacity                                      *)
  available,      (* available_sockets: 0, or a free index plus one        *)
  sockets_length, (* sockets_length                                        *)
  sockets,        (* sockets: thread handle, thread_data and socket field  *)
  pc,             (* where each connection is: accepted, served, released  *)
  index,          (* socket_index of each connection                       *)
  slot,           (* the loop variable i at which a search stopped         *)
  len,            (* the value of sockets_length an update has read        *)
  heap,           (* each connection's malloc'ed thread_data block         *)
  open,           (* connections whose file descriptor is open             *)
  cancelled,      (* threads with a cancellation request                   *)
  publishing,     (* the connection main has spawned but not yet stored    *)
  main,           (* the main thread: running, stopping or exited          *)
  races,          (* history: the kinds of overlap seen                    *)
  undefined       (* the program has lost its meaning                      *)

vars == <<capacity, available, sockets_length, sockets, pc, index, slot, len,
          heap, open, cancelled, publishing, main, races, undefined>>

pool    == <<capacity, available, sockets_length>>
threads == <<heap, open, cancelled>>

(* The main thread takes one connection through these steps ...            *)
AcceptPcs  == {"aFind", "aTake", "aGrow", "aLoad", "aStore", "aSpawn"}
(* ... its own thread through these: started and serving, ...              *)
ServePcs   == {"start", "recv", "handle", "bye"}
(* ... reading and clearing its entry of sockets, ...                      *)
EntryPcs   == {"cancel", "free"}
(* ... and putting its index back.                                         *)
ReleasePcs == {"rFind", "rPut", "rLoad", "rStore"}
EndPcs     == {"done", "killed"}
Pcs == {"none"} \cup AcceptPcs \cup ServePcs \cup EntryPcs \cup ReleasePcs \cup EndPcs

(* The steps during which available and sockets_length are being read and  *)
(* written back.                                                           *)
PoolPcs == (AcceptPcs \ {"aSpawn"}) \cup ReleasePcs

Raceable == {"pool", "early", "grow", "stop", "spawn"}

Slots   == 0 .. capacity - 1

(* How a free index is written into available_sockets, where 0 means none. *)
ListedBare(i) == i
ListedTwice(i) == i + 2
Listed(i) == i + 1

(* The index a growth hands out.  sockets_length is incremented only after *)
(* select_position returns.                                                *)
NewIndexIncremented == sockets_length + 1
NewIndexLast == sockets_length - 1
NewIndex == sockets_length

FreeEntry == [thread |-> None, data |-> None, socket |-> -1]

Running == main # "exit" /\ ~undefined
MainIdle == /\ main = "run"
            /\ publishing = None
            /\ \A c \in Conns : pc[c] \notin AcceptPcs

(* Two connections inside the pool's read-modify-write steps at once.      *)
PoolOverlap == \E c, d \in Conns : c # d /\ pc[c] \in PoolPcs /\ pc[d] \in PoolPcs

Goto(c, p) == /\ pc' = [pc EXCEPT ![c] = p]
              /\ races' = races \cup (IF PoolOverlap' THEN {"pool"} ELSE {})

Init ==
  /\ capacity = 1
  /\ available = [i \in 0..0 |-> 1]
  /\ sockets_length = 0
  /\ sockets = [i \in 0..0 |-> FreeEntry]
  /\ pc = [c \in Conns |-> "none"]
  /\ index = [c \in Conns |-> 0]
  /\ slot = [c \in Conns |-> 0]
  /\ len = [c \in Conns |-> 0]
  /\ heap = [c \in Conns |-> "none"]
  /\ open = {}
  /\ cancelled = {}
  /\ publishing = None
  /\ main = "run"
  /\ races = {}
  /\ undefined = FALSE

-----------------------------------------------------------------------------
(* The main thread: httpserver_handle_request.                             *)

(* accept() returns a connection.                                          *)
Accept(c) ==
  /\ Running /\ MainIdle
  /\ pc[c] = "none"
  /\ Goto(c, "aFind")
  /\ open' = open \cup {c}
  /\ UNCHANGED <<pool, sockets, index, slot, len, heap, cancelled, publishing, main, undefined>>

(* accept() fails: the loop ends, main returns and the process with it.    *)
AcceptFail ==
  /\ Running /\ MainIdle
  /\ main' = "exit"
  /\ UNCHANGED <<pool, sockets, pc, index, slot, len, threads, publishing, races, undefined>>

(* _httpserver_select_position: the first entry that is not 0.             *)
FindAvailable(c) ==
  /\ Running
  /\ pc[c] = "aFind"
  /\ \/ \E i \in Slots :
          /\ available[i] # 0
          /\ \A j \in 0 .. i - 1 : available[j] = 0
          /\ slot' = [slot EXCEPT ![c] = i]
          /\ index' = [index EXCEPT ![c] = available[i] - 1]
          /\ Goto(c, "aTake")
     \/ /\ \A i \in Slots : available[i] = 0
        /\ Goto(c, "aGrow")
        /\ UNCHANGED <<slot, index>>
  /\ UNCHANGED <<pool, sockets, len, threads, publishing, main, undefined>>

TakeAvailableKept(c) ==
  /\ Running
  /\ pc[c] = "aTake"
  /\ Goto(c, "aLoad")
  /\ UNCHANGED <<pool, sockets, index, slot, len, threads, publishing, main, undefined>>

TakeAvailable(c) ==
  /\ Running
  /\ pc[c] = "aTake"
  /\ available' = [available EXCEPT ![slot[c]] = 0]
  /\ Goto(c, "aLoad")
  /\ UNCHANGED <<capacity, sockets_length, sockets, index, slot, len, threads,
                 publishing, main, undefined>>

(* No entry left: both arrays double and the index is sockets_length, which *)
(* is written through without a bound check.  The arrays may move; a thread *)
(* that is using one may have read its old address.                         *)
Grow(c) ==
  /\ Running
  /\ pc[c] = "aGrow"
  /\ capacity' = 2 * capacity
  /\ available' = [i \in 0 .. capacity' - 1 |->
                     IF i = NewIndex THEN 0
                     ELSE IF i \in Slots THEN available[i] ELSE Listed(i)]
  /\ sockets' = [i \in 0 .. capacity' - 1 |->
                     IF i \in Slots THEN sockets[i] ELSE FreeEntry]
  /\ index' = [index EXCEPT ![c] = NewIndex]
  /\ \E stale \in BOOLEAN :
       undefined' = \/ NewIndex \notin Slots'
                    \/ stale /\ \E d \in Conns : pc[d] \in EntryPcs \cup {"rFind", "rPut"}
  /\ pc' = [pc EXCEPT ![c] = "aLoad"]
  /\ races' = races \cup (IF \E d \in Conns : pc[d] \in EntryPcs THEN {"grow"} ELSE {})
  /\ UNCHANGED <<sockets_length, slot, len, threads, publishing, main>>

(* server->sockets_length++ is a read and a write.                         *)
LoadLength(c) ==
  /\ Running
  /\ pc[c] = "aLoad"
  /\ len' = [len EXCEPT ![c] = sockets_length]
  /\ Goto(c, "aStore")
  /\ UNCHANGED <<pool, sockets, index, slot, threads, publishing, main, undefined>>

StoreLengthLost(c) ==
  /\ Running
  /\ pc[c] = "aStore"
  /\ Goto(c, "aSpawn")
  /\ UNCHANGED <<pool, sockets, index, slot, len, threads, publishing, main, undefined>>

StoreLength(c) ==
  /\ Running
  /\ pc[c] = "aStore"
  /\ sockets_length' = len[c] + 1
  /\ Goto(c, "aSpawn")
  /\ UNCHANGED <<capacity, available, sockets, index, slot, len, threads,
                 publishing, main, undefined>>

(* thread_data is allocated and the thread starts with it.                 *)
Spawn(c) ==
  /\ Running
  /\ pc[c] = "aSpawn"
  /\ heap' = [heap EXCEPT ![c] = "live"]
  /\ publishing' = c
  /\ Goto(c, "start")
  /\ UNCHANGED <<pool, sockets, index, slot, len, open, cancelled, main, undefined>>

(* cthreads_thread_create fails; its result is not looked at and a thread  *)
(* that does not exist is detached.                                        *)
SpawnFail(c) ==
  /\ Running
  /\ pc[c] = "aSpawn"
  /\ undefined' = TRUE
  /\ races' = races \cup {"spawn"}
  /\ UNCHANGED <<pool, sockets, pc, index, slot, len, threads, publishing, main>>

(* server->sockets[socket_index] = http_client, after the thread started.  *)
Publish ==
  /\ Running
  /\ publishing # None
  /\ LET i == index[publishing] IN
       /\ undefined' = (i \notin Slots)
       /\ sockets' = [j \in DOMAIN sockets |->
             IF j = i THEN [thread |-> publishing, data |-> publishing, socket |-> 0]
                      ELSE sockets[j]]
  /\ publishing' = None
  /\ UNCHANGED <<pool, pc, index, slot, len, threads, main, races>>

-----------------------------------------------------------------------------
(* A connection thread: listen_messages.                                   *)

(* The new thread copies client, socket_index and server out of its        *)
(* thread_data, at whatever time the scheduler first runs it: before or    *)
(* after main stores the entry, and before or after a stop frees the block.*)
Begin(c) ==
  /\ Running
  /\ pc[c] = "start"
  /\ undefined' = (heap[c] # "live")
  /\ Goto(c, "recv")
  /\ UNCHANGED <<pool, sockets, index, slot, len, threads, publishing, main>>

(* recv returns a message.  A thread with a cancellation request does not  *)
(* come back from recv.                                                    *)
Receive(c) ==
  /\ Running
  /\ pc[c] = "recv" /\ c \notin cancelled
  /\ Goto(c, "handle")
  /\ UNCHANGED <<pool, sockets, index, slot, len, threads, publishing, main, undefined>>

(* recv returns 0 or -1: the peer is gone.                                 *)
PeerGone(c) ==
  /\ Running
  /\ pc[c] = "recv" /\ c \notin cancelled
  /\ Goto(c, "bye")
  /\ UNCHANGED <<pool, sockets, index, slot, len, threads, publishing, main, undefined>>

Killed(c) ==
  /\ Running
  /\ pc[c] = "recv" /\ c \in cancelled
  /\ Goto(c, "killed")
  /\ UNCHANGED <<pool, sockets, index, slot, len, threads, publishing, main, undefined>>

(* The callback is read from thread_data and answers the request; its send *)
(* is where a pending cancellation takes effect.                           *)
Handle(c) ==
  /\ Running
  /\ pc[c] = "handle"
  /\ undefined' = (heap[c] # "live")
  /\ Goto(c, IF c \in cancelled THEN "killed" ELSE "recv")
  /\ UNCHANGED <<pool, sockets, index, slot, len, threads, publishing, main>>

(* The message does not parse: it is answered with 400.                    *)
Reject(c) ==
  /\ Running
  /\ pc[c] = "handle"
  /\ Goto(c, IF c \in cancelled THEN "killed" ELSE "bye")
  /\ UNCHANGED <<pool, sockets, index, slot, len, threads, publishing, main, undefined>>

(* disconnect_callback, read from thread_data, then the descriptor closes. *)
Close(c) ==
  /\ Running
  /\ pc[c] = "bye"
  /\ undefined' = (heap[c] # "live")
  /\ IF c \in cancelled
       THEN Goto(c, "killed") /\ UNCHANGED open
       ELSE Goto(c, "cancel") /\ open' = open \ {c}
  /\ UNCHANGED <<pool, sockets, index, slot, len, heap, cancelled, publishing, main>>

(* cthreads_thread_cancel(sockets[socket_index].thread).  The thread has no *)
(* cancellation point left before it returns, so its own request is moot.   *)
CancelThread(c) ==
  /\ Running
  /\ pc[c] = "cancel"
  /\ LET t == IF index[c] \in Slots THEN sockets[index[c]].thread ELSE None IN
       /\ undefined' = (main = "stopping" \/ t = None \/ (t # c /\ pc[t] = "done"))
       /\ cancelled' = cancelled \cup ({t} \ {None})
  /\ pc' = [pc EXCEPT ![c] = "free"]
  /\ races' = races \cup (IF publishing = c THEN {"early"} ELSE {})
  /\ UNCHANGED <<pool, sockets, index, slot, len, heap, open, publishing, main>>

(* free(sockets[socket_index].thread_data); .socket = -1                   *)
FreeData(c) ==
  /\ Running
  /\ pc[c] = "free"
  /\ LET d == sockets[index[c]].data IN
       /\ undefined' = (main = "stopping" \/ (d # None /\ heap[d] # "live"))
       /\ heap' = [x \in Conns |-> IF x = d THEN "freed" ELSE heap[x]]
  /\ sockets' = [sockets EXCEPT ![index[c]].socket = -1]
  /\ Goto(c, "rFind")
  /\ UNCHANGED <<pool, index, slot, len, open, cancelled, publishing, main>>

(* _httpserver_add_available_socket: the first entry that is 0, if any.    *)
FindEmpty(c) ==
  /\ Running
  /\ pc[c] = "rFind"
  /\ undefined' = (main = "stopping")
  /\ \/ \E i \in Slots :
          /\ available[i] = 0
          /\ \A j \in 0 .. i - 1 : available[j] # 0
          /\ slot' = [slot EXCEPT ![c] = i]
          /\ Goto(c, "rPut")
     \/ /\ \A i \in Slots : available[i] # 0
        /\ Goto(c, "done")
        /\ UNCHANGED slot
  /\ UNCHANGED <<pool, sockets, index, len, threads, publishing, main>>

PutAvailable(c) ==
  /\ Running
  /\ pc[c] = "rPut"
  /\ undefined' = (main = "stopping")
  /\ available' = [available EXCEPT ![slot[c]] = Listed(index[c])]
  /\ Goto(c, "rLoad")
  /\ UNCHANGED <<capacity, sockets_length, sockets, index, slot, len, threads,
                 publishing, main>>

(* server->sockets_length--                                                *)
LoadLengthDown(c) ==
  /\ Running
  /\ pc[c] = "rLoad"
  /\ len' = [len EXCEPT ![c] = sockets_length]
  /\ Goto(c, "rStore")
  /\ UNCHANGED <<pool, sockets, index, slot, threads, publishing, main, undefined>>

StoreLengthDown(c) ==
  /\ Running
  /\ pc[c] = "rStore"
  /\ sockets_length' = len[c] - 1
  /\ Goto(c, "done")
  /\ UNCHANGED <<capacity, available, sockets, index, slot, len, threads,
                 publishing, main, undefined>>

-----------------------------------------------------------------------------
(* SIGINT: httpserver_stop_server runs on the main thread, wherever that   *)
(* is.  In accept(), the call is interrupted and main returns; anywhere    *)
(* else main goes on with the arrays the handler has freed.                *)

LiveSlotsCounted == {i \in Slots : i < sockets_length /\ sockets[i].socket # -1}
LiveSlots == {i \in Slots : sockets[i].socket # -1}

(* A thread that will still read its thread_data or the arrays.            *)
Busy(c) == pc[c] \in {"start", "handle", "bye", "cancel", "free", "rFind", "rPut"}

Stop ==
  /\ Running
  /\ main = "run"
  /\ IF MainIdle
       THEN LET T == {sockets[i].thread : i \in LiveSlots}
                D == {sockets[i].data : i \in LiveSlots} IN
            /\ cancelled' = cancelled \cup (T \ {None})
            /\ heap' = [c \in Conns |-> IF c \in D THEN "freed" ELSE heap[c]]
            /\ undefined' = \/ \E t \in T : t = None \/ pc[t] \in EndPcs
                            \/ \E d \in D : heap[d] # "live"
            /\ races' = races \cup (IF \E c \in Conns : Busy(c) THEN {"stop"} ELSE {})
       ELSE /\ undefined' = TRUE
            /\ races' = races \cup {"stop"}
            /\ UNCHANGED <<cancelled, heap>>
  /\ main' = "stopping"
  /\ UNCHANGED <<pool, sockets, pc, index, slot, len, open, publishing>>

(* The interrupted accept() returns -1 and main returns.                   *)
Exit ==
  /\ Running
  /\ main = "stopping"
  /\ main' = "exit"
  /\ UNCHANGED <<pool, sockets, pc, index, slot, len, threads, publishing, races, undefined>>

-----------------------------------------------------------------------------
MainStepFixedSize(c) == \/ FindAvailable(c) \/ TakeAvailable(c) \/ LoadLength(c)
                        \/ StoreLength(c) \/ Spawn(c)
MainStep(c) == \/ FindAvailable(c) \/ TakeAvailable(c) \/ Grow(c) \/ LoadLength(c)
               \/ StoreLength(c) \/ Spawn(c)

ReleaseStep(c) == \/ Close(c) \/ CancelThread(c) \/ FreeData(c) \/ FindEmpty(c)
                  \/ PutAvailable(c) \/ LoadLengthDown(c) \/ StoreLengthDown(c)

ThreadStep(c) == \/ Begin(c) \/ Killed(c) \/ Handle(c) \/ Reject(c) \/ ReleaseStep(c)

Next == \/ \E c \in Conns : \/ Accept(c) \/ MainStep(c) \/ SpawnFail(c)
                            \/ Receive(c) \/ PeerGone(c) \/ ThreadStep(c)
        \/ Publish \/ AcceptFail \/ Stop \/ Exit

Spec == Init /\ [][Next]_vars

(* The threads are scheduled; nothing is assumed of clients, of accept()   *)
(* or of signals.                                                          *)
Fairness == /\ \A c \in Conns : WF_vars(MainStep(c)) /\ WF_vars(ThreadStep(c))
            /\ WF_vars(Publish)

FairSpec == Spec /\ Fairness

-----------------------------------------------------------------------------
(* What the pool promises.                                                 *)

(* Every variable holds a value of its kind; an index stays inside the     *)
(* arrays as long as the program has a meaning.                            *)
TypeOK ==
  /\ capacity \in Nat \ {0}
  /\ available \in [Slots -> 0 .. capacity]
  /\ sockets_length \in Int
  /\ sockets \in [Slots -> [thread : Conns \cup {None}, data : Conns \cup {None},
                           socket : {-1, 0}]]
  /\ pc \in [Conns -> Pcs]
  /\ index \in [Conns -> Int]
  /\ slot \in [Conns -> Slots]
  /\ len \in [Conns -> Int]
  /\ heap \in [Conns -> {"none", "live", "freed"}]
  /\ open \subseteq Conns
  /\ cancelled \subseteq Conns
  /\ publishing \in Conns \cup {None}
  /\ main \in {"run", "stopping", "exit"}
  /\ races \subseteq Raceable
  /\ undefined \in BOOLEAN
  /\ ~undefined => \A c \in Conns : index[c] \in Slots

Filled  == {i \in Slots : available[i] # 0}
Free    == {available[i] - 1 : i \in Filled}

(* The connections that own an index, and those sockets_length counts.     *)
Owners  == {c \in Conns : pc[c] \in {"aLoad", "aStore", "rFind", "rPut", "killed", "aSpawn"}
                                      \cup ServePcs \cup EntryPcs}
Counted == {c \in Conns : pc[c] \in {"aSpawn", "killed"} \cup ServePcs \cup EntryPcs
                                      \cup ReleasePcs}

(* No two connections own the same index and none owns a free one: the     *)
(* thread that reads sockets[socket_index] is the thread stored there.     *)
SlotExclusive ==
  "pool" \notin races =>
    /\ \A c, d \in Owners : index[c] = index[d] => c = d
    /\ \A c \in Owners : index[c] \notin Free

(* No index is lost and none is listed twice: what select_position may     *)
(* hand out is exactly what no connection owns.                            *)
NoSlotLost ==
  "pool" \notin races =>
    /\ \A i, j \in Filled : available[i] = available[j] => i = j
    /\ Free = Slots \ {index[c] : c \in Owners}

(* sockets_length, which Grow uses as an index, counts the connections.    *)
LengthCounts == "pool" \notin races => sockets_length = Cardinality(Counted)

(* Every memory error of the pool comes from one of the overlaps that      *)
(* "races" names: without one, no step reads freed memory, frees twice,    *)
(* leaves an array or touches a thread that is gone.                       *)
NoUndefined == undefined => races # {}

(* While its thread runs, a connection's entry of sockets is its own and   *)
(* the block its thread reads has not been freed.                          *)
EntryIsOwn ==
  races = {} =>
    \A c \in Conns : (pc[c] \in ServePcs \cup EntryPcs /\ main = "run") =>
      /\ heap[c] = "live"
      /\ publishing # c =>
           sockets[index[c]] = [thread |-> c, data |-> c, socket |-> 0]

(* A connection whose index is free again has closed its descriptor and    *)
(* freed its block, and so has every thread after a stop.                  *)
NothingLeaks ==
  races = {} =>
    /\ \A c \in Conns : pc[c] \in {"rLoad", "rStore", "done"} =>
         c \notin open /\ heap[c] = "freed"
    /\ main = "stopping" => \A c \in Conns : heap[c] # "live"

(* A thread cancels only itself while the server runs.                     *)
OnlyStopCancelsOthers ==
  [][races' = {} /\ main' = "run" =>
       \A c \in cancelled' \ cancelled : pc[c] = "cancel"]_vars

(* An index that is handed out again was given back first: a connection's  *)
(* pool never shrinks and its free list changes by one index at a time.    *)
Pool == INSTANCE SlotPool WITH
  held   <- [c \in Conns |-> IF c \in Owners THEN index[c] ELSE -1],
  size   <- capacity,
  broken <- "pool" \in races
ImplementsSlotPool == Pool!Spec

(* A thread whose peer is gone puts its index back into available_sockets. *)
SlotReturned ==
  \A c \in Conns :
    pc[c] = "bye" ~> \/ \E i \in Slots : available[i] = index[c] + 1
                     \/ races # {} \/ main # "run"

(* A connection that was accepted gets a thread, and its entry is stored.  *)
AcceptedIsServed ==
  \A c \in Conns :
    pc[c] = "aFind" ~> \/ pc[c] \notin AcceptPcs /\ publishing # c
                       \/ races # {} \/ main # "run"
=============================================================================
