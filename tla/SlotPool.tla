------------------------------ MODULE SlotPool ------------------------------
(***************************************************************************)
(* What the pool of server/libs/httpserver.c is for: every connection owns *)
(* at most one index, no index has two owners, and the pool doubles only   *)
(* when every index is owned.                                              *)
(*                                                                         *)
(* The C code takes no lock, so the promise lasts until two threads have   *)
(* been inside the pool's functions at once: "broken".                     *)
(***************************************************************************)
EXTENDS Integers

CONSTANTS Conns

VARIABLES
  held,   (* the index each connection owns, -1 for none                   *)
  size,   (* how many indices there are                                    *)
  broken  (* the pool's functions have overlapped                          *)

vars == <<held, size, broken>>

Owned == {held[c] : c \in Conns}

Init == held = [c \in Conns |-> -1] /\ size = 1 /\ broken = FALSE

(* _httpserver_select_position: an index nobody owns, or a new one.        *)
Acquire(c) ==
  /\ held[c] = -1
  /\ \E i \in (0 .. size - 1) \ Owned : held' = [held EXCEPT ![c] = i]
  /\ UNCHANGED size

AcquireNew(c) ==
  /\ held[c] = -1
  /\ 0 .. size - 1 \subseteq Owned
  /\ held' = [held EXCEPT ![c] = size]
  /\ size' = 2 * size

(* _httpserver_add_available_socket                                        *)
Release(c) ==
  /\ held[c] # -1
  /\ held' = [held EXCEPT ![c] = -1]
  /\ UNCHANGED size

Overlap == broken'

Next == \/ Overlap
        \/ /\ UNCHANGED broken
           /\ \E c \in Conns : Acquire(c) \/ AcquireNew(c) \/ Release(c)

Spec == Init /\ [][Next]_vars
=============================================================================
