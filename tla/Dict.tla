-------------------------------- MODULE Dict --------------------------------
(***************************************************************************)
(* What a session table promises the handlers of server/main.c: a key that *)
(* was set is found, with the value it was set to, until it is deleted or  *)
(* the table is rebuilt.                                                   *)
(***************************************************************************)
EXTENDS Integers

CONSTANTS
  Keys, Values,
  Missing    (* what a lookup returns for a key that is not there; it is   *)
             (* not a value                                                *)

VARIABLES
  found,     (* what a lookup of each key returns                          *)
  size       (* what a rebuild changes                                     *)

vars == <<found, size>>

Init == found = [k \in Keys |-> Missing]

Put(k, v) ==
  /\ found[k] = Missing
  /\ found' = [found EXCEPT ![k] = v]
  /\ UNCHANGED size

Remove(k) ==
  /\ found' = [found EXCEPT ![k] = Missing]
  /\ UNCHANGED size

(* A table that is rebuilt may lose entries, but invents and changes none. *)
Rebuild ==
  /\ size' # size
  /\ found' \in [Keys -> Values \cup {Missing}]
  /\ \A k \in Keys : found'[k] \in {found[k], Missing}

Next == Rebuild \/ \E k \in Keys : Remove(k) \/ \E v \in Values : Put(k, v)

Spec == Init /\ [][Next]_vars
=============================================================================
