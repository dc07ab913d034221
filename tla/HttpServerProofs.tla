-------------------------- MODULE HttpServerProofs --------------------------
(***************************************************************************)
(* The pool of HttpServer is used correctly, for any set of connections:   *)
(* as long as no two threads overlap inside its functions, no index has    *)
(* two owners, none is lost, and sockets_length counts the connections.    *)
(* The second part is about memory.                                        *)
(***************************************************************************)
EXTENDS HttpServer, FiniteSetTheorems, TLAPS

(* The state is well typed, whatever overlaps happened.                    *)
THEOREM Typing == Spec => []TypeOK
<1>1. Init => TypeOK
  <2> SUFFICES ASSUME Init PROVE TypeOK
    OBVIOUS
  <2>1. Slots = 0 .. 0 /\ capacity = 1
    BY DEF Init, Slots
  <2>2. available \in [Slots -> 0 .. capacity]
    BY <2>1 DEF Init
  <2>3. sockets \in [Slots -> [thread : Conns \cup {None}, data : Conns \cup {None},
                              socket : {-1, 0}]]
    BY <2>1 DEF Init, FreeEntry
  <2>4. index \in [Conns -> Slots] /\ slot \in [Conns -> Slots] /\ pc \in [Conns -> Pcs]
    BY <2>1 DEF Init, Pcs
  <2>5. /\ index \in [Conns -> Int] /\ len \in [Conns -> Int] /\ sockets_length \in Int
        /\ heap \in [Conns -> {"none", "live", "freed"}]
    BY DEF Init
  <2>6. /\ open \subseteq Conns /\ cancelled \subseteq Conns
        /\ publishing \in Conns \cup {None} /\ main \in {"run", "stopping", "exit"}
        /\ races \subseteq Raceable /\ undefined \in BOOLEAN
    BY DEF Init
  <2>7. QED
    BY <2>1, <2>2, <2>3, <2>4, <2>5, <2>6 DEF TypeOK
<1>2. TypeOK /\ [Next]_vars => TypeOK'
  <2> SUFFICES ASSUME TypeOK, [Next]_vars PROVE TypeOK'
    OBVIOUS
  <2> USE ConnsAssumption DEF TypeOK, Pcs, AcceptPcs, ServePcs, EntryPcs, ReleasePcs,
        EndPcs, PoolPcs, Goto, Raceable, pool, threads, Running
  <2>0. capacity' = capacity => Slots' = Slots
    BY DEF Slots
  <2>1. ASSUME NEW c \in Conns, Accept(c) PROVE TypeOK'
    BY <2>0, <2>1 DEF Accept
  <2>2. ASSUME NEW c \in Conns, FindAvailable(c) PROVE TypeOK'
    <3>1. ASSUME NEW i \in Slots, available[i] # 0 PROVE available[i] - 1 \in Slots
      BY <3>1 DEF Slots
    <3>2. index' \in [Conns -> Int] /\ slot' \in [Conns -> Slots]
      <4>1. CASE UNCHANGED <<slot, index>>
        BY <4>1
      <4>2. ASSUME NEW i \in Slots, available[i] # 0,
                   slot' = [slot EXCEPT ![c] = i],
                   index' = [index EXCEPT ![c] = available[i] - 1]
            PROVE index' \in [Conns -> Int] /\ slot' \in [Conns -> Slots]
        <5>1. available[i] - 1 \in Int
          BY <4>2, <3>1 DEF Slots
        <5>2. QED
          BY <4>2, <5>1
      <4>3. QED
        BY <2>2, <4>1, <4>2 DEF FindAvailable
    <3>3. ~undefined' => \A d \in Conns : index'[d] \in Slots
      BY <2>2, <3>1 DEF FindAvailable
    <3>4. pc' \in [Conns -> Pcs] /\ races' \subseteq Raceable
      BY <2>2 DEF FindAvailable
    <3>5. QED
      BY <2>0, <2>2, <3>2, <3>3, <3>4 DEF FindAvailable
  <2>3. ASSUME NEW c \in Conns, TakeAvailable(c) PROVE TypeOK'
    BY <2>0, <2>3 DEF TakeAvailable
  <2>4. ASSUME NEW c \in Conns, Grow(c) PROVE TypeOK'
    <3>1. capacity' \in Nat \ {0} /\ Slots \subseteq Slots'
      BY <2>4 DEF Grow, Slots
    <3>2. available' \in [Slots' -> 0 .. capacity']
      BY <2>4 DEF Grow, Slots, Listed, NewIndex
    <3>3. sockets' \in [Slots' -> [thread : Conns \cup {None}, data : Conns \cup {None},
                                  socket : {-1, 0}]]
      BY <2>4 DEF Grow, Slots, FreeEntry
    <3>4. ~undefined' => \A d \in Conns : index'[d] \in Slots'
      BY <2>4 DEF Grow, Slots, NewIndex
    <3>5. index' \in [Conns -> Int] /\ undefined' \in BOOLEAN
      BY <2>4 DEF Grow, Slots, NewIndex
    <3>6. QED
      BY <2>4, <3>1, <3>2, <3>3, <3>4, <3>5 DEF Grow
  <2>5. ASSUME NEW c \in Conns, LoadLength(c) PROVE TypeOK'
    BY <2>0, <2>5 DEF LoadLength
  <2>6. ASSUME NEW c \in Conns, StoreLength(c) PROVE TypeOK'
    BY <2>0, <2>6 DEF StoreLength
  <2>7. ASSUME NEW c \in Conns, Spawn(c) PROVE TypeOK'
    BY <2>0, <2>7 DEF Spawn
  <2>8. ASSUME NEW c \in Conns, SpawnFail(c) PROVE TypeOK'
    BY <2>0, <2>8 DEF SpawnFail
  <2>9. ASSUME Publish PROVE TypeOK'
    BY <2>0, <2>9 DEF Publish
  <2>10. ASSUME NEW c \in Conns, Receive(c) \/ PeerGone(c) \/ Killed(c) \/ Reject(c)
         PROVE TypeOK'
    BY <2>0, <2>10, ZenonT(60) DEF Receive, PeerGone, Killed, Reject
  <2>11. ASSUME NEW c \in Conns, Begin(c) \/ Handle(c) PROVE TypeOK'
    BY <2>0, <2>11 DEF Begin, Handle
  <2>12. ASSUME NEW c \in Conns, Close(c) PROVE TypeOK'
    BY <2>0, <2>12 DEF Close
  <2>13. ASSUME NEW c \in Conns, CancelThread(c) PROVE TypeOK'
    BY <2>0, <2>13 DEF CancelThread
  <2>14. ASSUME NEW c \in Conns, FreeData(c) PROVE TypeOK'
    BY <2>0, <2>14, ZenonT(60) DEF FreeData
  <2>15. ASSUME NEW c \in Conns, FindEmpty(c) PROVE TypeOK'
    <3>1. slot' \in [Conns -> Slots]
      <4>1. ASSUME NEW i \in Slots, slot' = [slot EXCEPT ![c] = i]
            PROVE slot' \in [Conns -> Slots]
        BY <4>1
      <4>2. QED
        BY <2>15, <4>1 DEF FindEmpty
    <3>2. pc' \in [Conns -> Pcs] /\ races' \subseteq Raceable
      BY <2>15, ZenonT(60) DEF FindEmpty
    <3>3. undefined' \in BOOLEAN
      BY <2>15 DEF FindEmpty
    <3>4. QED
      BY <2>0, <2>15, <3>1, <3>2, <3>3 DEF FindEmpty
  <2>16. ASSUME NEW c \in Conns, PutAvailable(c) PROVE TypeOK'
    <3>1. index[c] \in Slots /\ Listed(index[c]) \in 0 .. capacity
      BY <2>16 DEF PutAvailable, Listed, Slots
    <3>2. QED
      BY <2>0, <2>16, <3>1 DEF PutAvailable
  <2>17. ASSUME NEW c \in Conns, LoadLengthDown(c) PROVE TypeOK'
    BY <2>0, <2>17 DEF LoadLengthDown
  <2>18. ASSUME NEW c \in Conns, StoreLengthDown(c) PROVE TypeOK'
    BY <2>0, <2>18 DEF StoreLengthDown
  <2>19. ASSUME Stop PROVE TypeOK'
    <3>1. {sockets[i].thread : i \in LiveSlots} \subseteq Conns \cup {None}
      BY DEF LiveSlots
    <3>2. cancelled' \subseteq Conns
      BY <2>19, <3>1 DEF Stop
    <3>3. heap' \in [Conns -> {"none", "live", "freed"}] /\ undefined' \in BOOLEAN
      BY <2>19, ZenonT(60) DEF Stop
    <3>4. QED
      BY <2>0, <2>19, <3>2, <3>3 DEF Stop
  <2>20. ASSUME AcceptFail \/ Exit PROVE TypeOK'
    BY <2>0, <2>20 DEF AcceptFail, Exit
  <2>21. CASE UNCHANGED vars
    BY <2>0, <2>21 DEF vars
  <2>22. QED
    BY <2>1, <2>2, <2>3, <2>4, <2>5, <2>6, <2>7, <2>8, <2>9, <2>10, <2>11, <2>12, <2>13,
       <2>14, <2>15, <2>16, <2>17, <2>18, <2>19, <2>20, <2>21
    DEF Next, MainStep, ThreadStep, ReleaseStep
<1>3. QED
  BY <1>1, <1>2, PTL DEF Spec

-----------------------------------------------------------------------------
(* The inductive invariant of the pool.  It adds two things to the three   *)
(* invariants: only one connection at a time is inside the pool's steps,   *)
(* and what a search or a read has found is still so at the step that uses *)
(* it.                                                                     *)
Alone == \A c, d \in Conns : pc[c] \in PoolPcs /\ pc[d] \in PoolPcs => c = d

FoundHolds ==
  \A c \in Conns :
    /\ pc[c] = "aTake" => available[slot[c]] = index[c] + 1
    /\ pc[c] = "aGrow" => \A i \in Slots : available[i] = 0
    /\ pc[c] = "rPut" => available[slot[c]] = 0
    /\ pc[c] \in {"aStore", "rStore"} => len[c] = sockets_length

Exclusive == /\ \A c, d \in Owners : index[c] = index[d] => c = d
             /\ \A c \in Owners : index[c] \notin Free
Partition == /\ \A i, j \in Filled : available[i] = available[j] => i = j
             /\ Free = Slots \ {index[c] : c \in Owners}

PoolInv == /\ Alone /\ FoundHolds /\ Exclusive /\ Partition
           /\ sockets_length = Cardinality(Counted)

(* The overlaps seen are never forgotten.                                  *)
LEMMA RacesKept == Next => races \subseteq races'
  BY ZenonT(60) DEF Next, MainStep, ThreadStep, ReleaseStep, Goto, Accept, FindAvailable, TakeAvailable,
     Grow, LoadLength, StoreLength, Spawn, SpawnFail, Begin, Receive, PeerGone, Killed, Handle,
     Reject, Close, CancelThread, FreeData, FindEmpty, PutAvailable, LoadLengthDown,
     StoreLengthDown, Publish, AcceptFail, Stop, Exit

(* A step that is not recorded as an overlap leaves at most one connection *)
(* inside the pool's steps.                                                *)
LEMMA AloneKept ==
  ASSUME TypeOK, Alone, Next, "pool" \notin races'
  PROVE  Alone'
<1>1. ASSUME NEW c \in Conns, NEW p, Goto(c, p) PROVE Alone'
  BY <1>1 DEF Goto, PoolOverlap, Alone
<1>2. ASSUME NEW c \in Conns, Grow(c) PROVE Alone'
  BY <1>2 DEF Grow, Alone, TypeOK, PoolPcs, AcceptPcs, ReleasePcs
<1>3. ASSUME NEW c \in Conns, CancelThread(c) PROVE Alone'
  BY <1>3 DEF CancelThread, Alone, TypeOK, PoolPcs, AcceptPcs, ReleasePcs
<1>4. ASSUME UNCHANGED pc PROVE Alone'
  BY <1>4 DEF Alone
<1>5. ASSUME NEW c \in Conns,
             Accept(c) \/ MainStep(c) \/ Receive(c) \/ PeerGone(c) \/ ThreadStep(c)
      PROVE  Alone'
  BY <1>1, <1>2, <1>3, <1>5
  DEF MainStep, ThreadStep, ReleaseStep, Accept, FindAvailable, TakeAvailable, LoadLength,
      StoreLength, Spawn, Begin, Receive, PeerGone, Killed, Handle, Reject, Close, FreeData,
      FindEmpty, PutAvailable, LoadLengthDown, StoreLengthDown
<1>6. QED
  BY <1>4, <1>5 DEF Next, SpawnFail, Publish, AcceptFail, Stop, Exit

(* A step that leaves the arrays, the owners and what they own alone keeps *)
(* the pool as it was.                                                     *)
LEMMA QuietStep ==
  ASSUME PoolInv, UNCHANGED pool, Owners' = Owners, Counted' = Counted,
         \A c \in Owners : index'[c] = index[c]
  PROVE  Exclusive' /\ Partition' /\ sockets_length' = Cardinality(Counted')
<1>1. Slots' = Slots /\ Filled' = Filled /\ Free' = Free
  BY DEF Slots, Filled, Free, pool
<1>2. {index'[c] : c \in Owners'} = {index[c] : c \in Owners}
  OBVIOUS
<1>3. Exclusive' /\ Partition'
  BY <1>1, <1>2 DEF Exclusive, Partition, PoolInv, pool
<1>4. QED
  BY <1>3 DEF PoolInv, pool

(* The connections are finitely many, so the counts are numbers.           *)
LEMMA Counts ==
  /\ IsFiniteSet(Owners) /\ Cardinality(Owners) \in Nat
  /\ IsFiniteSet(Counted) /\ Cardinality(Counted) \in Nat
<1>1. Owners \in SUBSET Conns /\ Counted \in SUBSET Conns
  BY DEF Owners, Counted
<1>2. QED
  BY <1>1, ConnsAssumption, FS_Subset, FS_CardinalityType

(* A release finds an entry that is 0: with all of them filled there would *)
(* be more free indexes than indexes.                                      *)
LEMMA ReleaseFindsRoom ==
  ASSUME TypeOK, Exclusive, Partition, NEW c \in Owners, index[c] \in Slots
  PROVE  \E i \in Slots : available[i] = 0
<1> SUFFICES ASSUME \A i \in Slots : available[i] # 0 PROVE FALSE
  OBVIOUS
<1> DEFINE f == [i \in Slots |-> available[i] - 1]
<1>1. Filled = Slots
  BY DEF Filled
<1>2. f \in [Slots -> Slots \ {index[c]}]
  BY <1>1 DEF Exclusive, Partition, Free
<1>3. IsFiniteSet(Slots) /\ Cardinality(Slots) = capacity
  BY FS_Interval DEF TypeOK, Slots
<1>4. IsFiniteSet(Slots \ {index[c]}) /\ Cardinality(Slots \ {index[c]}) < Cardinality(Slots)
  <2>1. Cardinality(Slots \ {index[c]}) = Cardinality(Slots) - 1 /\ IsFiniteSet(Slots \ {index[c]})
    BY <1>3, FS_RemoveElement
  <2>2. QED
    BY <2>1, <1>3 DEF TypeOK
<1>5. PICK x, y \in Slots : x # y /\ f[x] = f[y]
  <2> HIDE DEF f
  <2> QED
    BY <1>2, <1>3, <1>4, FS_PigeonHole
<1>6. available[x] \in Int /\ available[y] \in Int
  BY DEF TypeOK
<1>7. available[x] = available[y]
  BY <1>5, <1>6
<1>8. QED
  BY <1>1, <1>5, <1>7 DEF Partition

(* With no index free and no other connection inside the pool's steps,     *)
(* sockets_length is the number of indexes: the one a growth hands out is  *)
(* the first new one.                                                      *)
LEMMA GrowthIndex ==
  ASSUME TypeOK, PoolInv, ~undefined, NEW c \in Conns, pc[c] = "aGrow"
  PROVE  Free = {} /\ sockets_length = capacity
<1> DEFINE f == [d \in Owners |-> index[d]]
<1>1. Filled = {} /\ Free = {}
  BY DEF PoolInv, FoundHolds, Filled, Free
<1>2. Slots \subseteq {index[d] : d \in Owners} 
  BY <1>1 DEF PoolInv, Partition
<1>3. \A d \in Owners : index[d] \in Slots
  BY DEF TypeOK, Owners
<1>4. f \in Bijection(Owners, Slots)
  BY <1>2, <1>3 DEF PoolInv, Exclusive, Bijection, Injection, Surjection, IsInjective
<1>5. Cardinality(Owners) = Cardinality(Slots)
  <2> HIDE DEF f
  <2> QED
    BY <1>4, Counts, FS_Bijection DEF ExistsBijection
<1>6. Counted = Owners
  BY DEF PoolInv, Alone, Counted, Owners, PoolPcs, AcceptPcs, ReleasePcs, ServePcs, EntryPcs, TypeOK
<1>7. QED
  BY <1>1, <1>5, <1>6, FS_Interval DEF PoolInv, TypeOK, Slots

(* Every step keeps the invariant unless it is recorded as an overlap.     *)
LEMMA PoolStep ==
  ASSUME TypeOK, TypeOK', PoolInv, Next, "pool" \notin races'
  PROVE  PoolInv'
<1> USE DEF PoolPcs, AcceptPcs, ReleasePcs, ServePcs, EntryPcs
<1>0. Alone /\ Alone'
  BY AloneKept DEF PoolInv
<1>1. ASSUME NEW c \in Conns,
             Accept(c) \/ Begin(c) \/ Receive(c) \/ PeerGone(c) \/ Killed(c) \/ Handle(c) \/ Reject(c)
               \/ Close(c) \/ Spawn(c) \/ CancelThread(c) \/ FreeData(c)
      PROVE  PoolInv'
  <2>1. UNCHANGED <<pool, index, slot, len>>
    BY <1>1 DEF Accept, Begin, Receive, PeerGone, Killed, Handle, Reject, Close, Spawn, CancelThread, FreeData
  <2>2. Owners' = Owners /\ Counted' = Counted
    BY <1>1 DEF TypeOK, Owners, Counted, Goto, Accept, Begin, Receive, PeerGone, Killed, Handle, Reject, Close,
       Spawn, CancelThread, FreeData
  <2>3. \A d \in Conns : d # c => pc'[d] = pc[d]
    BY <1>1 DEF TypeOK, Goto, Accept, Begin, Receive, PeerGone, Killed, Handle, Reject, Close,
       Spawn, CancelThread, FreeData
  <2>4. pc'[c] \notin {"aTake", "aGrow", "rPut", "aStore", "rStore"}
    BY <1>1 DEF TypeOK, Goto, Accept, Begin, Receive, PeerGone, Killed, Handle, Reject, Close,
       Spawn, CancelThread, FreeData
  <2>5. FoundHolds'
    BY <2>1, <2>3, <2>4 DEF PoolInv, FoundHolds, pool, Slots
  <2>6. QED
    BY <1>0, <2>1, <2>2, <2>5, QuietStep DEF PoolInv
<1>2. ASSUME UNCHANGED <<pool, pc, index, slot, len>> PROVE PoolInv'
  <2>1. Owners' = Owners /\ Counted' = Counted
    BY <1>2 DEF Owners, Counted
  <2>2. FoundHolds'
    BY <1>2 DEF PoolInv, FoundHolds, pool, Slots
  <2>3. QED
    BY <1>0, <1>2, <2>1, <2>2, QuietStep DEF PoolInv
<1>3. ASSUME NEW c \in Conns, FindAvailable(c) PROVE PoolInv'
  <2>1. /\ UNCHANGED <<pool, len>> /\ pc[c] = "aFind" /\ pc'[c] \in {"aTake", "aGrow"}
        /\ \A d \in Conns : d # c => pc'[d] = pc[d] /\ index'[d] = index[d]
    BY <1>3 DEF TypeOK, FindAvailable, Goto
  <2>2. Owners' = Owners /\ Counted' = Counted /\ \A d \in Owners : index'[d] = index[d]
    BY <2>1 DEF Owners, Counted
  <2>3. \A d \in Conns : d # c => pc'[d] \notin PoolPcs
    BY <1>0, <2>1 DEF Alone
  <2>4. pc'[c] = "aTake" => available[slot'[c]] = index'[c] + 1
    BY <1>3, <2>1 DEF TypeOK, FindAvailable, Goto
  <2>5. pc'[c] = "aGrow" => \A i \in Slots : available[i] = 0
    BY <1>3, <2>1 DEF TypeOK, FindAvailable, Goto
  <2>6. FoundHolds'
    BY <2>1, <2>3, <2>4, <2>5 DEF FoundHolds, pool, Slots
  <2>7. QED
    BY <1>0, <2>1, <2>2, <2>6, QuietStep DEF PoolInv
<1>4. ASSUME NEW c \in Conns, LoadLength(c) \/ LoadLengthDown(c) PROVE PoolInv'
  <2>1. /\ UNCHANGED <<pool, index>> /\ pc[c] \in {"aLoad", "rLoad"}
        /\ pc'[c] = (IF pc[c] = "aLoad" THEN "aStore" ELSE "rStore")
        /\ len'[c] = sockets_length
        /\ \A d \in Conns : d # c => pc'[d] = pc[d]
    BY <1>4 DEF TypeOK, LoadLength, LoadLengthDown, Goto
  <2>2. Owners' = Owners /\ Counted' = Counted
    BY <2>1 DEF Owners, Counted
  <2>3. \A d \in Conns : d # c => pc'[d] \notin PoolPcs
    BY <1>0, <2>1 DEF Alone
  <2>4. FoundHolds'
    BY <2>1, <2>3 DEF FoundHolds, pool
  <2>5. QED
    BY <1>0, <2>1, <2>2, <2>4, QuietStep DEF PoolInv
<1>5. ASSUME NEW c \in Conns, FindEmpty(c) PROVE PoolInv'
  <2>1. c \in Owners /\ index[c] \in Slots
    BY <1>5 DEF FindEmpty, Owners, Running, TypeOK
  <2>2. PICK i \in Slots : available[i] = 0 /\ slot' = [slot EXCEPT ![c] = i] /\ Goto(c, "rPut")
    BY <1>5, <2>1, ReleaseFindsRoom DEF FindEmpty, PoolInv
  <2>3. UNCHANGED <<pool, index, len>> /\ pc[c] = "rFind"
    BY <1>5 DEF FindEmpty
  <2>4. pc'[c] = "rPut" /\ \A d \in Conns : d # c => pc'[d] = pc[d]
    BY <2>2 DEF TypeOK, Goto
  <2>5. Owners' = Owners /\ Counted' = Counted
    BY <2>3, <2>4 DEF Owners, Counted
  <2>6. \A d \in Conns : d # c => pc'[d] \notin PoolPcs
    BY <1>0, <2>4 DEF Alone
  <2>7. available[slot'[c]] = 0
    BY <2>2 DEF TypeOK
  <2>8. FoundHolds'
    BY <2>3, <2>4, <2>6, <2>7 DEF FoundHolds, pool
  <2>9. QED
    BY <1>0, <2>3, <2>5, <2>8, QuietStep DEF PoolInv
<1>6. ASSUME NEW c \in Conns, StoreLength(c) PROVE PoolInv'
  <2>1. /\ UNCHANGED <<capacity, available, index, len>> /\ pc[c] = "aStore" /\ pc'[c] = "aSpawn"
        /\ sockets_length' = sockets_length + 1
        /\ \A d \in Conns : d # c => pc'[d] = pc[d]
    BY <1>6 DEF TypeOK, StoreLength, Goto, PoolInv, FoundHolds
  <2>2. Owners' = Owners /\ Counted' = Counted \cup {c} /\ c \notin Counted
    BY <2>1 DEF Owners, Counted
  <2>3. \A d \in Conns : d # c => pc'[d] \notin PoolPcs
    BY <1>0, <2>1 DEF Alone
  <2>4. FoundHolds'
    BY <2>1, <2>3 DEF FoundHolds
  <2>5. Exclusive' /\ Partition'
    BY <2>1, <2>2 DEF PoolInv, Exclusive, Partition, Filled, Free, Slots
  <2>6. sockets_length' = Cardinality(Counted')
    BY <2>1, <2>2, Counts, FS_AddElement DEF PoolInv
  <2>7. QED
    BY <1>0, <2>4, <2>5, <2>6 DEF PoolInv
<1>7. ASSUME NEW c \in Conns, StoreLengthDown(c) PROVE PoolInv'
  <2>1. /\ UNCHANGED <<capacity, available, index, len>> /\ pc[c] = "rStore" /\ pc'[c] = "done"
        /\ sockets_length' = sockets_length - 1
        /\ \A d \in Conns : d # c => pc'[d] = pc[d]
    BY <1>7 DEF TypeOK, StoreLengthDown, Goto, PoolInv, FoundHolds
  <2>2. Owners' = Owners /\ Counted' = Counted \ {c} /\ c \in Counted
    BY <2>1 DEF Owners, Counted
  <2>3. \A d \in Conns : d # c => pc'[d] \notin PoolPcs
    BY <1>0, <2>1 DEF Alone
  <2>4. FoundHolds'
    BY <2>1, <2>3 DEF FoundHolds
  <2>5. Exclusive' /\ Partition'
    BY <2>1, <2>2 DEF PoolInv, Exclusive, Partition, Filled, Free, Slots
  <2>6. sockets_length' = Cardinality(Counted')
    BY <2>1, <2>2, Counts, FS_RemoveElement DEF PoolInv
  <2>7. QED
    BY <1>0, <2>4, <2>5, <2>6 DEF PoolInv
<1>8. ASSUME NEW c \in Conns, TakeAvailable(c) PROVE PoolInv'
  <2> DEFINE k == slot[c]
  <2>1. /\ UNCHANGED <<capacity, sockets_length, index>> /\ pc[c] = "aTake" /\ pc'[c] = "aLoad"
        /\ \A d \in Conns : d # c => pc'[d] = pc[d]
        /\ index[c] \in Slots /\ k \in Slots
    BY <1>8 DEF TypeOK, TakeAvailable, Goto, Running
  <2>2. available[k] = index[c] + 1 /\ k \in Filled
    BY <2>1 DEF PoolInv, FoundHolds, Filled, Slots
  <2>3. available' = [available EXCEPT ![k] = 0] /\ Slots' = Slots
    BY <1>8, <2>1 DEF TakeAvailable, Slots
  <2>4. Filled' = Filled \ {k}
    BY <2>1, <2>3 DEF Filled, TypeOK
  <2>5. \A i \in Filled' : available'[i] = available[i]
    BY <2>3, <2>4 DEF TypeOK, Filled
  <2>6. \A i, j \in Filled' : available'[i] = available'[j] => i = j
    BY <2>4, <2>5 DEF PoolInv, Partition
  <2>7. Free' = Free \ {index[c]}
    <3>1. index[c] \in Free /\ available[k] - 1 = index[c]
      BY <2>1, <2>2 DEF Free, Slots
    <3>2. \A i \in Filled' : available[i] - 1 # index[c]
      BY <2>1, <2>2, <2>4, SMTT(30) DEF PoolInv, Partition, Filled, TypeOK, Slots
    <3>3. QED
      BY <2>4, <2>5, <3>1, <3>2 DEF Free
  <2>8. Owners' = Owners \cup {c} /\ Counted' = Counted
    BY <2>1 DEF Owners, Counted
  <2>9. index[c] \in Free
    BY <2>1, <2>2 DEF Free, Slots
  <2>10. Partition'
    BY <2>1, <2>3, <2>6, <2>7, <2>8 DEF PoolInv, Partition
  <2>11. Exclusive'
    BY <2>1, <2>7, <2>8, <2>9 DEF PoolInv, Exclusive
  <2>12. FoundHolds'
    BY <1>0, <2>1 DEF Alone, FoundHolds
  <2>13. QED
    BY <1>0, <2>1, <2>8, <2>10, <2>11, <2>12 DEF PoolInv
<1>9. ASSUME NEW c \in Conns, PutAvailable(c) PROVE PoolInv'
  <2> DEFINE k == slot[c]
  <2>1. /\ UNCHANGED <<capacity, sockets_length, index>> /\ pc[c] = "rPut" /\ pc'[c] = "rLoad"
        /\ \A d \in Conns : d # c => pc'[d] = pc[d]
        /\ index[c] \in Slots /\ k \in Slots
    BY <1>9 DEF TypeOK, PutAvailable, Goto, Running
  <2>2. available[k] = 0 /\ k \notin Filled
    BY <2>1 DEF PoolInv, FoundHolds, Filled
  <2>3. available' = [available EXCEPT ![k] = index[c] + 1] /\ Slots' = Slots
    BY <1>9, <2>1 DEF PutAvailable, Listed, Slots
  <2>4. available'[k] = index[c] + 1 /\ \A i \in Filled : available'[i] = available[i]
    BY <2>1, <2>2, <2>3 DEF TypeOK, Filled
  <2>5. Filled' = Filled \cup {k}
    <3>1. \A i \in Slots : available'[i] # 0 <=> available[i] # 0 \/ i = k
      <4>1. index[c] + 1 # 0
        BY <2>1 DEF Slots
      <4>2. \A i \in Slots : available'[i] = IF i = k THEN index[c] + 1 ELSE available[i]
        BY <2>3 DEF TypeOK
      <4>3. QED
        BY <4>1, <4>2
    <3>2. QED
      BY <2>1, <2>3, <3>1 DEF Filled
  <2>6. c \in Owners /\ Owners' = Owners \ {c} /\ Counted' = Counted
    BY <2>1 DEF Owners, Counted
  <2>7. index[c] \notin Free
    BY <2>6 DEF PoolInv, Exclusive
  <2>8. Free' = Free \cup {index[c]}
    <3>1. available'[k] - 1 = index[c]
      BY <2>1, <2>4 DEF Slots
    <3>2. QED
      BY <2>4, <2>5, <3>1 DEF Free
  <2>9. \A i \in Filled : available[i] # index[c] + 1
    BY <2>1, <2>7 DEF Free, Slots
  <2>10. \A i, j \in Filled' : available'[i] = available'[j] => i = j
    BY <2>4, <2>5, <2>9 DEF PoolInv, Partition
  <2>11. Partition'
    BY <2>1, <2>3, <2>6, <2>8, <2>10 DEF PoolInv, Partition, Exclusive
  <2>12. Exclusive'
    BY <2>1, <2>6, <2>8 DEF PoolInv, Exclusive
  <2>13. FoundHolds'
    BY <1>0, <2>1 DEF Alone, FoundHolds
  <2>14. QED
    BY <1>0, <2>1, <2>6, <2>11, <2>12, <2>13 DEF PoolInv
<1>10. ASSUME NEW c \in Conns, Grow(c) PROVE PoolInv'
  <2>1. /\ pc[c] = "aGrow" /\ pc'[c] = "aLoad" /\ UNCHANGED sockets_length
        /\ \A d \in Conns : d # c => pc'[d] = pc[d]
    BY <1>10 DEF TypeOK, Grow
  <2>2. Free = {} /\ sockets_length = capacity
    BY <1>10, <2>1, GrowthIndex DEF Grow, Running
  <2>3. capacity \in Nat \ {0} /\ capacity' = 2 * capacity
    BY <1>10 DEF Grow, TypeOK
  <2>4. index' = [index EXCEPT ![c] = capacity]
    BY <1>10, <2>2 DEF Grow, NewIndex
  <2>5. \A i \in Slots : available[i] = 0
    BY <2>1 DEF PoolInv, FoundHolds
  <2>6. available' = [i \in Slots' |-> IF i <= capacity THEN 0 ELSE i + 1]
    <3>1. available' = [i \in Slots' |-> IF i = capacity THEN 0
                                        ELSE IF i \in Slots THEN available[i] ELSE i + 1]
      BY <1>10, <2>2 DEF Grow, Listed, NewIndex, Slots
    <3>2. \A i \in Slots' : i \in Int /\ (i \in Slots <=> i < capacity)
      BY <2>3 DEF Slots
    <3>3. QED
      BY <2>3, <2>5, <3>1, <3>2
  <2>7. Filled' = {i \in Slots' : i > capacity}
    BY <2>3, <2>6 DEF Filled, Slots
  <2>8. Free' = {i \in Slots' : i > capacity}
    BY <2>3, <2>6, <2>7 DEF Free, Slots
  <2>9. Owners' = Owners \cup {c} /\ c \notin Owners /\ Counted' = Counted
    BY <2>1 DEF Owners, Counted
  <2>10. \A d \in Owners : index'[d] = index[d] /\ index[d] \in Slots
    BY <1>10, <2>4, <2>9 DEF TypeOK, Grow, Running, Owners
  <2>11. index'[c] = capacity
    BY <2>4 DEF TypeOK
  <2>12. Slots = {index[d] : d \in Owners}
    BY <2>2, <2>10 DEF PoolInv, Partition
  <2>13. {index'[d] : d \in Owners'} = Slots \cup {capacity}
    BY <2>9, <2>10, <2>11, <2>12
  <2>14. Partition'
    BY <2>3, <2>6, <2>7, <2>8, <2>13 DEF Partition, Slots
  <2>15. Exclusive'
    BY <2>3, <2>8, <2>9, <2>10, <2>11 DEF PoolInv, Exclusive, Slots
  <2>16. FoundHolds'
    BY <1>0, <2>1 DEF Alone, FoundHolds
  <2>17. QED
    BY <1>0, <2>1, <2>9, <2>14, <2>15, <2>16 DEF PoolInv
<1>11. QED
  BY <1>1, <1>2, <1>3, <1>4, <1>5, <1>6, <1>7, <1>8, <1>9, <1>10
  DEF Next, MainStep, ThreadStep, ReleaseStep, SpawnFail, Publish, AcceptFail, Stop, Exit

(* The pool's invariant holds until two threads overlap inside the pool.   *)
THEOREM PoolSafe == Spec => []("pool" \notin races => PoolInv)
<1> DEFINE Inv == "pool" \notin races => PoolInv
<1>1. Init => Inv
  <2> SUFFICES ASSUME Init PROVE PoolInv
    OBVIOUS
  <2>1. Owners = {} /\ Counted = {} /\ Slots = {0} /\ Filled = {0} /\ Free = {0}
    BY DEF Init, Owners, Counted, Slots, Filled, Free, ServePcs, EntryPcs, ReleasePcs
  <2>2. Alone /\ FoundHolds
    BY DEF Init, Alone, FoundHolds, PoolPcs, AcceptPcs, ReleasePcs
  <2>3. QED
    BY <2>1, <2>2, FS_EmptySet DEF Init, PoolInv, Exclusive, Partition
<1>2. TypeOK /\ TypeOK' /\ Inv /\ [Next]_vars => Inv'
  <2>1. ASSUME UNCHANGED vars, PoolInv PROVE PoolInv'
    BY <2>1 DEF vars, PoolInv, Alone, FoundHolds, Exclusive, Partition, Owners, Counted,
       Filled, Free, Slots
  <2>2. UNCHANGED vars => races' = races
    BY DEF vars
  <2>3. QED
    BY <2>1, <2>2, PoolStep, RacesKept
<1>3. QED
  BY <1>1, <1>2, Typing, PTL DEF Spec

(* No index has two owners or is free while owned, for any number of       *)
(* connections.                                                            *)
THEOREM SlotsSafe == Spec => []SlotExclusive
<1>1. ("pool" \notin races => PoolInv) => SlotExclusive
  BY DEF PoolInv, Exclusive, SlotExclusive
<1>2. QED
  BY <1>1, PoolSafe, PTL

(* An index that no connection owns can be handed out again.               *)
THEOREM SlotsKept == Spec => []NoSlotLost
<1>1. ("pool" \notin races => PoolInv) => NoSlotLost
  BY DEF PoolInv, Partition, NoSlotLost
<1>2. QED
  BY <1>1, PoolSafe, PTL

(* sockets_length is the number of connections, the index a growth uses.   *)
THEOREM LengthSafe == Spec => []LengthCounts
<1>1. ("pool" \notin races => PoolInv) => LengthCounts
  BY DEF PoolInv, LengthCounts
<1>2. QED
  BY <1>1, PoolSafe, PTL

-----------------------------------------------------------------------------
(* The pool as SlotPool describes it: who owns what.  A step either leaves  *)
(* that alone, or is one of the three of SlotPool.                         *)
Held == [c \in Conns |-> IF c \in Owners THEN index[c] ELSE -1]

Keeps == /\ UNCHANGED capacity /\ Owners' = Owners
         /\ \A d \in Owners : index'[d] = index[d]

Acquires(c) == /\ UNCHANGED <<capacity, index>> /\ index[c] \in Slots
               /\ c \notin Owners /\ Owners' = Owners \cup {c}
               /\ \A d \in Owners : index[d] # index[c]

AcquiresNew(c) == /\ capacity' = 2 * capacity /\ index' = [index EXCEPT ![c] = capacity]
                  /\ c \notin Owners /\ Owners' = Owners \cup {c}
                  /\ Slots \subseteq {index[d] : d \in Owners}

Releases(c) == /\ UNCHANGED <<capacity, index>> /\ index[c] \in Slots
               /\ c \in Owners /\ Owners' = Owners \ {c}

(* Which of the four a step is.                                            *)
LEMMA Moves ==
  ASSUME TypeOK, TypeOK', PoolInv, Next, "pool" \notin races'
  PROVE  Keeps \/ \E c \in Conns : Acquires(c) \/ AcquiresNew(c) \/ Releases(c)
<1> USE DEF PoolPcs, AcceptPcs, ReleasePcs, ServePcs, EntryPcs
<1>1. ASSUME NEW c \in Conns,
             Accept(c) \/ Begin(c) \/ Receive(c) \/ PeerGone(c) \/ Killed(c) \/ Handle(c) \/ Reject(c)
               \/ Close(c) \/ Spawn(c) \/ CancelThread(c) \/ FreeData(c)
      PROVE  Keeps
  <2>1. UNCHANGED <<capacity, index>>
    BY <1>1, ZenonT(60) DEF Accept, Begin, Receive, PeerGone, Killed, Handle, Reject, Close, Spawn, CancelThread,
       FreeData, pool
  <2>2. Owners' = Owners
    BY <1>1 DEF TypeOK, Owners, Goto, Accept, Begin, Receive, PeerGone, Killed, Handle, Reject, Close,
       Spawn, CancelThread, FreeData
  <2>3. QED
    BY <2>1, <2>2 DEF Keeps
<1>2. ASSUME UNCHANGED <<pool, pc, index, slot, len>> PROVE Keeps
  BY <1>2 DEF Keeps, Owners, pool
<1>3. ASSUME NEW c \in Conns, FindAvailable(c) PROVE Keeps
  <2>1. /\ UNCHANGED capacity /\ pc[c] = "aFind" /\ pc'[c] \in {"aTake", "aGrow"}
        /\ \A d \in Conns : d # c => pc'[d] = pc[d] /\ index'[d] = index[d]
    BY <1>3 DEF TypeOK, FindAvailable, Goto, pool
  <2>2. QED
    BY <2>1 DEF Keeps, Owners
<1>4. ASSUME NEW c \in Conns,
             LoadLength(c) \/ LoadLengthDown(c) \/ StoreLength(c) \/ StoreLengthDown(c)
      PROVE  Keeps
  <2>1. /\ UNCHANGED <<capacity, index>>
        /\ \/ pc[c] = "aLoad" /\ pc'[c] = "aStore"
           \/ pc[c] = "aStore" /\ pc'[c] = "aSpawn"
           \/ pc[c] = "rLoad" /\ pc'[c] = "rStore"
           \/ pc[c] = "rStore" /\ pc'[c] = "done"
        /\ \A d \in Conns : d # c => pc'[d] = pc[d]
    BY <1>4 DEF TypeOK, LoadLength, LoadLengthDown, StoreLength, StoreLengthDown, Goto, pool
  <2>2. Owners' = Owners
    BY <2>1 DEF Owners
  <2>3. QED
    BY <2>1, <2>2 DEF Keeps
<1>5. ASSUME NEW c \in Conns, FindEmpty(c) PROVE Keeps
  <2>1. c \in Owners /\ index[c] \in Slots
    BY <1>5 DEF FindEmpty, Owners, Running, TypeOK
  <2>2. Goto(c, "rPut")
    BY <1>5, <2>1, ReleaseFindsRoom DEF FindEmpty, PoolInv
  <2>3. UNCHANGED <<capacity, index>> /\ pc[c] = "rFind"
    BY <1>5 DEF FindEmpty, pool
  <2>4. pc'[c] = "rPut" /\ \A d \in Conns : d # c => pc'[d] = pc[d]
    BY <2>2 DEF TypeOK, Goto
  <2>5. QED
    BY <2>3, <2>4 DEF Keeps, Owners
<1>6. ASSUME NEW c \in Conns, TakeAvailable(c) PROVE Acquires(c)
  <2>1. /\ UNCHANGED <<capacity, index>> /\ pc[c] = "aTake" /\ pc'[c] = "aLoad"
        /\ \A d \in Conns : d # c => pc'[d] = pc[d]
        /\ index[c] \in Slots /\ slot[c] \in Slots
    BY <1>6 DEF TypeOK, TakeAvailable, Goto, Running
  <2>2. available[slot[c]] = index[c] + 1 /\ slot[c] \in Filled
    BY <2>1 DEF PoolInv, FoundHolds, Filled, Slots
  <2>3. index[c] \in Free
    BY <2>1, <2>2 DEF Free, Slots
  <2>4. c \notin Owners /\ Owners' = Owners \cup {c}
    BY <2>1 DEF Owners
  <2>5. QED
    BY <2>1, <2>3, <2>4 DEF Acquires, PoolInv, Exclusive
<1>7. ASSUME NEW c \in Conns, PutAvailable(c) PROVE Releases(c)
  <2>1. /\ UNCHANGED <<capacity, index>> /\ pc[c] = "rPut" /\ pc'[c] = "rLoad"
        /\ \A d \in Conns : d # c => pc'[d] = pc[d]
        /\ index[c] \in Slots
    BY <1>7 DEF TypeOK, PutAvailable, Goto, Running
  <2>2. c \in Owners /\ Owners' = Owners \ {c}
    BY <2>1 DEF Owners
  <2>3. QED
    BY <2>1, <2>2 DEF Releases
<1>8. ASSUME NEW c \in Conns, Grow(c) PROVE AcquiresNew(c)
  <2>1. /\ pc[c] = "aGrow" /\ pc'[c] = "aLoad" /\ capacity' = 2 * capacity
        /\ \A d \in Conns : d # c => pc'[d] = pc[d]
    BY <1>8 DEF TypeOK, Grow
  <2>2. Free = {} /\ sockets_length = capacity
    BY <1>8, <2>1, GrowthIndex DEF Grow, Running
  <2>3. index' = [index EXCEPT ![c] = capacity]
    BY <1>8, <2>2 DEF Grow, NewIndex
  <2>4. c \notin Owners /\ Owners' = Owners \cup {c}
    BY <2>1 DEF Owners
  <2>5. Slots \subseteq {index[d] : d \in Owners}
    BY <2>2 DEF PoolInv, Partition
  <2>6. QED
    BY <2>1, <2>3, <2>4, <2>5 DEF AcquiresNew
<1>9. QED
  BY <1>1, <1>2, <1>3, <1>4, <1>5, <1>6, <1>7, <1>8
  DEF Next, MainStep, ThreadStep, ReleaseStep, SpawnFail, Publish, AcceptFail, Stop, Exit

(* Each of them is what SlotPool says.                                     *)
LEMMA MovesImplement ==
  ASSUME TypeOK
  PROVE  /\ Keeps => Held' = Held /\ UNCHANGED capacity
         /\ \A c \in Conns : Acquires(c) => Pool!Acquire(c)
         /\ \A c \in Conns : AcquiresNew(c) => Pool!AcquireNew(c)
         /\ \A c \in Conns : Releases(c) => Pool!Release(c)
<1> USE DEF Held
<1>1. Owners \subseteq Conns /\ capacity \in Nat \ {0} /\ \A c \in Conns : index[c] \in Int
  BY DEF Owners, TypeOK
<1>2. -1 \notin Slots
  BY DEF Slots
<1>3. Pool!Owned = {Held[d] : d \in Conns}
  BY DEF Pool!Owned
<1>4. Keeps => Held' = Held /\ UNCHANGED capacity
  BY DEF Keeps
<1>5. ASSUME NEW c \in Conns, Acquires(c) PROVE Pool!Acquire(c)
  <2>1. Held' = [Held EXCEPT ![c] = index[c]]
    BY <1>1, <1>5 DEF Acquires
  <2>2. Held[c] = -1
    BY <1>5 DEF Acquires
  <2>3. \A d \in Conns : Held[d] # index[c]
    BY <1>2, <1>5 DEF Acquires
  <2>4. index[c] \in (0 .. capacity - 1) \ Pool!Owned
    BY <1>3, <1>5, <2>3 DEF Acquires, Slots
  <2>5. QED
    BY <1>5, <2>1, <2>2, <2>4 DEF Pool!Acquire, Acquires
<1>6. ASSUME NEW c \in Conns, AcquiresNew(c) PROVE Pool!AcquireNew(c)
  <2>1. index'[c] = capacity /\ \A d \in Conns \ {c} : index'[d] = index[d]
    BY <1>6 DEF AcquiresNew, TypeOK
  <2>2. Held' = [Held EXCEPT ![c] = capacity]
    BY <1>1, <1>6, <2>1 DEF AcquiresNew
  <2>3. Held[c] = -1
    BY <1>6 DEF AcquiresNew
  <2>4. 0 .. capacity - 1 \subseteq Pool!Owned
    <3>1. \A d \in Owners : index[d] = Held[d]
      BY <1>1
    <3>2. QED
      BY <1>1, <1>3, <1>6, <3>1 DEF AcquiresNew, Slots
  <2>5. QED
    BY <1>6, <2>2, <2>3, <2>4 DEF Pool!AcquireNew, AcquiresNew
<1>7. ASSUME NEW c \in Conns, Releases(c) PROVE Pool!Release(c)
  <2>1. Held' = [Held EXCEPT ![c] = -1]
    BY <1>1, <1>7 DEF Releases
  <2>2. Held[c] # -1
    BY <1>2, <1>7 DEF Releases
  <2>3. QED
    BY <1>7, <2>1, <2>2 DEF Pool!Release, Releases
<1>8. QED
  BY <1>4, <1>5, <1>6, <1>7

(* The pool implements SlotPool: each index has one owner, comes from what *)
(* nobody owns and goes back there, and the pool doubles only when every   *)
(* index is owned, until two threads overlap inside it.                    *)
THEOREM Implements == Spec => ImplementsSlotPool
<1>1. Init => Pool!Init
  <2> SUFFICES ASSUME Init PROVE Pool!Init
    OBVIOUS
  <2>1. Owners = {} /\ capacity = 1 /\ races = {}
    BY DEF Init, Owners, ServePcs, EntryPcs
  <2>2. QED
    BY <2>1 DEF Pool!Init
<1>2. ASSUME TypeOK, TypeOK', "pool" \notin races => PoolInv, [Next]_vars
      PROVE  [Pool!Next]_(Pool!vars)
  <2>1. CASE UNCHANGED vars
    <3>1. Held' = Held /\ UNCHANGED <<capacity, races>>
      BY <2>1 DEF vars, Held, Owners
    <3>2. QED
      BY <3>1 DEF Pool!vars, Held
  <2>2. CASE Next /\ "pool" \in races'
    BY <2>2 DEF Pool!Next, Pool!Overlap
  <2>3. CASE Next /\ "pool" \notin races'
    <3>1. "pool" \notin races
      BY <2>3, RacesKept
    <3>2. ("pool" \in races') = ("pool" \in races)
      BY <2>3, <3>1
    <3>3. Keeps \/ \E c \in Conns : Acquires(c) \/ AcquiresNew(c) \/ Releases(c)
      BY <1>2, <2>3, <3>1, Moves
    <3>4. CASE Keeps
      <4>1. Held' = Held /\ UNCHANGED capacity
        BY <1>2, <3>4, MovesImplement
      <4>2. QED
        BY <3>2, <4>1 DEF Pool!vars, Held
    <3>5. CASE \E c \in Conns : Acquires(c) \/ AcquiresNew(c) \/ Releases(c)
      <4>1. \E c \in Conns : Pool!Acquire(c) \/ Pool!AcquireNew(c) \/ Pool!Release(c)
        BY <1>2, <3>5, MovesImplement
      <4>2. QED
        BY <3>2, <4>1 DEF Pool!Next
    <3>6. QED
      BY <3>3, <3>4, <3>5
  <2>4. QED
    BY <1>2, <2>1, <2>2, <2>3
<1>3. QED
  BY <1>1, <1>2, Typing, PoolSafe, PTL DEF Spec, ImplementsSlotPool, Pool!Spec
-----------------------------------------------------------------------------
(***************************************************************************)
(* Memory in HttpServer, for any set of connections: without an overlap no *)
(* thread reads freed memory, frees twice, leaves an array or cancels      *)
(* another, and what a connection used is given back.                      *)
(***************************************************************************)

(* Connections that are served or clear their entry, and those that have.  *)
Served == ServePcs \cup EntryPcs
Left   == ReleasePcs \cup {"done"}

Entry(c) == [thread |-> c, data |-> c, socket |-> 0]

(* The main thread is at one connection, from accept to publish.           *)
OneAccepted ==
  /\ \A c, d \in Conns : pc[c] \in AcceptPcs /\ pc[d] \in AcceptPcs => c = d
  /\ \A c \in Conns : pc[c] \in AcceptPcs => publishing = None /\ main = "run"
  /\ publishing # None => main = "run" /\ pc[publishing] \in ServePcs \cup {"cancel"}

(* The entries that are in use are those of the connections that are       *)
(* served, but for one that is not published yet.                          *)
Attached == \A c \in Conns : pc[c] \in Served /\ publishing # c => sockets[index[c]] = Entry(c)
Vacant ==
  \A i \in Slots : sockets[i].socket # -1 =>
    \E c \in Conns : pc[c] \in Served /\ publishing # c /\ index[c] = i

Blocks == \A c \in Conns : heap[c] = "live" <=> pc[c] \in Served

(* While the server runs, a thread that is cancelled has cancelled itself. *)
Cancels == \A c \in Conns : pc[c] # "killed" /\ (c \in cancelled => pc[c] \in {"free"} \cup Left)

Cleaned ==
  \A c \in Conns : /\ pc[c] \in EntryPcs \cup Left => c \notin open
                   /\ pc[c] \in Left => heap[c] = "freed"

(* A stop that met nobody at work leaves threads that will not come back   *)
(* from recv, or that only count down.                                     *)
Stopped ==
  \A c \in Conns : /\ pc[c] \in {"none", "recv", "killed", "rLoad", "rStore", "done"}
                   /\ pc[c] = "recv" => c \in cancelled
                   /\ heap[c] # "live"

Quiet == /\ ~undefined /\ OneAccepted /\ Cleaned
         /\ main = "run" => Attached /\ Vacant /\ Blocks /\ Cancels
         /\ main = "stopping" => Stopped

LEMMA EntryFields ==
  ASSUME NEW c
  PROVE  Entry(c).thread = c /\ Entry(c).data = c /\ Entry(c).socket = 0
BY DEF Entry

LEMMA StartsQuiet == Init => Quiet
<1> SUFFICES ASSUME Init PROVE Quiet
  OBVIOUS
<1> USE DEF Init, Served, Left, AcceptPcs, ServePcs, EntryPcs, ReleasePcs
<1>1. OneAccepted /\ Cleaned /\ Attached /\ Blocks /\ Cancels
  BY DEF OneAccepted, Cleaned, Attached, Blocks, Cancels
<1>2. Vacant
  BY DEF Vacant, Slots, FreeEntry
<1>3. QED
  BY <1>1, <1>2 DEF Quiet

(* A step of one connection between two places where it means the same, in *)
(* the main thread or in its own, that leaves the entries alone.           *)
LEMMA SameKind ==
  ASSUME TypeOK, Quiet, NEW c \in Conns,
         UNCHANGED <<capacity, sockets, threads, publishing, main, undefined>>,
         \A d \in Conns \ {c} : pc'[d] = pc[d] /\ index'[d] = index[d],
         \/ pc[c] \in AcceptPcs /\ pc'[c] \in AcceptPcs
         \/ pc[c] \in ServePcs /\ pc'[c] \in ServePcs /\ index'[c] = index[c] /\ main = "run"
         \/ pc[c] \in Left /\ pc'[c] \in Left /\ (main = "stopping" => pc'[c] \in {"rStore", "done"})
  PROVE  Quiet'
<1> USE DEF Served, Left, AcceptPcs, ServePcs, EntryPcs, ReleasePcs, threads
<1>1. OneAccepted'
  <2>0. OneAccepted
    BY DEF Quiet
  <2>1. \A d \in Conns : pc'[d] \in AcceptPcs <=> pc[d] \in AcceptPcs
    OBVIOUS
  <2>2. publishing # None => main = "run" /\ pc'[publishing] \in ServePcs \cup {"cancel"}
    BY <2>0 DEF OneAccepted, TypeOK
  <2>3. QED
    BY <2>0, <2>1, <2>2 DEF OneAccepted
<1>2. Cleaned'
  BY DEF Quiet, Cleaned
<1>3. ASSUME main = "run" PROVE Attached' /\ Vacant' /\ Blocks' /\ Cancels'
  <2>0. Attached /\ Vacant /\ Blocks /\ Cancels
    BY <1>3 DEF Quiet
  <2>1. \A d \in Conns : pc'[d] \in Served <=> pc[d] \in Served
    OBVIOUS
  <2>2. \A d \in Conns : pc[d] \in Served => index'[d] = index[d]
    OBVIOUS
  <2>3. Attached'
    BY <2>0, <2>1, <2>2 DEF Attached
  <2>4. Vacant'
    BY <2>0, <2>1, <2>2 DEF Vacant, Slots
  <2>5. Blocks' /\ Cancels'
    BY <2>0, <2>1 DEF Blocks, Cancels
  <2>6. QED
    BY <2>3, <2>4, <2>5
<1>4. ASSUME main = "stopping" PROVE Stopped'
  BY <1>4 DEF Quiet, Stopped, OneAccepted
<1>5. QED
  BY <1>1, <1>2, <1>3, <1>4 DEF Quiet

(* Every step that is not recorded as an overlap keeps memory in order.    *)
LEMMA StaysQuiet ==
  ASSUME TypeOK, TypeOK', PoolInv, Quiet, Next, races' = {}
  PROVE  Quiet'
<1> USE DEF Served, Left, AcceptPcs, ServePcs, EntryPcs, ReleasePcs
<1>0. ~undefined /\ \A c \in Conns : index[c] \in Slots
  BY DEF Quiet, TypeOK
<1>1. \A c, d \in Conns : pc[c] \in Served /\ pc[d] \in Served /\ index[c] = index[d] => c = d
  BY DEF PoolInv, Exclusive, Owners
<1>2. ASSUME main = "run" PROVE Attached /\ Vacant /\ Blocks /\ Cancels
  BY <1>2 DEF Quiet
<1>3. \A c \in Conns : Running /\ pc[c] \notin {"none", "recv", "killed", "rLoad", "rStore", "done"} => main = "run"
  BY DEF Quiet, Stopped, Running, TypeOK
<1>4. ASSUME NEW c \in Conns,
             FindAvailable(c) \/ TakeAvailable(c) \/ LoadLength(c) \/ StoreLength(c)
      PROVE  Quiet'
  <2>1. /\ pc[c] \in AcceptPcs /\ pc'[c] \in AcceptPcs
        /\ UNCHANGED <<capacity, sockets, threads, publishing, main, undefined>>
        /\ \A d \in Conns \ {c} : pc'[d] = pc[d] /\ index'[d] = index[d]
    BY <1>4 DEF TypeOK, Goto, FindAvailable, TakeAvailable, LoadLength, StoreLength, pool
  <2>2. QED
    BY <2>1, SameKind
<1>5. ASSUME NEW c \in Conns, Begin(c) \/ Receive(c) \/ PeerGone(c) \/ Handle(c) \/ Reject(c)
      PROVE  Quiet'
  <2>1. main = "run"
    BY <1>3, <1>5 DEF Begin, Receive, PeerGone, Handle, Reject, Running, Quiet, Stopped, TypeOK
  <2>2. c \notin cancelled /\ heap[c] = "live" /\ pc[c] \in ServePcs
    BY <1>2, <1>5, <2>1 DEF Begin, Receive, PeerGone, Handle, Reject, Cancels, Blocks
  <2>3. /\ pc'[c] \in ServePcs
        /\ UNCHANGED <<capacity, sockets, threads, publishing, main, index>>
        /\ \A d \in Conns \ {c} : pc'[d] = pc[d]
    BY <1>5, <2>2 DEF TypeOK, Goto, Begin, Receive, PeerGone, Handle, Reject, pool
  <2>4. UNCHANGED undefined
    BY <1>0, <1>5, <2>2 DEF Begin, Receive, PeerGone, Handle, Reject, TypeOK
  <2>5. QED
    BY <2>1, <2>2, <2>3, <2>4, SameKind
<1>6. ASSUME NEW c \in Conns,
             FindEmpty(c) \/ PutAvailable(c) \/ LoadLengthDown(c) \/ StoreLengthDown(c)
      PROVE  Quiet'
  <2>1. pc[c] \in {"rFind", "rPut"} => main = "run"
    BY <1>3, <1>6 DEF FindEmpty, PutAvailable, LoadLengthDown, StoreLengthDown
  <2>2. /\ pc[c] \in Left /\ pc'[c] \in Left
        /\ (pc[c] \notin {"rFind", "rPut"} => pc'[c] \in {"rStore", "done"})
        /\ UNCHANGED <<capacity, sockets, threads, publishing, main, index>>
        /\ \A d \in Conns \ {c} : pc'[d] = pc[d]
    BY <1>6 DEF TypeOK, Goto, FindEmpty, PutAvailable, LoadLengthDown, StoreLengthDown, pool
  <2>3. UNCHANGED undefined
    BY <1>0, <1>6, <2>1 DEF FindEmpty, PutAvailable, LoadLengthDown, StoreLengthDown, TypeOK
  <2>4. QED
    BY <2>1, <2>2, <2>3, SameKind
<1>7. ASSUME NEW c \in Conns, Accept(c) PROVE Quiet'
  <2>1. /\ main = "run" /\ publishing = None /\ pc[c] = "none" /\ pc'[c] = "aFind"
        /\ \A d \in Conns : pc[d] \notin AcceptPcs
        /\ \A d \in Conns \ {c} : pc'[d] = pc[d]
        /\ open' = open \cup {c}
        /\ UNCHANGED <<capacity, sockets, heap, cancelled, index, publishing, main, undefined>>
    BY <1>7 DEF TypeOK, Accept, MainIdle, Goto, pool
  <2>2. OneAccepted'
    BY <2>1 DEF OneAccepted
  <2>3. Cleaned'
    BY <2>1 DEF Quiet, Cleaned
  <2>4. \A d \in Conns : pc'[d] \in Served <=> pc[d] \in Served
    BY <2>1
  <2>5. Attached'
    BY <1>2, <2>1, <2>4 DEF Attached
  <2>6. Vacant'
    BY <1>2, <2>1, <2>4 DEF Vacant, Slots
  <2>7. Blocks' /\ Cancels'
    BY <1>2, <2>1, <2>4 DEF Blocks, Cancels
  <2>8. QED
    BY <2>1, <2>2, <2>3, <2>5, <2>6, <2>7 DEF Quiet
<1>8. ASSUME NEW c \in Conns, Grow(c) PROVE Quiet'
  <2>1. /\ pc[c] = "aGrow" /\ pc'[c] = "aLoad" /\ capacity' = 2 * capacity
        /\ \A d \in Conns \ {c} : pc'[d] = pc[d] /\ index'[d] = index[d]
        /\ UNCHANGED <<heap, open, cancelled, publishing, main>>
        /\ sockets' = [i \in Slots' |-> IF i \in Slots THEN sockets[i] ELSE FreeEntry]
    BY <1>8 DEF TypeOK, Grow, threads, Slots
  <2>2. main = "run"
    BY <1>3, <1>8, <2>1 DEF Grow
  <2>3. ~undefined'
    <3>1. sockets_length = capacity
      BY <1>8, <2>1, GrowthIndex DEF Grow, Running
    <3>2. NewIndex \in Slots'
      BY <2>1, <3>1 DEF NewIndex, Slots, TypeOK
    <3>3. ~\E d \in Conns : pc[d] \in EntryPcs
      BY <1>8 DEF Grow
    <3>4. \A d \in Conns : pc[d] \notin {"rFind", "rPut"}
      BY <2>1 DEF PoolInv, Alone, PoolPcs
    <3>5. QED
      BY <1>8, <3>2, <3>3, <3>4 DEF Grow
  <2>4. Slots \subseteq Slots'
    BY <2>1 DEF Slots, TypeOK
  <2>5. \A d \in Conns : pc'[d] \in Served <=> pc[d] \in Served
    BY <2>1
  <2>6. OneAccepted'
    <3>1. publishing = None
      BY <2>1 DEF Quiet, OneAccepted
    <3>2. QED
      BY <2>1, <2>2, <3>1 DEF Quiet, OneAccepted
  <2>7. Cleaned'
    BY <2>1 DEF Quiet, Cleaned
  <2>8. Attached'
    <3>1. ASSUME NEW d \in Conns, pc'[d] \in Served, publishing # d
          PROVE  sockets'[index'[d]] = Entry(d)
      <4>1. pc[d] \in Served /\ d # c /\ index'[d] = index[d] /\ index[d] \in Slots
        BY <1>0, <2>1, <2>5, <3>1
      <4>2. sockets'[index[d]] = sockets[index[d]]
        BY <2>1, <2>4, <4>1
      <4>3. QED
        BY <1>2, <2>2, <3>1, <4>1, <4>2 DEF Attached
    <3>2. QED
      BY <2>1, <3>1 DEF Attached, Entry
  <2>9. Vacant'
    <3>1. ASSUME NEW i \in Slots', sockets'[i].socket # -1
          PROVE  \E d \in Conns : pc'[d] \in Served /\ publishing # d /\ index'[d] = i
      <4>1. i \in Slots /\ sockets[i].socket # -1
        BY <2>1, <3>1 DEF FreeEntry
      <4>2. PICK d \in Conns : pc[d] \in Served /\ publishing # d /\ index[d] = i
        BY <1>2, <2>2, <4>1 DEF Vacant
      <4>3. QED
        BY <2>1, <2>5, <4>2
    <3>2. QED
      BY <2>1, <3>1 DEF Vacant
  <2>10. Blocks' /\ Cancels'
    BY <1>2, <2>1, <2>2, <2>5 DEF Blocks, Cancels
  <2>11. QED
    BY <2>1, <2>2, <2>3, <2>6, <2>7, <2>8, <2>9, <2>10 DEF Quiet
<1>9. ASSUME NEW c \in Conns, Spawn(c) PROVE Quiet'
  <2>1. /\ pc[c] = "aSpawn" /\ pc'[c] = "start" /\ publishing' = c
        /\ \A d \in Conns \ {c} : pc'[d] = pc[d]
        /\ heap' = [heap EXCEPT ![c] = "live"]
        /\ UNCHANGED <<capacity, sockets, open, cancelled, index, main, undefined>>
    BY <1>9 DEF TypeOK, Spawn, Goto, pool
  <2>2. main = "run" /\ publishing = None /\ \A d \in Conns \ {c} : pc[d] \notin AcceptPcs
    BY <2>1 DEF Quiet, OneAccepted
  <2>3. OneAccepted'
    BY <2>1, <2>2 DEF OneAccepted
  <2>4. Cleaned'
    BY <2>1 DEF Quiet, Cleaned, TypeOK
  <2>5. \A d \in Conns : pc'[d] \in Served <=> pc[d] \in Served \/ d = c
    BY <2>1
  <2>6. publishing # c
    BY <2>2, ConnsAssumption
  <2>7. Attached'
    BY <1>2, <2>1, <2>2, <2>5, ConnsAssumption DEF Attached, Entry
  <2>8. Vacant'
    <3>1. \A d \in Conns : pc[d] \in Served => d # c
      BY <2>1
    <3>2. QED
      BY <1>2, <2>1, <2>2, <2>5, <3>1 DEF Vacant, Slots
  <2>9. Blocks'
    BY <1>2, <2>1, <2>2, <2>5 DEF Blocks, TypeOK
  <2>10. Cancels'
    BY <1>2, <2>1, <2>2 DEF Cancels
  <2>11. QED
    BY <1>0, <2>1, <2>2, <2>3, <2>4, <2>7, <2>8, <2>9, <2>10 DEF Quiet
<1>10. CASE Publish
  <2> DEFINE p == publishing
             i == index[p]
  <2>1. p \in Conns /\ main = "run" /\ pc[p] \in ServePcs \cup {"cancel"} /\ i \in Slots
    BY <1>0, <1>10 DEF Publish, Quiet, OneAccepted, TypeOK
  <2>2. /\ ~undefined' /\ publishing' = None
        /\ sockets' = [j \in Slots |-> IF j = i THEN Entry(p) ELSE sockets[j]]
        /\ UNCHANGED <<capacity, heap, open, cancelled, index, pc, main>>
    BY <1>10, <2>1 DEF TypeOK, Publish, pool, threads, Entry
  <2>3. \A d \in Conns : pc[d] \notin AcceptPcs
    BY <2>1, ConnsAssumption DEF Quiet, OneAccepted
  <2>4. OneAccepted' /\ Cleaned'
    BY <2>2, <2>3 DEF Quiet, OneAccepted, Cleaned
  <2> HIDE DEF p, i
  <2>5. Attached'
    <3>1. ASSUME NEW d \in Conns, pc[d] \in Served PROVE sockets'[index[d]] = Entry(d)
      <4>1. CASE d = p
        BY <2>1, <2>2, <4>1 DEF i
      <4>2. CASE d # p
        <5>1. index[d] # i /\ index[d] \in Slots
          BY <1>0, <1>1, <2>1, <3>1, <4>2 DEF i
        <5>2. sockets[index[d]] = Entry(d)
          BY <1>2, <2>1, <3>1, <4>2 DEF Attached, p
        <5>3. QED
          BY <2>2, <5>1, <5>2
      <4>3. QED
        BY <4>1, <4>2
    <3>2. QED
      BY <2>2, <3>1 DEF Attached, Entry
  <2>6. Vacant'
    <3>1. ASSUME NEW j \in Slots, sockets'[j].socket # -1
          PROVE  \E d \in Conns : pc[d] \in Served /\ None # d /\ index[d] = j
      <4>1. CASE j = i
        BY <2>1, <4>1, ConnsAssumption DEF i
      <4>2. CASE j # i
        BY <1>2, <2>1, <2>2, <3>1, <4>2, ConnsAssumption DEF Vacant
      <4>3. QED
        BY <4>1, <4>2
    <3>2. QED
      BY <2>2, <3>1 DEF Vacant, Slots
  <2>7. Blocks' /\ Cancels'
    BY <1>2, <2>1, <2>2 DEF Blocks, Cancels
  <2>8. QED
    BY <2>1, <2>2, <2>4, <2>5, <2>6, <2>7 DEF Quiet
<1>11. ASSUME NEW c \in Conns, Killed(c) PROVE Quiet'
  <2>1. /\ pc[c] = "recv" /\ c \in cancelled /\ pc'[c] = "killed"
        /\ \A d \in Conns \ {c} : pc'[d] = pc[d]
        /\ UNCHANGED <<heap, open, cancelled, publishing, main, undefined>>
    BY <1>11 DEF TypeOK, Killed, Goto, threads
  <2>2. main = "stopping"
    BY <1>2, <1>11, <2>1 DEF Cancels, Killed, Running, TypeOK
  <2>3. publishing = None
    BY <2>2 DEF Quiet, OneAccepted
  <2>4. OneAccepted'
    BY <2>1, <2>2, <2>3 DEF Quiet, OneAccepted
  <2>5. Cleaned'
    BY <2>1 DEF Quiet, Cleaned
  <2>6. Stopped'
    BY <2>1, <2>2 DEF Quiet, Stopped
  <2>7. QED
    BY <1>0, <2>1, <2>2, <2>4, <2>5, <2>6 DEF Quiet
<1>12. ASSUME NEW c \in Conns, Close(c) PROVE Quiet'
  <2>1. main = "run" /\ pc[c] = "bye"
    BY <1>3, <1>12 DEF Close
  <2>2. c \notin cancelled /\ heap[c] = "live"
    BY <1>2, <2>1 DEF Cancels, Blocks
  <2>3. /\ pc'[c] = "cancel" /\ open' = open \ {c} /\ ~undefined'
        /\ \A d \in Conns \ {c} : pc'[d] = pc[d]
        /\ UNCHANGED <<capacity, sockets, heap, cancelled, index, publishing, main>>
    BY <1>12, <2>2 DEF TypeOK, Close, Goto, pool
  <2>4. OneAccepted'
    <3>1. \A d \in Conns : pc'[d] \in AcceptPcs <=> pc[d] \in AcceptPcs
      BY <2>1, <2>3
    <3>2. publishing # None => pc'[publishing] \in ServePcs \cup {"cancel"}
      BY <2>1, <2>3 DEF Quiet, OneAccepted, TypeOK
    <3>3. QED
      BY <2>1, <2>3, <3>1, <3>2 DEF Quiet, OneAccepted
  <2>5. Cleaned'
    BY <2>1, <2>3 DEF Quiet, Cleaned
  <2>6. \A d \in Conns : pc'[d] \in Served <=> pc[d] \in Served
    BY <2>1, <2>3
  <2>7. Attached'
    BY <1>2, <2>1, <2>3, <2>6 DEF Attached
  <2>8. Vacant'
    BY <1>2, <2>1, <2>3, <2>6 DEF Vacant, Slots
  <2>9. Blocks' /\ Cancels'
    BY <1>2, <2>1, <2>2, <2>3, <2>6 DEF Blocks, Cancels
  <2>10. QED
    BY <2>1, <2>3, <2>4, <2>5, <2>7, <2>8, <2>9 DEF Quiet
<1>13. ASSUME NEW c \in Conns, CancelThread(c) PROVE Quiet'
  <2>1. main = "run" /\ pc[c] = "cancel" /\ publishing # c
    BY <1>3, <1>13 DEF CancelThread
  <2>2. sockets[index[c]].thread = c
    <3>1. sockets[index[c]] = Entry(c)
      BY <1>2, <2>1 DEF Attached
    <3>2. QED
      BY <3>1, EntryFields
  <2>3. c # None
    BY ConnsAssumption
  <2>4. /\ pc'[c] = "free" /\ cancelled' = cancelled \cup {c} /\ ~undefined'
        /\ \A d \in Conns \ {c} : pc'[d] = pc[d]
        /\ UNCHANGED <<capacity, sockets, heap, open, index, publishing, main>>
    BY <1>0, <1>13, <2>1, <2>2, <2>3 DEF TypeOK, CancelThread, pool
  <2>5. OneAccepted'
    <3>1. \A d \in Conns : pc'[d] \in AcceptPcs <=> pc[d] \in AcceptPcs
      BY <2>1, <2>4
    <3>2. publishing # None => pc'[publishing] \in ServePcs \cup {"cancel"}
      BY <2>1, <2>4 DEF Quiet, OneAccepted, TypeOK
    <3>3. QED
      BY <2>1, <2>4, <3>1, <3>2 DEF Quiet, OneAccepted
  <2>6. Cleaned'
    BY <2>1, <2>4 DEF Quiet, Cleaned
  <2>7. \A d \in Conns : pc'[d] \in Served <=> pc[d] \in Served
    BY <2>1, <2>4
  <2>8. Attached'
    BY <1>2, <2>1, <2>4, <2>7 DEF Attached
  <2>9. Vacant'
    BY <1>2, <2>1, <2>4, <2>7 DEF Vacant, Slots
  <2>10. Blocks' /\ Cancels'
    BY <1>2, <2>1, <2>4, <2>7 DEF Blocks, Cancels
  <2>11. QED
    BY <2>1, <2>4, <2>5, <2>6, <2>8, <2>9, <2>10 DEF Quiet
<1>14. ASSUME NEW c \in Conns, FreeData(c) PROVE Quiet'
  <2>1. main = "run" /\ pc[c] = "free"
    BY <1>3, <1>14 DEF FreeData
  <2>2. publishing # c
    BY <2>1, ConnsAssumption DEF Quiet, OneAccepted
  <2>3. sockets[index[c]].data = c /\ heap[c] = "live" /\ c \notin open /\ index[c] \in Slots
    <3>1. sockets[index[c]] = Entry(c)
      BY <1>2, <2>1, <2>2 DEF Attached
    <3>2. sockets[index[c]].data = c
      BY <3>1, EntryFields
    <3>3. heap[c] = "live" /\ c \notin open
      BY <1>2, <2>1 DEF Blocks, Quiet, Cleaned
    <3>4. QED
      BY <1>0, <3>2, <3>3
  <2>4. /\ pc'[c] = "rFind" /\ ~undefined'
        /\ heap' = [heap EXCEPT ![c] = "freed"]
        /\ sockets' = [sockets EXCEPT ![index[c]].socket = -1]
        /\ \A d \in Conns \ {c} : pc'[d] = pc[d]
        /\ UNCHANGED <<capacity, open, cancelled, index, publishing, main>>
    <3>1. c # None
      BY ConnsAssumption
    <3>2. /\ undefined' = (main = "stopping" \/ (c # None /\ heap[c] # "live"))
          /\ heap' = [x \in Conns |-> IF x = c THEN "freed" ELSE heap[x]]
          /\ sockets' = [sockets EXCEPT ![index[c]].socket = -1]
          /\ Goto(c, "rFind")
          /\ UNCHANGED <<capacity, open, cancelled, index, publishing, main>>
      BY <1>14, <2>3 DEF FreeData, pool
    <3>3. ~undefined'
      BY <2>1, <2>3, <3>2
    <3>4. heap' = [heap EXCEPT ![c] = "freed"]
      BY <3>2 DEF TypeOK
    <3>5. pc'[c] = "rFind" /\ \A d \in Conns \ {c} : pc'[d] = pc[d]
      BY <3>2 DEF TypeOK, Goto
    <3>6. QED
      BY <3>2, <3>3, <3>4, <3>5
  <2>5. OneAccepted'
    <3>1. \A d \in Conns : pc'[d] \in AcceptPcs <=> pc[d] \in AcceptPcs
      BY <2>1, <2>4
    <3>2. publishing # None => pc'[publishing] \in ServePcs \cup {"cancel"}
      BY <2>2, <2>4 DEF Quiet, OneAccepted, TypeOK
    <3>3. QED
      BY <2>1, <2>4, <3>1, <3>2 DEF Quiet, OneAccepted
  <2>6. Cleaned'
    BY <2>3, <2>4 DEF Quiet, Cleaned, TypeOK
  <2>7. \A d \in Conns : pc'[d] \in Served <=> pc[d] \in Served /\ d # c
    BY <2>4
  <2>8. \A i \in Slots : i # index[c] => sockets'[i] = sockets[i]
    BY <2>4 DEF TypeOK
  <2>9. Attached'
    <3>1. ASSUME NEW d \in Conns, pc'[d] \in Served, publishing # d
          PROVE  sockets'[index[d]] = Entry(d)
      <4>1. pc[d] \in Served /\ index[d] # index[c] /\ index[d] \in Slots
        BY <1>0, <1>1, <2>1, <2>7, <3>1
      <4>2. QED
        BY <1>2, <2>1, <2>8, <3>1, <4>1 DEF Attached
    <3>2. QED
      BY <2>4, <3>1 DEF Attached, Entry
  <2>10. Vacant'
    <3>1. sockets'[index[c]].socket = -1
      BY <2>3, <2>4 DEF TypeOK
    <3>2. ASSUME NEW i \in Slots, sockets'[i].socket # -1
          PROVE  \E d \in Conns : pc'[d] \in Served /\ publishing # d /\ index[d] = i
      <4>1. i # index[c] /\ sockets[i].socket # -1
        BY <2>8, <3>1, <3>2
      <4>2. QED
        BY <1>2, <2>1, <2>7, <4>1 DEF Vacant
    <3>3. QED
      BY <2>4, <3>2 DEF Vacant, Slots
  <2>11. Blocks' /\ Cancels'
    <3>1. Blocks /\ Cancels
      BY <1>2, <2>1
    <3>2. Blocks'
      BY <2>4, <2>7, <3>1 DEF Blocks, TypeOK
    <3>3. Cancels'
      BY <2>1, <2>4, <3>1 DEF Cancels
    <3>4. QED
      BY <3>2, <3>3
  <2>12. QED
    BY <2>1, <2>4, <2>5, <2>6, <2>9, <2>10, <2>11 DEF Quiet
<1>15. CASE AcceptFail \/ Exit
  <2>1. /\ publishing = None /\ \A d \in Conns : pc[d] \notin AcceptPcs
        /\ main' = "exit" /\ UNCHANGED <<pc, heap, open, publishing, undefined>>
    BY <1>15 DEF AcceptFail, Exit, MainIdle, Quiet, OneAccepted, threads
  <2>2. OneAccepted' /\ Cleaned'
    BY <2>1 DEF Quiet, OneAccepted, Cleaned
  <2>3. QED
    BY <1>0, <2>1, <2>2 DEF Quiet
<1>16. CASE Stop
  <2> DEFINE T == {sockets[i].thread : i \in LiveSlots}
             D == {sockets[i].data : i \in LiveSlots}
             S == {c \in Conns : pc[c] \in Served}
  <2>1. MainIdle /\ main = "run" /\ \A c \in Conns : ~Busy(c)
    BY <1>16 DEF Stop
  <2>2. publishing = None /\ \A c \in Conns : pc[c] \notin AcceptPcs
    BY <2>1 DEF MainIdle
  <2>3. \A c \in S : pc[c] = "recv" /\ sockets[index[c]] = Entry(c) /\ index[c] \in LiveSlots
    <3>1. ASSUME NEW c \in S
          PROVE  pc[c] = "recv" /\ sockets[index[c]] = Entry(c) /\ index[c] \in LiveSlots
      <4>1. c \in Conns /\ publishing # c
        BY <2>2, ConnsAssumption
      <4>2. pc[c] = "recv"
        BY <2>1, <4>1 DEF Busy
      <4>3. sockets[index[c]] = Entry(c)
        BY <1>2, <2>1, <4>1 DEF Attached
      <4>4. sockets[index[c]].socket # -1
        BY <4>3, EntryFields
      <4>5. QED
        BY <1>0, <4>1, <4>2, <4>3, <4>4 DEF LiveSlots
    <3>2. QED
      BY <3>1
  <2>4. \A i \in LiveSlots : \E c \in S : index[c] = i
    BY <1>2, <2>1 DEF Vacant, LiveSlots
  <2>5. T = S /\ D = S
    <3>1. \A c \in S : /\ sockets[index[c]].thread = c /\ sockets[index[c]].data = c
                      /\ index[c] \in LiveSlots
      BY <2>3, EntryFields
    <3> HIDE DEF S
    <3>2. QED
      BY <2>4, <3>1
  <2>6. \A c \in S : c # None /\ heap[c] = "live" /\ pc[c] \notin EndPcs
    BY <1>2, <2>1, <2>3, ConnsAssumption DEF Blocks, EndPcs
  <2>7. /\ cancelled' = cancelled \cup (T \ {None})
        /\ heap' = [c \in Conns |-> IF c \in D THEN "freed" ELSE heap[c]]
        /\ undefined' = \/ \E t \in T : t = None \/ pc[t] \in EndPcs
                        \/ \E d \in D : heap[d] # "live"
        /\ main' = "stopping" /\ UNCHANGED <<pc, open, publishing>>
    BY <1>16, <2>1 DEF Stop
  <2> HIDE DEF T, D, S
  <2>8. ~undefined' /\ S \subseteq cancelled'
    BY <2>5, <2>6, <2>7
  <2>9. OneAccepted'
    BY <2>2, <2>7 DEF OneAccepted
  <2>10. Cleaned'
    BY <2>7 DEF Quiet, Cleaned
  <2>11. Stopped'
    <3>1. ASSUME NEW c \in Conns PROVE heap'[c] # "live"
      BY <1>2, <2>1, <2>5, <2>7 DEF Blocks, S
    <3>2. ASSUME NEW c \in Conns
          PROVE  pc[c] \in {"none", "recv", "killed", "rLoad", "rStore", "done"}
      BY <2>1, <2>2 DEF Busy, TypeOK, Pcs, EndPcs
    <3>3. \A c \in Conns : pc[c] = "recv" => c \in S
      BY DEF S
    <3>4. QED
      BY <2>7, <2>8, <3>1, <3>2, <3>3 DEF Stopped
  <2>12. QED
    BY <2>7, <2>8, <2>9, <2>10, <2>11 DEF Quiet
<1>17. ASSUME NEW c \in Conns PROVE ~SpawnFail(c)
  BY DEF SpawnFail
<1>18. QED
  BY <1>4, <1>5, <1>6, <1>7, <1>8, <1>9, <1>10, <1>11, <1>12, <1>13, <1>14, <1>15, <1>16, <1>17
  DEF Next, MainStep, ThreadStep, ReleaseStep

(* Memory is in order until the first overlap of any kind.                 *)
THEOREM MemorySafe == Spec => [](races = {} => Quiet)
<1>1. Init => (races = {} => Quiet)
  BY StartsQuiet
<1>2. ASSUME TypeOK, TypeOK', "pool" \notin races => PoolInv, races = {} => Quiet, [Next]_vars
      PROVE  (races = {} => Quiet)'
  <2>1. CASE UNCHANGED vars
    BY <1>2, <2>1 DEF vars, Quiet, OneAccepted, Cleaned, Attached, Vacant, Blocks, Cancels, Stopped, Slots
  <2>2. CASE Next /\ races' = {}
    <3>1. races = {}
      BY <2>2, RacesKept
    <3>2. QED
      BY <1>2, <2>2, <3>1, StaysQuiet
  <2>3. QED
    BY <1>2, <2>1, <2>2
<1>3. QED
  BY <1>1, <1>2, Typing, PoolSafe, PTL DEF Spec

(* Nothing but the five overlaps can make the server read freed memory,    *)
(* free twice, leave an array or use a thread that is gone.                *)
THEOREM Defined == Spec => []NoUndefined
<1>1. TypeOK /\ (races = {} => Quiet) => NoUndefined
  BY DEF Quiet, NoUndefined
<1>2. QED
  BY <1>1, Typing, MemorySafe, PTL

(* While its thread runs, a connection's entry of sockets is its own and   *)
(* its block is allocated, until an overlap.                               *)
THEOREM EntriesSafe == Spec => []EntryIsOwn
<1>1. (races = {} => Quiet) => EntryIsOwn
  BY DEF Quiet, EntryIsOwn, Attached, Blocks, Entry, Served
<1>2. QED
  BY <1>1, MemorySafe, PTL

(* A connection that gave its index back has closed its descriptor and     *)
(* freed its block, and so has every one after a stop, until an overlap.   *)
THEOREM NoLeak == Spec => []NothingLeaks
<1>1. (races = {} => Quiet) => NothingLeaks
  BY DEF Quiet, NothingLeaks, Cleaned, Stopped, Left, ReleasePcs
<1>2. QED
  BY <1>1, MemorySafe, PTL

(* Without an overlap a thread cancels nobody but itself while the server  *)
(* runs: the handle it reads from its entry is its own.                    *)
THEOREM CancelsItself == Spec => OnlyStopCancelsOthers
<1> DEFINE A == races' = {} /\ main' = "run" =>
                  \A c \in cancelled' \ cancelled : pc[c] = "cancel"
<1>1. ASSUME races = {} => Quiet, [Next]_vars PROVE [A]_vars
  <2>1. CASE UNCHANGED vars
    BY <2>1
  <2>2. CASE Next /\ UNCHANGED cancelled
    BY <2>2
  <2>3. ASSUME NEW c \in Conns, CancelThread(c), races' = {}, main' = "run"
        PROVE  \A d \in cancelled' \ cancelled : pc[d] = "cancel"
    <3>1. races = {} /\ Quiet
      BY <1>1, <2>3 DEF CancelThread
    <3>2. publishing # c /\ main = "run" /\ pc[c] = "cancel"
      BY <2>3 DEF CancelThread
    <3>3. sockets[index[c]].thread = c
      <4>1. sockets[index[c]] = Entry(c)
        BY <3>1, <3>2 DEF Quiet, Attached, Served, EntryPcs
      <4>2. QED
        BY <4>1, EntryFields
    <3>4. cancelled' \subseteq cancelled \cup {c}
      BY <2>3, <3>3 DEF CancelThread
    <3>5. QED
      BY <3>2, <3>4
  <2>4. CASE Stop
    BY <2>4 DEF Stop
  <2>5. Next => UNCHANGED cancelled \/ Stop \/ \E c \in Conns : CancelThread(c)
    BY ZenonT(60) DEF Next, MainStep, ThreadStep, ReleaseStep, Accept, FindAvailable, TakeAvailable,
       Grow, LoadLength, StoreLength, Spawn, SpawnFail, Begin, Receive, PeerGone, Killed, Handle,
       Reject, Close, FreeData, FindEmpty, PutAvailable, LoadLengthDown,
       StoreLengthDown, Publish, AcceptFail, Exit, threads
  <2>6. QED
    BY <1>1, <2>1, <2>2, <2>3, <2>4, <2>5
<1>2. QED
  BY <1>1, MemorySafe, PTL DEF Spec, OnlyStopCancelsOthers
=============================================================================
