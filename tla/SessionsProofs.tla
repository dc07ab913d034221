--------------------------- MODULE SessionsProofs ---------------------------
(***************************************************************************)
(* The tokens and the table of Sessions, for any number of threads, logins *)
(* and buckets.                                                            *)
(***************************************************************************)
EXTENDS Sessions, FiniteSetTheorems, TLAPS

(* The generator's states, of which a token is a sequence.                *)
States == Nat \X Nat

(* A login that has its token, and one that has or makes it.               *)
Having == SetPcs \cup {"length", "return"}
LogsIn(t) == pc[t] \in MakePcs \cup Having

(* A login is counted, and its number is nobody else's.                    *)
Shape ==
  /\ pc \in [Threads -> Pcs]
  /\ token \in [Threads -> Seq(States)]
  /\ user = [t \in Threads |-> user[t]] /\ reg = [t \in Threads |-> reg[t]]
  /\ given \subseteq Seq(States) \X Nat
  /\ logins \in Nat /\ rng \in States
  /\ races = [make |-> races.make, set |-> races.set, get |-> races.get]

Counted ==
  /\ \A t \in Threads : LogsIn(t) => user[t] \in 1 .. logins
  /\ \A s, t \in Threads : LogsIn(s) /\ LogsIn(t) /\ user[s] = user[t] => s = t
  /\ \A g \in given : g[2] \in 1 .. logins
  /\ \A t \in Threads, g \in given : LogsIn(t) => user[t] # g[2]

Drawing ==
  \A t \in Threads : /\ pc[t] = "idle" => token[t] = <<>>
                     /\ pc[t] = "drawn" => reg[t] \in States
                     /\ pc[t] \in Having => token[t] # <<>>

(* Unless two threads make tokens at once, the one that does draws from    *)
(* the seed of its own login, and a token begins with its login's seed.    *)
Seeded ==
  /\ \A s, t \in Threads : pc[s] \in MakePcs /\ pc[t] \in MakePcs => s = t
  /\ \A t \in Threads : pc[t] \in MakePcs => user[t] = logins /\ rng[1] = logins
  /\ \A t \in Threads : pc[t] = "drawn" => reg[t][1] = logins
  /\ \A t \in Threads : LogsIn(t) /\ token[t] # <<>> => token[t][1][1] = user[t]
  /\ \A g \in given : g[1] # <<>> /\ g[1][1][1] = g[2]

IInv == Shape /\ Counted /\ Drawing /\ (~races.make => Seeded)

LEMMA Starting == Init => IInv
<1> SUFFICES ASSUME Init PROVE IInv
  OBVIOUS
<1> USE DEF Init, LogsIn, MakePcs, Having, SetPcs
<1>1. Shape
  BY DEF Shape, Pcs, States, NoKey
<1>2. Counted /\ Drawing
  BY DEF Counted, Drawing, NoKey
<1>3. Seeded
  BY DEF Seeded
<1>4. QED
  BY <1>1, <1>2, <1>3 DEF IInv

(* What the steps of thread t inside tablec_set and the handlers of the    *)
(* carts have in common: neither the generator nor what any login has is   *)
(* theirs to change.                                                       *)
Aside(t) ==
  /\ logins' = logins /\ rng' = rng /\ given' = given
  /\ pc'[t] \in Pcs /\ pc' = [pc EXCEPT ![t] = pc'[t]]
  /\ \A s \in Threads \ {t} : /\ token'[s] = token[s] /\ user'[s] = user[s]
                              /\ pc[s] = "drawn" => reg'[s] = reg[s]
  /\ reg' = [s \in Threads |-> reg'[s]] /\ user' = [s \in Threads |-> user'[s]]
  /\ token' \in [Threads -> Seq(States)]
  /\ \/ /\ pc[t] \in Having /\ pc'[t] \in Having
        /\ user'[t] = user[t] /\ token'[t] = token[t]
     \/ /\ pc[t] \notin MakePcs \cup Having /\ pc'[t] \notin MakePcs \cup Having
        /\ pc'[t] = "idle" => token'[t] = <<>>

(* What a step adds to the history leaves Seeded to show only if no two    *)
(* threads make tokens after it.                                           *)
LEMMA Watched ==
  ASSUME Watch
  PROVE  /\ races' = [make |-> races'.make, set |-> races'.set, get |-> races'.get]
         /\ ~races'.make => /\ ~races.make
                            /\ \A s, t \in Threads :
                                 pc'[s] \in MakePcs /\ pc'[t] \in MakePcs => s = t
BY DEF Watch, Crowd

LEMMA AsideStep ==
  ASSUME IInv, NEW t \in Threads, Aside(t), Watch
  PROVE  IInv'
<1>1. Shape /\ Counted /\ Drawing /\ logins' = logins /\ rng' = rng /\ given' = given
  BY DEF IInv, Aside
<1>2. \A s \in Threads \ {t} : pc'[s] = pc[s]
  BY <1>1 DEF Shape, Aside
<1>3. \A s \in Threads : LogsIn(s)' <=> LogsIn(s)
  BY <1>2 DEF LogsIn, Aside
<1>4. \A s \in Threads : LogsIn(s) => user'[s] = user[s] /\ token'[s] = token[s]
  BY DEF LogsIn, Aside
<1>5. Shape'
  BY <1>1, Watched DEF Shape, Aside
<1>6. Counted'
  <2>1. ASSUME NEW s \in Threads, LogsIn(s)'
        PROVE  user'[s] \in 1 .. logins' /\ \A g \in given' : user'[s] # g[2]
    BY <1>1, <1>3, <1>4, <2>1 DEF Counted
  <2>2. ASSUME NEW r \in Threads, NEW s \in Threads, LogsIn(r)', LogsIn(s)', user'[r] = user'[s]
        PROVE  r = s
    BY <1>1, <1>3, <1>4, <2>2 DEF Counted
  <2>3. \A g \in given' : g[2] \in 1 .. logins'
    BY <1>1 DEF Counted
  <2>4. QED
    BY <2>1, <2>2, <2>3 DEF Counted
<1>7. \A s \in Threads : /\ pc'[s] \in MakePcs <=> pc[s] \in MakePcs
                         /\ pc'[s] = "drawn" <=> pc[s] = "drawn"
  BY <1>2 DEF MakePcs, Having, SetPcs, Aside
<1>8. Drawing'
  <2>1. t \in Threads /\ pc[t] \notin MakePcs
    BY DEF MakePcs, Having, SetPcs, Aside
  <2>2. pc'[t] = "idle" => token'[t] = <<>>
    BY DEF Having, SetPcs, Aside
  <2>3. pc'[t] # "drawn"
    BY <1>7, <2>1 DEF MakePcs
  <2>4. pc'[t] \in Having => token'[t] # <<>>
    BY <1>1 DEF Drawing, Aside
  <2>5. ASSUME NEW s \in Threads \ {t}
        PROVE  /\ pc'[s] = "idle" => token'[s] = <<>>
               /\ pc'[s] = "drawn" => reg'[s] \in States
               /\ pc'[s] \in Having => token'[s] # <<>>
    BY <1>1, <1>2, <2>5 DEF Drawing, Aside
  <2>6. QED
    BY <2>2, <2>3, <2>4, <2>5 DEF Drawing
<1>9. ASSUME Seeded PROVE Seeded'
  <2>1. \A s \in Threads : pc[s] \in MakePcs => LogsIn(s) /\ user'[s] = user[s]
    BY <1>4 DEF LogsIn
  <2>2. \A s \in Threads : pc[s] = "drawn" => reg'[s] = reg[s]
    BY DEF MakePcs, Having, SetPcs, Aside
  <2>3. /\ \A r, s \in Threads : pc'[r] \in MakePcs /\ pc'[s] \in MakePcs => r = s
        /\ \A s \in Threads : pc'[s] \in MakePcs => user'[s] = logins' /\ rng'[1] = logins'
        /\ \A s \in Threads : pc'[s] = "drawn" => reg'[s][1] = logins'
    BY <1>1, <1>7, <1>9, <2>1, <2>2 DEF Seeded
  <2>4. \A s \in Threads : LogsIn(s)' /\ token'[s] # <<>> => token'[s][1][1] = user'[s]
    BY <1>3, <1>4, <1>9 DEF Seeded
  <2>5. \A g \in given' : g[1] # <<>> /\ g[1][1][1] = g[2]
    BY <1>1, <1>9 DEF Seeded
  <2>6. QED
    BY <2>3, <2>4, <2>5 DEF Seeded
<1>10. QED
  BY <1>5, <1>6, <1>8, <1>9, Watched DEF IInv

(* The steps inside tablec_set.                                            *)
LEMMA SetIsAside ==
  ASSUME IInv, NEW t \in Threads,
         \/ ReadLength(t) \/ ReadFirst(t) \/ StoreOnlyKey(t) \/ StoreOnlyValue(t) \/ LengthOne(t)
         \/ PairCapacity(t) \/ PairSwap(t) \/ PairTwo(t) \/ ReadCapacity(t) \/ Scan(t)
         \/ StoreKey(t) \/ StoreValue(t) \/ Copy(t) \/ Swap(t) \/ LoadCapacity(t)
         \/ StoreCapacity(t) \/ LoadLength(t) \/ StoreLength(t)
  PROVE  Aside(t)
<1>1. Shape
  BY DEF IInv
<1> USE <1>1 DEF Aside, Shape, Step, Read, Write, Keep, Having, SetPcs, generator, locals, Pcs
<1>2. CASE ReadLength(t)
  BY <1>2 DEF ReadLength
<1>3. CASE ReadFirst(t)
  BY <1>3 DEF ReadFirst
<1>4. CASE StoreOnlyKey(t)
  BY <1>4 DEF StoreOnlyKey
<1>5. CASE StoreOnlyValue(t)
  BY <1>5 DEF StoreOnlyValue
<1>6. CASE LengthOne(t)
  BY <1>6 DEF LengthOne
<1>7. CASE PairCapacity(t)
  BY <1>7 DEF PairCapacity
<1>8. CASE PairSwap(t)
  BY <1>8 DEF PairSwap, Freed, Inside
<1>9. CASE PairTwo(t)
  BY <1>9 DEF PairTwo
<1>10. CASE ReadCapacity(t)
  BY <1>10 DEF ReadCapacity
<1>11. CASE Scan(t)
  <2>1. \E x, q : Step(t, "scan", q) /\ q \in {"copy", "key"} /\ Keep(t, x)
    BY <1>11 DEF Scan
  <2>2. UNCHANGED <<generator, given>>
    BY <1>11 DEF Scan
  <2>3. QED
    BY <2>1, <2>2
<1>12. CASE StoreKey(t)
  BY <1>12 DEF StoreKey
<1>13. CASE StoreValue(t)
  BY <1>13 DEF StoreValue
<1>14. CASE Copy(t)
  BY <1>14 DEF Copy
<1>15. CASE Swap(t)
  BY <1>15 DEF Swap, Freed, Inside
<1>16. CASE LoadCapacity(t)
  BY <1>16 DEF LoadCapacity
<1>17. CASE StoreCapacity(t)
  BY <1>17 DEF StoreCapacity
<1>18. CASE LoadLength(t)
  BY <1>18 DEF LoadLength
<1>19. CASE StoreLength(t)
  BY <1>19 DEF StoreLength
<1>20. QED
  BY <1>2, <1>3, <1>4, <1>5, <1>6, <1>7, <1>8, <1>9, <1>10, <1>11, <1>12, <1>13, <1>14,
     <1>15, <1>16, <1>17, <1>18, <1>19

(* The steps of the handlers of the carts.                                 *)
LEMMA GetIsAside ==
  ASSUME IInv, NEW t \in Threads, Get(t)
  PROVE  Aside(t)
<1>1. Shape
  BY DEF IInv
<1> USE <1>1 DEF Aside, Shape, Step, Read, Write, Keep, Forget, Having, SetPcs, MakePcs, GetPcs,
              generator, Pcs
<1>2. CASE StartCheck(t)
  BY <1>2 DEF StartCheck
<1>3. CASE Find(t)
  <2>1. \E x, q : Step(t, "find", q) /\ q \in {"answer", "use"} /\ Keep(t, x)
    BY <1>3 DEF Find
  <2>2. UNCHANGED <<generator, given>>
    BY <1>3 DEF Find
  <2>3. QED
    BY <2>1, <2>2
<1>4. CASE Use(t)
  BY <1>4 DEF Use
<1>5. CASE Answer(t)
  <2>1. /\ pc[t] = "answer" /\ pc' = [pc EXCEPT ![t] = "idle"]
        /\ token' = [token EXCEPT ![t] = <<>>] /\ user' = [user EXCEPT ![t] = Null]
        /\ reg' = [reg EXCEPT ![t] = Null] /\ UNCHANGED <<generator, given>>
    BY <1>5 DEF Answer, NoKey
  <2>2. <<>> \in Seq(States)
    OBVIOUS
  <2>3. QED
    BY <2>1, <2>2
<1>6. QED
  BY <1>2, <1>3, <1>4, <1>5 DEF Get

(* A login begins: its number is new, and so is the seed.                  *)
LEMMA StartLoginStep ==
  ASSUME IInv, NEW t \in Threads, StartLogin(t), Watch
  PROVE  IInv'
<1> USE DEF StartLogin, Step, Seed
<1>1. Shape /\ Counted /\ Drawing
  BY DEF IInv
<1>2. \A s \in Threads : /\ pc'[s] = IF s = t THEN "draw" ELSE pc[s]
                         /\ user'[s] = IF s = t THEN logins + 1 ELSE user[s]
  BY <1>1 DEF Shape
<1>3. /\ ~LogsIn(t) /\ LogsIn(t)'
      /\ \A s \in Threads \ {t} : LogsIn(s)' <=> LogsIn(s)
  BY <1>2 DEF LogsIn, MakePcs, Having, SetPcs
<1>4. Shape'
  <2>1. pc' \in [Threads -> Pcs]
    BY <1>1 DEF Shape, Pcs, MakePcs
  <2>2. logins' \in Nat /\ rng' \in States
    BY <1>1 DEF Shape, States
  <2>3. QED
    BY <1>1, <2>1, <2>2, Watched DEF Shape
<1>5. Counted'
  <2>1. logins \in Nat /\ logins' = logins + 1 /\ given' = given
    BY <1>1 DEF Shape
  <2>2. ASSUME NEW s \in Threads, LogsIn(s)'
        PROVE  user'[s] \in 1 .. logins' /\ \A g \in given' : user'[s] # g[2]
    BY <1>1, <1>2, <1>3, <2>1, <2>2 DEF Counted
  <2>3. ASSUME NEW r \in Threads, NEW s \in Threads, LogsIn(r)', LogsIn(s)', user'[r] = user'[s]
        PROVE  r = s
    BY <1>1, <1>2, <1>3, <2>1, <2>3 DEF Counted
  <2>4. \A g \in given' : g[2] \in 1 .. logins'
    BY <1>1, <2>1 DEF Counted
  <2>5. QED
    BY <2>2, <2>3, <2>4 DEF Counted
<1>6. Drawing'
  BY <1>1, <1>2 DEF Drawing, Having, SetPcs
<1>7. ASSUME ~races'.make PROVE Seeded'
  <2>1. Seeded
    BY <1>7, Watched DEF IInv
  <2>2. \A s \in Threads : pc'[s] \in MakePcs => s = t
    BY <1>2, <1>7, Watched DEF MakePcs
  <2>3. \A s \in Threads : pc'[s] # "drawn"
    BY <1>2, <2>2 DEF MakePcs
  <2>4. logins' = logins + 1 /\ rng'[1] = logins + 1 /\ token' = token /\ given' = given
    OBVIOUS
  <2>5. \A s \in Threads : LogsIn(s)' /\ token'[s] # <<>> => token'[s][1][1] = user'[s]
    BY <1>1, <1>2, <1>3, <2>1, <2>4 DEF Seeded, Drawing
  <2>6. \A g \in given' : g[1] # <<>> /\ g[1][1][1] = g[2]
    BY <2>1, <2>4 DEF Seeded
  <2>7. QED
    BY <1>2, <2>2, <2>3, <2>4, <2>5, <2>6 DEF Seeded
<1>8. QED
  BY <1>4, <1>5, <1>6, <1>7 DEF IInv

(* rand reads the generator.                                               *)
LEMMA LoadRandStep ==
  ASSUME IInv, NEW t \in Threads, LoadRand(t), Watch
  PROVE  IInv'
<1>1. Shape /\ Counted /\ Drawing
  BY DEF IInv
<1>2. /\ logins' = logins /\ rng' = rng /\ given' = given /\ token' = token /\ user' = user
      /\ pc[t] = "draw"
      /\ \A s \in Threads : /\ pc'[s] = IF s = t THEN "drawn" ELSE pc[s]
                            /\ reg'[s] = IF s = t THEN rng ELSE reg[s]
  BY <1>1 DEF LoadRand, Step, Keep, generator, Shape
<1>3. \A s \in Threads : /\ LogsIn(s)' <=> LogsIn(s)
                         /\ pc'[s] \in MakePcs <=> pc[s] \in MakePcs
  BY <1>2 DEF LogsIn, MakePcs
<1>4. Shape'
  BY <1>1, <1>2, Watched DEF Shape, LoadRand, Step, Keep, Pcs, MakePcs
<1>5. Counted'
  BY <1>1, <1>2, <1>3 DEF Counted
<1>6. Drawing'
  BY <1>1, <1>2 DEF Drawing, Shape, Having, SetPcs
<1>7. ASSUME ~races'.make PROVE Seeded'
  <2>1. Seeded
    BY <1>7, Watched DEF IInv
  <2>2. \A s \in Threads : pc'[s] = "drawn" => reg'[s][1] = logins
    BY <1>2, <2>1 DEF Seeded, MakePcs
  <2>3. QED
    BY <1>2, <1>3, <2>1, <2>2 DEF Seeded
<1>8. QED
  BY <1>4, <1>5, <1>6, <1>7 DEF IInv

(* rand stores its next state; the character drawn joins the token.        *)
LEMMA StoreRandStep ==
  ASSUME IInv, NEW t \in Threads, StoreRand(t), Watch
  PROVE  IInv'
<1>1. Shape /\ Counted /\ Drawing
  BY DEF IInv
<1>2. /\ logins' = logins /\ given' = given /\ user' = user
      /\ pc[t] = "drawn" /\ pc'[t] \in {"length", "draw"}
      /\ rng' = <<reg[t][1], reg[t][2] + 1>>
      /\ \A s \in Threads \ {t} : pc'[s] = pc[s] /\ reg'[s] = reg[s] /\ token'[s] = token[s]
      /\ token'[t] = Append(token[t], reg[t])
  BY <1>1 DEF StoreRand, Step, Shape
<1>3. reg[t] \in States /\ token[t] \in Seq(States)
  BY <1>1, <1>2 DEF Drawing, Shape
<1>4. /\ token'[t] # <<>> /\ token'[t] \in Seq(States)
      /\ token[t] = <<>> => token'[t][1] = reg[t]
      /\ token[t] # <<>> => token'[t][1] = token[t][1]
  BY <1>2, <1>3
<1>5. \A s \in Threads : LogsIn(s)' <=> LogsIn(s)
  BY <1>2 DEF LogsIn, MakePcs, Having
<1>6. Shape'
  <2>1. pc' \in [Threads -> Pcs]
    BY <1>1, <1>2 DEF Shape, StoreRand, Step, Pcs, MakePcs
  <2>2. token' \in [Threads -> Seq(States)]
    BY <1>1, <1>4 DEF Shape, StoreRand
  <2>3. logins' \in Nat /\ rng' \in States
    BY <1>1, <1>2, <1>3 DEF Shape, States
  <2>4. reg' = [s \in Threads |-> reg'[s]] /\ user' = [s \in Threads |-> user'[s]]
    BY <1>1 DEF Shape, StoreRand
  <2>5. QED
    BY <1>1, <1>2, <2>1, <2>2, <2>3, <2>4, Watched DEF Shape
<1>7. Counted'
  BY <1>1, <1>2, <1>5 DEF Counted
<1>8. Drawing'
  BY <1>1, <1>2, <1>4 DEF Drawing
<1>9. ASSUME ~races'.make PROVE Seeded'
  <2>1. Seeded /\ LogsIn(t)
    BY <1>2, <1>9, Watched DEF IInv, LogsIn, MakePcs
  <2>2. reg[t][1] = logins /\ user[t] = logins /\ rng'[1] = logins
    BY <1>2, <2>1 DEF Seeded, MakePcs
  <2>3. \A s \in Threads : pc'[s] \in MakePcs => s = t /\ pc'[s] # "drawn"
    BY <1>2, <2>1 DEF Seeded, MakePcs
  <2>4. \A s \in Threads : LogsIn(s)' /\ token'[s] # <<>> => token'[s][1][1] = user'[s]
    BY <1>2, <1>4, <1>5, <2>1, <2>2 DEF Seeded
  <2>5. \A g \in given' : g[1] # <<>> /\ g[1][1][1] = g[2]
    BY <1>2, <2>1 DEF Seeded
  <2>6. \A s \in Threads : pc'[s] = "drawn" => reg'[s][1] = logins'
    BY <2>3 DEF MakePcs
  <2>7. QED
    BY <1>2, <2>2, <2>3, <2>4, <2>5, <2>6 DEF Seeded
<1>10. QED
  BY <1>6, <1>7, <1>8, <1>9 DEF IInv

(* A login is answered: its token and its number are given.                *)
LEMMA ReturnStep ==
  ASSUME IInv, NEW t \in Threads, Return(t), Watch
  PROVE  IInv'
<1>1. Shape /\ Counted /\ Drawing
  BY DEF IInv
<1>2. /\ logins' = logins /\ rng' = rng /\ given' = given \cup {<<token[t], user[t]>>}
      /\ pc[t] = "return" /\ pc'[t] = "idle" /\ token'[t] = <<>>
      /\ \A s \in Threads \ {t} : /\ pc'[s] = pc[s] /\ reg'[s] = reg[s]
                                  /\ token'[s] = token[s] /\ user'[s] = user[s]
  BY <1>1 DEF Return, Step, Forget, generator, Shape, NoKey
<1>3. /\ LogsIn(t) /\ ~LogsIn(t)' /\ token[t] # <<>>
      /\ \A s \in Threads \ {t} : LogsIn(s)' <=> LogsIn(s)
  BY <1>1, <1>2 DEF LogsIn, MakePcs, Having, SetPcs, Drawing
<1>4. Shape'
  <2>1. pc' \in [Threads -> Pcs]
    BY <1>1 DEF Shape, Return, Step, Pcs
  <2>2. <<>> \in Seq(States)
    OBVIOUS
  <2>3. token' \in [Threads -> Seq(States)]
    BY <1>1, <2>2 DEF Shape, Return, Forget, NoKey
  <2>4. given' \subseteq Seq(States) \X Nat
    BY <1>1, <1>2, <1>3 DEF Shape, Counted
  <2>5. reg' = [s \in Threads |-> reg'[s]] /\ user' = [s \in Threads |-> user'[s]]
    BY <1>1 DEF Shape, Return, Forget
  <2>6. QED
    BY <1>1, <1>2, <2>1, <2>3, <2>4, <2>5, Watched DEF Shape
<1>5. Counted'
  BY <1>1, <1>2, <1>3 DEF Counted
<1>6. Drawing'
  BY <1>1, <1>2 DEF Drawing, Having, SetPcs
<1>7. ASSUME ~races'.make PROVE Seeded'
  <2>1. Seeded
    BY <1>7, Watched DEF IInv
  <2>2. pc'[t] \notin MakePcs /\ pc'[t] # "drawn"
    BY <1>2 DEF MakePcs
  <2>3. \A s \in Threads : LogsIn(s)' /\ token'[s] # <<>> => token'[s][1][1] = user'[s]
    BY <1>2, <1>3, <2>1 DEF Seeded
  <2>4. \A g \in given' : g[1] # <<>> /\ g[1][1][1] = g[2]
    BY <1>2, <1>3, <2>1 DEF Seeded
  <2>5. QED
    BY <1>2, <2>1, <2>2, <2>3, <2>4 DEF Seeded
<1>8. QED
  BY <1>4, <1>5, <1>6, <1>7 DEF IInv

LEMMA StaysIInv == IInv /\ [Next]_vars => IInv'
<1> SUFFICES ASSUME IInv, [Next]_vars PROVE IInv'
  OBVIOUS
<1>1. CASE UNCHANGED vars
  BY <1>1 DEF vars, generator, locals, IInv, Shape, Counted, Drawing, Seeded, LogsIn
<1>2. CASE Next
  <2>1. Watch
    BY <1>2 DEF Next
  <2>2. PICK t \in Threads : Make(t) \/ Set(t) \/ Get(t)
    BY <1>2 DEF Next
  <2>3. CASE Make(t)
    BY <2>1, <2>3, StartLoginStep, LoadRandStep, StoreRandStep DEF Make
  <2>4. CASE Set(t)
    BY <2>1, <2>4, SetIsAside, AsideStep, ReturnStep DEF Set
  <2>5. CASE Get(t)
    BY <2>1, <2>5, GetIsAside, AsideStep
  <2>6. QED
    BY <2>2, <2>3, <2>4, <2>5
<1>3. QED
  BY <1>1, <1>2

(* No two logins are answered with one token (frequenc_generate_session_id *)
(* of server/libs/fq_utils.c), nor does one store a token another was      *)
(* answered with, as long as no two threads have made tokens at once.      *)
THEOREM DistinctTokens == Spec => []TokensDiffer
<1>1. IInv => TokensDiffer
  <2> SUFFICES ASSUME IInv, ~races.make
               PROVE  /\ \A g, h \in given : g # h => g[1] # h[1]
                      /\ \A t \in Threads, g \in given :
                           pc[t] \in SetPcs \cup {"length", "return"} => token[t] # g[1]
    BY DEF TokensDiffer
  <2>1. Shape /\ Counted /\ Drawing /\ Seeded
    BY DEF IInv
  <2>2. ASSUME NEW g \in given, NEW h \in given, g # h PROVE g[1] # h[1]
    <3>1. g = <<g[1], g[2]>> /\ h = <<h[1], h[2]>>
      BY <2>1 DEF Shape
    <3>2. QED
      BY <2>1, <2>2, <3>1 DEF Seeded
  <2>3. ASSUME NEW t \in Threads, NEW g \in given, pc[t] \in Having PROVE token[t] # g[1]
    BY <2>1, <2>3 DEF Seeded, Counted, Drawing, LogsIn
  <2>4. QED
    BY <2>2, <2>3 DEF Having
<1>2. QED
  BY Starting, StaysIInv, <1>1, PTL DEF Spec
-----------------------------------------------------------------------------
(***************************************************************************)
(* The table of Sessions, for any number of threads, logins and buckets    *)
(* and any hashes that are numbers.                                        *)
(***************************************************************************)

(* For the lemmas about numbers alone any loop will do.                    *)
Turns == INSTANCE Recursion WITH
  Base <- LAMBDA p : p, Step <- LAMBDA p, x, i : x, Holds <- LAMBDA p, x, i : TRUE

HashOfToken == \A k \in Seq(States) : Hash(k) \in Nat

(* Where a set has stored its key and not yet counted it.                  *)
AddedPcs == {"onlyValue", "onlyOne", "value", "double", "doubled", "count", "counted"}

Hs == 0 .. Capacity - 1
Numbers == 1 .. MaxLogins

IsBucket(b) ==
  /\ b = [array |-> b.array, length |-> b.length, capacity |-> b.capacity]
  /\ IsArray(b.array) /\ b.length \in Nat /\ b.capacity \in Nat \ {0}

(* What a thread has read and not yet used, by where it is.                *)
Holding(p, r, f, a) ==
  /\ p \in {"scan", "doubled", "find"} => r \in Nat \ {0}
  /\ p = "counted" => r \in Nat
  /\ p = "drawn" => r \in Draw
  /\ p = "use" => r \in DOMAIN a \cup {Gone}
  /\ p = "swap" => IsArray(f)

Typed ==
  /\ TypeOK
  /\ races = [make |-> races.make, set |-> races.set, get |-> races.get]
  /\ buckets = [h \in Hs |-> buckets[h]] /\ \A h \in Hs : IsBucket(buckets[h])
  /\ rng \in Nat \X Nat /\ (logins # 0 => rng \in Draw)
  /\ reg = [t \in Threads |-> reg[t]] /\ fresh = [t \in Threads |-> fresh[t]]
  /\ \A t \in Threads : pc[t] \in MakePcs => logins # 0
  /\ ~undefined => \A t \in Threads : Holding(pc[t], reg[t], fresh[t], Mine(t).array)

LEMMA BucketInside ==
  ASSUME HashOfToken, NEW k \in Token
  PROVE  Hash(k) % Capacity \in Hs
<1>1. k \in Seq(States)
  <2>1. Draw \subseteq States
    BY SessionsAssumption DEF Draw, States
  <2>2. QED
    BY <2>1 DEF Token
<1>2. Hash(k) \in Nat /\ Capacity \in Nat \ {0}
  BY <1>1, SessionsAssumption DEF HashOfToken
<1>3. \A x \in Nat, m \in Nat \ {0} : x % m \in 0 .. m - 1
  OBVIOUS
<1>4. QED
  BY <1>2, <1>3 DEF Hs

(* A step in tablec_set or in a lookup: other threads lose at most the     *)
(* cells of an array that is freed, other buckets nothing.                 *)
InTable(t) ==
  \/ ReadLength(t) \/ ReadFirst(t) \/ StoreOnlyKey(t) \/ StoreOnlyValue(t) \/ LengthOne(t)
  \/ PairCapacity(t) \/ PairSwap(t) \/ PairTwo(t) \/ ReadCapacity(t) \/ Scan(t)
  \/ StoreKey(t) \/ StoreValue(t) \/ Copy(t) \/ Swap(t) \/ LoadCapacity(t)
  \/ StoreCapacity(t) \/ LoadLength(t) \/ StoreLength(t)

Others(t) ==
  /\ logins' = logins /\ rng' = rng /\ given' = given
  /\ ~undefined /\ pc' = [pc EXCEPT ![t] = pc'[t]] /\ pc'[t] \in Pcs \ MakePcs /\ pc[t] \notin MakePcs
  /\ \A s \in Threads \ {t} :
       /\ token'[s] = token[s] /\ user'[s] = user[s] /\ fresh'[s] = fresh[s]
       /\ \/ reg'[s] = reg[s] /\ ~(pc[s] = "use" /\ Bucket(s) = Bucket(t) /\ pc[t] \in {"swap", "pairSwap"})
          \/ /\ pc[s] = "use" /\ Bucket(s) = Bucket(t) /\ pc[t] \in {"swap", "pairSwap"}
             /\ reg'[s] = Gone
  /\ reg' = [s \in Threads |-> reg'[s]] /\ fresh' = [s \in Threads |-> fresh'[s]]
  /\ buckets' = [buckets EXCEPT ![Bucket(t)] = buckets'[Bucket(t)]]

LEMMA SetOthers ==
  ASSUME Typed, HashOfToken, NEW t \in Threads, InTable(t)
  PROVE  /\ Others(t) /\ token' = token /\ user' = user
         /\ pc[t] \in SetPcs \cup {"length"} /\ pc'[t] \in SetPcs \cup {"return"}
         /\ pc[t] \in AddedPcs => pc'[t] \in AddedPcs \cup {"return"}
<1>1. /\ pc \in [Threads -> Pcs] /\ token \in [Threads -> Token] /\ buckets = [h \in Hs |-> buckets[h]]
      /\ reg = [s \in Threads |-> reg[s]] /\ fresh = [s \in Threads |-> fresh[s]]
      /\ Bucket(t) \in Hs
  BY BucketInside DEF Typed, TypeOK, Bucket
<1> USE <1>1 DEF Others, Step, Read, Write, Keep, SetPcs, AddedPcs, MakePcs, generator, locals, Pcs
<1>2. CASE ReadLength(t)
  BY <1>2 DEF ReadLength
<1>3. CASE ReadFirst(t)
  BY <1>3 DEF ReadFirst
<1>4. CASE StoreOnlyKey(t)
  BY <1>4 DEF StoreOnlyKey
<1>5. CASE StoreOnlyValue(t)
  BY <1>5 DEF StoreOnlyValue
<1>6. CASE LengthOne(t)
  BY <1>6 DEF LengthOne
<1>7. CASE PairCapacity(t)
  BY <1>7 DEF PairCapacity
<1>8. CASE PairSwap(t)
  BY <1>8 DEF PairSwap, Freed, Inside
<1>9. CASE PairTwo(t)
  BY <1>9 DEF PairTwo
<1>10. CASE ReadCapacity(t)
  BY <1>10 DEF ReadCapacity
<1>11. CASE Scan(t)
  <2>1. \E x, q : Step(t, "scan", q) /\ q \in {"copy", "key"} /\ Keep(t, x)
    BY <1>11 DEF Scan
  <2>2. /\ UNCHANGED <<generator, given>>
        /\ buckets' = [buckets EXCEPT ![Bucket(t)] = Mine(t)] \/ buckets' = buckets
    BY <1>11 DEF Scan
  <2>3. QED
    BY <2>1, <2>2
<1>12. CASE StoreKey(t)
  BY <1>12 DEF StoreKey
<1>13. CASE StoreValue(t)
  BY <1>13 DEF StoreValue
<1>14. CASE Copy(t)
  BY <1>14 DEF Copy
<1>15. CASE Swap(t)
  BY <1>15 DEF Swap, Freed, Inside
<1>16. CASE LoadCapacity(t)
  BY <1>16 DEF LoadCapacity
<1>17. CASE StoreCapacity(t)
  BY <1>17 DEF StoreCapacity
<1>18. CASE LoadLength(t)
  BY <1>18 DEF LoadLength
<1>19. CASE StoreLength(t)
  BY <1>19 DEF StoreLength
<1>20. QED
  BY <1>2, <1>3, <1>4, <1>5, <1>6, <1>7, <1>8, <1>9, <1>10, <1>11, <1>12, <1>13, <1>14,
     <1>15, <1>16, <1>17, <1>18, <1>19 DEF InTable

(* Arrays.                                                                 *)
LEMMA ArrayPut ==
  ASSUME NEW a, IsArray(a), NEW i \in DOMAIN a, NEW c \in CellType
  PROVE  IsArray([a EXCEPT ![i] = c]) /\ DOMAIN [a EXCEPT ![i] = c] = DOMAIN a
<1>1. PICK n \in Nat \ {0} : a \in [0 .. n - 1 -> CellType]
  BY DEF IsArray
<1>2. [a EXCEPT ![i] = c] \in [0 .. n - 1 -> CellType]
  BY <1>1
<1>3. QED
  BY <1>1, <1>2 DEF IsArray

LEMMA ArrayCells ==
  ASSUME NEW a, IsArray(a)
  PROVE  /\ \A i \in DOMAIN a : /\ i \in Nat /\ a[i] \in CellType
                                /\ a[i].key \in Token /\ a[i].value \in Numbers \cup {Null}
                                /\ \A k \in Token : [a[i] EXCEPT !.key = k] \in CellType
                                /\ \A v \in Numbers : [a[i] EXCEPT !.value = v] \in CellType
         /\ 0 \in DOMAIN a
BY DEF IsArray, CellType, Numbers

LEMMA Cells ==
  /\ Blank \in CellType
  /\ \A k \in Token, v \in Numbers \cup {Null} : [key |-> k, value |-> v] \in CellType
<1>1. <<>> \in Token
  BY DEF Token
<1>2. QED
  BY <1>1 DEF Blank, NoKey, CellType, Numbers

LEMMA NewArray ==
  ASSUME NEW n \in Nat \ {0}, NEW a, a = [i \in 0 .. n - 1 |-> a[i]],
         \A i \in 0 .. n - 1 : a[i] \in CellType
  PROVE  IsArray(a)
<1>1. a \in [0 .. n - 1 -> CellType]
  OBVIOUS
<1>2. QED
  BY <1>1 DEF IsArray

(* A set's step leaves its bucket one, and has read what its next needs.   *)
LEMMA SetTyped ==
  ASSUME Typed, HashOfToken, NEW t \in Threads, InTable(t), user[t] \in Numbers
  PROVE  /\ IsBucket(buckets'[Bucket(t)])
         /\ \/ DOMAIN buckets'[Bucket(t)].array = DOMAIN Mine(t).array
            \/ pc[t] \in {"swap", "pairSwap"}
         /\ undefined' \in BOOLEAN
         /\ ~undefined' => Holding(pc'[t], reg'[t], fresh'[t], <<>>)
<1> DEFINE h == Bucket(t)
           b == buckets[h]
<1>1. /\ pc \in [Threads -> Pcs] /\ token[t] \in Token /\ buckets = [g \in Hs |-> buckets[g]]
      /\ reg = [s \in Threads |-> reg[s]] /\ fresh = [s \in Threads |-> fresh[s]]
      /\ h \in Hs /\ IsBucket(b) /\ undefined \in BOOLEAN
  BY BucketInside DEF Typed, TypeOK, Bucket
<1>2. /\ b = [array |-> b.array, length |-> b.length, capacity |-> b.capacity]
      /\ IsArray(b.array) /\ b.length \in Nat /\ b.capacity \in Nat \ {0}
  BY <1>1 DEF IsBucket
<1>3. ~undefined => Holding(pc[t], reg[t], fresh[t], b.array)
  BY DEF Typed, Mine
<1>4. /\ \A i \in DOMAIN b.array : /\ i \in Nat /\ b.array[i] \in CellType
                                   /\ \A k \in Token : [b.array[i] EXCEPT !.key = k] \in CellType
                                   /\ \A v \in Numbers : [b.array[i] EXCEPT !.value = v] \in CellType
      /\ 0 \in DOMAIN b.array
  BY <1>2, ArrayCells
<1>5. \A i \in DOMAIN b.array, c \in CellType :
        IsArray([b.array EXCEPT ![i] = c]) /\ DOMAIN [b.array EXCEPT ![i] = c] = DOMAIN b.array
  BY <1>2, ArrayPut
<1>6. Entry(t) \in CellType
  BY <1>1, Cells DEF Entry
<1> USE <1>1, <1>2, <1>3 DEF Step, Mine, Holding
<1>7. CASE ReadLength(t)
  BY <1>7 DEF ReadLength, Read
<1>8. CASE ReadFirst(t)
  BY <1>8 DEF ReadFirst, Read
<1>9. CASE StoreOnlyKey(t)
  BY <1>4, <1>5, <1>9 DEF StoreOnlyKey, Write, IsBucket
<1>10. CASE StoreOnlyValue(t)
  BY <1>4, <1>5, <1>10 DEF StoreOnlyValue, Write, IsBucket
<1>11. CASE LengthOne(t)
  BY <1>11 DEF LengthOne, Write, IsBucket
<1>12. CASE PairCapacity(t)
  BY <1>12 DEF PairCapacity, Write, IsBucket
<1>13. CASE PairSwap(t)
  <2> DEFINE a == [i \in 0..1 |-> IF i = 0 THEN b.array[0] ELSE Entry(t)]
  <2>1. IsArray(a)
    <3>1. a \in [0 .. 2 - 1 -> CellType]
      BY <1>4, <1>6
    <3> HIDE DEF a
    <3>2. 2 \in Nat \ {0}
      OBVIOUS
    <3>3. QED
      BY <3>1, <3>2 DEF IsArray
  <2> HIDE DEF a
  <2>2. buckets' = [buckets EXCEPT ![h].array = a] /\ pc'[t] = "pairTwo" /\ undefined' \in BOOLEAN
    BY <1>13 DEF PairSwap, Freed, a
  <2>3. QED
    BY <1>13, <2>1, <2>2 DEF IsBucket, PairSwap
<1>14. CASE PairTwo(t)
  BY <1>14 DEF PairTwo, Write, IsBucket
<1>15. CASE ReadCapacity(t)
  BY <1>15 DEF ReadCapacity, Read, Keep
<1>16. CASE Scan(t)
  <2>1. /\ buckets'[h] = b /\ undefined' \in BOOLEAN
        /\ pc'[t] \in {"copy", "key"}
    <3>1. \E q : Step(t, "scan", q) /\ q \in {"copy", "key"}
      BY <1>16 DEF Scan
    <3>2. undefined' \in BOOLEAN /\ (buckets' = [buckets EXCEPT ![h] = b] \/ buckets' = buckets)
      BY <1>16 DEF Scan, Write
    <3>3. QED
      BY <3>1, <3>2
  <2>2. QED
    BY <2>1
<1>17. CASE StoreKey(t)
  BY <1>4, <1>5, <1>17 DEF StoreKey, Write, IsBucket
<1>18. CASE StoreValue(t)
  BY <1>4, <1>5, <1>18 DEF StoreValue, Write, IsBucket
<1>19. CASE Copy(t)
  <2> DEFINE cell(i) == IF i < b.capacity THEN b.array[i] ELSE Blank
             inside == 0 .. b.capacity - 1 \subseteq DOMAIN b.array
  <2>1. /\ buckets'[h] = b /\ undefined' = ~inside /\ pc'[t] = "swap"
        /\ fresh'[t] = IF ~inside THEN Null ELSE [i \in 0 .. 2 * b.capacity - 1 |-> cell(i)]
    BY <1>19 DEF Copy, Write, FreshSize
  <2>2. ASSUME inside PROVE IsArray([i \in 0 .. 2 * b.capacity - 1 |-> cell(i)])
    <3>1. \A i \in 0 .. 2 * b.capacity - 1 : cell(i) \in CellType
      BY <1>4, <2>2, Cells
    <3> DEFINE a == [i \in 0 .. 2 * b.capacity - 1 |-> cell(i)]
    <3>2. 2 * b.capacity \in Nat \ {0}
      OBVIOUS
    <3>3. /\ a = [i \in 0 .. 2 * b.capacity - 1 |-> a[i]]
          /\ \A i \in 0 .. 2 * b.capacity - 1 : a[i] \in CellType
      BY <3>1
    <3> HIDE DEF a
    <3>4. IsArray(a)
      BY <3>2, <3>3, NewArray
    <3>5. QED
      BY <3>4 DEF a
  <2> HIDE DEF cell, inside
  <2>3. QED
    BY <2>1, <2>2
<1>20. CASE Swap(t)
  <2> DEFINE a == [fresh[t] EXCEPT ![b.length] = Entry(t)]
             inside == b.length \in DOMAIN fresh[t]
  <2>1. IsArray(fresh[t]) /\ (inside => IsArray(a))
    BY <1>6, <1>20, ArrayPut DEF Swap
  <2>2. /\ buckets' = (IF inside THEN [buckets EXCEPT ![h].array = a] ELSE buckets)
        /\ pc'[t] = "double" /\ undefined' \in BOOLEAN
    BY <1>20 DEF Swap, Freed, Slot
  <2> HIDE DEF a, inside
  <2>3. QED
    BY <1>20, <2>1, <2>2 DEF IsBucket, Swap
<1>21. CASE LoadCapacity(t)
  BY <1>21 DEF LoadCapacity, Read, Keep
<1>22. CASE StoreCapacity(t)
  BY <1>22 DEF StoreCapacity, Write, IsBucket
<1>23. CASE LoadLength(t)
  BY <1>23 DEF LoadLength, Read, Keep
<1>24. CASE StoreLength(t)
  BY <1>24 DEF StoreLength, Write, IsBucket
<1>25. QED
  BY <1>7, <1>8, <1>9, <1>10, <1>11, <1>12, <1>13, <1>14, <1>15, <1>16, <1>17, <1>18, <1>19,
     <1>20, <1>21, <1>22, <1>23, <1>24 DEF InTable

LEMMA BucketsTyped ==
  ASSUME NEW bs, bs = [h \in Hs |-> bs[h]], \A h \in Hs : IsBucket(bs[h])
  PROVE  /\ DOMAIN bs = 0 .. Capacity - 1
         /\ \A h \in DOMAIN bs : /\ bs[h].capacity \in Nat \ {0} /\ bs[h].length \in Nat
                                 /\ \A i \in DOMAIN bs[h].array : bs[h].array[i] \in CellType
BY ArrayCells DEF Hs, IsBucket

LEMMA HistoryTyped ==
  ASSUME Typed, Watch, DOMAIN buckets' = Hs
  PROVE  /\ races' = [make |-> races'.make, set |-> races'.set, get |-> races'.get]
         /\ races' \in [make : BOOLEAN, set : SUBSET DOMAIN buckets', get : SUBSET DOMAIN buckets']
<1>1. /\ races.make \in BOOLEAN /\ races.set \subseteq Hs /\ races.get \subseteq Hs
      /\ DOMAIN buckets = Hs
  BY DEF Typed, TypeOK, Hs
<1>2. Crowd(MakePcs)' \in BOOLEAN
  BY DEF Crowd
<1>3. /\ races' = [make |-> races'.make, set |-> races'.set, get |-> races'.get]
      /\ races'.make = (races.make \/ Crowd(MakePcs)')
      /\ races'.set \subseteq Hs /\ races'.get \subseteq Hs
  BY <1>1 DEF Watch
<1>4. races'.make \in BOOLEAN
  BY <1>1, <1>2, <1>3
<1>5. QED
  BY <1>3, <1>4, <1>1

(* What is common to the steps that use the table.                         *)
LEMMA OthersTyped ==
  ASSUME Typed, HashOfToken, NEW t \in Threads, Others(t), Watch,
         token' \in [Threads -> Token], user' \in [Threads -> Numbers \cup {Null}],
         IsBucket(buckets'[Bucket(t)]),
         \/ DOMAIN buckets'[Bucket(t)].array = DOMAIN Mine(t).array
         \/ pc[t] \in {"swap", "pairSwap"},
         undefined' \in BOOLEAN,
         ~undefined' => Holding(pc'[t], reg'[t], fresh'[t], Mine(t)'.array)
  PROVE  Typed'
<1>1. /\ pc \in [Threads -> Pcs] /\ token \in [Threads -> Token] /\ buckets = [g \in Hs |-> buckets[g]]
      /\ \A h \in Hs : IsBucket(buckets[h])
      /\ ~undefined /\ \A s \in Threads : Holding(pc[s], reg[s], fresh[s], Mine(s).array)
      /\ \A s \in Threads : Bucket(s) \in Hs
  BY BucketInside DEF Typed, TypeOK, Bucket, Others
<1>2. /\ buckets' = [g \in Hs |-> buckets'[g]] /\ \A g \in Hs : IsBucket(buckets'[g])
      /\ \A g \in Hs : g # Bucket(t) => buckets'[g] = buckets[g]
  BY <1>1 DEF Others
<1>3. \A s \in Threads \ {t} : pc'[s] = pc[s] /\ Bucket(s)' = Bucket(s)
  BY <1>1 DEF Others, Bucket
<1>4. pc' \in [Threads -> Pcs] /\ \A s \in Threads : pc'[s] \in MakePcs => pc[s] \in MakePcs
  BY <1>1, <1>3 DEF Others
<1>5. DOMAIN buckets' = Hs
  BY <1>2
<1>6. TypeOK'
  <2>1. /\ DOMAIN buckets' = 0 .. Capacity - 1
        /\ \A h \in DOMAIN buckets' :
             /\ buckets'[h].capacity \in Nat \ {0} /\ buckets'[h].length \in Nat
             /\ \A i \in DOMAIN buckets'[h].array : buckets'[h].array[i] \in CellType
    BY <1>2, BucketsTyped
  <2>2. races' \in [make : BOOLEAN, set : SUBSET DOMAIN buckets', get : SUBSET DOMAIN buckets']
    BY <1>5, HistoryTyped
  <2>3. logins' \in 0 .. MaxLogins /\ given' \subseteq Token \X (1 .. MaxLogins)
    BY DEF Typed, TypeOK, Others
  <2>4. QED
    BY <1>4, <2>1, <2>2, <2>3 DEF TypeOK, Numbers
<1>7. ASSUME NEW s \in Threads \ {t} PROVE Holding(pc'[s], reg'[s], fresh'[s], Mine(s)'.array)
  <2>1. Holding(pc[s], reg[s], fresh[s], Mine(s).array)
    BY <1>1
  <2>2. pc'[s] = pc[s] /\ Mine(s)' = buckets'[Bucket(s)] /\ fresh'[s] = fresh[s]
    BY <1>3 DEF Mine, Others
  <2>3. CASE Bucket(s) # Bucket(t)
    <3>1. Mine(s)' = Mine(s) /\ reg'[s] = reg[s]
      BY <1>1, <1>2, <2>2, <2>3 DEF Mine, Others
    <3>2. QED
      BY <2>1, <2>2, <3>1
  <2>4. CASE Bucket(s) = Bucket(t) /\ pc[t] \in {"swap", "pairSwap"} /\ pc[s] = "use"
    <3>1. reg'[s] = Gone
      BY <2>4 DEF Others
    <3>2. QED
      BY <2>2, <2>4, <3>1 DEF Holding
  <2>5. CASE Bucket(s) = Bucket(t) /\ pc[t] \in {"swap", "pairSwap"} /\ pc[s] # "use"
    <3>1. reg'[s] = reg[s]
      BY <2>5 DEF Others
    <3>2. QED
      BY <2>1, <2>2, <2>5, <3>1 DEF Holding
  <2>6. CASE Bucket(s) = Bucket(t) /\ pc[t] \notin {"swap", "pairSwap"}
    <3>1. reg'[s] = reg[s] /\ DOMAIN Mine(s)'.array = DOMAIN Mine(s).array
      BY <2>2, <2>6 DEF Others, Mine
    <3>2. QED
      BY <2>1, <2>2, <3>1 DEF Holding
  <2>7. QED
    BY <2>3, <2>4, <2>5, <2>6
<1>8. /\ rng' \in Nat \X Nat /\ (logins' # 0 => rng' \in Draw)
      /\ \A s \in Threads : pc'[s] \in MakePcs => logins' # 0
      /\ reg' = [s \in Threads |-> reg'[s]] /\ fresh' = [s \in Threads |-> fresh'[s]]
  BY <1>4 DEF Typed, Others
<1>9. races' = [make |-> races'.make, set |-> races'.set, get |-> races'.get]
  BY <1>5, HistoryTyped
<1>10. ~undefined' => \A s \in Threads : Holding(pc'[s], reg'[s], fresh'[s], Mine(s)'.array)
  BY <1>7
<1>11. QED
  BY <1>2, <1>6, <1>8, <1>9, <1>10 DEF Typed

LEMMA SetStaysTyped ==
  ASSUME Typed, IInv, HashOfToken, NEW t \in Threads, InTable(t), Watch
  PROVE  Typed'
<1>1. /\ Others(t) /\ token' = token /\ user' = user
      /\ pc[t] \in SetPcs \cup {"length"} /\ pc'[t] \in SetPcs \cup {"return"}
  BY SetOthers
<1>2. user[t] \in Numbers
  <2>1. LogsIn(t)
    BY <1>1 DEF LogsIn, Having
  <2>2. user[t] \in 1 .. logins /\ logins \in 0 .. MaxLogins
    BY <2>1 DEF IInv, Counted, Typed, TypeOK
  <2>3. QED
    BY <2>2, SessionsAssumption DEF Numbers
<1>3. /\ IsBucket(buckets'[Bucket(t)])
      /\ \/ DOMAIN buckets'[Bucket(t)].array = DOMAIN Mine(t).array
         \/ pc[t] \in {"swap", "pairSwap"}
      /\ undefined' \in BOOLEAN
      /\ ~undefined' => Holding(pc'[t], reg'[t], fresh'[t], <<>>)
  BY <1>2, SetTyped
<1>4. ~undefined' => Holding(pc'[t], reg'[t], fresh'[t], Mine(t)'.array)
  BY <1>1, <1>3 DEF Holding, SetPcs
<1>5. token' \in [Threads -> Token] /\ user' \in [Threads -> Numbers \cup {Null}]
  BY <1>1 DEF Typed, TypeOK, Numbers
<1>6. QED
  BY <1>1, <1>3, <1>4, <1>5, OthersTyped

(* The steps of a lookup write nothing.                                    *)
Met(k, r, b) == {i \in 0 .. r - 1 : b.array[i].key = k}

LEMMA LastMet ==
  ASSUME NEW b, IsBucket(b), NEW k, NEW r \in Nat \ {0}, r - 1 \in DOMAIN b.array, Met(k, r, b) # {}
  PROVE  LET i == CHOOSE x \in Met(k, r, b) : \A j \in Met(k, r, b) : j <= x IN
         i \in Met(k, r, b) /\ i \in DOMAIN b.array /\ 0 .. r - 1 \subseteq DOMAIN b.array
<1>1. Met(k, r, b) \in SUBSET (0 .. r - 1) /\ r - 1 \in Nat
  BY DEF Met
<1>2. \E x \in Met(k, r, b) : \A j \in Met(k, r, b) : j <= x
  BY <1>1, Turns!LastExists
<1>3. PICK n \in Nat \ {0} : b.array \in [0 .. n - 1 -> CellType]
  BY DEF IsBucket, IsArray
<1>4. 0 .. r - 1 \subseteq DOMAIN b.array
  BY <1>3
<1>5. QED
  BY <1>1, <1>2, <1>4

LEMMA GetOthers ==
  ASSUME Typed, HashOfToken, NEW t \in Threads, Get(t)
  PROVE  /\ Others(t) /\ buckets' = buckets /\ undefined' \in BOOLEAN
         /\ token' \in [Threads -> Token] /\ user' \in [Threads -> Numbers \cup {Null}]
         /\ pc[t] \in {"idle", "answer"} \cup GetPcs /\ pc'[t] \in {"idle", "answer"} \cup GetPcs
         /\ ~undefined' => Holding(pc'[t], reg'[t], fresh'[t], Mine(t)'.array)
<1>1. /\ pc \in [Threads -> Pcs] /\ token \in [Threads -> Token] /\ buckets = [h \in Hs |-> buckets[h]]
      /\ reg = [s \in Threads |-> reg[s]] /\ fresh = [s \in Threads |-> fresh[s]]
      /\ user \in [Threads -> Numbers \cup {Null}] /\ undefined \in BOOLEAN
      /\ given \subseteq Token \X Numbers
      /\ Bucket(t) \in Hs /\ IsBucket(Mine(t))
  BY BucketInside DEF Typed, TypeOK, Bucket, Numbers, Mine
<1>2. ~undefined => Holding(pc[t], reg[t], fresh[t], Mine(t).array)
  BY DEF Typed
<1>3. <<>> \in Token
  BY DEF Token
<1>4. CASE StartCheck(t)
  <2>1. PICK g \in given : /\ Step(t, "idle", "find") /\ token' = [token EXCEPT ![t] = g[1]]
                           /\ reg' = [reg EXCEPT ![t] = buckets[Hash(g[1]) % Capacity].capacity]
                           /\ UNCHANGED <<user, fresh>> /\ Read
    BY <1>4 DEF StartCheck
  <2>2. g[1] \in Token
    BY <1>1
  <2>3. buckets[Hash(g[1]) % Capacity].capacity \in Nat \ {0}
    BY <2>2, BucketInside DEF Typed, IsBucket
  <2>4. /\ pc[t] = "idle" /\ pc' = [pc EXCEPT ![t] = "find"] /\ ~undefined
        /\ undefined' = undefined /\ buckets' = buckets /\ given' = given
        /\ logins' = logins /\ rng' = rng
    BY <2>1 DEF Step, Read, generator
  <2>5. token' \in [Threads -> Token] /\ user' \in [Threads -> Numbers \cup {Null}]
    BY <1>1, <2>1, <2>2
  <2>6. Others(t) /\ pc'[t] = "find"
    BY <1>1, <2>1, <2>4 DEF Others, Pcs, MakePcs, GetPcs
  <2>7. Holding(pc'[t], reg'[t], fresh'[t], Mine(t)'.array)
    BY <1>1, <2>1, <2>3, <2>6 DEF Holding
  <2>8. QED
    BY <1>1, <2>4, <2>5, <2>6, <2>7 DEF GetPcs
<1>5. CASE Find(t)
  <2> DEFINE b == Mine(t)
             inside == b.length = 0 \/ reg[t] - 1 \in DOMAIN b.array
             cells == IF b.length = 0 \/ ~inside THEN {} ELSE Met(token[t], reg[t], b)
             i == CHOOSE x \in cells : \A j \in cells : j <= x
  <2>1. /\ Step(t, "find", IF cells = {} THEN "answer" ELSE "use")
        /\ Keep(t, IF cells = {} THEN Null ELSE i)
        /\ Write(t, inside, b)
    BY <1>5 DEF Find, Met
  <2>2. reg[t] \in Nat \ {0}
    BY <1>2, <2>1 DEF Step, Holding
  <2>3. cells # {} => i \in DOMAIN b.array
    <3> SUFFICES ASSUME cells # {} PROVE i \in DOMAIN b.array
      OBVIOUS
    <3>1. cells = Met(token[t], reg[t], b) /\ reg[t] - 1 \in DOMAIN b.array /\ IsBucket(b)
      BY <1>1
    <3> HIDE DEF cells, b
    <3>2. QED
      BY <2>2, <3>1, LastMet
  <2> HIDE DEF inside, cells, i
  <2>4. buckets' = buckets /\ undefined' \in BOOLEAN
    BY <1>1, <2>1 DEF Write, Mine
  <2>5. /\ pc[t] = "find" /\ pc'[t] \in {"answer", "use"} /\ (pc'[t] = "use" => reg'[t] \in DOMAIN b.array)
    BY <1>1, <2>1, <2>3 DEF Step, Keep
  <2>6. Others(t)
    BY <1>1, <2>1, <2>4, <2>5 DEF Others, Step, Keep, Write, Pcs, MakePcs, GetPcs, generator
  <2>7. token' = token /\ user' = user /\ Mine(t)' = b
    BY <2>1, <2>4 DEF Keep, Mine, Bucket
  <2>8. QED
    BY <1>1, <2>4, <2>5, <2>6, <2>7 DEF Holding, GetPcs
<1>6. CASE Use(t)
  <2>1. /\ pc[t] = "use" /\ pc'[t] = "answer" /\ undefined' = (reg[t] = Gone) /\ ~undefined
        /\ user' = [user EXCEPT ![t] = IF undefined' THEN Null ELSE Mine(t).array[reg[t]].value]
        /\ token' = token /\ buckets' = buckets
    BY <1>1, <1>6 DEF Use, Step, ValueOf
  <2>2. Others(t)
    BY <1>1, <1>6 DEF Use, Step, Others, generator, Pcs, MakePcs, GetPcs
  <2>3. ~undefined' => Mine(t).array[reg[t]].value \in Numbers \cup {Null}
    BY <1>1, <1>2, <2>1, ArrayCells DEF Holding, IsBucket
  <2>4. user' \in [Threads -> Numbers \cup {Null}]
    BY <1>1, <2>1, <2>3
  <2>5. undefined' \in BOOLEAN
    BY <2>1
  <2>6. QED
    BY <1>1, <2>1, <2>2, <2>4, <2>5 DEF Holding, GetPcs
<1>7. CASE Answer(t)
  <2>1. pc[t] = "answer" /\ pc'[t] = "idle" /\ undefined' = undefined /\ buckets' = buckets
    BY <1>1, <1>7 DEF Answer, Step, Read
  <2>2. Others(t)
    BY <1>1, <1>7 DEF Answer, Step, Forget, Read, Others, generator, Pcs, MakePcs
  <2>3. token' \in [Threads -> Token] /\ user' \in [Threads -> Numbers \cup {Null}]
    BY <1>1, <1>3, <1>7 DEF Answer, Forget, NoKey
  <2>4. QED
    BY <1>1, <2>1, <2>2, <2>3 DEF Holding
<1>8. QED
  BY <1>4, <1>5, <1>6, <1>7 DEF Get

LEMMA GetStaysTyped ==
  ASSUME Typed, HashOfToken, NEW t \in Threads, Get(t), Watch
  PROVE  Typed'
<1>1. Bucket(t) \in Hs /\ IsBucket(buckets[Bucket(t)])
  BY BucketInside DEF Typed, TypeOK, Bucket
<1>2. QED
  BY <1>1, GetOthers, OthersTyped DEF Mine

(* The steps of a login that leave the table alone.                        *)
LEMMA LoginStaysTyped ==
  ASSUME Typed, IInv, NEW t \in Threads, Make(t) \/ Return(t), Watch
  PROVE  Typed'
<1>1. /\ TypeOK /\ buckets = [h \in Hs |-> buckets[h]] /\ \A h \in Hs : IsBucket(buckets[h])
      /\ rng \in Nat \X Nat /\ (logins # 0 => rng \in Draw)
      /\ reg = [s \in Threads |-> reg[s]] /\ fresh = [s \in Threads |-> fresh[s]]
      /\ \A s \in Threads : pc[s] \in MakePcs => logins # 0
  BY DEF Typed
<1>2. /\ logins \in 0 .. MaxLogins /\ given \subseteq Token \X Numbers /\ pc \in [Threads -> Pcs]
      /\ token \in [Threads -> Token] /\ user \in [Threads -> Numbers \cup {Null}]
      /\ MaxLogins \in Nat /\ <<>> \in Token
  BY <1>1, SessionsAssumption DEF TypeOK, Numbers, Token
<1>3. /\ buckets' = buckets /\ fresh' = fresh /\ undefined' = undefined /\ ~undefined
      /\ pc[t] \in {"idle", "return"} \cup MakePcs /\ pc'[t] \in {"idle", "length"} \cup MakePcs
      /\ pc' = [pc EXCEPT ![t] = pc'[t]]
      /\ \A s \in Threads \ {t} : /\ pc'[s] = pc[s] /\ reg'[s] = reg[s] /\ token'[s] = token[s]
      /\ reg' = [s \in Threads |-> reg'[s]]
  <2>1. CASE StartLogin(t)
    BY <1>1, <1>2, <2>1 DEF StartLogin, Step, MakePcs
  <2>2. CASE LoadRand(t)
    BY <1>1, <1>2, <2>2 DEF LoadRand, Step, Keep, MakePcs
  <2>3. CASE StoreRand(t)
    BY <1>1, <1>2, <2>3 DEF StoreRand, Step, MakePcs
  <2>4. CASE Return(t)
    BY <1>1, <1>2, <2>4 DEF Return, Step, Forget, MakePcs
  <2>5. QED
    BY <2>1, <2>2, <2>3, <2>4 DEF Make
<1>4. \A s \in Threads : Holding(pc[s], reg[s], fresh[s], Mine(s).array)
  BY <1>3 DEF Typed
<1>5. /\ logins' \in 0 .. MaxLogins /\ given' \subseteq Token \X Numbers
      /\ token' \in [Threads -> Token] /\ user' \in [Threads -> Numbers \cup {Null}]
      /\ rng' \in Nat \X Nat /\ (logins' # 0 => rng' \in Draw)
      /\ (pc'[t] \in MakePcs \/ logins # 0) => logins' # 0
      /\ pc'[t] = "drawn" => reg'[t] \in Draw
  <2>1. CASE StartLogin(t)
    BY <1>1, <1>2, <2>1 DEF StartLogin, Step, Seed, Draw, Numbers, MakePcs
  <2>2. CASE LoadRand(t)
    BY <1>1, <1>2, <2>2 DEF LoadRand, Step, Keep, generator, MakePcs
  <2>3. CASE StoreRand(t)
    <3>1. pc[t] = "drawn" /\ pc'[t] # "drawn" /\ logins' = logins /\ given' = given /\ user' = user
      BY <1>2, <2>3 DEF StoreRand, Step
    <3>2. reg[t] \in Draw /\ logins # 0 /\ token[t] \in Token
      BY <1>1, <1>2, <1>4, <3>1 DEF Holding, MakePcs
    <3>3. <<reg[t][1], reg[t][2] + 1>> \in Draw /\ <<reg[t][1], reg[t][2] + 1>> \in Nat \X Nat
      BY <1>2, <3>2 DEF Draw
    <3>4. Append(token[t], reg[t]) \in Token
      BY <3>2 DEF Token
    <3>5. rng' \in Draw /\ rng' \in Nat \X Nat /\ token' \in [Threads -> Token]
      BY <1>2, <2>3, <3>3, <3>4 DEF StoreRand
    <3>6. QED
      BY <1>2, <3>1, <3>2, <3>5
  <2>4. CASE Return(t)
    <3>1. user[t] \in Numbers
      <4>1. LogsIn(t)
        BY <2>4 DEF Return, Step, LogsIn, Having
      <4>2. user[t] \in 1 .. logins
        BY <4>1 DEF IInv, Counted
      <4>3. QED
        BY <1>2, <4>2 DEF Numbers
    <3>2. given' \subseteq Token \X Numbers
      BY <1>2, <2>4, <3>1 DEF Return
    <3>3. QED
      BY <1>1, <1>2, <2>4, <3>2 DEF Return, Step, Forget, NoKey, generator, MakePcs
  <2>5. QED
    BY <2>1, <2>2, <2>3, <2>4 DEF Make
<1>6. DOMAIN buckets' = Hs
  BY <1>1, <1>3
<1>7. TypeOK'
  <2>1. races' \in [make : BOOLEAN, set : SUBSET DOMAIN buckets', get : SUBSET DOMAIN buckets']
    BY <1>6, HistoryTyped
  <2>2. pc' \in [Threads -> Pcs]
    BY <1>2, <1>3 DEF Pcs
  <2>3. QED
    BY <1>1, <1>3, <1>5, <2>1, <2>2 DEF TypeOK, Numbers
<1>8. ASSUME NEW s \in Threads PROVE Holding(pc'[s], reg'[s], fresh'[s], Mine(s)'.array)
  <2>1. CASE s = t
    BY <1>3, <1>5, <2>1 DEF Holding, MakePcs
  <2>2. CASE s # t
    BY <1>3, <1>4, <2>2 DEF Mine, Bucket
  <2>3. QED
    BY <2>1, <2>2
<1>9. \A s \in Threads : pc'[s] \in MakePcs => logins' # 0
  BY <1>1, <1>3, <1>5
<1>10. races' = [make |-> races'.make, set |-> races'.set, get |-> races'.get]
  BY <1>6, HistoryTyped
<1>11. QED
  BY <1>1, <1>3, <1>5, <1>7, <1>8, <1>9, <1>10 DEF Typed

LEMMA StartingTyped == Init => Typed
<1> SUFFICES ASSUME Init PROVE Typed
  OBVIOUS
<1> DEFINE b == [array |-> [i \in 0..0 |-> Blank], length |-> 0, capacity |-> 1]
<1>1. buckets = [h \in Hs |-> b] /\ logins = 0 /\ rng = <<0, 0>> /\ ~undefined
      /\ races = [make |-> FALSE, set |-> {}, get |-> {}] /\ given = {}
  BY DEF Init, Hs
<1>2. IsBucket(b)
  <2>1. b.array \in [0 .. 1 - 1 -> CellType] /\ 1 \in Nat \ {0}
    BY Cells
  <2>2. IsArray(b.array)
    BY <2>1 DEF IsArray
  <2>3. QED
    BY <2>2 DEF IsBucket
<1> HIDE DEF b
<1>3. \A h \in Hs : buckets[h] = b
  BY <1>1
<1>4. /\ pc \in [Threads -> Pcs] /\ token \in [Threads -> Token]
      /\ user \in [Threads -> 1 .. MaxLogins \cup {Null}]
      /\ reg = [s \in Threads |-> reg[s]] /\ fresh = [s \in Threads |-> fresh[s]]
      /\ \A s \in Threads : pc[s] = "idle"
  BY DEF Init, Pcs, NoKey, Token
<1>5. TypeOK
  <2>1. /\ DOMAIN buckets = 0 .. Capacity - 1
        /\ \A h \in DOMAIN buckets :
             /\ buckets[h].capacity \in Nat \ {0} /\ buckets[h].length \in Nat
             /\ \A i \in DOMAIN buckets[h].array : buckets[h].array[i] \in CellType
    BY <1>1, <1>2, <1>3, BucketsTyped
  <2>2. undefined = FALSE
    BY DEF Init
  <2>3. undefined \in BOOLEAN
    BY <2>2
  <2>4. 0 \in 0 .. MaxLogins
    BY SessionsAssumption
  <2>5. QED
    BY <1>1, <1>4, <2>1, <2>3, <2>4 DEF TypeOK
<1>6. QED
  BY <1>1, <1>2, <1>3, <1>4, <1>5 DEF Typed, Holding, MakePcs

LEMMA StayingTyped ==
  ASSUME HashOfToken
  PROVE  Typed /\ IInv /\ [Next]_vars => Typed'
<1> SUFFICES ASSUME Typed, IInv, [Next]_vars PROVE Typed'
  OBVIOUS
<1>1. CASE UNCHANGED vars
  BY <1>1 DEF vars, generator, locals, Typed, TypeOK, Mine, Bucket
<1>2. CASE Next
  <2>1. PICK t \in Threads : Make(t) \/ Set(t) \/ Get(t)
    BY <1>2 DEF Next
  <2>2. Watch
    BY <1>2 DEF Next
  <2>3. CASE Make(t) \/ Return(t)
    BY <2>2, <2>3, LoginStaysTyped
  <2>4. CASE InTable(t)
    BY <2>2, <2>4, SetStaysTyped
  <2>5. CASE Get(t)
    BY <2>2, <2>5, GetStaysTyped
  <2>6. QED
    BY <2>1, <2>3, <2>4, <2>5 DEF Set, InTable
<1>3. QED
  BY <1>1, <1>2

(* The table, the tokens and what threads hold stay well typed, even when  *)
(* calls of the table overlap, whatever the hashes: as long as the program *)
(* has a meaning a bucket is an array of at least one cell, of keys and    *)
(* users, and what a lookup found is a cell of it or was freed.            *)
THEOREM Typing ==
  ASSUME HashOfToken
  PROVE  Spec => []TypeOK
<1>1. Typed => TypeOK
  BY DEF Typed
<1>2. Typed /\ IInv /\ [Next]_vars => Typed'
  BY StayingTyped
<1>3. QED
  BY Starting, StaysIInv, StartingTyped, <1>1, <1>2, PTL DEF Spec

-----------------------------------------------------------------------------
(* A bucket with a set at p in it, having read r and filled f, or with no  *)
(* set in it: p is then "length" or "return".                              *)
Taken(b) == {i \in DOMAIN b.array : ~IsFree(b, i)}

Sound(b, p, r, f, k) ==
  /\ p \notin {"pairCapacity", "pairSwap", "pairTwo"}
  /\ DOMAIN b.array = 0 .. (IF p \in {"double", "doubled"} THEN 2 * b.capacity ELSE b.capacity) - 1
  /\ Cardinality(Taken(b)) = IF p \in AddedPcs THEN b.length + 1 ELSE b.length
  /\ p \in {"first", "onlyKey", "onlyValue", "onlyOne"} => b.length = 0
  /\ p \in {"onlyValue", "onlyOne"} => Taken(b) = {0}
  /\ p \in {"from", "scan", "key", "value", "copy", "swap", "double", "doubled", "count", "counted"} =>
       b.length # 0
  /\ p \in {"scan", "doubled"} => r = b.capacity
  /\ p = "key" => r \in DOMAIN b.array /\ IsFree(b, r)
  /\ p = "onlyValue" => b.array[0].key = k
  /\ p = "value" => r \in DOMAIN b.array /\ b.array[r].key = k
  /\ p \in {"copy", "swap"} => Taken(b) = 0 .. b.capacity - 1
  /\ p = "swap" => f = [i \in 0 .. 2 * b.capacity - 1 |-> IF i < b.capacity THEN b.array[i] ELSE Blank]
  /\ p = "counted" => r = b.length

(* The cells a set of key k leaves alone.                                  *)
Grown(b, c, k) ==
  /\ b.capacity <= c.capacity /\ DOMAIN b.array \subseteq DOMAIN c.array
  /\ \A i \in DOMAIN b.array : b.array[i].key \notin {NoKey, k} => c.array[i] = b.array[i]
  /\ \A i \in DOMAIN c.array : c.array[i].key \notin {NoKey, k} => i \in DOMAIN b.array /\ c.array[i] = b.array[i]

LEMMA TakenCount ==
  ASSUME NEW b, IsBucket(b)
  PROVE  /\ IsFiniteSet(Taken(b)) /\ Cardinality(Taken(b)) \in Nat
         /\ Cardinality(Taken(b)) = 0 => Taken(b) = {}
         /\ \A n \in Nat : Taken(b) = 0 .. n - 1 => Cardinality(Taken(b)) = n
<1>1. PICK n \in Nat \ {0} : b.array \in [0 .. n - 1 -> CellType]
  BY DEF IsBucket, IsArray
<1>2. Taken(b) \subseteq 0 .. n - 1 /\ IsFiniteSet(0 .. n - 1)
  <2>1. Taken(b) \subseteq 0 .. n - 1
    BY <1>1 DEF Taken
  <2>2. QED
    BY <2>1, FS_Interval
<1>3. IsFiniteSet(Taken(b)) /\ Cardinality(Taken(b)) \in Nat
  BY <1>2, FS_Subset, FS_CardinalityType
<1>4. Cardinality(Taken(b)) = 0 => Taken(b) = {}
  BY <1>3, FS_EmptySet
<1>5. ASSUME NEW m \in Nat PROVE Cardinality(0 .. m - 1) = m
  BY FS_Interval
<1>6. QED
  BY <1>3, <1>4, <1>5

LEMMA KeyStored ==
  ASSUME NEW b, IsBucket(b), NEW i \in DOMAIN b.array, IsFree(b, i), NEW k, k # NoKey,
         NEW c, c = [b EXCEPT !.array[i].key = k]
  PROVE  /\ c.length = b.length /\ c.capacity = b.capacity /\ DOMAIN c.array = DOMAIN b.array
         /\ c.array[i].key = k /\ Grown(b, c, k)
         /\ Taken(c) = Taken(b) \cup {i}
         /\ Cardinality(Taken(c)) = Cardinality(Taken(b)) + 1
<1>1. b.array[i] \in CellType /\ DOMAIN b.array[i] = {"key", "value"}
  BY ArrayCells DEF IsBucket, CellType
<1>2. c.length = b.length /\ c.capacity = b.capacity /\ c.array = [b.array EXCEPT ![i].key = k]
      /\ b.capacity \in Nat
  BY DEF IsBucket
<1>3. DOMAIN c.array = DOMAIN b.array /\ c.array[i].key = k
      /\ \A j \in DOMAIN b.array : j # i => c.array[j] = b.array[j]
  <2>1. PICK n \in Nat \ {0} : b.array \in [0 .. n - 1 -> CellType]
    BY DEF IsBucket, IsArray
  <2>2. QED
    BY <1>1, <1>2, <2>1
<1>4. Taken(c) = Taken(b) \cup {i} /\ i \notin Taken(b)
  BY <1>3 DEF Taken, IsFree
<1>5. Cardinality(Taken(c)) = Cardinality(Taken(b)) + 1
  BY <1>4, TakenCount, FS_AddElement
<1>6. Grown(b, c, k)
  BY <1>2, <1>3 DEF Grown, IsFree
<1>7. QED
  BY <1>2, <1>3, <1>4, <1>5, <1>6

LEMMA ValuePut ==
  ASSUME NEW a, IsArray(a), NEW i \in DOMAIN a, NEW v
  PROVE  LET c == [a EXCEPT ![i].value = v] IN
         /\ DOMAIN c = DOMAIN a /\ c[i].key = a[i].key /\ c[i].value = v
         /\ c[i] = [key |-> a[i].key, value |-> v]
         /\ \A j \in DOMAIN a : j # i => c[j] = a[j]
<1>1. PICK n \in Nat \ {0} : a \in [0 .. n - 1 -> CellType]
  BY DEF IsArray
<1>2. QED
  BY <1>1 DEF CellType

LEMMA ValueStored ==
  ASSUME NEW b, IsBucket(b), NEW i \in DOMAIN b.array, NEW v,
         NEW c, c.length = b.length, c.capacity = b.capacity, c.array = [b.array EXCEPT ![i].value = v]
  PROVE  DOMAIN c.array = DOMAIN b.array /\ Taken(c) = Taken(b) /\ Grown(b, c, b.array[i].key)
<1>1. /\ DOMAIN c.array = DOMAIN b.array /\ c.array[i].key = b.array[i].key
      /\ \A j \in DOMAIN b.array : j # i => c.array[j] = b.array[j]
  BY ValuePut DEF IsBucket
<1>2. Taken(c) = Taken(b)
  BY <1>1 DEF Taken, IsFree
<1>3. Grown(b, c, b.array[i].key)
  BY <1>1 DEF Grown, IsBucket
<1>4. QED
  BY <1>1, <1>2, <1>3

(* A full bucket grows, and the entry is the first cell added.             *)
Doubled(a, e, n, k) ==
  /\ DOMAIN a = 0 .. n - 1 /\ DOMAIN e = 0 .. 2 * n - 1 /\ e[n].key = k
  /\ \A i \in 0 .. n - 1 : e[i] = a[i]
  /\ \A i \in n + 1 .. 2 * n - 1 : e[i] = Blank

LEMMA Enlarged ==
  ASSUME NEW b, NEW c, NEW n \in Nat \ {0}, b.capacity = n, c.capacity = n, Taken(b) = 0 .. n - 1,
         NEW k, k # NoKey, Doubled(b.array, c.array, n, k)
  PROVE  Grown(b, c, k) /\ Cardinality(Taken(c)) = n + 1
<1> USE DEF Doubled
<1>1. Blank.key = NoKey /\ \A i \in 0 .. n - 1 : b.array[i].key # NoKey
  BY DEF Blank, Taken, IsFree
<1>2. Taken(c) = 0 .. n
  BY <1>1 DEF Taken, IsFree
<1>3. Cardinality(0 .. n) = n + 1
  <2>1. 0 \in Int /\ n \in Int /\ ~(0 > n) /\ n - 0 + 1 = n + 1
    OBVIOUS
  <2>2. QED
    BY <2>1, FS_Interval
<1>4. Grown(b, c, k)
  BY <1>1 DEF Grown
<1>5. QED
  BY <1>2, <1>3, <1>4

LEMMA SetSound ==
  ASSUME Typed, IInv, HashOfToken, NEW t \in Threads, InTable(t),
         Sound(Mine(t), pc[t], reg[t], fresh[t], token[t])
  PROVE  LET c == buckets'[Bucket(t)] IN
         /\ Sound(c, pc'[t], reg'[t], fresh'[t], token[t])
         /\ Grown(Mine(t), c, token[t])
         /\ undefined' => pc[t] = "swap" /\ Inside(Bucket(t), UsePcs) \ {t} # {}
<1> DEFINE h == Bucket(t)
           b == buckets[h]
           r == reg[t]
           c == buckets'[h]
           k == token[t]
<1>1. /\ pc \in [Threads -> Pcs] /\ buckets = [g \in Hs |-> buckets[g]]
      /\ reg = [s \in Threads |-> reg[s]] /\ fresh = [s \in Threads |-> fresh[s]]
      /\ h \in Hs /\ IsBucket(b)
      /\ b = [array |-> b.array, length |-> b.length, capacity |-> b.capacity]
      /\ IsArray(b.array) /\ b.length \in Nat /\ b.capacity \in Nat \ {0}
  BY BucketInside DEF Typed, TypeOK, Bucket, IsBucket
<1>2. Sound(b, pc[t], r, fresh[t], k)
  BY DEF Mine
<1>3. k # NoKey /\ pc'[t] \in SetPcs \cup {"return"}
  <2>1. pc[t] \in SetPcs \cup {"length"} /\ pc'[t] \in SetPcs \cup {"return"}
    BY SetOthers
  <2>2. QED
    BY <2>1 DEF IInv, Drawing, Having, NoKey
<1>4. /\ IsFiniteSet(Taken(b)) /\ Cardinality(Taken(b)) \in Nat
      /\ Cardinality(Taken(b)) = 0 => Taken(b) = {}
      /\ \A n \in Nat : Taken(b) = 0 .. n - 1 => Cardinality(Taken(b)) = n
  BY <1>1, TakenCount
<1>5. DOMAIN b.array \subseteq Nat /\ 0 \in DOMAIN b.array
  BY <1>1 DEF IsArray
<1>6. Grown(b, b, k)
  BY <1>1 DEF Grown
<1>7. CASE ReadLength(t)
  <2>1. pc[t] = "length" /\ c = b /\ ~undefined' /\ pc'[t] = IF b.length = 0 THEN "first" ELSE "from"
    BY <1>1, <1>7 DEF ReadLength, Step, Read, Mine
  <2>2. QED
    BY <1>2, <1>6, <2>1 DEF Sound, AddedPcs, Mine
<1>8. CASE ReadFirst(t)
  <2>1. /\ pc[t] = "first" /\ c = b /\ ~undefined'
        /\ pc'[t] = IF IsFree(b, 0) THEN "onlyKey" ELSE "pairCapacity"
    BY <1>1, <1>8 DEF ReadFirst, Step, Read, Mine
  <2>2. IsFree(b, 0)
    BY <1>2, <1>4, <1>5, <2>1 DEF Sound, AddedPcs, Taken
  <2>3. QED
    BY <1>2, <1>6, <2>1, <2>2 DEF Sound, AddedPcs, Mine
<1>9. CASE StoreOnlyKey(t)
  <2>1. pc[t] = "onlyKey" /\ pc'[t] = "onlyValue" /\ c = [b EXCEPT !.array[0].key = k] /\ ~undefined'
    BY <1>1, <1>9 DEF StoreOnlyKey, Step, Write, Mine
  <2>2. IsFree(b, 0) /\ Taken(b) = {}
    BY <1>2, <1>4, <1>5, <2>1 DEF Sound, AddedPcs, Taken
  <2>3. /\ c.length = b.length /\ c.capacity = b.capacity /\ DOMAIN c.array = DOMAIN b.array
        /\ c.array[0].key = k /\ Grown(b, c, k) /\ Taken(c) = Taken(b) \cup {0}
        /\ Cardinality(Taken(c)) = Cardinality(Taken(b)) + 1
    <3>1. IsBucket(b) /\ 0 \in DOMAIN b.array /\ c = [b EXCEPT !.array[0].key = k]
      BY <1>1, <1>5, <2>1
    <3>2. k # NoKey
      BY <1>3
    <3> HIDE DEF b, c, k
    <3>3. QED
      BY <2>2, <3>1, <3>2, KeyStored
  <2> HIDE DEF c
  <2>4. QED
    BY <1>2, <2>1, <2>2, <2>3 DEF Sound, AddedPcs, Mine, c
<1>10. CASE StoreOnlyValue(t)
  <2>1. pc[t] = "onlyValue" /\ pc'[t] = "onlyOne" /\ c = [b EXCEPT !.array[0].value = user[t]] /\ ~undefined'
    BY <1>1, <1>10 DEF StoreOnlyValue, Step, Write, Mine
  <2>2. /\ c.length = b.length /\ c.capacity = b.capacity /\ DOMAIN c.array = DOMAIN b.array
        /\ Taken(c) = Taken(b) /\ Grown(b, c, b.array[0].key)
    <3>1. /\ c.length = b.length /\ c.capacity = b.capacity
          /\ c.array = [b.array EXCEPT ![0].value = user[t]]
      BY <1>1, <2>1
    <3>2. IsBucket(b) /\ 0 \in DOMAIN b.array
      BY <1>1, <1>5
    <3> HIDE DEF b, c
    <3>3. QED
      BY <3>1, <3>2, ValueStored
  <2> HIDE DEF c
  <2>3. QED
    BY <1>2, <2>1, <2>2 DEF Sound, AddedPcs, Mine, c
<1>11. CASE LengthOne(t)
  <2>1. pc[t] = "onlyOne" /\ pc'[t] = "return" /\ c = [b EXCEPT !.length = 1] /\ ~undefined'
    BY <1>1, <1>11 DEF LengthOne, Step, Write, Mine
  <2>2. c.array = b.array /\ c.capacity = b.capacity /\ c.length = 1 /\ Taken(c) = Taken(b)
    BY <1>1, <2>1 DEF Taken, IsFree
  <2>3. Grown(b, c, k)
    BY <1>1, <2>2 DEF Grown
  <2> HIDE DEF c
  <2>4. QED
    BY <1>2, <2>1, <2>2, <2>3 DEF Sound, AddedPcs, Mine, c
<1>12. CASE PairCapacity(t) \/ PairSwap(t) \/ PairTwo(t)
  BY <1>2, <1>12 DEF PairCapacity, PairSwap, PairTwo, Step, Sound
<1>13. CASE ReadCapacity(t)
  <2>1. pc[t] = "from" /\ pc'[t] = "scan" /\ c = b /\ ~undefined' /\ reg'[t] = b.capacity
    BY <1>1, <1>13 DEF ReadCapacity, Step, Read, Keep, Mine
  <2>2. QED
    BY <1>2, <1>6, <2>1 DEF Sound, AddedPcs, Mine
<1>14. CASE Scan(t)
  <2> DEFINE inside == r - 1 \in DOMAIN b.array
             holes == IF inside THEN {i \in 0 .. r - 1 : IsFree(b, i)} ELSE {}
             x == CHOOSE i \in holes : \A j \in holes : j <= i
  <2>1. /\ Step(t, "scan", IF holes = {} THEN "copy" ELSE "key")
        /\ Keep(t, IF holes = {} THEN Null ELSE x) /\ Write(t, inside, b)
    BY <1>14 DEF Scan, Mine
  <2>2. r = b.capacity /\ DOMAIN b.array = 0 .. r - 1 /\ inside
    BY <1>1, <1>2, <2>1 DEF Step, Sound
  <2>3. holes # {} => x \in holes
    <3>1. r - 1 \in Nat /\ holes \in SUBSET (0 .. r - 1)
      BY <1>1, <2>2
    <3> HIDE DEF holes
    <3>2. QED
      BY <3>1, Turns!LastExists
  <2>4. holes = {i \in DOMAIN b.array : IsFree(b, i)}
    BY <2>2
  <2>5. (holes # {} => x \in DOMAIN b.array /\ IsFree(b, x)) /\ (holes = {} => Taken(b) = DOMAIN b.array)
    BY <2>3, <2>4 DEF Taken
  <2> HIDE DEF holes, x, inside
  <2>6. /\ pc[t] = "scan" /\ c = b /\ ~undefined'
        /\ pc'[t] = (IF holes = {} THEN "copy" ELSE "key") /\ (holes # {} => reg'[t] = x)
    BY <1>1, <2>1, <2>2 DEF Step, Keep, Write
  <2>7. QED
    BY <1>2, <1>6, <2>2, <2>5, <2>6 DEF Sound, AddedPcs, Mine
<1>15. CASE StoreKey(t)
  <2>1. /\ pc[t] = "key" /\ pc'[t] = "value" /\ reg'[t] = r
        /\ r \in DOMAIN b.array => c = [b EXCEPT !.array[r].key = k] /\ ~undefined'
    BY <1>1, <1>15 DEF StoreKey, Step, Write, Mine, locals
  <2>2. r \in DOMAIN b.array /\ IsFree(b, r)
    BY <1>2, <2>1 DEF Sound
  <2>3. /\ c.length = b.length /\ c.capacity = b.capacity /\ DOMAIN c.array = DOMAIN b.array
        /\ c.array[r].key = k /\ Grown(b, c, k)
        /\ Cardinality(Taken(c)) = Cardinality(Taken(b)) + 1
    <3>1. IsBucket(b) /\ r \in DOMAIN b.array /\ c = [b EXCEPT !.array[r].key = k]
      BY <1>1, <2>1, <2>2
    <3> HIDE DEF b, c, r
    <3>2. QED
      BY <1>3, <2>2, <3>1, KeyStored
  <2> HIDE DEF c
  <2>4. QED
    BY <1>2, <2>1, <2>2, <2>3 DEF Sound, AddedPcs, Mine, c
<1>16. CASE StoreValue(t)
  <2>1. /\ pc[t] = "value" /\ pc'[t] = "count"
        /\ r \in DOMAIN b.array => c = [b EXCEPT !.array[r].value = user[t]] /\ ~undefined'
    BY <1>1, <1>16 DEF StoreValue, Step, Write, Mine
  <2>2. r \in DOMAIN b.array /\ b.array[r].key = k
    BY <1>2, <2>1 DEF Sound
  <2>3. /\ c.length = b.length /\ c.capacity = b.capacity /\ DOMAIN c.array = DOMAIN b.array
        /\ Taken(c) = Taken(b) /\ Grown(b, c, k)
    <3>1. /\ c.length = b.length /\ c.capacity = b.capacity
          /\ c.array = [b.array EXCEPT ![r].value = user[t]]
      BY <1>1, <2>1, <2>2
    <3>2. IsBucket(b) /\ r \in DOMAIN b.array /\ b.array[r].key = k
      BY <1>1, <2>2
    <3> HIDE DEF b, c, r, k
    <3>3. QED
      BY <3>1, <3>2, ValueStored
  <2> HIDE DEF c
  <2>4. QED
    BY <1>2, <2>1, <2>2, <2>3 DEF Sound, AddedPcs, Mine, c
<1>17. CASE Copy(t)
  <2>1. pc[t] = "copy" /\ pc'[t] = "swap"
    BY <1>1, <1>17 DEF Copy, Step
  <2>2. DOMAIN b.array = 0 .. b.capacity - 1
    BY <1>2, <2>1 DEF Sound
  <2>3. /\ c = b /\ ~undefined'
        /\ fresh'[t] = [i \in 0 .. 2 * b.capacity - 1 |-> IF i < b.capacity THEN b.array[i] ELSE Blank]
    BY <1>1, <1>17, <2>2 DEF Copy, Write, Mine, FreshSize
  <2>4. QED
    BY <1>2, <1>6, <2>1, <2>3 DEF Sound, AddedPcs, Mine
<1>18. CASE Swap(t)
  <2>1. pc[t] = "swap" /\ pc'[t] = "double"
    BY <1>1, <1>18 DEF Swap, Step
  <2>2. b.length = b.capacity
    BY <1>1, <1>2, <1>4, <2>1 DEF Sound, AddedPcs
  <2> DEFINE n == b.capacity
             a == [[i \in 0 .. 2 * n - 1 |-> IF i < n THEN b.array[i] ELSE Blank] EXCEPT ![n] = Entry(t)]
  <2>3. /\ fresh[t] = [i \in 0 .. 2 * n - 1 |-> IF i < n THEN b.array[i] ELSE Blank]
        /\ DOMAIN b.array = 0 .. n - 1 /\ Taken(b) = 0 .. n - 1
    BY <1>2, <2>1 DEF Sound
  <2>4. n \in DOMAIN fresh[t]
    BY <1>1, <2>3
  <2>5. c = [b EXCEPT !.array = a] /\ (undefined' => Inside(h, UsePcs) \ {t} # {})
    BY <1>1, <1>18, <2>2, <2>3, <2>4 DEF Swap, Freed, Slot, Mine
  <2>6. Entry(t).key = k
    BY DEF Entry
  <2>7. /\ c.length = n /\ c.capacity = n /\ DOMAIN c.array = 0 .. 2 * n - 1
        /\ Grown(b, c, k) /\ Cardinality(Taken(c)) = n + 1
    <3>1. n \in Nat \ {0} /\ b.capacity = n /\ b.length = n
      BY <1>1, <2>2
    <3>2. c.length = n /\ c.capacity = n /\ c.array = a
      BY <1>1, <2>2, <2>5
    <3>3. Doubled(b.array, c.array, n, k) /\ DOMAIN c.array = 0 .. 2 * n - 1
      BY <2>3, <2>6, <3>1, <3>2 DEF Doubled
    <3>4. Taken(b) = 0 .. n - 1 /\ k # NoKey
      BY <1>3, <2>3
    <3>5. c.length = n /\ c.capacity = n
      BY <3>2
    <3> HIDE DEF a, b, c, n, k
    <3>6. Grown(b, c, k) /\ Cardinality(Taken(c)) = n + 1
      BY <3>1, <3>3, <3>4, <3>5, Enlarged
    <3>7. QED
      BY <3>3, <3>5, <3>6
  <2> HIDE DEF c, a
  <2>8. QED
    BY <2>1, <2>2, <2>5, <2>7 DEF Sound, AddedPcs, Mine, c
<1>19. CASE LoadCapacity(t)
  <2>1. pc[t] = "double" /\ pc'[t] = "doubled" /\ c = b /\ ~undefined' /\ reg'[t] = b.capacity
    BY <1>1, <1>19 DEF LoadCapacity, Step, Read, Keep, Mine
  <2>2. QED
    BY <1>2, <1>6, <2>1 DEF Sound, AddedPcs, Mine
<1>20. CASE StoreCapacity(t)
  <2>1. pc[t] = "doubled" /\ pc'[t] = "count" /\ c = [b EXCEPT !.capacity = 2 * r] /\ ~undefined'
    BY <1>1, <1>20 DEF StoreCapacity, Step, Write, Mine
  <2>2. r = b.capacity
    BY <1>2, <2>1 DEF Sound
  <2>3. c.array = b.array /\ c.capacity = 2 * b.capacity /\ c.length = b.length /\ Taken(c) = Taken(b)
    BY <1>1, <2>1, <2>2 DEF Taken, IsFree
  <2>4. Grown(b, c, k)
    BY <1>1, <2>3 DEF Grown
  <2> HIDE DEF c
  <2>5. QED
    BY <1>2, <2>1, <2>3, <2>4 DEF Sound, AddedPcs, Mine, c
<1>21. CASE LoadLength(t)
  <2>1. pc[t] = "count" /\ pc'[t] = "counted" /\ c = b /\ ~undefined' /\ reg'[t] = b.length
    BY <1>1, <1>21 DEF LoadLength, Step, Read, Keep, Mine
  <2>2. QED
    BY <1>2, <1>6, <2>1 DEF Sound, AddedPcs, Mine
<1>22. CASE StoreLength(t)
  <2>1. pc[t] = "counted" /\ pc'[t] = "return" /\ c = [b EXCEPT !.length = r + 1] /\ ~undefined'
    BY <1>1, <1>22 DEF StoreLength, Step, Write, Mine
  <2>2. r = b.length
    BY <1>2, <2>1 DEF Sound
  <2>3. c.array = b.array /\ c.capacity = b.capacity /\ c.length = b.length + 1 /\ Taken(c) = Taken(b)
    BY <1>1, <2>1, <2>2 DEF Taken, IsFree
  <2>4. Grown(b, c, k)
    BY <1>1, <2>3 DEF Grown
  <2> HIDE DEF c
  <2>5. QED
    BY <1>2, <2>1, <2>3, <2>4 DEF Sound, AddedPcs, Mine, c
<1>23. QED
  BY <1>7, <1>8, <1>9, <1>10, <1>11, <1>12, <1>13, <1>14, <1>15, <1>16, <1>17, <1>18, <1>19,
     <1>20, <1>21, <1>22 DEF InTable

-----------------------------------------------------------------------------
(* A bucket in which no two sets have met is sound, and what a lookup has  *)
(* read of it is inside its array, or was freed under it.                  *)
Shelf ==
  ~undefined => \A h \in Hs \ races.set :
    /\ \A s, t \in Inside(h, SetPcs) : s = t
    /\ Inside(h, SetPcs) = {} => Sound(buckets[h], "length", Null, Null, NoKey)
    /\ \A t \in Inside(h, SetPcs) : Sound(buckets[h], pc[t], reg[t], fresh[t], token[t])

Readers ==
  ~undefined => \A t \in Threads : Bucket(t) \notin races.set =>
    /\ pc[t] = "find" => reg[t] - 1 \in DOMAIN Mine(t).array
    /\ pc[t] = "use" => reg[t] # Gone \/ Bucket(t) \in races.get

SInv == Typed /\ Shelf /\ Readers /\ NoUndefined

LEMMA HistoryGrows ==
  ASSUME Typed, Watch, DOMAIN buckets = Hs
  PROVE  /\ races.set \subseteq races'.set /\ races.get \subseteq races'.get
         /\ \A h \in Hs \ races'.set : \A s, t \in Inside(h, SetPcs)' : s = t
         /\ \A h \in Hs \ races'.get : ~FreedUnder(h)
BY DEF Watch, SetsMeet

LEMMA CellsOf ==
  ASSUME Typed, Shelf, ~undefined, NEW h \in Hs \ races.set
  PROVE  0 .. buckets[h].capacity - 1 \subseteq DOMAIN buckets[h].array
<1>1. \E p, r, f, k : Sound(buckets[h], p, r, f, k)
  BY DEF Shelf
<1>2. buckets[h].capacity \in Nat
  BY DEF Typed, IsBucket
<1>3. QED
  BY <1>1, <1>2 DEF Sound

(* A set that meets no other finds its bucket sound.                       *)
LEMMA SoundBefore ==
  ASSUME Typed, IInv, Shelf, HashOfToken, NEW t \in Threads, InTable(t), Watch,
         NEW h, h = Bucket(t), h \notin races'.set
  PROVE  /\ Sound(Mine(t), pc[t], reg[t], fresh[t], token[t])
         /\ \A s \in Inside(h, SetPcs) : s = t
         /\ pc'[t] = "return" => Inside(h, SetPcs)' = {}
         /\ pc'[t] \in SetPcs => Inside(h, SetPcs)' = {t}
<1>1. /\ Others(t) /\ token' = token /\ pc[t] \in SetPcs \cup {"length"} /\ pc'[t] \in SetPcs \cup {"return"}
  BY SetOthers
<1>2. h \in Hs /\ DOMAIN buckets = Hs /\ pc \in [Threads -> Pcs] /\ ~undefined
  BY <1>1, BucketInside DEF Typed, TypeOK, Bucket, Others
<1>3. /\ h \notin races.set /\ \A s, u \in Inside(h, SetPcs)' : s = u
  BY <1>2, HistoryGrows
<1>4. \A s \in Threads \ {t} : pc'[s] = pc[s] /\ Bucket(s)' = Bucket(s)
  BY <1>1, <1>2 DEF Others, Bucket
<1>5. Bucket(t)' = h
  BY <1>1 DEF Bucket
<1>6. CASE pc[t] \in SetPcs
  <2>1. t \in Inside(h, SetPcs)
    BY <1>6 DEF Inside
  <2>2. \A s \in Inside(h, SetPcs) : s = t
    BY <1>2, <1>3, <2>1 DEF Shelf
  <2>3. Sound(Mine(t), pc[t], reg[t], fresh[t], token[t])
    BY <1>2, <1>3, <2>1 DEF Shelf, Mine
  <2>4. \A s \in Threads : s \in Inside(h, SetPcs)' <=> s = t /\ pc'[t] \in SetPcs
    BY <1>4, <1>5, <2>2 DEF Inside
  <2>5. "return" \notin SetPcs /\ Inside(h, SetPcs)' \subseteq Threads
    BY DEF SetPcs, Inside
  <2>6. QED
    BY <2>2, <2>3, <2>4, <2>5
<1>7. CASE pc[t] = "length"
  <2>1. pc'[t] \in SetPcs
    <3>1. ReadLength(t)
      BY <1>7 DEF InTable, ReadFirst, StoreOnlyKey, StoreOnlyValue, LengthOne, PairCapacity, PairSwap,
                  PairTwo, ReadCapacity, Scan, StoreKey, StoreValue, Copy, Swap, LoadCapacity,
                  StoreCapacity, LoadLength, StoreLength, Step
    <3>2. QED
      BY <1>2, <3>1 DEF ReadLength, Step, SetPcs
  <2>2. t \in Inside(h, SetPcs)' /\ \A s \in Inside(h, SetPcs)' : s = t
    BY <1>3, <1>5, <2>1 DEF Inside
  <2>3. ASSUME NEW s \in Inside(h, SetPcs) PROVE FALSE
    <3>1. s \in Threads /\ pc[s] \in SetPcs /\ Bucket(s) = h
      BY <2>3 DEF Inside
    <3>2. s # t
      BY <1>7, <3>1 DEF SetPcs
    <3>3. s \in Inside(h, SetPcs)'
      BY <1>4, <3>1, <3>2 DEF Inside
    <3>4. QED
      BY <2>2, <3>2, <3>3
  <2>4. Sound(buckets[h], "length", Null, Null, NoKey)
    BY <1>2, <1>3, <2>3 DEF Shelf
  <2>5. Sound(Mine(t), pc[t], reg[t], fresh[t], token[t])
    BY <1>7, <2>4 DEF Sound, AddedPcs, Mine
  <2>6. "return" \notin SetPcs /\ Inside(h, SetPcs)' = {t}
    BY <2>2 DEF SetPcs
  <2>7. QED
    BY <2>1, <2>3, <2>5, <2>6
<1>8. QED
  BY <1>1, <1>6, <1>7

LEMMA SetKeepsShelf ==
  ASSUME Typed, IInv, Shelf, HashOfToken, NEW t \in Threads, InTable(t), Watch
  PROVE  Shelf'
<1>1. /\ Others(t) /\ token' = token /\ pc[t] \in SetPcs \cup {"length"} /\ pc'[t] \in SetPcs \cup {"return"}
  BY SetOthers
<1>2. /\ \A s \in Threads : Bucket(s) \in Hs
      /\ DOMAIN buckets = Hs /\ pc \in [Threads -> Pcs] /\ ~undefined
  BY <1>1, BucketInside DEF Typed, TypeOK, Bucket, Others
<1>3. \A s \in Threads \ {t} : pc'[s] = pc[s] /\ Bucket(s)' = Bucket(s)
  BY <1>1, <1>2 DEF Others, Bucket
<1>4. Bucket(t)' = Bucket(t)
  BY <1>1 DEF Bucket
<1> SUFFICES ASSUME NEW h \in Hs \ races'.set
             PROVE  /\ \A s, u \in Inside(h, SetPcs)' : s = u
                    /\ Inside(h, SetPcs)' = {} => Sound(buckets'[h], "length", Null, Null, NoKey)
                    /\ \A s \in Inside(h, SetPcs)' :
                         Sound(buckets'[h], pc'[s], reg'[s], fresh'[s], token'[s])
  BY DEF Shelf
<1>5. h \notin races.set /\ \A s, u \in Inside(h, SetPcs)' : s = u
  BY <1>2, HistoryGrows
<1>6. CASE h = Bucket(t)
  <2>1. /\ Sound(Mine(t), pc[t], reg[t], fresh[t], token[t])
        /\ pc'[t] = "return" => Inside(h, SetPcs)' = {}
        /\ pc'[t] \in SetPcs => Inside(h, SetPcs)' = {t}
    BY <1>6, SoundBefore
  <2>2. Sound(buckets'[h], pc'[t], reg'[t], fresh'[t], token[t])
    BY <1>6, <2>1, SetSound
  <2>3. pc'[t] = "return" => Sound(buckets'[h], "length", Null, Null, NoKey)
    BY <2>2 DEF Sound, AddedPcs
  <2>4. QED
    BY <1>1, <1>5, <2>1, <2>2, <2>3
<1>7. CASE h # Bucket(t)
  <2>1. buckets'[h] = buckets[h]
    BY <1>1, <1>2, <1>7 DEF Others
  <2>2. \A s \in Threads : s \in Inside(h, SetPcs)' <=> s \in Inside(h, SetPcs)
    BY <1>3, <1>4, <1>7 DEF Inside
  <2>3. \A s \in Inside(h, SetPcs) : /\ pc'[s] = pc[s] /\ reg'[s] = reg[s] /\ fresh'[s] = fresh[s]
                                     /\ token'[s] = token[s] /\ s \in Threads
    BY <1>1, <1>3, <1>7 DEF Inside, SetPcs, Others
  <2>4. Inside(h, SetPcs)' = Inside(h, SetPcs)
    BY <2>2 DEF Inside
  <2>5. QED
    BY <1>2, <1>5, <2>1, <2>3, <2>4 DEF Shelf
<1>8. QED
  BY <1>6, <1>7

LEMMA SetKeepsReaders ==
  ASSUME SInv, IInv, HashOfToken, NEW t \in Threads, InTable(t), Watch
  PROVE  Readers' /\ NoUndefined'
<1>1. /\ Others(t) /\ token' = token /\ pc[t] \in SetPcs \cup {"length"} /\ pc'[t] \in SetPcs \cup {"return"}
  BY SetOthers DEF SInv
<1>2. /\ \A s \in Threads : Bucket(s) \in Hs
      /\ DOMAIN buckets = Hs /\ pc \in [Threads -> Pcs] /\ ~undefined /\ Typed /\ Shelf /\ Readers
  BY <1>1, BucketInside DEF SInv, Typed, TypeOK, Bucket, Others
<1>3. \A s \in Threads : Bucket(s)' = Bucket(s)
  BY <1>1 DEF Bucket
<1>4. \A s \in Threads \ {t} : pc'[s] = pc[s]
  BY <1>1, <1>2 DEF Others
<1>5. /\ races.set \subseteq races'.set /\ races.get \subseteq races'.get
      /\ \A h \in Hs \ races'.get : ~FreedUnder(h)
  BY <1>2, HistoryGrows
<1>6. ASSUME NEW s \in Threads, pc[s] \in GetPcs, Bucket(s) = Bucket(t), pc[t] \in {"swap", "pairSwap"}
      PROVE  Bucket(s) \in races'.get
  <2>1. pc'[t] # pc[t]
    <3>1. pc[t] \in {"swap", "pairSwap"} /\ InTable(t)
      BY <1>6
    <3>2. Swap(t) \/ PairSwap(t)
      BY <3>1 DEF InTable, ReadLength, ReadFirst, StoreOnlyKey, StoreOnlyValue, LengthOne, PairCapacity,
                  PairTwo, ReadCapacity, Scan, StoreKey, StoreValue, Copy, LoadCapacity,
                  StoreCapacity, LoadLength, StoreLength, Step
    <3>3. QED
      BY <1>2, <3>2 DEF Swap, PairSwap, Step
  <2>2. t \in Inside(Bucket(s), {"swap", "pairSwap"}) /\ s \in Inside(Bucket(s), GetPcs)
    BY <1>6 DEF Inside
  <2>3. FreedUnder(Bucket(s))
    BY <2>1, <2>2 DEF FreedUnder
  <2>4. QED
    BY <1>2, <1>5, <2>3
<1>7. Readers'
  <2> SUFFICES ASSUME NEW s \in Threads, Bucket(s) \notin races'.set, pc'[s] \in {"find", "use"}
               PROVE  /\ pc'[s] = "find" => reg'[s] - 1 \in DOMAIN buckets'[Bucket(s)].array
                      /\ pc'[s] = "use" => reg'[s] # Gone \/ Bucket(s) \in races'.get
    BY <1>3 DEF Readers, Mine
  <2>1. s # t /\ pc'[s] = pc[s] /\ Bucket(s) \notin races.set
    BY <1>1, <1>4, <1>5 DEF SetPcs
  <2>2. CASE pc[s] = "find"
    <3>1. reg'[s] = reg[s] /\ reg[s] - 1 \in DOMAIN buckets[Bucket(s)].array
      BY <1>1, <1>2, <2>1, <2>2 DEF Others, Readers, Mine
    <3>2. CASE Bucket(s) = Bucket(t)
      <4>1. Sound(Mine(t), pc[t], reg[t], fresh[t], token[t])
        BY <1>2, <3>2, SoundBefore
      <4>2. Grown(Mine(t), buckets'[Bucket(t)], token[t])
        BY <1>2, <4>1, SetSound
      <4>3. QED
        BY <2>1, <2>2, <3>1, <3>2, <4>2 DEF Grown, Mine
    <3>3. CASE Bucket(s) # Bucket(t)
      BY <1>1, <1>2, <2>1, <2>2, <3>1, <3>3 DEF Others
    <3>4. QED
      BY <3>2, <3>3
  <2>3. CASE pc[s] = "use"
    <3>1. CASE reg'[s] = reg[s]
      BY <1>2, <1>5, <2>1, <2>3, <3>1 DEF Readers
    <3>2. CASE reg'[s] # reg[s]
      <4>1. Bucket(s) = Bucket(t) /\ pc[t] \in {"swap", "pairSwap"}
        BY <1>1, <2>1, <3>2 DEF Others
      <4>2. QED
        BY <1>6, <2>1, <2>3, <4>1 DEF GetPcs
    <3>3. QED
      BY <3>1, <3>2
  <2>4. QED
    BY <2>1, <2>2, <2>3
<1>8. NoUndefined'
  <2> SUFFICES ASSUME undefined', races'.set = {} PROVE races'.get # {}
    BY DEF NoUndefined
  <2>1. /\ Sound(Mine(t), pc[t], reg[t], fresh[t], token[t])
        /\ \A s \in Inside(Bucket(t), SetPcs) : s = t
    BY <1>2, SoundBefore
  <2>2. pc[t] = "swap" /\ Inside(Bucket(t), UsePcs) \ {t} # {}
    BY <1>2, <2>1, SetSound
  <2>3. PICK s \in Inside(Bucket(t), UsePcs) : s # t
    BY <2>2
  <2>4. s \in Threads /\ Bucket(s) = Bucket(t) /\ pc[s] \in UsePcs
    BY <2>3 DEF Inside
  <2>5. pc[s] \notin SetPcs
    BY <2>1, <2>3, <2>4 DEF Inside
  <2>6. pc[s] \in GetPcs
    BY <2>4, <2>5 DEF UsePcs, SetPcs, GetPcs
  <2>7. QED
    BY <1>6, <2>2, <2>4, <2>6
<1>9. QED
  BY <1>7, <1>8

(* A step outside tablec_set leaves the buckets and the sets in them.      *)
LEMMA NoSetKeepsShelf ==
  ASSUME Typed, Shelf, ~undefined, NEW t \in Threads, Watch, buckets' = buckets,
         pc[t] \notin SetPcs, pc'[t] \notin SetPcs,
         \A s \in Threads \ {t} : /\ pc'[s] = pc[s] /\ token'[s] = token[s] /\ fresh'[s] = fresh[s]
                                  /\ pc[s] \in SetPcs => reg'[s] = reg[s]
  PROVE  Shelf'
<1>1. DOMAIN buckets = Hs
  BY DEF Typed
<1> SUFFICES ASSUME NEW h \in Hs \ races'.set
             PROVE  /\ \A s, u \in Inside(h, SetPcs)' : s = u
                    /\ Inside(h, SetPcs)' = {} => Sound(buckets'[h], "length", Null, Null, NoKey)
                    /\ \A s \in Inside(h, SetPcs)' :
                         Sound(buckets'[h], pc'[s], reg'[s], fresh'[s], token'[s])
  BY DEF Shelf
<1>2. h \notin races.set
  BY <1>1, HistoryGrows
<1>3. \A s \in Threads : s \in Inside(h, SetPcs)' <=> s \in Inside(h, SetPcs)
  BY DEF Inside, Bucket
<1>4. \A s \in Inside(h, SetPcs) : /\ pc'[s] = pc[s] /\ reg'[s] = reg[s] /\ fresh'[s] = fresh[s]
                                   /\ token'[s] = token[s]
  BY DEF Inside
<1>5. Inside(h, SetPcs)' = Inside(h, SetPcs)
  BY <1>3 DEF Inside
<1>6. QED
  BY <1>2, <1>4, <1>5 DEF Shelf

LEMMA LoginKeepsSInv ==
  ASSUME SInv, IInv, NEW t \in Threads, Make(t) \/ Return(t), Watch
  PROVE  SInv'
<1>1. Typed' /\ DOMAIN buckets = Hs /\ pc \in [Threads -> Pcs] /\ token \in [Threads -> Token]
  BY LoginStaysTyped DEF SInv, Typed, TypeOK
<1>2. /\ buckets' = buckets /\ fresh' = fresh /\ undefined' = undefined /\ ~undefined
      /\ pc[t] \notin SetPcs \cup GetPcs /\ pc'[t] \notin SetPcs \cup GetPcs
      /\ \A s \in Threads \ {t} : pc'[s] = pc[s] /\ reg'[s] = reg[s] /\ token'[s] = token[s]
  <2> USE <1>1 DEF SetPcs, GetPcs, Step
  <2>0. reg = [s \in Threads |-> reg[s]]
    BY DEF SInv, Typed
  <2>1. CASE StartLogin(t)
    BY <2>1 DEF StartLogin
  <2>2. CASE LoadRand(t)
    BY <2>0, <2>2 DEF LoadRand, Keep
  <2>3. CASE StoreRand(t)
    BY <2>0, <2>3 DEF StoreRand
  <2>4. CASE Return(t)
    BY <2>0, <2>4 DEF Return, Forget
  <2>5. QED
    BY <2>1, <2>2, <2>3, <2>4 DEF Make
<1>3. Shelf'
  BY <1>2, NoSetKeepsShelf DEF SInv
<1>4. races.set \subseteq races'.set /\ races.get \subseteq races'.get
  BY <1>1, HistoryGrows DEF SInv
<1>5. Readers'
  <2>1. \A s \in Threads : pc'[s] \in GetPcs =>
          /\ pc'[s] = pc[s] /\ reg'[s] = reg[s] /\ Bucket(s)' = Bucket(s) /\ Mine(s)' = Mine(s)
    BY <1>2 DEF Bucket, Mine
  <2>2. QED
    BY <1>2, <1>4, <2>1 DEF SInv, Readers, GetPcs
<1>6. NoUndefined'
  BY <1>2 DEF NoUndefined
<1>7. QED
  BY <1>1, <1>3, <1>5, <1>6 DEF SInv

(* What a lookup finds.                                                    *)
LEMMA Finding ==
  ASSUME Typed, HashOfToken, NEW t \in Threads, Find(t)
  PROVE  LET b == Mine(t)
             m == IF b.length = 0 THEN {} ELSE Met(token[t], reg[t], b) IN
         /\ undefined' => reg[t] - 1 \notin DOMAIN b.array
         /\ pc'[t] = "use" => reg'[t] \in m /\ reg'[t] \in DOMAIN b.array
         /\ reg[t] - 1 \in DOMAIN b.array => pc'[t] = IF m = {} THEN "answer" ELSE "use"
<1> DEFINE b == Mine(t)
           m == IF b.length = 0 THEN {} ELSE Met(token[t], reg[t], b)
           inside == b.length = 0 \/ reg[t] - 1 \in DOMAIN b.array
           cells == IF b.length = 0 \/ ~inside THEN {} ELSE Met(token[t], reg[t], b)
           i == CHOOSE x \in cells : \A j \in cells : j <= x
<1>1. /\ Step(t, "find", IF cells = {} THEN "answer" ELSE "use")
      /\ Keep(t, IF cells = {} THEN Null ELSE i)
      /\ Write(t, inside, b)
  BY DEF Find, Met
<1>2. pc[t] = "find" /\ ~undefined /\ pc \in [Threads -> Pcs] /\ reg = [s \in Threads |-> reg[s]]
  BY <1>1 DEF Step, Typed, TypeOK
<1>3. reg[t] \in Nat \ {0}
  BY <1>2 DEF Typed, Holding
<1>4. CASE cells = {}
  BY <1>1, <1>2, <1>4 DEF Step, Write
<1>5. CASE cells # {}
  <2>1. inside /\ reg[t] - 1 \in DOMAIN b.array /\ cells = m /\ m = Met(token[t], reg[t], b)
    BY <1>5
  <2>2. IsBucket(b)
    <3>1. Bucket(t) \in Hs
      BY BucketInside DEF Typed, TypeOK, Bucket
    <3>2. QED
      BY <3>1 DEF Typed, Mine
  <2>3. i \in m /\ i \in DOMAIN b.array
    BY <1>3, <1>5, <2>1, <2>2, LastMet
  <2> HIDE DEF inside, cells, i
  <2>4. QED
    BY <1>1, <1>2, <1>5, <2>1, <2>3 DEF Step, Keep, Write
<1>6. QED
  BY <1>4, <1>5

LEMMA GetKeepsSInv ==
  ASSUME SInv, IInv, HashOfToken, NEW t \in Threads, Get(t), Watch
  PROVE  SInv'
<1>1. /\ Typed /\ Shelf /\ Readers /\ NoUndefined
      /\ Typed' /\ DOMAIN buckets = Hs /\ pc \in [Threads -> Pcs] /\ token \in [Threads -> Token]
  BY GetStaysTyped DEF SInv, Typed, TypeOK
<1>2. /\ Others(t) /\ buckets' = buckets /\ undefined' \in BOOLEAN /\ ~undefined
      /\ pc[t] \in {"idle", "answer"} \cup GetPcs /\ pc'[t] \in {"idle", "answer"} \cup GetPcs
      /\ ~undefined' => Holding(pc'[t], reg'[t], fresh'[t], Mine(t)'.array)
  BY <1>1, GetOthers DEF Others
<1>3. /\ pc[t] \notin SetPcs \cup {"swap", "pairSwap"} /\ pc'[t] \notin SetPcs
      /\ \A s \in Threads \ {t} : /\ pc'[s] = pc[s] /\ reg'[s] = reg[s] /\ token'[s] = token[s]
                                  /\ fresh'[s] = fresh[s]
  BY <1>1, <1>2 DEF Others, SetPcs, GetPcs
<1>4. Shelf'
  BY <1>1, <1>2, <1>3, NoSetKeepsShelf
<1>5. races.set \subseteq races'.set /\ races.get \subseteq races'.get
  BY <1>1, HistoryGrows
<1>6. \A s \in Threads \ {t} : Bucket(s)' = Bucket(s) /\ Mine(s)' = Mine(s)
  BY <1>2, <1>3 DEF Bucket, Mine
<1>7. CASE StartCheck(t)
  <2>1. PICK g \in given : /\ token' = [token EXCEPT ![t] = g[1]] /\ undefined' = undefined
                           /\ reg' = [reg EXCEPT ![t] = buckets[Hash(g[1]) % Capacity].capacity]
                           /\ pc' = [pc EXCEPT ![t] = "find"]
    BY <1>7 DEF StartCheck, Step, Read
  <2>2. /\ Bucket(t)' = Hash(g[1]) % Capacity /\ pc'[t] = "find"
        /\ reg'[t] = buckets[Hash(g[1]) % Capacity].capacity
    <3>1. reg = [s \in Threads |-> reg[s]]
      BY <1>1 DEF Typed
    <3>2. QED
      BY <1>1, <2>1, <3>1 DEF Bucket
  <2>3. Hash(g[1]) % Capacity \in Hs
    BY <1>1, BucketInside DEF Typed, TypeOK
  <2>4. Bucket(t)' \notin races'.set => reg'[t] - 1 \in DOMAIN Mine(t)'.array
    <3> DEFINE h == Hash(g[1]) % Capacity
    <3>1. h \notin races'.set => 0 .. buckets[h].capacity - 1 \subseteq DOMAIN buckets[h].array
      BY <1>1, <1>2, <1>5, <2>3, CellsOf
    <3>2. buckets[h].capacity \in Nat \ {0}
      BY <1>1, <2>3 DEF Typed, IsBucket
    <3>3. Mine(t)' = buckets[h]
      BY <1>2, <2>2 DEF Mine
    <3> HIDE DEF h
    <3>4. QED
      BY <2>2, <3>1, <3>2, <3>3 DEF h
  <2>5. Readers'
    BY <1>1, <1>3, <1>5, <1>6, <2>1, <2>2, <2>4 DEF Readers
  <2>6. QED
    BY <1>1, <1>2, <1>4, <2>1, <2>5 DEF SInv, NoUndefined
<1>8. CASE Find(t)
  <2>1. pc[t] = "find" /\ Bucket(t)' = Bucket(t) /\ Mine(t)' = Mine(t) /\ pc'[t] # "find"
    BY <1>1, <1>2, <1>8, Zenon DEF Find, Step, Keep, Bucket, Mine
  <2>2. /\ undefined' => reg[t] - 1 \notin DOMAIN Mine(t).array
        /\ pc'[t] = "use" => reg'[t] \in DOMAIN Mine(t).array
    BY <1>1, <1>8, Finding
  <2>3. undefined' => Bucket(t) \in races.set
    BY <1>1, <1>2, <2>1, <2>2 DEF Readers
  <2>4. pc'[t] = "use" => reg'[t] # Gone
    <3>1. Bucket(t) \in Hs
      BY <1>1, BucketInside DEF Bucket
    <3>2. IsArray(Mine(t).array)
      BY <1>1, <3>1 DEF Typed, IsBucket, Mine
    <3>3. \A j \in DOMAIN Mine(t).array : j \in Nat
      BY <3>2, ArrayCells
    <3>4. QED
      BY <2>2, <3>3 DEF Gone
  <2>5. Readers'
    BY <1>1, <1>2, <1>3, <1>5, <1>6, <2>1, <2>4 DEF Readers
  <2>6. QED
    BY <1>1, <1>4, <1>5, <2>3, <2>5, Zenon DEF SInv, NoUndefined
<1>9. CASE Use(t) \/ Answer(t)
  <2>1. pc'[t] \notin GetPcs
    BY <1>1, <1>9 DEF Use, Answer, Step, GetPcs
  <2>2. Readers'
    BY <1>1, <1>2, <1>3, <1>5, <1>6, <2>1 DEF Readers, GetPcs
  <2>3. undefined' => pc[t] = "use" /\ reg[t] = Gone
    BY <1>2, <1>9 DEF Use, Answer, Step, Read
  <2>4. undefined' => races.set # {} \/ races.get # {}
    BY <1>1, <1>2, <2>3 DEF Readers
  <2>5. QED
    BY <1>1, <1>4, <1>5, <2>2, <2>4 DEF SInv, NoUndefined
<1>10. QED
  BY <1>7, <1>8, <1>9 DEF Get

LEMMA StartingSInv == Init => SInv
<1> SUFFICES ASSUME Init PROVE SInv
  OBVIOUS
<1>1. Typed
  BY StartingTyped
<1>2. ~undefined /\ \A t \in Threads : pc[t] = "idle"
  BY DEF Init
<1>3. ASSUME NEW h \in Hs PROVE Sound(buckets[h], "length", Null, Null, NoKey)
  <2>1. /\ buckets[h].array = [i \in 0..0 |-> Blank] /\ buckets[h].length = 0 /\ buckets[h].capacity = 1
    BY <1>3 DEF Init, Hs
  <2>2. Taken(buckets[h]) = {}
    BY <2>1 DEF Taken, IsFree, Blank
  <2>3. QED
    BY <2>1, <2>2, FS_EmptySet DEF Sound, AddedPcs
<1>4. \A h : Inside(h, SetPcs) = {}
  BY <1>2 DEF Inside, SetPcs
<1>5. Shelf
  BY <1>3, <1>4 DEF Shelf
<1>6. Readers /\ NoUndefined
  BY <1>2 DEF Readers, NoUndefined
<1>7. QED
  BY <1>1, <1>5, <1>6 DEF SInv

LEMMA StayingSInv ==
  ASSUME HashOfToken
  PROVE  SInv /\ IInv /\ [Next]_vars => SInv'
<1> SUFFICES ASSUME SInv, IInv, [Next]_vars PROVE SInv'
  OBVIOUS
<1>1. Typed'
  BY StayingTyped DEF SInv
<1>2. CASE UNCHANGED vars
  <2>1. /\ buckets' = buckets /\ pc' = pc /\ token' = token /\ reg' = reg /\ fresh' = fresh
        /\ races' = races /\ undefined' = undefined
    BY <1>2 DEF vars, locals
  <2>2. \A h : Inside(h, SetPcs)' = Inside(h, SetPcs)
    BY <2>1 DEF Inside, Bucket
  <2>3. Shelf'
    BY <2>1, <2>2 DEF SInv, Shelf
  <2>4. Readers' /\ NoUndefined'
    BY <2>1 DEF SInv, Readers, NoUndefined, Bucket, Mine
  <2>5. QED
    BY <1>1, <2>3, <2>4 DEF SInv
<1>3. CASE Next
  <2>1. PICK t \in Threads : Make(t) \/ Set(t) \/ Get(t)
    BY <1>3 DEF Next
  <2>2. Watch
    BY <1>3 DEF Next
  <2>3. CASE Make(t) \/ Return(t)
    BY <2>2, <2>3, LoginKeepsSInv
  <2>4. CASE InTable(t)
    BY <1>1, <2>2, <2>4, SetKeepsShelf, SetKeepsReaders DEF SInv
  <2>5. CASE Get(t)
    BY <2>2, <2>5, GetKeepsSInv
  <2>6. QED
    BY <2>1, <2>3, <2>4, <2>5 DEF Set, InTable
<1>4. QED
  BY <1>2, <1>3

(* tablec_set and tablec_get never leave an array or read what was freed   *)
(* but for two calls that meet: two sets of one bucket, or a growth and a  *)
(* reader of the array it frees.                                           *)
THEOREM Defined ==
  ASSUME HashOfToken
  PROVE  Spec => []NoUndefined
<1>1. SInv => NoUndefined
  BY DEF SInv
<1>2. SInv /\ IInv /\ [Next]_vars => SInv'
  BY StayingSInv
<1>3. QED
  BY Starting, StaysIInv, StartingSInv, <1>1, <1>2, PTL DEF Spec

-----------------------------------------------------------------------------
(* The cells with key k of the bucket of a login at p, which has read r:   *)
(* none, one with the key, one with its user too.                          *)
BeforePcs == {"length"} \cup (SetPcs \ AddedPcs)
WithKey(b, k) == {i \in DOMAIN b.array : b.array[i].key = k}

Filed(b, p, r, k, v) ==
  /\ p \in BeforePcs => WithKey(b, k) = {}
  /\ p = "onlyValue" => WithKey(b, k) = {0}
  /\ p = "value" => WithKey(b, k) = {r}
  /\ p \in {"onlyOne", "double", "doubled", "count", "counted", "return"} =>
       \E i \in DOMAIN b.array : WithKey(b, k) = {i} /\ b.array[i] = [key |-> k, value |-> v]
  /\ p = "return" => \E i \in 0 .. b.capacity - 1 : WithKey(b, k) = {i} /\ b.array[i] = [key |-> k, value |-> v]

LEMMA SetFiled ==
  ASSUME Typed, IInv, HashOfToken, NEW t \in Threads, InTable(t),
         Sound(Mine(t), pc[t], reg[t], fresh[t], token[t]),
         Filed(Mine(t), pc[t], reg[t], token[t], user[t])
  PROVE  Filed(buckets'[Bucket(t)], pc'[t], reg'[t], token[t], user[t])
<1> DEFINE h == Bucket(t)
           b == buckets[h]
           r == reg[t]
           c == buckets'[h]
           k == token[t]
<1>1. /\ pc \in [Threads -> Pcs] /\ buckets = [g \in Hs |-> buckets[g]]
      /\ reg = [s \in Threads |-> reg[s]]
      /\ h \in Hs /\ IsBucket(b)
      /\ b = [array |-> b.array, length |-> b.length, capacity |-> b.capacity]
      /\ IsArray(b.array) /\ b.length \in Nat /\ b.capacity \in Nat \ {0}
  BY BucketInside DEF Typed, TypeOK, Bucket, IsBucket
<1>2. Sound(b, pc[t], r, fresh[t], k) /\ Filed(b, pc[t], r, k, user[t])
  BY DEF Mine
<1>3. Sound(c, pc'[t], reg'[t], fresh'[t], k)
  BY SetSound
<1>4. k # NoKey
  <2>1. pc[t] \in SetPcs \cup {"length"}
    BY SetOthers
  <2>2. QED
    BY <2>1 DEF IInv, Drawing, Having, NoKey
<1>5. DOMAIN b.array \subseteq Nat /\ 0 \in DOMAIN b.array
  BY <1>1 DEF IsArray
<1>6. CASE ReadLength(t) \/ ReadFirst(t) \/ ReadCapacity(t) \/ Copy(t)
  <2>1. c.array = b.array /\ pc[t] \in BeforePcs /\ pc'[t] \in BeforePcs \cup {"pairCapacity"}
    BY <1>1, <1>6 DEF ReadLength, ReadFirst, ReadCapacity, Copy, Step, Read, Write, Mine, BeforePcs,
                     SetPcs, AddedPcs
  <2>2. QED
    BY <1>2, <2>1 DEF Filed, WithKey, BeforePcs, SetPcs, AddedPcs
<1>7. CASE Scan(t)
  <2>1. /\ \E q : Step(t, "scan", q) /\ q \in {"copy", "key"}
        /\ \E inside : Write(t, inside, b)
    BY <1>7 DEF Scan, Mine
  <2>2. c = b /\ pc[t] = "scan" /\ pc'[t] \in {"copy", "key"}
    BY <1>1, <2>1 DEF Step, Write
  <2>3. QED
    BY <1>2, <2>2 DEF Filed, BeforePcs, SetPcs, AddedPcs
<1>8. CASE LengthOne(t) \/ LoadCapacity(t) \/ StoreCapacity(t) \/ LoadLength(t) \/ StoreLength(t)
  <2>1. /\ c.array = b.array /\ pc[t] \in {"onlyOne", "double", "doubled", "count", "counted"}
        /\ pc'[t] \in {"doubled", "count", "counted", "return"}
    BY <1>1, <1>8 DEF LengthOne, LoadCapacity, StoreCapacity, LoadLength, StoreLength, Step, Read, Write, Mine
  <2>2. PICK i \in DOMAIN b.array : WithKey(b, k) = {i} /\ b.array[i] = [key |-> k, value |-> user[t]]
    BY <1>2, <2>1 DEF Filed
  <2>3. pc'[t] = "return" => DOMAIN c.array = 0 .. c.capacity - 1
    BY <1>3 DEF Sound
  <2>4. WithKey(c, k) = WithKey(b, k)
    BY <2>1 DEF WithKey
  <2> HIDE DEF c
  <2>5. QED
    BY <2>1, <2>2, <2>3, <2>4 DEF Filed, BeforePcs, SetPcs, AddedPcs, c
<1>9. CASE PairCapacity(t) \/ PairSwap(t) \/ PairTwo(t)
  BY <1>2, <1>9 DEF PairCapacity, PairSwap, PairTwo, Step, Sound
<1>10. CASE StoreOnlyKey(t)
  <2>1. pc[t] = "onlyKey" /\ pc'[t] = "onlyValue" /\ c = [b EXCEPT !.array[0].key = k]
    BY <1>1, <1>10 DEF StoreOnlyKey, Step, Write, Mine
  <2>2. WithKey(b, k) = {}
    BY <1>2, <2>1 DEF Filed, BeforePcs, SetPcs, AddedPcs
  <2>3. c.array[0].key = k /\ DOMAIN c.array = DOMAIN b.array
        /\ \A j \in DOMAIN b.array : j # 0 => c.array[j] = b.array[j]
    <3>1. c.array = [b.array EXCEPT ![0].key = k]
      BY <1>1, <2>1
    <3>2. DOMAIN b.array[0] = {"key", "value"} /\ b.array = [i \in DOMAIN b.array |-> b.array[i]]
      BY <1>1, <1>5, ArrayCells DEF CellType, IsArray
    <3>3. QED
      BY <1>5, <3>1, <3>2
  <2>4. WithKey(c, k) = {0}
    BY <1>5, <2>2, <2>3 DEF WithKey
  <2> HIDE DEF c
  <2>5. QED
    BY <2>1, <2>4 DEF Filed, BeforePcs, SetPcs, AddedPcs, c
<1>11. CASE StoreKey(t)
  <2>1. pc[t] = "key" /\ pc'[t] = "value" /\ reg'[t] = r
    BY <1>1, <1>11 DEF StoreKey, Step, locals
  <2>2. r \in DOMAIN b.array /\ WithKey(b, k) = {}
    BY <1>2, <2>1 DEF Sound, Filed, BeforePcs, SetPcs, AddedPcs
  <2>3. c = [b EXCEPT !.array[r].key = k]
    BY <1>1, <1>11, <2>2 DEF StoreKey, Write, Mine
  <2>4. c.array[r].key = k /\ DOMAIN c.array = DOMAIN b.array
        /\ \A j \in DOMAIN b.array : j # r => c.array[j] = b.array[j]
    <3>1. c.array = [b.array EXCEPT ![r].key = k]
      BY <1>1, <2>3
    <3>2. DOMAIN b.array[r] = {"key", "value"} /\ b.array = [i \in DOMAIN b.array |-> b.array[i]]
      BY <1>1, <2>2, ArrayCells DEF CellType, IsArray
    <3> HIDE DEF r
    <3>3. QED
      BY <2>2, <3>1, <3>2
  <2>5. WithKey(c, k) = {r}
    BY <2>2, <2>4 DEF WithKey
  <2> HIDE DEF c
  <2>6. QED
    BY <2>1, <2>5 DEF Filed, BeforePcs, SetPcs, AddedPcs, c
<1>12. CASE StoreOnlyValue(t)
  <2>1. /\ pc[t] = "onlyValue" /\ pc'[t] = "onlyOne" /\ c = [b EXCEPT !.array[0].value = user[t]]
    BY <1>1, <1>12 DEF StoreOnlyValue, Step, Write, Mine
  <2>2. WithKey(b, k) = {0}
    BY <1>2, <2>1 DEF Filed
  <2>3. b.array[0].key = k
    BY <2>2 DEF WithKey
  <2>4. c.array = [b.array EXCEPT ![0].value = user[t]]
    BY <1>1, <2>1
  <2>5. /\ DOMAIN c.array = DOMAIN b.array /\ c.array[0] = [key |-> k, value |-> user[t]]
        /\ \A j \in DOMAIN b.array : j # 0 => c.array[j] = b.array[j]
    BY <1>1, <1>5, <2>3, <2>4, ValuePut
  <2>6. WithKey(c, k) = {0}
    BY <1>5, <2>2, <2>5 DEF WithKey
  <2> HIDE DEF c
  <2>7. QED
    BY <1>5, <2>1, <2>5, <2>6 DEF Filed, BeforePcs, SetPcs, AddedPcs, c
<1>13. CASE StoreValue(t)
  <2>1. pc[t] = "value" /\ pc'[t] = "count"
    BY <1>1, <1>13 DEF StoreValue, Step
  <2>2. r \in DOMAIN b.array /\ WithKey(b, k) = {r}
    BY <1>2, <2>1 DEF Sound, Filed
  <2>3. b.array[r].key = k
    BY <2>2 DEF WithKey
  <2>4. c.array = [b.array EXCEPT ![r].value = user[t]]
    BY <1>1, <1>13, <2>2 DEF StoreValue, Write, Mine
  <2>5. /\ DOMAIN c.array = DOMAIN b.array /\ c.array[r] = [key |-> k, value |-> user[t]]
        /\ \A j \in DOMAIN b.array : j # r => c.array[j] = b.array[j]
    <3>1. IsArray(b.array)
      BY <1>1
    <3> HIDE DEF r, c, b, k
    <3>2. QED
      BY <2>2, <2>3, <2>4, <3>1, ValuePut
  <2>6. WithKey(c, k) = {r}
    BY <2>2, <2>5 DEF WithKey
  <2> HIDE DEF c, r
  <2>7. QED
    BY <2>1, <2>2, <2>5, <2>6 DEF Filed, BeforePcs, SetPcs, AddedPcs, c
<1>14. CASE Swap(t)
  <2>1. pc[t] = "swap" /\ pc'[t] = "double"
    BY <1>1, <1>14 DEF Swap, Step
  <2>2. WithKey(b, k) = {}
    BY <1>2, <2>1 DEF Filed, BeforePcs, SetPcs, AddedPcs
  <2> DEFINE n == b.capacity
             a == [[i \in 0 .. 2 * n - 1 |-> IF i < n THEN b.array[i] ELSE Blank] EXCEPT ![n] = Entry(t)]
  <2>3. b.length = n
    <3>1. Taken(b) = 0 .. n - 1 /\ Cardinality(Taken(b)) = b.length
      BY <1>2, <2>1 DEF Sound, AddedPcs
    <3>2. QED
      BY <1>1, <3>1, TakenCount
  <2>4. /\ fresh[t] = [i \in 0 .. 2 * n - 1 |-> IF i < n THEN b.array[i] ELSE Blank]
        /\ DOMAIN b.array = 0 .. n - 1
    BY <1>2, <2>1 DEF Sound
  <2>5. c.array = a
    <3>1. n \in DOMAIN fresh[t]
      BY <1>1, <2>4
    <3>2. c = [b EXCEPT !.array = a]
      BY <1>1, <1>14, <2>3, <2>4, <3>1 DEF Swap, Freed, Slot, Mine
    <3>3. QED
      BY <1>1, <3>2
  <2>6. /\ DOMAIN c.array = 0 .. 2 * n - 1 /\ n \in 0 .. 2 * n - 1 /\ c.array[n] = Entry(t)
        /\ \A i \in 0 .. 2 * n - 1 : i # n => c.array[i] = IF i < n THEN b.array[i] ELSE Blank
    BY <1>1, <2>5
  <2>7. WithKey(c, k) = {n} /\ c.array[n] = [key |-> k, value |-> user[t]]
    <3>1. c.array[n] = [key |-> k, value |-> user[t]]
      BY <2>6 DEF Entry
    <3>2. \A i \in 0 .. 2 * n - 1 : i # n => c.array[i].key # k
      BY <1>1, <1>4, <2>2, <2>4, <2>6 DEF WithKey, Blank
    <3>3. c.array[n].key = k
      BY <3>1
    <3> HIDE DEF c, n, k
    <3>4. QED
      BY <2>6, <3>1, <3>2, <3>3 DEF WithKey
  <2> HIDE DEF c, n, k
  <2>8. QED
    BY <2>1, <2>6, <2>7 DEF Filed, BeforePcs, SetPcs, AddedPcs, c, k
<1>15. QED
  BY <1>6, <1>7, <1>8, <1>9, <1>10, <1>11, <1>12, <1>13, <1>14 DEF InTable

(* What is in a bucket in which no two sets have met, as long as no two    *)
(* threads have made tokens at once: the entries of logins, each once and  *)
(* found where a lookup that may answer with it looks.                     *)
EntryOf(g) == [key |-> g[1], value |-> g[2]]
BucketOf(g) == Hash(g[1]) % Capacity

OnceEach(b) == \A i, j \in Taken(b) : b.array[i].key = b.array[j].key => i = j
Owned(b) ==
  \A i \in Taken(b) : \/ \E g \in given : g[1] = b.array[i].key
                      \/ \E s \in Threads : pc[s] \in AddedPcs \cup {"return"} /\ token[s] = b.array[i].key
Kept(h) ==
  \A g \in given : BucketOf(g) = h =>
    \E i \in 0 .. buckets[h].capacity - 1 : buckets[h].array[i] = EntryOf(g)
Found(t) ==
  /\ pc[t] = "find" =>
       \E g \in given : g[1] = token[t] /\ \E i \in 0 .. reg[t] - 1 : Mine(t).array[i] = EntryOf(g)
  /\ pc[t] = "use" =>
       \/ reg[t] = Gone
       \/ \E g \in given : /\ g[1] = token[t] /\ reg[t] \in DOMAIN Mine(t).array
                           /\ Mine(t).array[reg[t]] = EntryOf(g)
  /\ pc[t] = "answer" => <<token[t], user[t]>> \in given

Contents ==
  ~undefined /\ ~races.make =>
    /\ \A h \in Hs \ races.set : OnceEach(buckets[h]) /\ Owned(buckets[h]) /\ Kept(h)
    /\ \A t \in Threads : Bucket(t) \notin races.set =>
         /\ pc[t] \in Having => Filed(Mine(t), pc[t], reg[t], token[t], user[t])
         /\ Found(t)

(* Tokens name their logins.                                               *)
Apart ==
  ~races.make =>
    /\ \A s, t \in Threads : pc[s] \in Having /\ pc[t] \in Having /\ token[s] = token[t] => s = t
    /\ \A t \in Threads, g \in given : pc[t] \in Having => token[t] # g[1]
    /\ \A g, h \in given : g[1] = h[1] => g = h
    /\ \A t \in Threads : pc[t] \in Having => token[t] # NoKey
    /\ \A g \in given : g[1] # NoKey

LEMMA TokensApart == IInv => Apart
<1> SUFFICES ASSUME IInv, ~races.make PROVE Apart
  BY DEF Apart
<1>1. Shape /\ Counted /\ Drawing /\ Seeded
  BY DEF IInv
<1>2. \A t \in Threads : pc[t] \in Having => /\ LogsIn(t) /\ token[t] # <<>> /\ token[t][1][1] = user[t]
  BY <1>1 DEF Seeded, Drawing, LogsIn
<1>3. \A g \in given : g = <<g[1], g[2]>> /\ g[1] # <<>> /\ g[1][1][1] = g[2]
  BY <1>1 DEF Seeded, Shape
<1>4. \A s, t \in Threads : pc[s] \in Having /\ pc[t] \in Having /\ token[s] = token[t] => s = t
  BY <1>1, <1>2 DEF Counted
<1>5. \A t \in Threads, g \in given : pc[t] \in Having => token[t] # g[1]
  BY <1>1, <1>2, <1>3 DEF Counted
<1>6. \A g, h \in given : g[1] = h[1] => g = h
  BY <1>3
<1>7. QED
  BY <1>2, <1>3, <1>4, <1>5, <1>6 DEF Apart, NoKey

(* What growing leaves of an entry, and of what another login has filed.   *)
LEMMA EntryStays ==
  ASSUME NEW b, NEW c, NEW k, Grown(b, c, k), NEW g, g[1] \notin {NoKey, k},
         NEW i \in DOMAIN b.array, b.array[i] = EntryOf(g)
  PROVE  i \in DOMAIN c.array /\ c.array[i] = EntryOf(g)
<1>1. b.array[i].key = g[1]
  BY DEF EntryOf
<1>2. QED
  BY <1>1 DEF Grown

LEMMA FiledStays ==
  ASSUME NEW b, NEW c, NEW k, Grown(b, c, k), b.capacity \in Nat, c.capacity \in Nat,
         0 .. b.capacity - 1 \subseteq DOMAIN b.array,
         NEW p \in {"length", "return"}, NEW r, NEW q, NEW v, q \notin {NoKey, k}, Filed(b, p, r, q, v)
  PROVE  Filed(c, p, r, q, v)
<1>1. \A i : i \in WithKey(c, q) <=> i \in WithKey(b, q)
  BY DEF WithKey, Grown
<1>2. CASE p = "length"
  BY <1>1, <1>2 DEF Filed, BeforePcs
<1>3. CASE p = "return"
  <2>1. PICK i \in 0 .. b.capacity - 1 : WithKey(b, q) = {i} /\ b.array[i] = [key |-> q, value |-> v]
    BY <1>3 DEF Filed
  <2>2. i \in 0 .. c.capacity - 1
    BY DEF Grown
  <2>3. i \in DOMAIN c.array /\ c.array[i] = b.array[i]
    BY <2>1 DEF Grown
  <2>4. WithKey(c, q) = {i}
    BY <1>1, <2>1
  <2>5. QED
    BY <1>3, <2>1, <2>2, <2>3, <2>4 DEF Filed, BeforePcs, SetPcs
<1>4. QED
  BY <1>2, <1>3

LEMMA FiledOnce ==
  ASSUME NEW b, NEW p \in Having, NEW r, NEW k, NEW v, Filed(b, p, r, k, v)
  PROVE  /\ \A i, j \in WithKey(b, k) : i = j
         /\ WithKey(b, k) # {} => p \in AddedPcs \cup {"return"}
<1>1. p \in BeforePcs \/ p \in AddedPcs \cup {"return"}
  BY DEF Having, BeforePcs
<1>2. CASE p \in BeforePcs
  BY <1>2 DEF Filed
<1>3. CASE p \in AddedPcs \cup {"return"}
  <2>1. \E i : WithKey(b, k) = {i}
    BY <1>3 DEF Filed, AddedPcs
  <2>2. QED
    BY <1>3, <2>1
<1>4. QED
  BY <1>1, <1>2, <1>3

(* A set puts its own entry in its bucket, beside the others.              *)
LEMMA SetFills ==
  ASSUME SInv, Contents, IInv, HashOfToken, NEW t \in Threads, InTable(t), Watch,
         ~races'.make, NEW h, h = Bucket(t), h \notin races'.set
  PROVE  /\ Grown(buckets[h], buckets'[h], token[t])
         /\ Filed(buckets'[h], pc'[t], reg'[t], token[t], user[t])
         /\ \A s \in Inside(h, SetPcs) : s = t
         /\ OnceEach(buckets'[h]) /\ Owned(buckets[h])' /\ Kept(h)'
<1> DEFINE b == buckets[h]
           c == buckets'[h]
           k == token[t]
<1>1. /\ Others(t) /\ token' = token /\ user' = user /\ given' = given
      /\ pc[t] \in SetPcs \cup {"length"} /\ pc'[t] \in SetPcs \cup {"return"}
      /\ pc[t] \in AddedPcs => pc'[t] \in AddedPcs \cup {"return"}
  BY SetOthers DEF SInv, Others
<1>2. /\ h \in Hs /\ DOMAIN buckets = Hs /\ pc \in [Threads -> Pcs] /\ ~undefined
      /\ Typed /\ Shelf /\ pc[t] \in Having /\ pc'[t] \in Having
  BY <1>1, BucketInside DEF SInv, Typed, TypeOK, Bucket, Others, Having
<1>3. h \notin races.set /\ ~races.make
  BY <1>2, HistoryGrows, Watched
<1>4. /\ \A s \in Threads, g \in given : pc[s] \in Having => token[s] # g[1]
      /\ k # NoKey /\ \A g \in given : g[1] # NoKey
  BY <1>2, <1>3, TokensApart DEF Apart
<1>5. \A s \in Threads \ {t} : pc'[s] = pc[s]
  BY <1>1, <1>2 DEF Others
<1>6. OnceEach(b) /\ Owned(b) /\ Kept(h) /\ Filed(b, pc[t], reg[t], k, user[t])
  <2>1. Filed(Mine(t), pc[t], reg[t], token[t], user[t])
    BY <1>2, <1>3 DEF Contents
  <2>2. QED
    BY <1>2, <1>3, <2>1 DEF Contents, Mine
<1>7. Sound(b, pc[t], reg[t], fresh[t], k) /\ \A s \in Inside(h, SetPcs) : s = t
  <2>1. Sound(Mine(t), pc[t], reg[t], fresh[t], token[t]) /\ \A s \in Inside(h, SetPcs) : s = t
    BY <1>2, SoundBefore
  <2>2. QED
    BY <2>1 DEF Mine
<1>8. Grown(b, c, k) /\ Filed(c, pc'[t], reg'[t], k, user[t])
  <2>1. Mine(t) = b
    BY DEF Mine
  <2>2. Grown(Mine(t), buckets'[Bucket(t)], token[t])
    BY <1>2, <1>7, <2>1, SetSound
  <2>3. Filed(buckets'[Bucket(t)], pc'[t], reg'[t], token[t], user[t])
    BY <1>2, <1>6, <1>7, <2>1, SetFiled
  <2>4. QED
    BY <2>1, <2>2, <2>3
<1>9. /\ \A i, j \in WithKey(c, k) : i = j
      /\ WithKey(c, k) # {} => pc'[t] \in AddedPcs \cup {"return"}
  BY <1>2, <1>8, FiledOnce
<1>10. ASSUME NEW i \in Taken(c)
       PROVE  i \in WithKey(c, k) \/ (c.array[i].key # k /\ i \in Taken(b) /\ c.array[i] = b.array[i])
  BY <1>8 DEF Taken, IsFree, WithKey, Grown
<1>11. OnceEach(c)
  <2> SUFFICES ASSUME NEW i \in Taken(c), NEW j \in Taken(c), c.array[i].key = c.array[j].key PROVE i = j
    BY DEF OnceEach
  <2>1. CASE i \in WithKey(c, k)
    BY <1>9, <1>10, <2>1 DEF WithKey
  <2>2. CASE i \notin WithKey(c, k)
    BY <1>6, <1>10, <2>2 DEF WithKey, OnceEach
  <2>3. QED
    BY <2>1, <2>2
<1>12. Owned(buckets[h])'
  <2> SUFFICES ASSUME NEW i \in Taken(c)
               PROVE  \/ \E g \in given : g[1] = c.array[i].key
                      \/ \E s \in Threads : pc'[s] \in AddedPcs \cup {"return"} /\ token[s] = c.array[i].key
    BY <1>1 DEF Owned, Taken, IsFree
  <2>1. CASE i \in WithKey(c, k)
    BY <1>9, <2>1 DEF WithKey
  <2>2. CASE c.array[i].key # k /\ i \in Taken(b) /\ c.array[i] = b.array[i]
    BY <1>5, <1>6, <2>2 DEF Owned
  <2>3. QED
    BY <1>10, <2>1, <2>2
<1>13. Kept(h)'
  <2> SUFFICES ASSUME NEW g \in given, BucketOf(g) = h
               PROVE  \E i \in 0 .. c.capacity - 1 : c.array[i] = EntryOf(g)
    BY <1>1 DEF Kept, BucketOf, EntryOf
  <2>1. PICK i \in 0 .. b.capacity - 1 : b.array[i] = EntryOf(g)
    BY <1>6 DEF Kept
  <2>2. b.capacity \in Nat /\ c.capacity \in Nat
    <3>1. Typed'
      BY <1>2, SetStaysTyped
    <3>2. QED
      BY <1>2, <3>1 DEF Typed, IsBucket
  <2>3. i \in DOMAIN b.array
    BY <1>2, <1>3, CellsOf
  <2>4. c.array[i] = EntryOf(g)
    BY <1>2, <1>4, <1>8, <2>1, <2>3, EntryStays
  <2>5. i \in 0 .. c.capacity - 1
    BY <1>8, <2>2 DEF Grown
  <2>6. QED
    BY <2>4, <2>5
<1>14. QED
  BY <1>7, <1>8, <1>11, <1>12, <1>13

LEMMA SetKeepsContents ==
  ASSUME SInv, Contents, IInv, HashOfToken, NEW t \in Threads, InTable(t), Watch
  PROVE  Contents'
<1> SUFFICES ASSUME ~undefined', ~races'.make
             PROVE  /\ \A h \in Hs \ races'.set : OnceEach(buckets'[h]) /\ Owned(buckets[h])' /\ Kept(h)'
                    /\ \A s \in Threads : Bucket(s)' \notin races'.set =>
                         /\ pc'[s] \in Having => Filed(Mine(s)', pc'[s], reg'[s], token'[s], user'[s])
                         /\ Found(s)'
  BY DEF Contents, OnceEach, Taken, IsFree
<1>1. /\ Others(t) /\ token' = token /\ user' = user /\ given' = given
      /\ pc[t] \in SetPcs \cup {"length"} /\ pc'[t] \in SetPcs \cup {"return"}
      /\ pc[t] \in AddedPcs => pc'[t] \in AddedPcs \cup {"return"}
  BY SetOthers DEF SInv, Others
<1>2. /\ \A s \in Threads : Bucket(s) \in Hs
      /\ DOMAIN buckets = Hs /\ pc \in [Threads -> Pcs] /\ ~undefined /\ Typed /\ Shelf /\ Readers
      /\ pc[t] \in Having /\ pc'[t] \notin GetPcs \cup {"answer"}
  BY <1>1, BucketInside DEF SInv, Typed, TypeOK, Bucket, Others, Having, SetPcs, GetPcs
<1>3. \A s \in Threads : Bucket(s)' = Bucket(s) /\ Mine(s)' = buckets'[Bucket(s)]
  BY <1>1 DEF Bucket, Mine
<1>4. \A s \in Threads \ {t} : pc'[s] = pc[s] /\ (pc[s] = "use" \/ reg'[s] = reg[s])
  BY <1>1, <1>2 DEF Others
<1>5. races.set \subseteq races'.set /\ ~races.make
  BY <1>2, HistoryGrows, Watched
<1>6. \A h \in Hs \ {Bucket(t)} : buckets'[h] = buckets[h]
  BY <1>1, <1>2 DEF Others
<1>7. ASSUME NEW h \in Hs \ races'.set
      PROVE  OnceEach(buckets'[h]) /\ Owned(buckets[h])' /\ Kept(h)'
  <2>1. CASE h = Bucket(t)
    BY <2>1, SetFills
  <2>2. CASE h # Bucket(t)
    <3>1. OnceEach(buckets[h]) /\ Owned(buckets[h]) /\ Kept(h) /\ buckets'[h] = buckets[h]
      BY <1>2, <1>5, <1>6, <2>2 DEF Contents
    <3>2. \A s \in Threads : pc[s] \in AddedPcs \cup {"return"} => pc'[s] \in AddedPcs \cup {"return"}
      BY <1>1, <1>4 DEF SetPcs
    <3>3. Owned(buckets[h])'
      BY <1>1, <3>1, <3>2 DEF Owned, Taken, IsFree
    <3>4. Kept(h)'
      BY <1>1, <3>1 DEF Kept, BucketOf, EntryOf
    <3>5. QED
      BY <3>1, <3>3, <3>4
  <2>3. QED
    BY <2>1, <2>2
<1>8. ASSUME NEW s \in Threads, Bucket(s) \notin races'.set
      PROVE  /\ pc'[s] \in Having => Filed(buckets'[Bucket(s)], pc'[s], reg'[s], token[s], user[s])
             /\ Found(s)'
  <2>1. CASE s = t
    <3>1. Filed(buckets'[Bucket(s)], pc'[s], reg'[s], token[s], user[s])
      BY <1>8, <2>1, SetFills
    <3>2. Found(s)'
      BY <1>2, <2>1 DEF Found, GetPcs
    <3>3. QED
      BY <3>1, <3>2
  <2>2. CASE s # t
    <3>1. /\ pc[s] \in Having => Filed(Mine(s), pc[s], reg[s], token[s], user[s])
          /\ Found(s) /\ pc'[s] = pc[s] /\ Bucket(s) \notin races.set
      BY <1>2, <1>4, <1>5, <1>8, <2>2 DEF Contents
    <3>2. CASE Bucket(s) # Bucket(t)
      <4>1. Mine(s)' = Mine(s) /\ reg'[s] = reg[s]
        BY <1>1, <1>2, <1>3, <1>6, <2>2, <3>2 DEF Others, Mine
      <4>2. Filed(Mine(s), pc[s], reg[s], token[s], user[s]) =>
              Filed(buckets'[Bucket(s)], pc'[s], reg'[s], token[s], user[s])
        BY <1>3, <3>1, <4>1
      <4>3. Found(s)'
        BY <1>1, <3>1, <4>1 DEF Found, EntryOf
      <4>4. QED
        BY <3>1, <4>2, <4>3
    <3>3. CASE Bucket(s) = Bucket(t)
      <4> DEFINE h == Bucket(s)
                 b == buckets[h]
                 c == buckets'[h]
      <4>1. h = Bucket(t) /\ h \notin races'.set /\ h \in Hs
        BY <1>2, <1>8, <3>3
      <4>2. Grown(b, c, token[t]) /\ \A u \in Inside(h, SetPcs) : u = t
        <5> HIDE DEF h
        <5>1. QED
          BY <4>1, SetFills
      <4>3. b.capacity \in Nat /\ c.capacity \in Nat /\ 0 .. b.capacity - 1 \subseteq DOMAIN b.array
            /\ IsArray(b.array)
        <5>1. Typed'
          BY <1>2, SetStaysTyped
        <5>2. b.capacity \in Nat /\ c.capacity \in Nat /\ IsArray(b.array)
          BY <1>2, <5>1 DEF Typed, IsBucket
        <5> HIDE DEF h
        <5>3. 0 .. b.capacity - 1 \subseteq DOMAIN b.array
          BY <1>2, <1>5, <4>1, CellsOf
        <5>4. QED
          BY <5>2, <5>3
      <4>4. /\ \A g \in given : g[1] \notin {NoKey, token[t]}
            /\ pc[s] \in Having => token[s] \notin {NoKey, token[t]}
        BY <1>2, <1>5, <2>2, TokensApart DEF Apart
      <4>5. ASSUME pc[s] \in Having
            PROVE  Filed(c, pc'[s], reg'[s], token[s], user[s])
        <5>1. pc[s] \notin SetPcs
          BY <2>2, <4>2 DEF Inside
        <5>2. pc[s] \in {"length", "return"} /\ reg'[s] = reg[s]
          BY <1>4, <2>2, <4>5, <5>1 DEF Having
        <5>3. Filed(b, pc[s], reg[s], token[s], user[s])
          BY <3>1, <4>5 DEF Mine
        <5>4. token[s] \notin {NoKey, token[t]}
          BY <4>4, <4>5
        <5> HIDE DEF b, c
        <5>5. QED
          BY <3>1, <4>2, <4>3, <5>2, <5>3, <5>4, FiledStays
      <4>6. ASSUME NEW g \in given, NEW i \in DOMAIN b.array, b.array[i] = EntryOf(g)
            PROVE  i \in DOMAIN c.array /\ c.array[i] = EntryOf(g)
        <5> HIDE DEF b, c
        <5>1. QED
          BY <4>2, <4>4, <4>6, EntryStays
      <4>7. Found(s)'
        <5>1. Mine(s) = b /\ Mine(s)' = c /\ given' = given /\ token'[s] = token[s] /\ user'[s] = user[s]
          BY <1>1, <1>3 DEF Mine
        <5>2. CASE pc[s] = "find"
          <6>1. PICK g \in given : g[1] = token[s] /\ \E i \in 0 .. reg[s] - 1 : b.array[i] = EntryOf(g)
            BY <3>1, <5>1, <5>2 DEF Found
          <6>2. PICK i \in 0 .. reg[s] - 1 : b.array[i] = EntryOf(g)
            BY <6>1
          <6>3. reg[s] - 1 \in DOMAIN b.array /\ reg'[s] = reg[s] /\ reg[s] \in Nat
            <7>1. reg[s] \in Nat \ {0}
              BY <1>2, <5>2 DEF Typed, Holding
            <7>2. QED
              BY <1>2, <1>4, <2>2, <3>1, <5>1, <5>2, <7>1 DEF Readers
          <6>4. i \in DOMAIN b.array
            BY <4>3, <6>3 DEF IsArray
          <6>5. c.array[i] = EntryOf(g)
            BY <4>6, <6>2, <6>4
          <6> HIDE DEF b, c
          <6>6. QED
            BY <3>1, <5>1, <5>2, <6>1, <6>3, <6>5 DEF Found, EntryOf
        <5>3. CASE pc[s] = "use"
          <6>1. CASE reg'[s] = reg[s]
            <7>1. \/ reg[s] = Gone
                  \/ \E g \in given : /\ g[1] = token[s] /\ reg[s] \in DOMAIN b.array
                                      /\ b.array[reg[s]] = EntryOf(g)
              BY <3>1, <5>1, <5>3 DEF Found
            <7>2. \/ reg[s] = Gone
                  \/ \E g \in given : /\ g[1] = token[s] /\ reg[s] \in DOMAIN c.array
                                      /\ c.array[reg[s]] = EntryOf(g)
              BY <4>6, <7>1
            <7> HIDE DEF b, c
            <7>3. QED
              BY <3>1, <5>1, <5>3, <6>1, <7>2 DEF Found, EntryOf
          <6>2. CASE reg'[s] # reg[s]
            <7>1. reg'[s] = Gone
              BY <1>1, <2>2, <6>2 DEF Others
            <7>2. QED
              BY <3>1, <5>3, <7>1 DEF Found
          <6>3. QED
            BY <6>1, <6>2
        <5>4. CASE pc[s] \notin GetPcs
          BY <3>1, <5>1, <5>4 DEF Found, GetPcs
        <5>5. QED
          BY <5>2, <5>3, <5>4 DEF GetPcs
      <4>8. QED
        BY <3>1, <4>5, <4>7
    <3>4. QED
      BY <3>2, <3>3
  <2>3. QED
    BY <2>1, <2>2
<1>9. QED
  BY <1>1, <1>3, <1>7, <1>8

(* A step that leaves the buckets alone leaves what the other threads have *)
(* of them.                                                                *)
LEMMA OthersFound ==
  ASSUME Contents, ~undefined, ~races.make, buckets' = buckets, given \subseteq given',
         NEW s \in Threads, Bucket(s) \notin races.set, pc'[s] = pc[s], token'[s] = token[s],
         user'[s] = user[s], reg'[s] = reg[s]
  PROVE  /\ pc'[s] \in Having => Filed(Mine(s)', pc'[s], reg'[s], token'[s], user'[s])
         /\ Found(s)'
<1>1. Mine(s)' = Mine(s)
  BY DEF Mine, Bucket
<1>2. /\ pc[s] \in Having => Filed(Mine(s), pc[s], reg[s], token[s], user[s])
      /\ Found(s)
  BY DEF Contents
<1>3. Found(s)'
  BY <1>1, <1>2 DEF Found, EntryOf
<1>4. QED
  BY <1>1, <1>2, <1>3

(* A login makes a token no entry has; what it filed is kept once it is    *)
(* answered.                                                               *)
LEMMA LoginKeepsContents ==
  ASSUME SInv, Contents, IInv, IInv', HashOfToken, NEW t \in Threads, Make(t) \/ Return(t), Watch
  PROVE  Contents'
<1> SUFFICES ASSUME ~undefined', ~races'.make
             PROVE  /\ \A h \in Hs \ races'.set : OnceEach(buckets'[h]) /\ Owned(buckets[h])' /\ Kept(h)'
                    /\ \A s \in Threads : Bucket(s)' \notin races'.set =>
                         /\ pc'[s] \in Having => Filed(Mine(s)', pc'[s], reg'[s], token'[s], user'[s])
                         /\ Found(s)'
  BY DEF Contents, OnceEach, Taken, IsFree
<1>1. /\ Typed /\ DOMAIN buckets = Hs /\ pc \in [Threads -> Pcs] /\ token \in [Threads -> Token]
      /\ reg = [s \in Threads |-> reg[s]] /\ user = [s \in Threads |-> user[s]]
  BY DEF SInv, Typed, TypeOK
<1>2. /\ buckets' = buckets /\ ~undefined
      /\ given' = given \/ (Return(t) /\ pc[t] = "return" /\ given' = given \cup {<<token[t], user[t]>>})
      /\ pc[t] \in {"idle", "return"} \cup MakePcs
      /\ pc'[t] \in {"idle", "draw", "drawn"} \/ (pc[t] = "drawn" /\ pc'[t] = "length" /\ given' = given)
      /\ \A s \in Threads \ {t} : /\ pc'[s] = pc[s] /\ reg'[s] = reg[s] /\ token'[s] = token[s]
                                  /\ user'[s] = user[s]
      /\ pc[t] = "return" => Return(t)
  <2> USE <1>1 DEF MakePcs, Step, generator
  <2>1. CASE StartLogin(t)
    BY <2>1 DEF StartLogin
  <2>2. CASE LoadRand(t)
    BY <2>2 DEF LoadRand, Keep
  <2>3. CASE StoreRand(t)
    BY <2>3 DEF StoreRand
  <2>4. CASE Return(t)
    BY <2>4 DEF Return, Forget
  <2>5. QED
    BY <2>1, <2>2, <2>3, <2>4 DEF Make
<1>3. races.set \subseteq races'.set /\ ~races.make
  BY <1>1, HistoryGrows, Watched
<1>4. \A s \in Threads \ {t} : Bucket(s)' = Bucket(s)
  BY <1>2 DEF Bucket
<1>5. ASSUME NEW h \in Hs \ races'.set
      PROVE  OnceEach(buckets'[h]) /\ Owned(buckets[h])' /\ Kept(h)'
  <2>1. OnceEach(buckets[h]) /\ Owned(buckets[h]) /\ Kept(h) /\ h \notin races.set
    BY <1>2, <1>3 DEF Contents
  <2>2. OnceEach(buckets'[h])
    BY <1>2, <2>1
  <2>3. Owned(buckets[h])'
    <3> SUFFICES ASSUME NEW i \in Taken(buckets[h])
                 PROVE  \/ \E g \in given' : g[1] = buckets[h].array[i].key
                        \/ \E s \in Threads : /\ pc'[s] \in AddedPcs \cup {"return"}
                                             /\ token'[s] = buckets[h].array[i].key
      BY <1>2 DEF Owned, Taken, IsFree
    <3>1. CASE \E g \in given : g[1] = buckets[h].array[i].key
      BY <1>2, <3>1
    <3>2. ASSUME NEW s \in Threads, pc[s] \in AddedPcs \cup {"return"}, token[s] = buckets[h].array[i].key
          PROVE  \/ \E g \in given' : g[1] = buckets[h].array[i].key
                 \/ \E u \in Threads : /\ pc'[u] \in AddedPcs \cup {"return"}
                                      /\ token'[u] = buckets[h].array[i].key
      <4>1. CASE s = t
        <5>1. pc[t] = "return"
          BY <1>2, <3>2, <4>1 DEF AddedPcs, MakePcs
        <5>2. <<token[t], user[t]>> \in given'
          BY <1>2, <5>1 DEF Return
        <5>3. <<token[t], user[t]>>[1] = token[t]
          OBVIOUS
        <5>4. QED
          BY <3>2, <4>1, <5>2, <5>3
      <4>2. CASE s # t
        BY <1>2, <3>2, <4>2
      <4>3. QED
        BY <4>1, <4>2
    <3>3. QED
      BY <2>1, <3>1, <3>2 DEF Owned
  <2>4. Kept(h)'
    <3> SUFFICES ASSUME NEW g \in given', BucketOf(g) = h
                 PROVE  \E i \in 0 .. buckets[h].capacity - 1 : buckets[h].array[i] = EntryOf(g)
      BY <1>2 DEF Kept, BucketOf, EntryOf
    <3>1. CASE g \in given
      BY <2>1, <3>1 DEF Kept
    <3>2. CASE g \notin given
      <4>1. pc[t] = "return" /\ g = <<token[t], user[t]>>
        BY <1>2, <3>2
      <4>2. h = Bucket(t) /\ EntryOf(g) = [key |-> token[t], value |-> user[t]]
        BY <4>1 DEF Bucket, BucketOf, EntryOf
      <4>3. Filed(Mine(t), pc[t], reg[t], token[t], user[t])
        BY <1>2, <1>3, <2>1, <4>1, <4>2 DEF Contents, Having
      <4>4. Mine(t) = buckets[h]
        BY <4>2 DEF Mine
      <4>5. QED
        BY <4>1, <4>2, <4>3, <4>4 DEF Filed
    <3>3. QED
      BY <3>1, <3>2
  <2>5. QED
    BY <2>2, <2>3, <2>4
<1>6. ASSUME NEW s \in Threads, Bucket(s)' \notin races'.set
      PROVE  /\ pc'[s] \in Having => Filed(Mine(s)', pc'[s], reg'[s], token'[s], user'[s])
             /\ Found(s)'
  <2>1. CASE s # t
    <3>1. given \subseteq given' /\ Bucket(s) \notin races.set
      BY <1>2, <1>3, <1>4, <1>6, <2>1
    <3>2. QED
      BY <1>2, <1>3, <2>1, <3>1, OthersFound
  <2>2. CASE s = t /\ pc'[t] \in {"idle", "draw", "drawn"}
    BY <2>2 DEF Found, Having, SetPcs
  <2>3. CASE s = t /\ pc[t] = "drawn" /\ pc'[t] = "length" /\ given' = given
    <3>1. PICK h : h = Hash(token'[t]) % Capacity
      OBVIOUS
    <3>2. Bucket(t)' = h /\ h \in Hs /\ Mine(t)' = buckets[h] /\ h \notin races.set
      <4>1. token'[t] \in Token
        BY LoginStaysTyped DEF SInv, Typed, TypeOK
      <4>2. h \in Hs
        BY <3>1, <4>1, BucketInside
      <4>3. Bucket(t)' = h
        BY <3>1 DEF Bucket
      <4>4. QED
        BY <1>2, <1>3, <1>6, <2>3, <4>2, <4>3 DEF Mine
    <3>3. /\ \A u \in Threads : pc'[u] \in Having /\ token'[u] = token'[t] => u = t
          /\ \A g \in given : token'[t] # g[1]
          /\ token'[t] # NoKey
      <4>1. pc'[t] \in Having
        BY <2>3 DEF Having
      <4>2. Apart'
        BY TokensApart, PTL
      <4>3. QED
        BY <2>3, <4>1, <4>2 DEF Apart
    <3>4. WithKey(buckets[h], token'[t]) = {}
      <4> SUFFICES ASSUME NEW i \in DOMAIN buckets[h].array, buckets[h].array[i].key = token'[t] PROVE FALSE
        BY DEF WithKey
      <4>1. i \in Taken(buckets[h]) /\ Owned(buckets[h])
        BY <1>2, <1>3, <3>2, <3>3 DEF Taken, IsFree, Contents
      <4>2. PICK u \in Threads : pc[u] \in AddedPcs \cup {"return"} /\ token[u] = token'[t]
        BY <3>3, <4>1 DEF Owned
      <4>3. u # t
        BY <2>3, <4>2 DEF AddedPcs
      <4>4. pc'[u] \in Having /\ token'[u] = token'[t]
        BY <1>2, <4>2, <4>3 DEF AddedPcs, Having, SetPcs
      <4>5. QED
        BY <3>3, <4>3, <4>4
    <3>5. Filed(buckets[h], "length", reg'[t], token'[t], user'[t])
      BY <3>4 DEF Filed
    <3>6. Found(t)'
      BY <2>3 DEF Found
    <3>7. QED
      BY <2>3, <3>2, <3>5, <3>6
  <2>4. QED
    BY <1>2, <2>1, <2>2, <2>3
<1>7. QED
  BY <1>5, <1>6

(* A lookup meets the entry of the login whose token it looks up, and no   *)
(* other with that key.                                                    *)
LEMMA EntryMet ==
  ASSUME SInv, Contents, IInv, HashOfToken, ~races.make, NEW t \in Threads, Find(t),
         Bucket(t) \notin races.set, NEW g \in given, g[1] = token[t],
         NEW i \in 0 .. reg[t] - 1, Mine(t).array[i] = EntryOf(g)
  PROVE  pc'[t] = "use" /\ reg'[t] = i /\ i \in DOMAIN Mine(t).array
<1> DEFINE h == Bucket(t)
           b == Mine(t)
           m == IF b.length = 0 THEN {} ELSE Met(token[t], reg[t], b)
<1>1. /\ Typed /\ Shelf /\ Readers /\ pc[t] = "find" /\ ~undefined /\ h \in Hs \ races.set
      /\ IsArray(b.array) /\ b.length \in Nat /\ IsBucket(b)
  <2>1. pc[t] = "find" /\ ~undefined /\ h \in Hs
    BY BucketInside DEF Find, Step, SInv, Typed, TypeOK, Bucket
  <2>2. QED
    BY <2>1 DEF SInv, Typed, IsBucket, Mine
<1>2. reg[t] - 1 \in DOMAIN b.array /\ reg[t] \in Nat \ {0}
  BY <1>1 DEF Readers, Typed, Holding
<1>3. i \in DOMAIN b.array /\ b.array[i].key = token[t] /\ token[t] # NoKey
  <2>1. i \in DOMAIN b.array
    BY <1>1, <1>2 DEF IsArray
  <2>2. token[t] # NoKey
    BY TokensApart DEF Apart
  <2>3. QED
    BY <2>1, <2>2 DEF EntryOf
<1>4. i \in Taken(b)
  BY <1>3 DEF Taken, IsFree
<1>5. b.length # 0
  <2> SUFFICES ASSUME b.length = 0 PROVE FALSE
    OBVIOUS
  <2>1. Cardinality(Taken(b)) # 0
    BY <1>1, <1>4, TakenCount
  <2>2. CASE Inside(h, SetPcs) = {}
    <3>1. Sound(b, "length", Null, Null, NoKey)
      BY <1>1, <2>2 DEF Shelf, Mine
    <3>2. QED
      BY <2>1, <3>1 DEF Sound, AddedPcs
  <2>3. ASSUME NEW s \in Inside(h, SetPcs) PROVE FALSE
    <3>1. Sound(b, pc[s], reg[s], fresh[s], token[s])
      BY <1>1 DEF Shelf, Mine
    <3>2. pc[s] \in {"onlyValue", "onlyOne"} /\ Taken(b) = {0}
      BY <2>1, <3>1 DEF Sound, AddedPcs
    <3>3. s \in Threads /\ Bucket(s) = h /\ pc[s] \in Having
      BY DEF Inside, Having
    <3>4. Filed(b, pc[s], reg[s], token[s], user[s])
      <4>1. Mine(s) = b
        BY <3>3 DEF Mine
      <4>2. QED
        BY <1>1, <3>3, <4>1 DEF Contents
    <3>5. WithKey(b, token[s]) # {} /\ token[s] # NoKey
      BY <3>2, <3>3, <3>4, TokensApart DEF Filed, Apart
    <3>6. b.array[0].key = token[s]
      BY <3>2, <3>5 DEF WithKey, Taken, IsFree
    <3>7. i = 0
      BY <1>4, <3>2
    <3>8. token[s] # g[1]
      BY <3>3, TokensApart DEF Apart
    <3>9. QED
      BY <1>3, <3>6, <3>7, <3>8
  <2>4. QED
    BY <2>2, <2>3
<1>6. i \in m
  BY <1>3, <1>5 DEF Met
<1>7. pc'[t] = "use" /\ reg'[t] \in m /\ reg'[t] \in DOMAIN b.array
  <2>1. /\ reg[t] - 1 \in DOMAIN b.array => pc'[t] = IF m = {} THEN "answer" ELSE "use"
        /\ pc'[t] = "use" => reg'[t] \in m /\ reg'[t] \in DOMAIN b.array
    BY <1>1, Finding
  <2> HIDE DEF m
  <2>2. QED
    BY <1>2, <1>6, <2>1
<1>8. reg'[t] \in Taken(b) /\ b.array[reg'[t]].key = b.array[i].key
  BY <1>3, <1>5, <1>7 DEF Met, Taken, IsFree
<1>9. OnceEach(b)
  BY <1>1 DEF Contents, Mine
<1>10. reg'[t] = i
  BY <1>4, <1>8, <1>9 DEF OnceEach
<1>11. QED
  BY <1>3, <1>7, <1>10

LEMMA GetKeepsContents ==
  ASSUME SInv, Contents, IInv, HashOfToken, NEW t \in Threads, Get(t), Watch
  PROVE  Contents'
<1> SUFFICES ASSUME ~undefined', ~races'.make
             PROVE  /\ \A h \in Hs \ races'.set : OnceEach(buckets'[h]) /\ Owned(buckets[h])' /\ Kept(h)'
                    /\ \A s \in Threads : Bucket(s)' \notin races'.set =>
                         /\ pc'[s] \in Having => Filed(Mine(s)', pc'[s], reg'[s], token'[s], user'[s])
                         /\ Found(s)'
  BY DEF Contents, OnceEach, Taken, IsFree
<1>1. /\ Typed /\ DOMAIN buckets = Hs /\ pc \in [Threads -> Pcs] /\ token \in [Threads -> Token]
      /\ reg = [s \in Threads |-> reg[s]] /\ user \in [Threads -> 1 .. MaxLogins \cup {Null}]
  BY DEF SInv, Typed, TypeOK
<1>2. /\ Others(t) /\ buckets' = buckets /\ ~undefined /\ given' = given
      /\ pc[t] \in {"idle", "answer"} \cup GetPcs /\ pc'[t] \in {"idle", "answer"} \cup GetPcs
  BY <1>1, GetOthers DEF Others
<1>3. \A s \in Threads \ {t} : /\ pc'[s] = pc[s] /\ reg'[s] = reg[s] /\ token'[s] = token[s]
                              /\ user'[s] = user[s] /\ Bucket(s)' = Bucket(s)
  BY <1>1, <1>2 DEF Others, GetPcs, Bucket
<1>4. races.set \subseteq races'.set /\ ~races.make
  BY <1>1, HistoryGrows, Watched
<1>5. ASSUME NEW h \in Hs \ races'.set
      PROVE  OnceEach(buckets'[h]) /\ Owned(buckets[h])' /\ Kept(h)'
  <2>1. OnceEach(buckets[h]) /\ Owned(buckets[h]) /\ Kept(h)
    BY <1>2, <1>4 DEF Contents
  <2>2. \A s \in Threads : pc[s] \in AddedPcs \cup {"return"} => pc'[s] = pc[s] /\ token'[s] = token[s]
    BY <1>2, <1>3 DEF AddedPcs, GetPcs
  <2>3. Owned(buckets[h])'
    BY <1>2, <2>1, <2>2 DEF Owned, Taken, IsFree
  <2>4. Kept(h)'
    BY <1>2, <2>1 DEF Kept, BucketOf, EntryOf
  <2>5. QED
    BY <1>2, <2>1, <2>3, <2>4
<1>6. ASSUME NEW s \in Threads \ {t}, Bucket(s)' \notin races'.set
      PROVE  /\ pc'[s] \in Having => Filed(Mine(s)', pc'[s], reg'[s], token'[s], user'[s])
             /\ Found(s)'
  <2>1. Bucket(s) \notin races.set
    BY <1>3, <1>4, <1>6
  <2>2. QED
    BY <1>2, <1>3, <1>4, <2>1, OthersFound
<1>7. pc'[t] \notin Having
  BY <1>2 DEF Having, SetPcs, GetPcs
<1>8. ASSUME Bucket(t)' \notin races'.set
      PROVE  Found(t)'
  <2>1. CASE StartCheck(t)
    <3>1. PICK g \in given : /\ token' = [token EXCEPT ![t] = g[1]]
                             /\ reg' = [reg EXCEPT ![t] = buckets[Hash(g[1]) % Capacity].capacity]
                             /\ pc' = [pc EXCEPT ![t] = "find"]
      BY <2>1 DEF StartCheck, Step
    <3>2. token'[t] = g[1] /\ reg'[t] = buckets[BucketOf(g)].capacity /\ pc'[t] = "find"
      BY <1>1, <3>1 DEF BucketOf
    <3>3. Bucket(t)' = BucketOf(g) /\ Mine(t)' = buckets[BucketOf(g)]
      BY <1>2, <3>2 DEF Bucket, BucketOf, Mine
    <3>4. BucketOf(g) \in Hs \ races.set
      <4>1. g[1] \in Token
        BY <1>1 DEF Typed, TypeOK
      <4>2. QED
        BY <1>4, <1>8, <3>3, <4>1, BucketInside DEF BucketOf
    <3>5. \E i \in 0 .. buckets[BucketOf(g)].capacity - 1 : buckets[BucketOf(g)].array[i] = EntryOf(g)
      BY <1>2, <1>4, <3>4 DEF Contents, Kept
    <3>6. QED
      BY <1>2, <3>2, <3>3, <3>5 DEF Found, EntryOf
  <2>2. CASE Find(t)
    <3>1. token' = token /\ Bucket(t)' = Bucket(t) /\ Mine(t)' = Mine(t) /\ pc[t] = "find"
      BY <1>2, <2>2, Zenon DEF Find, Step, Keep, Bucket, Mine
    <3>2. Bucket(t) \notin races.set
      BY <1>4, <1>8, <3>1
    <3>3. PICK g \in given : g[1] = token[t] /\ \E i \in 0 .. reg[t] - 1 : Mine(t).array[i] = EntryOf(g)
      BY <1>2, <1>4, <3>1, <3>2 DEF Contents, Found
    <3>4. PICK i \in 0 .. reg[t] - 1 : Mine(t).array[i] = EntryOf(g)
      BY <3>3
    <3>5. pc'[t] = "use" /\ reg'[t] = i /\ i \in DOMAIN Mine(t).array
      BY <1>4, <2>2, <3>2, <3>3, <3>4, EntryMet
    <3>6. QED
      BY <1>2, <3>1, <3>3, <3>4, <3>5, Zenon DEF Found, EntryOf
  <2>3. CASE Use(t)
    <3>1. /\ pc[t] = "use" /\ pc'[t] = "answer" /\ reg[t] # Gone /\ token' = token
          /\ user'[t] = Mine(t).array[reg[t]].value
      BY <1>1, <2>3 DEF Use, Step, ValueOf
    <3>2. Bucket(t) \notin races.set
      BY <1>4, <1>8, <3>1 DEF Bucket
    <3>3. PICK g \in given : g[1] = token[t] /\ Mine(t).array[reg[t]] = EntryOf(g)
      BY <1>2, <1>4, <3>1, <3>2 DEF Contents, Found
    <3>4. g = <<g[1], g[2]>>
      BY <1>1 DEF Typed, TypeOK
    <3>5. <<token'[t], user'[t]>> = g
      BY <3>1, <3>3, <3>4 DEF EntryOf
    <3>6. QED
      BY <1>2, <3>1, <3>5 DEF Found
  <2>4. CASE Answer(t)
    BY <1>1, <2>4 DEF Answer, Step, Found
  <2>5. QED
    BY <2>1, <2>2, <2>3, <2>4 DEF Get
<1>9. QED
  BY <1>5, <1>6, <1>7, <1>8

LEMMA StartingContents == Init => Contents
<1> SUFFICES ASSUME Init PROVE Contents
  OBVIOUS
<1>1. given = {} /\ \A t \in Threads : pc[t] = "idle"
  BY DEF Init
<1>2. ASSUME NEW h \in Hs PROVE Taken(buckets[h]) = {}
  <2>1. buckets[h].array = [i \in 0..0 |-> Blank]
    BY <1>2 DEF Init, Hs
  <2>2. QED
    BY <2>1 DEF Taken, IsFree, Blank
<1>3. ASSUME NEW h \in Hs PROVE OnceEach(buckets[h]) /\ Owned(buckets[h]) /\ Kept(h)
  BY <1>1, <1>2 DEF OnceEach, Owned, Kept
<1>4. ASSUME NEW t \in Threads PROVE pc[t] \notin Having /\ Found(t)
  BY <1>1 DEF Having, SetPcs, Found
<1>5. QED
  BY <1>3, <1>4 DEF Contents

LEMMA StayingContents ==
  ASSUME HashOfToken
  PROVE  Contents /\ SInv /\ IInv /\ IInv' /\ [Next]_vars => Contents'
<1> SUFFICES ASSUME Contents, SInv, IInv, IInv', [Next]_vars PROVE Contents'
  OBVIOUS
<1>1. CASE UNCHANGED vars
  BY <1>1 DEF vars, locals, Contents, OnceEach, Owned, Kept, Found, BucketOf, EntryOf, Taken, IsFree,
              Bucket, Mine
<1>2. CASE Next
  <2>1. PICK t \in Threads : Make(t) \/ Set(t) \/ Get(t)
    BY <1>2 DEF Next
  <2>2. Watch
    BY <1>2 DEF Next
  <2>3. CASE Make(t) \/ Return(t)
    BY <2>2, <2>3, LoginKeepsContents
  <2>4. CASE InTable(t)
    BY <2>2, <2>4, SetKeepsContents
  <2>5. CASE Get(t)
    BY <2>2, <2>5, GetKeepsContents
  <2>6. QED
    BY <2>1, <2>3, <2>4, <2>5 DEF Set, InTable
<1>3. QED
  BY <1>1, <1>2

(* A bucket in which no two sets have met has, whenever no set is inside   *)
(* it, the capacity and the length its array says, and no key twice as     *)
(* long as no two threads have made tokens at once (tablec_set of          *)
(* server/libs/tablec.c).                                                  *)
THEOREM Whole ==
  ASSUME HashOfToken
  PROVE  Spec => []WholeAtRest
<1>1. SInv /\ Contents => WholeAtRest
  <2> SUFFICES ASSUME SInv, Contents, ~undefined, NEW h \in Hs \ races.set, Inside(h, SetPcs) = {}
               PROVE  /\ DOMAIN buckets[h].array = 0 .. buckets[h].capacity - 1
                      /\ buckets[h].length = Cardinality(Taken(buckets[h]))
                      /\ ~races.make => \A i, j \in Taken(buckets[h]) :
                           i # j => buckets[h].array[i].key # buckets[h].array[j].key
    BY DEF WholeAtRest, Taken, SInv, Typed
  <2>1. Sound(buckets[h], "length", Null, Null, NoKey)
    BY DEF SInv, Shelf
  <2>2. ~races.make => OnceEach(buckets[h])
    BY DEF Contents
  <2>3. QED
    BY <2>1, <2>2 DEF Sound, AddedPcs, OnceEach
<1>2. SInv /\ IInv /\ [Next]_vars => SInv'
  BY StayingSInv
<1>3. Contents /\ SInv /\ IInv /\ IInv' /\ [Next]_vars => Contents'
  BY StayingContents
<1>4. QED
  BY Starting, StaysIInv, StartingSInv, StartingContents, <1>1, <1>2, <1>3, PTL DEF Spec

(* Whoever was answered with a token is found by every later lookup of it, *)
(* as who logged in, however the table has grown between (the cart         *)
(* handlers of server/main.c and tablec_get), unless two sets of the       *)
(* bucket, or two threads making tokens, have met.                         *)
THEOREM FoundMine ==
  ASSUME HashOfToken
  PROVE  Spec => []FoundIsMine
<1>1. SInv /\ Contents => FoundIsMine
  BY DEF FoundIsMine, Contents, Found
<1>2. SInv /\ IInv /\ [Next]_vars => SInv'
  BY StayingSInv
<1>3. Contents /\ SInv /\ IInv /\ IInv' /\ [Next]_vars => Contents'
  BY StayingContents
<1>4. QED
  BY Starting, StaysIInv, StartingSInv, StartingContents, <1>1, <1>2, <1>3, PTL DEF Spec
=============================================================================
