------------------------------ MODULE Recursion ------------------------------
(***************************************************************************)
(* Induction, for the proofs about what a loop of the server computes.     *)
(*                                                                         *)
(* A loop is a recursive function on its turns: Base before the first, and *)
(* Step from one turn to the next, for some arguments p.  A proof module   *)
(* takes an INSTANCE for each loop of the component it is about, with      *)
(* Holds what it proves of the loop.                                       *)
(***************************************************************************)
EXTENDS Integers, WellFoundedInduction, TLAPS

CONSTANTS
  Base(_),      (* Base(p): what there is before the first turn            *)
  Step(_,_,_),  (* Step(p, x, i): what turn i makes of x                   *)
  Holds(_,_,_)  (* Holds(p, x, i): what is true of x behind turn i         *)

(* What holds for 0, and for n + 1 when it does for n, holds for every n.  *)
LEMMA Induction ==
  ASSUME NEW S, 0 \in S, \A n \in Nat : n \in S => n + 1 \in S
  PROVE  Nat \subseteq S
<1> DEFINE T == Nat \ S
           R == {ss \in Nat \X Nat : ss[1] < ss[2]}
<1>1. SUFFICES ASSUME T # {} PROVE FALSE
  OBVIOUS
<1>2. IsWellFoundedOn(R, Nat)
  BY NatLessThanWellFounded DEF OpToRel
<1>3. PICK x \in T : \A y \in T : ~(<<y, x>> \in R)
  <2>1. T \subseteq Nat /\ T # {}
    BY <1>1
  <2> HIDE DEF T, R
  <2>2. QED
    BY <1>2, <2>1, WFMin
<1>4. x # 0 /\ x - 1 \in Nat /\ x \in Nat /\ x - 1 + 1 = x
  OBVIOUS
<1>5. x - 1 \in T
  BY <1>4
<1>6. <<x - 1, x>> \in R
  BY <1>4
<1>7. QED
  BY <1>3, <1>5, <1>6

(* A non-empty set of cell numbers has a last one, which CHOOSE finds.     *)
LEMMA LastExists ==
  ASSUME NEW n \in Nat, NEW S \in SUBSET (0 .. n), S # {}
  PROVE  \E i \in S : \A j \in S : j <= i
<1> DEFINE Last(A) == \E i \in A : \A j \in A : j <= i
           T == {m \in Nat : \A A \in SUBSET (0 .. m) : A # {} => Last(A)}
<1>1. 0 \in T
  <2>1. ASSUME NEW A \in SUBSET (0 .. 0), A # {} PROVE Last(A)
    <3>1. \A i \in A : i = 0
      OBVIOUS
    <3>2. PICK a : a \in A
      BY <2>1
    <3>3. \A j \in A : j <= a
      BY <3>1, <3>2
    <3>4. QED
      BY <3>2, <3>3
  <2>2. QED
    BY <2>1
<1>2. ASSUME NEW m \in Nat, m \in T PROVE m + 1 \in T
  <2> SUFFICES ASSUME NEW A \in SUBSET (0 .. m + 1), A # {} PROVE Last(A)
    OBVIOUS
  <2>1. CASE m + 1 \in A
    BY <2>1
  <2>2. CASE m + 1 \notin A
    <3>1. A \in SUBSET (0 .. m)
      BY <2>2
    <3>2. QED
      BY <1>2, <3>1
  <2>3. QED
    BY <2>1, <2>2
<1>3. n \in T
  <2> HIDE DEF T
  <2>1. QED
    BY <1>1, <1>2, Induction
<1>4. QED
  BY <1>3

(* A loop over the turns m + 1 to n.                                       *)
Loop(p, m, n, f) == f = [i \in m .. n |-> IF i = m THEN Base(p) ELSE Step(p, f[i - 1], i)]

LEMMA LoopExists ==
  ASSUME NEW p, NEW m \in Int, NEW n \in Int, m <= n
  PROVE  \E f : Loop(p, m, n, f)
<1> DEFINE S == {k \in Nat : \E f : Loop(p, m, m + k, f)}
<1>1. 0 \in S
  <2>1. Loop(p, m, m + 0, [i \in m .. m + 0 |-> Base(p)])
    BY DEF Loop
  <2>2. QED
    BY <2>1
<1>2. ASSUME NEW k \in Nat, k \in S PROVE k + 1 \in S
  <2>1. PICK g : Loop(p, m, m + k, g)
    BY <1>2
  <2> DEFINE l == m + k + 1
             h == [i \in m .. l |-> IF i = l THEN Step(p, g[l - 1], l) ELSE g[i]]
  <2>2. ASSUME NEW i \in m .. l
        PROVE  h[i] = IF i = m THEN Base(p) ELSE Step(p, h[i - 1], i)
    <3>1. CASE i = l
      <4>1. l # m /\ l - 1 \in m .. l /\ l - 1 # l
        OBVIOUS
      <4>2. h[l - 1] = g[l - 1] /\ h[l] = Step(p, g[l - 1], l)
        BY <4>1
      <4>3. QED
        BY <3>1, <4>1, <4>2
    <3>2. CASE i = m
      <4>1. h[m] = g[m] /\ m \in m .. m + k
        OBVIOUS
      <4>2. QED
        BY <2>1, <3>2, <4>1 DEF Loop
    <3>3. CASE i # m /\ i # l
      <4>1. i \in m .. m + k /\ i - 1 \in m .. l /\ i - 1 # l
        BY <3>3
      <4>2. h[i] = g[i] /\ h[i - 1] = g[i - 1]
        BY <3>3, <4>1
      <4>3. g[i] = Step(p, g[i - 1], i)
        BY <2>1, <3>3, <4>1 DEF Loop
      <4>4. QED
        BY <3>3, <4>2, <4>3
    <3>4. QED
      BY <3>1, <3>2, <3>3
  <2>3. Loop(p, m, m + (k + 1), h)
    <3>1. m + (k + 1) = l /\ h = [i \in m .. l |-> h[i]]
      OBVIOUS
    <3> HIDE DEF h, l
    <3>2. QED
      BY <2>2, <3>1 DEF Loop
  <2>4. QED
    BY <2>3
<1>3. n - m \in Nat /\ m + (n - m) = n
  OBVIOUS
<1>4. n - m \in S
  <2> HIDE DEF S
  <2>1. QED
    BY <1>1, <1>2, <1>3, Induction
<1>5. QED
  BY <1>3, <1>4

(* What a recursive function on the turns says of itself.                  *)
Run(p, m, n) == CHOOSE f : Loop(p, m, n, f)

LEMMA Unfolded ==
  ASSUME NEW p, NEW m \in Int, NEW n \in Int, m <= n
  PROVE  LET f == Run(p, m, n) IN
         /\ f[m] = Base(p)
         /\ \A i \in m + 1 .. n : f[i] = Step(p, f[i - 1], i)
<1> DEFINE f == Run(p, m, n)
<1>1. Loop(p, m, n, f)
  BY LoopExists DEF Run
<1> HIDE DEF f
<1>2. \A i \in m .. n : f[i] = IF i = m THEN Base(p) ELSE Step(p, f[i - 1], i)
  BY <1>1 DEF Loop
<1>3. QED
  BY <1>2 DEF f

(* What holds before the first turn, and behind a turn when it did before  *)
(* it, holds behind the last.                                              *)
LEMMA Invariant ==
  ASSUME NEW p, NEW m \in Int, NEW n \in Int, m <= n,
         Holds(p, Base(p), m),
         \A i \in m + 1 .. n : \A x : Holds(p, x, i - 1) => Holds(p, Step(p, x, i), i)
  PROVE  Holds(p, Run(p, m, n)[n], n)
<1> DEFINE f == Run(p, m, n)
<1>1. f[m] = Base(p) /\ \A i \in m + 1 .. n : f[i] = Step(p, f[i - 1], i)
  BY Unfolded
<1> HIDE DEF f
<1> DEFINE S == {k \in Nat : m + k <= n => Holds(p, f[m + k], m + k)}
<1>2. 0 \in S
  <2>1. f[m] = Base(p)
    BY <1>1
  <2>2. m + 0 = m
    OBVIOUS
  <2>3. QED
    BY <2>1, <2>2
<1>3. ASSUME NEW k \in Nat, k \in S PROVE k + 1 \in S
  <2> SUFFICES ASSUME m + (k + 1) <= n PROVE Holds(p, f[m + (k + 1)], m + (k + 1))
    OBVIOUS
  <2> DEFINE i == m + (k + 1)
  <2>1. i \in m + 1 .. n /\ i - 1 = m + k /\ m + k <= n
    OBVIOUS
  <2> HIDE DEF i
  <2>2. Holds(p, f[i - 1], i - 1)
    BY <1>3, <2>1
  <2>3. f[i] = Step(p, f[i - 1], i)
    BY <1>1, <2>1
  <2>4. Holds(p, f[i], i)
    BY <2>1, <2>2, <2>3
  <2>5. QED
    BY <2>4 DEF i
<1>4. n - m \in Nat /\ m + (n - m) = n
  OBVIOUS
<1>5. n - m \in S
  <2> HIDE DEF S
  <2>1. QED
    BY <1>2, <1>3, <1>4, Induction
<1>6. QED
  BY <1>4, <1>5 DEF f

(* A loop with more turns does the same in its first ones.                 *)
LEMMA Agree ==
  ASSUME NEW p, NEW q, NEW m \in Int, NEW n \in Int, NEW l \in Int, m <= n, n <= l,
         Base(p) = Base(q),
         \A i \in m + 1 .. n : \A x : Step(p, x, i) = Step(q, x, i)
  PROVE  Run(p, m, n)[n] = Run(q, m, l)[n]
<1> DEFINE f == Run(p, m, n)
           g == Run(q, m, l)
<1>1. f[m] = Base(p) /\ \A i \in m + 1 .. n : f[i] = Step(p, f[i - 1], i)
  BY Unfolded
<1>2. g[m] = Base(q) /\ \A i \in m + 1 .. l : g[i] = Step(q, g[i - 1], i)
  <2>1. m <= l
    OBVIOUS
  <2>2. QED
    BY <2>1, Unfolded
<1> HIDE DEF f, g
<1> DEFINE S == {k \in Nat : m + k <= n => f[m + k] = g[m + k]}
<1>3. 0 \in S
  <2>1. m + 0 = m
    OBVIOUS
  <2>2. QED
    BY <1>1, <1>2, <2>1
<1>4. ASSUME NEW k \in Nat, k \in S PROVE k + 1 \in S
  <2> SUFFICES ASSUME m + (k + 1) <= n PROVE f[m + (k + 1)] = g[m + (k + 1)]
    OBVIOUS
  <2> DEFINE i == m + (k + 1)
  <2>1. i \in m + 1 .. n /\ i \in m + 1 .. l /\ i - 1 = m + k /\ m + k <= n
    OBVIOUS
  <2> HIDE DEF i
  <2>2. f[i - 1] = g[i - 1]
    BY <1>4, <2>1
  <2>3. f[i] = Step(p, f[i - 1], i) /\ g[i] = Step(q, g[i - 1], i)
    BY <1>1, <1>2, <2>1
  <2>4. f[i] = g[i]
    BY <2>1, <2>2, <2>3
  <2>5. QED
    BY <2>4 DEF i
<1>5. n - m \in Nat /\ m + (n - m) = n
  OBVIOUS
<1>6. n - m \in S
  <2> HIDE DEF S
  <2>1. QED
    BY <1>3, <1>4, <1>5, Induction
<1>7. QED
  BY <1>5, <1>6 DEF f, g

(* With one turn more, it takes one step more.                             *)
LEMMA Further ==
  ASSUME NEW p, NEW q, NEW m \in Int, NEW n \in Int, m <= n,
         Base(p) = Base(q),
         \A i \in m + 1 .. n : \A x : Step(p, x, i) = Step(q, x, i)
  PROVE  Run(q, m, n + 1)[n + 1] = Step(q, Run(p, m, n)[n], n + 1)
<1> DEFINE j == n + 1
<1>1. j \in Int /\ n <= j /\ m <= j /\ j \in m + 1 .. j /\ j - 1 = n
  OBVIOUS
<1> HIDE DEF j
<1>2. Run(p, m, n)[n] = Run(q, m, j)[n]
  BY <1>1, Agree
<1>3. \A i \in m + 1 .. j : Run(q, m, j)[i] = Step(q, Run(q, m, j)[i - 1], i)
  BY <1>1, Unfolded
<1>4. Run(q, m, j)[j] = Step(q, Run(q, m, j)[n], j)
  BY <1>1, <1>3
<1>5. Run(q, m, j)[j] = Step(q, Run(p, m, n)[n], j)
  BY <1>2, <1>4
<1>6. QED
  BY <1>5 DEF j
=============================================================================
