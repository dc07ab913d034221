------------------------------ MODULE WireProofs ------------------------------
(***************************************************************************)
(* The connection's loop and the request parser, for any requests and any  *)
(* sizes of the arrays.                                                    *)
(***************************************************************************)
EXTENDS Wire, SequenceTheorems, TLAPS

LEMMA Limits ==
  /\ MethodSize \in Nat /\ VersionSize \in Nat /\ KeySize \in Nat /\ ValueSize \in Nat
  /\ Size \in Nat /\ Size >= 1 /\ MaxHeaders \in Nat /\ MaxHeaders >= 1 /\ ChunkSize \in Nat /\ ChunkSize > 1
BY ParserAssumption

-----------------------------------------------------------------------------
(* The search: tstr_find_between.                                          *)

(* The first k bytes of pat are in the buffer, from index i.               *)
Occurs(buf, i, pat, k) == \A h \in 1 .. k : buf[i + h - 1] = pat[h]

SearchBase(p) == [j |-> 0, end |-> 0]
SearchStep(p, x, i) == Follow(x, p.buf[p.base + i - 1], i - 1, p.pat)

(* Up to index p.at, a part of pat that is not the beginning of what is    *)
(* there; from there on, what is there.                                    *)
Groping(p, x, i) ==
  /\ x.j \in 0 .. p.l /\ (x.j = 0 => x.end = 0)
  /\ x.j < p.l => i - x.j >= p.from /\ Occurs(p.buf, p.base + i - x.j, p.pat, x.j)
  /\ x.j = p.l => \E o \in p.from .. i - p.l : Occurs(p.buf, p.base + o, p.pat, p.l)
Matching(p, x, i) ==
  x = [j |-> IF i - p.at <= p.l THEN i - p.at ELSE p.l, end |-> p.at]
Found(p, x, i) == IF i <= p.at THEN Groping(p, x, i) ELSE Matching(p, x, i)

Search == INSTANCE Recursion WITH Base <- SearchBase, Step <- SearchStep, Holds <- Found

LEMMA NulFromFound ==
  ASSUME NEW buf, NEW i \in 0 .. Size
  PROVE  /\ NulFrom(buf, i) \in i .. Size /\ NulFrom(buf, i) \in Nat
         /\ NulFrom(buf, i) = Size \/ buf[NulFrom(buf, i)] = Nul
         /\ \A h \in i .. NulFrom(buf, i) - 1 : buf[h] # Nul
<1> DEFINE S == {k \in i .. Size : \A h \in i .. k - 1 : buf[h] # Nul}
           Ends(k) == (k = Size \/ buf[k] = Nul) /\ \A h \in i .. k - 1 : buf[h] # Nul
<1>1. Size \in Nat
  BY Limits
<1>2. i \in S
  BY <1>1
<1>3. S \in SUBSET (0 .. Size)
  BY <1>1
<1>4. PICK k \in S : \A h \in S : h <= k
  <2> HIDE DEF S
  <2>1. QED
    BY <1>1, <1>2, <1>3, Search!LastExists
<1>5. Ends(k)
  <2>1. CASE k # Size /\ buf[k] # Nul
    <3>1. k + 1 \in i .. Size /\ \A h \in i .. k : h = k \/ h \in i .. k - 1
      BY <1>1, <2>1
    <3>2. k + 1 \in S
      BY <1>1, <2>1, <3>1
    <3>3. QED
      BY <1>1, <1>4, <3>2
  <2>2. QED
    BY <2>1
<1>6. NulFrom(buf, i) \in i .. Size /\ Ends(NulFrom(buf, i))
  BY <1>4, <1>5 DEF NulFrom
<1>7. QED
  BY <1>1, <1>6

(* What a search is after its loop.                                        *)
Searched(buf, base, from, pat) ==
  Search!Run([buf |-> buf, base |-> base, pat |-> pat], from, NulFrom(buf, base + from) - base)
    [NulFrom(buf, base + from) - base]

LEMMA FindUnfolds ==
  ASSUME NEW buf, NEW base, NEW from, NEW pat
  PROVE  Find(buf, base, from, pat) =
           LET nul == NulFrom(buf, base + from)
               s   == Searched(buf, base, from, pat) IN
           [start |-> from,
            end   |-> IF s.j = Len(pat) \/ s.end # 0 \/ nul + 1 >= Size THEN s.end
                      ELSE IF buf[nul + 1] = Nul THEN nul + 1 - base ELSE 0,
            over  |-> s.j # Len(pat) /\ (nul = Size \/ (s.end = 0 /\ nul + 1 = Size))]
<1> DEFINE p == [buf |-> buf, base |-> base, pat |-> pat]
<1>1. p.buf = buf /\ p.base = base /\ p.pat = pat
  OBVIOUS
<1> HIDE DEF p
<1>2. QED
  BY <1>1 DEF Find, Searched, p, Search!Run, Search!Loop, SearchBase, SearchStep

(* The pattern of a search is where it is found first, if no part of it    *)
(* that is not the whole ends there.                                       *)
First(buf, base, from, pat, e, l) ==
  /\ Occurs(buf, base + e, pat, l)
  /\ \A o \in from .. e - l : ~Occurs(buf, base + o, pat, l)
  /\ \A j \in 1 .. l - 1 : e - j >= from => ~Occurs(buf, base + e - j, pat, j)

(* A step of the search keeps what it has of the pattern.                  *)
LEMMA GropingStep ==
  ASSUME NEW p, NEW i \in Nat, NEW x, p.base \in Nat, p.from \in Nat, p.l \in Nat, Len(p.pat) = p.l, p.l >= 1,
         i >= 1, i - 1 >= p.from, Groping(p, x, i - 1)
  PROVE  Groping(p, Follow(x, p.buf[p.base + i - 1], i - 1, p.pat), i)
<1> DEFINE buf  == p.buf
           base == p.base
           from == p.from
           pat  == p.pat
           l    == p.l
           c    == buf[base + i - 1]
           y    == Follow(x, c, i - 1, pat)
<1>1. /\ base \in Nat /\ from \in Nat /\ l \in Nat /\ l >= 1 /\ Len(pat) = l
      /\ i \in Nat /\ i >= 1 /\ i - 1 >= from
      /\ p.buf = buf /\ p.base = base /\ p.from = from /\ p.pat = pat /\ p.l = l
  OBVIOUS
<1>9. ASSUME y.j \in 0 .. l, y.j = 0 => y.end = 0,
             y.j < l => i - y.j >= from /\ Occurs(buf, base + i - y.j, pat, y.j),
             y.j = l => \E o \in from .. i - l : Occurs(buf, base + o, pat, l)
      PROVE  Groping(p, y, i)
  BY <1>9 DEF Groping
<1>2. /\ x.j \in 0 .. l /\ (x.j = 0 => x.end = 0)
      /\ x.j < l => i - 1 - x.j >= from /\ Occurs(buf, base + (i - 1) - x.j, pat, x.j)
      /\ x.j = l => \E o \in from .. i - 1 - l : Occurs(buf, base + o, pat, l)
  BY DEF Groping
<1>0. SUFFICES Groping(p, y, i)
  OBVIOUS
<1> HIDE DEF buf, base, from, pat, l, c, y
<1>3. CASE x.j = l
  <2>1. y = x
    BY <1>1, <1>3 DEF y, Follow
  <2>2. PICK o \in from .. i - 1 - l : Occurs(buf, base + o, pat, l)
    BY <1>1, <1>3, <1>2
  <2>3. o \in from .. i - l
    BY <1>1, <2>2
  <2>4. QED
    <3>1. y.j \in 0 .. l /\ (y.j = 0 => y.end = 0)
      BY <1>1, <1>3, <1>2, <2>1, <2>2, <2>3
    <3>2. y.j < l => i - y.j >= from /\ Occurs(buf, base + i - y.j, pat, y.j)
      BY <1>1, <1>3, <1>2, <2>1, <2>2, <2>3 DEF Occurs
    <3>3. y.j = l => \E h \in from .. i - l : Occurs(buf, base + h, pat, l)
      BY <1>1, <1>3, <1>2, <2>1, <2>2, <2>3
    <3>4. QED
      BY <1>9, <3>1, <3>2, <3>3
<1>4. CASE x.j # l /\ c = pat[x.j + 1]
  <2>1. y = [j |-> x.j + 1, end |-> IF x.end = 0 THEN i - 1 ELSE x.end]
    BY <1>1, <1>4 DEF y, Follow
  <2> DEFINE k == x.j + 1
  <2>2. x.j \in 0 .. l - 1 /\ i - 1 - x.j >= from /\ Occurs(buf, base + (i - 1) - x.j, pat, x.j)
    BY <1>1, <1>4, <1>2
  <2>3. k \in 1 .. l /\ i - k >= from /\ base + (i - 1) - x.j = base + i - k /\ i - k \in Nat
    <3> DEFINE j == x.j
    <3>1. j \in Nat /\ j < l /\ i - 1 - j >= from /\ k = j + 1
      BY <1>1, <2>2
    <3> HIDE DEF j, k
    <3>2. i \in Nat /\ l \in Nat /\ base \in Nat /\ from \in Nat
      BY <1>1
    <3>3. k \in 1 .. l /\ i - k >= from /\ i - k \in Nat
      BY <3>1, <3>2
    <3>4. base + (i - 1) - j = base + i - k
      BY <3>1, <3>2
    <3>5. QED
      BY <3>3, <3>4 DEF j
  <2>4. Occurs(buf, base + i - k, pat, k)
    <3> SUFFICES ASSUME NEW h \in 1 .. k PROVE buf[base + i - k + h - 1] = pat[h]
      BY DEF Occurs
    <3>1. CASE h = k
      <4>1. base + i - k + h - 1 = base + i - 1
        BY <1>1, <2>3, <3>1
      <4>2. QED
        BY <1>4, <3>1, <4>1 DEF c
    <3>2. CASE h # k
      <4>1. Occurs(buf, base + i - k, pat, x.j)
        BY <2>2, <2>3
      <4>2. h \in 1 .. x.j
        BY <2>2, <3>2
      <4> HIDE DEF k
      <4>3. QED
        BY <4>1, <4>2 DEF Occurs
    <3>3. QED
      BY <3>1, <3>2
  <2>5. y.j = k /\ y.j # 0
    BY <2>1, <2>3
  <2> HIDE DEF k
  <2>6. k = l => \E o \in from .. i - l : Occurs(buf, base + o, pat, l)
    <3> SUFFICES ASSUME k = l PROVE \E o \in from .. i - l : Occurs(buf, base + o, pat, l)
      OBVIOUS
    <3>1. base + i - k = base + (i - k)
      BY <1>1, <2>3
    <3>2. Occurs(buf, base + (i - l), pat, l)
      BY <2>4, <3>1
    <3>3. i - l \in from .. i - l
      BY <1>1, <2>3
    <3>4. QED
      BY <3>2, <3>3
  <2>7. QED
    <3>1. y.j \in 0 .. l /\ (y.j = 0 => y.end = 0)
      BY <1>1, <2>3, <2>4, <2>5, <2>6
    <3>2. y.j < l => i - y.j >= from /\ Occurs(buf, base + i - y.j, pat, y.j)
      BY <1>1, <2>3, <2>4, <2>5, <2>6 DEF Occurs
    <3>3. y.j = l => \E o \in from .. i - l : Occurs(buf, base + o, pat, l)
      BY <1>1, <2>3, <2>4, <2>5, <2>6
    <3>4. QED
      BY <1>9, <3>1, <3>2, <3>3
<1>5. CASE x.j # l /\ c # pat[x.j + 1]
  <2>1. y.j = 0 /\ y.end = 0
    BY <1>1, <1>5 DEF y, Follow
  <2>2. QED
    <3>1. y.j \in 0 .. l /\ (y.j = 0 => y.end = 0)
      BY <1>1, <2>1
    <3>2. y.j < l => i - y.j >= from /\ Occurs(buf, base + i - y.j, pat, y.j)
      BY <1>1, <2>1 DEF Occurs
    <3>3. y.j = l => \E o \in from .. i - l : Occurs(buf, base + o, pat, l)
      BY <1>1, <2>1
    <3>4. QED
      BY <1>9, <3>1, <3>2, <3>3
<1>6. QED
  BY <1>3, <1>4, <1>5

LEMMA FindsAt ==
  ASSUME NEW buf, NEW base \in Nat, NEW from \in Nat, NEW pat, NEW e \in Nat, NEW l \in Nat,
         base + from <= Size, Len(pat) = l, l >= 1, e >= 1, from <= e,
         base + e + l <= NulFrom(buf, base + from),
         First(buf, base, from, pat, e, l)
  PROVE  Find(buf, base, from, pat) = [start |-> from, end |-> e, over |-> FALSE]
<1> USE DEF First
<1> DEFINE nul == NulFrom(buf, base + from)
           n == nul - base
           p == [buf |-> buf, base |-> base, from |-> from, pat |-> pat, at |-> e, l |-> l]
           q == [buf |-> buf, base |-> base, pat |-> pat]
           s == Searched(buf, base, from, pat)
<1>1. nul \in Nat /\ n \in Nat /\ n >= e + l /\ from <= n
  <2>1. base + from \in 0 .. Size
    BY Limits
  <2>2. QED
    BY <2>1, NulFromFound
<1>2. /\ p.buf = buf /\ p.base = base /\ p.from = from /\ p.pat = pat /\ p.at = e /\ p.l = l
      /\ q.buf = buf /\ q.base = base /\ q.pat = pat
  OBVIOUS
<1>3. s = Search!Run(q, from, n)[n]
  BY DEF Searched
<1> HIDE DEF nul, n, p, q, s
<1>4. s = Search!Run(p, from, n)[n]
  <2>1. \A i \in from + 1 .. n : \A x : SearchStep(q, x, i) = SearchStep(p, x, i)
    BY <1>2 DEF SearchStep
  <2>2. SearchBase(q) = SearchBase(p)
    BY DEF SearchBase
  <2>3. QED
    BY <1>1, <1>3, <2>1, <2>2, Search!Agree
<1>5. Found(p, SearchBase(p), from)
  <2>1. Groping(p, SearchBase(p), from)
    BY <1>2 DEF Groping, SearchBase, Occurs
  <2>2. QED
    BY <1>2, <2>1 DEF Found
<1>6. ASSUME NEW i \in from + 1 .. n, NEW x, Found(p, x, i - 1)
      PROVE  Found(p, SearchStep(p, x, i), i)
  <2> DEFINE c == buf[base + i - 1]
             y == Follow(x, c, i - 1, pat)
  <2>1. SearchStep(p, x, i) = y
    BY <1>2 DEF SearchStep
  <2>2. i \in Nat /\ i >= 1 /\ i - 1 >= from
    BY <1>1
  <2>3. CASE i <= e
    <3>1. Groping(p, x, i - 1)
      BY <1>1, <1>2, <1>6, <2>3 DEF Found
    <3>2. Groping(p, y, i)
      BY <1>2, <2>1, <2>2, <3>1, GropingStep
    <3>3. QED
      BY <1>2, <2>1, <2>3, <3>2 DEF Found
  <2>4. CASE i > e
    <3> DEFINE d == i - 1 - e
    <3>1. d \in Nat /\ i - 1 = e + d /\ i - e = d + 1
      BY <2>2, <2>4
    <3>2. x.j = (IF d <= l THEN d ELSE l) /\ x.end = (IF d = 0 THEN 0 ELSE e)
      <4>1. CASE d = 0
        <5>1. Groping(p, x, e) /\ i - 1 = e
          BY <1>2, <1>6, <3>1, <4>1 DEF Found
        <5>2. x.j # l
          <6> SUFFICES ASSUME x.j = l PROVE FALSE
            OBVIOUS
          <6>1. \E o \in from .. e - l : Occurs(buf, base + o, pat, l)
            BY <1>2, <5>1 DEF Groping
          <6>2. QED
            BY <6>1
        <5>3. x.j = 0
          <6> SUFFICES ASSUME x.j # 0 PROVE FALSE
            OBVIOUS
          <6>1. x.j \in 1 .. l - 1 /\ e - x.j >= from /\ Occurs(buf, base + e - x.j, pat, x.j)
            BY <1>2, <5>1, <5>2 DEF Groping
          <6>2. QED
            BY <6>1
        <5>4. x.end = 0
          BY <1>2, <5>1, <5>3 DEF Groping
        <5>5. QED
          BY <4>1, <5>3, <5>4
      <4>2. CASE d # 0
        <5>1. Matching(p, x, i - 1) /\ i - 1 - e = d
          BY <1>2, <1>6, <3>1, <4>2 DEF Found
        <5>2. QED
          BY <1>2, <4>2, <5>1 DEF Matching
      <4>3. QED
        BY <4>1, <4>2
    <3>3. y = [j |-> IF d + 1 <= l THEN d + 1 ELSE l, end |-> e]
      <4>1. CASE d < l
        <5>1. x.j = d /\ x.j # l /\ d + 1 \in 1 .. l
          BY <3>1, <3>2, <4>1
        <5>2. c = pat[d + 1]
          <6>1. base + i - 1 = base + e + (d + 1) - 1
            BY <3>1
          <6>2. QED
            BY <5>1, <6>1 DEF Occurs
        <5>3. (IF x.end = 0 THEN i - 1 ELSE x.end) = e
          BY <3>1, <3>2
        <5> HIDE DEF c, d
        <5>4. y = [j |-> d + 1, end |-> e]
          BY <5>1, <5>2, <5>3 DEF Follow
        <5>5. QED
          BY <5>1, <5>4
      <4>2. CASE d >= l
        <5>1. x.j = l /\ d # 0
          BY <3>1, <3>2, <4>2
        <5>2. Matching(p, x, i - 1)
          BY <1>2, <1>6, <3>1, <5>1 DEF Found
        <5>3. x = [j |-> l, end |-> e]
          BY <1>2, <3>1, <4>2, <5>2 DEF Matching
        <5>4. y = x
          BY <5>1 DEF Follow
        <5>5. QED
          BY <3>1, <4>2, <5>3, <5>4
      <4>3. QED
        BY <3>1, <4>1, <4>2
    <3>4. Matching(p, y, i)
      BY <1>2, <3>1, <3>3 DEF Matching
    <3>5. QED
      BY <1>2, <2>1, <2>2, <2>4, <3>4 DEF Found
  <2>5. QED
    BY <2>2, <2>3, <2>4
<1>7. Found(p, s, n)
  BY <1>1, <1>4, <1>5, <1>6, Search!Invariant
<1>8. s = [j |-> l, end |-> e]
  <2>1. ~(n <= e) /\ (IF n - e <= l THEN n - e ELSE l) = l
    BY <1>1
  <2>2. Matching(p, s, n)
    BY <1>2, <1>7, <2>1 DEF Found
  <2>3. QED
    BY <1>2, <2>1, <2>2 DEF Matching
<1>9. QED
  <2>1. Searched(buf, base, from, pat) = [j |-> l, end |-> e]
    BY <1>8 DEF s
  <2> DEFINE t == Searched(buf, base, from, pat)
             nil == NulFrom(buf, base + from)
             v == IF t.j = Len(pat) \/ t.end # 0 \/ nil + 1 >= Size THEN t.end
                  ELSE IF buf[nil + 1] = Nul THEN nil + 1 - base ELSE 0
             w == t.j # Len(pat) /\ (nil = Size \/ (t.end = 0 /\ nil + 1 = Size))
  <2>2. Find(buf, base, from, pat) = [start |-> from, end |-> v, over |-> w]
    BY FindUnfolds
  <2>3. v = e
    BY <2>1
  <2>4. w = FALSE
    BY <2>1
  <2> HIDE DEF v, w
  <2>5. QED
    BY <2>2, <2>3, <2>4

(* Where a search ends if it does not end with 0: behind what cannot begin *)
(* the pattern, and in the buffer.                                         *)
Ranging(p, x, i) ==
  /\ x.j \in Nat /\ x.end \in Nat
  /\ x.end # 0 => p.z <= x.end /\ x.end <= i - 1
  /\ i <= p.z => x.j = 0 /\ x.end = 0

Scope == INSTANCE Recursion WITH Base <- SearchBase, Step <- SearchStep, Holds <- Ranging

(* That end, from z on.                                                    *)
InRange(buf, base, from, z, f) ==
  /\ f.start = from /\ f.end \in Nat /\ f.over \in BOOLEAN
  /\ f.end # 0 => /\ z <= f.end /\ base + f.end < Size
                  /\ \/ base + f.end < NulFrom(buf, base + from)
                     \/ base + f.end = NulFrom(buf, base + from) + 1

LEMMA FindRange ==
  ASSUME NEW buf, NEW base \in Nat, NEW from \in Nat, NEW pat, NEW z \in Nat,
         base + from <= Size, Len(pat) \in Nat, Len(pat) >= 1, from <= z, base + z <= NulFrom(buf, base + from),
         \A o \in from .. z - 1 : buf[base + o] # pat[1]
  PROVE  InRange(buf, base, from, z, Find(buf, base, from, pat))
<1> DEFINE nul == NulFrom(buf, base + from)
           n == nul - base
           p == [buf |-> buf, base |-> base, pat |-> pat, z |-> z]
           q == [buf |-> buf, base |-> base, pat |-> pat]
           s == Searched(buf, base, from, pat)
<1>1. nul \in Nat /\ n \in Nat /\ from <= n /\ z <= n /\ nul <= Size /\ Size \in Nat
  <2>1. base + from \in 0 .. Size /\ Size \in Nat
    BY Limits
  <2>2. QED
    BY <2>1, NulFromFound
<1>2. /\ p.buf = buf /\ p.base = base /\ p.pat = pat /\ p.z = z
      /\ q.buf = buf /\ q.base = base /\ q.pat = pat
  OBVIOUS
<1>3. s = Search!Run(q, from, n)[n]
  BY DEF Searched
<1> HIDE DEF p, q, s
<1>4. s = Scope!Run(p, from, n)[n]
  <2>1. \A i \in from + 1 .. n : \A x : SearchStep(q, x, i) = SearchStep(p, x, i)
    BY <1>2 DEF SearchStep
  <2>2. SearchBase(q) = SearchBase(p)
    BY DEF SearchBase
  <2>3. n \in Int /\ from \in Int /\ from <= n /\ n <= n
    BY <1>1
  <2> HIDE DEF n
  <2>4. Scope!Run(q, from, n)[n] = Scope!Run(p, from, n)[n]
    BY <2>1, <2>2, <2>3, Scope!Agree
  <2>5. Search!Run(q, from, n) = Scope!Run(q, from, n)
    BY DEF Search!Run, Search!Loop, Scope!Run, Scope!Loop
  <2>6. QED
    BY <1>3, <2>4, <2>5
<1>5. Ranging(p, SearchBase(p), from)
  BY <1>2 DEF Ranging, SearchBase
<1>6. ASSUME NEW i \in from + 1 .. n, NEW x, Ranging(p, x, i - 1)
      PROVE  Ranging(p, SearchStep(p, x, i), i)
  <2> DEFINE c == buf[base + (i - 1)]
             y == Follow(x, c, i - 1, pat)
  <2>1. SearchStep(p, x, i) = y
    <3>1. base + i - 1 = base + (i - 1)
      BY <1>1
    <3>2. QED
      BY <1>2, <3>1 DEF SearchStep
  <2>2. i \in Nat /\ i >= 1 /\ i - 1 \in Nat /\ i - 1 >= from
    BY <1>1
  <2>3. CASE i <= z
    <3>1. x.j = 0 /\ x.end = 0
      BY <1>2, <1>6, <2>2, <2>3 DEF Ranging
    <3>2. c # pat[1]
      <4>1. i - 1 \in from .. z - 1
        BY <1>1, <2>2, <2>3
      <4>2. QED
        BY <4>1
    <3> HIDE DEF c
    <3>3. y.j = 0 /\ y.end = 0
      BY <3>1, <3>2 DEF Follow
    <3>4. QED
      BY <1>2, <2>1, <3>3 DEF Ranging
  <2>4. CASE i > z
    <3> HIDE DEF c
    <3>1. /\ x.j \in Nat /\ x.end \in Nat
          /\ x.end # 0 => z <= x.end /\ x.end <= i - 1 - 1
      BY <1>2, <1>6 DEF Ranging
    <3>2. \/ y = x
          \/ y.j = x.j + 1 /\ y.end = IF x.end = 0 THEN i - 1 ELSE x.end
          \/ y.j = 0 /\ y.end = 0
      BY DEF Follow
    <3> HIDE DEF y
    <3>3. QED
      BY ONLY <1>2, <2>1, <2>2, <2>4, <3>1, <3>2 DEF Ranging
  <2>5. QED
    BY <2>2, <2>3, <2>4
<1>7. Ranging(p, s, n)
  <2> HIDE DEF n
  <2>1. QED
    BY <1>1, <1>4, <1>5, <1>6, Scope!Invariant
<1> DEFINE v == IF s.j = Len(pat) \/ s.end # 0 \/ nul + 1 >= Size THEN s.end
                ELSE IF buf[nul + 1] = Nul THEN nul + 1 - base ELSE 0
           w == s.j # Len(pat) /\ (nul = Size \/ (s.end = 0 /\ nul + 1 = Size))
<1>8. Find(buf, base, from, pat) = [start |-> from, end |-> v, over |-> w]
  BY FindUnfolds DEF s
<1>9. v \in Nat /\ (v # 0 => z <= v /\ base + v < Size /\ (base + v < nul \/ base + v = nul + 1))
  <2>1. s.end \in Nat /\ (s.end # 0 => z <= s.end /\ s.end <= n - 1)
    BY <1>2, <1>7 DEF Ranging
  <2> HIDE DEF s
  <2>2. CASE s.j = Len(pat) \/ s.end # 0 \/ nul + 1 >= Size
    <3>1. v = s.end
      BY <2>2
    <3> HIDE DEF v
    <3>2. QED
      BY ONLY <1>1, <2>1, <3>1, base \in Nat, z \in Nat DEF n
  <2>3. CASE ~(s.j = Len(pat) \/ s.end # 0 \/ nul + 1 >= Size)
    <3>1. v = IF buf[nul + 1] = Nul THEN nul + 1 - base ELSE 0
      BY <2>3
    <3> HIDE DEF v
    <3>2. ~(nul + 1 >= Size)
      BY <2>3
    <3>3. QED
      BY ONLY <1>1, <3>1, <3>2, base \in Nat, z \in Nat, z <= n DEF n
  <2>4. QED
    BY <2>2, <2>3
<1>10. w \in BOOLEAN
  OBVIOUS
<1> HIDE DEF v, w
<1>11. QED
  BY <1>8, <1>9, <1>10 DEF InRange, nul

-----------------------------------------------------------------------------
(* What the parser makes of any buffer.                                    *)

Buffers == [0 .. Size - 1 -> Symbols \cup {Nul}]
Header == [key : Seq(Symbols), value : Seq(Symbols)]
Results ==
  [buf : Buffers, length : Nat, status : {"parsing", "accept", "reject", "undefined"},
   headers_end : Nat, path : Seq(Symbols), last : Nat, headers : Seq(Header),
   content_length : Int, body : Seq(Symbols \cup {Nul})]

Sane(r) ==
  /\ r \in Results /\ r.length <= Size
  /\ r.headers_end < Size /\ r.last < Size
  /\ Len(r.headers) <= MaxHeaders /\ Len(r.body) <= Size

LEMMA FindSane ==
  ASSUME NEW buf, NEW base \in Nat, NEW from \in Nat, NEW pat, base + from <= Size,
         Len(pat) \in Nat, Len(pat) >= 1
  PROVE  LET f == Find(buf, base, from, pat) IN
         /\ f.start = from /\ f.end \in Nat /\ f.over \in BOOLEAN
         /\ f.end # 0 => from <= f.end /\ base + f.end < Size
<1>1. base + from <= NulFrom(buf, base + from)
  <2>1. base + from \in 0 .. Size
    BY Limits
  <2>2. QED
    BY <2>1, NulFromFound
<1>2. \A o \in from .. from - 1 : buf[base + o] # pat[1]
  OBVIOUS
<1>3. from <= from
  OBVIOUS
<1> DEFINE f == Find(buf, base, from, pat)
<1>4. InRange(buf, base, from, from, f)
  BY ONLY base \in Nat, from \in Nat, base + from <= Size, Len(pat) \in Nat, Len(pat) >= 1,
     <1>1, <1>2, <1>3, FindRange
<1> HIDE DEF f
<1>5. /\ f.start = from /\ f.end \in Nat /\ f.over \in BOOLEAN
      /\ f.end # 0 => from <= f.end /\ base + f.end < Size
  BY ONLY <1>4 DEF InRange
<1>6. QED
  BY <1>5 DEF f

LEMMA Patterns ==
  \A pat \in {Space, Crlf, Crlf \o Crlf, Colon} : Len(pat) \in Nat /\ Len(pat) >= 1
<1>1. Len(Space) = 1 /\ Len(Crlf) = 2 /\ Len(Colon) = 2
  BY DEF Space, Crlf, Colon
<1>2. Len(Crlf \o Crlf) = 4
  BY DEF Crlf
<1>3. QED
  BY <1>1, <1>2

LEMMA FindHere ==
  ASSUME NEW buf, NEW from \in Nat, from <= Size, NEW pat \in {Space, Crlf, Crlf \o Crlf, Colon}
  PROVE  /\ Find(buf, 0, from, pat).start = from
         /\ Find(buf, 0, from, pat).end \in Nat /\ Find(buf, 0, from, pat).end < Size
         /\ Find(buf, 0, from, pat).end # 0 => from <= Find(buf, 0, from, pat).end
<1> DEFINE f == Find(buf, 0, from, pat)
<1>1. 0 \in Nat /\ 0 + from <= Size /\ Len(pat) \in Nat /\ Len(pat) >= 1
  BY Patterns
<1>2. f.start = from /\ f.end \in Nat /\ (f.end # 0 => from <= f.end /\ 0 + f.end < Size)
  BY <1>1, FindSane
<1> HIDE DEF f
<1>3. f.end < Size
  BY <1>2, Limits
<1>4. QED
  BY <1>2, <1>3 DEF f

LEMMA TextSane ==
  ASSUME NEW buf \in Buffers, NEW a \in 0 .. Size, NEW b \in Int
  PROVE  Text(buf, a, b) \in Seq(Symbols)
<1> DEFINE nul == NulFrom(buf, a)
           c == IF nul < b THEN nul ELSE b
<1>1. nul \in a .. Size /\ \A h \in a .. nul - 1 : buf[h] # Nul
  BY NulFromFound
<1> HIDE DEF nul
<1>2. c \in Int /\ c <= nul
  BY <1>1, Limits
<1>3. Text(buf, a, b) = Bytes(buf, a, c)
  BY DEF Text, nul
<1> HIDE DEF c
<1>4. \A i \in 1 .. c - a : buf[a + i - 1] \in Symbols
  <2> SUFFICES ASSUME NEW i \in 1 .. c - a PROVE buf[a + i - 1] \in Symbols
    OBVIOUS
  <2>1. a + i - 1 \in a .. nul - 1 /\ a + i - 1 \in 0 .. Size - 1
    BY <1>1, <1>2, Limits
  <2>2. QED
    BY <1>1, <2>1 DEF Buffers
<1>5. CASE c - a \in Nat
  BY <1>3, <1>4, <1>5, IsASeq DEF Bytes
<1>6. CASE c - a \notin Nat
  <2>1. 1 .. c - a = 1 .. 0
    BY <1>2, <1>6
  <2>2. Bytes(buf, a, c) = [i \in 1 .. 0 |-> buf[a + i - 1]]
    BY <2>1 DEF Bytes
  <2>3. [i \in 1 .. 0 |-> buf[a + i - 1]] \in Seq(Symbols)
    BY IsASeq
  <2>4. QED
    BY <1>3, <2>2, <2>3
<1>7. QED
  BY <1>5, <1>6

LEMMA BytesSane ==
  ASSUME NEW buf \in Buffers, NEW a \in Nat, NEW b \in Nat, a <= b, b <= Size
  PROVE  Bytes(buf, a, b) \in Seq(Symbols \cup {Nul}) /\ Len(Bytes(buf, a, b)) = b - a
<1>1. b - a \in Nat /\ \A i \in 1 .. b - a : buf[a + i - 1] \in Symbols \cup {Nul}
  <2> SUFFICES ASSUME NEW i \in 1 .. b - a PROVE buf[a + i - 1] \in Symbols \cup {Nul}
    OBVIOUS
  <2>1. a + i - 1 \in 0 .. Size - 1
    BY Limits
  <2>2. QED
    BY <2>1 DEF Buffers
<1>2. QED
  BY <1>1, IsASeq, LenProperties DEF Bytes

LEMMA LowerCaseSane ==
  ASSUME NEW text \in Seq(Symbols)
  PROVE  LowerCase(text) \in Seq(Symbols) /\ Len(LowerCase(text)) = Len(text)
<1>1. Len(text) \in Nat /\ DOMAIN text = 1 .. Len(text) /\ \A i \in 1 .. Len(text) : Lower[text[i]] \in Symbols
  BY LenProperties, ElementOfSeq, ParserAssumption
<1>2. LowerCase(text) = [i \in 1 .. Len(text) |-> Lower[text[i]]]
  BY <1>1 DEF LowerCase
<1>3. QED
  BY <1>1, <1>2, IsASeq

LEMMA EndSane ==
  ASSUME NEW r, Sane(r)
  PROVE  Sane(Reject(r)) /\ Sane(Undefined(r)) /\ Sane(Accept(r))
BY DEF Sane, Results, Reject, Undefined, Accept

LEMMA FindHeadersEndSane ==
  ASSUME NEW r, Sane(r)
  PROVE  Sane(FindHeadersEnd(r))
<1> DEFINE end == Find(r.buf, 0, 0, Crlf \o Crlf)
<1>1. end.end \in Nat /\ end.end < Size
  BY FindHere, Limits
<1>2. FindHeadersEnd(r) = IF end.over THEN Undefined(r)
                          ELSE IF end.end = 0 THEN Reject(r)
                          ELSE [r EXCEPT !.headers_end = end.end]
  BY DEF FindHeadersEnd
<1> HIDE DEF end
<1>3. end.end # 0 => Sane([r EXCEPT !.headers_end = end.end])
  BY <1>1 DEF Sane, Results
<1>4. QED
  BY <1>2, <1>3, EndSane

LEMMA TakeMethodSane ==
  ASSUME NEW r, Sane(r)
  PROVE  Sane(TakeMethod(r))
<1> DEFINE method == Find(r.buf, 0, 0, Space)
<1>1. method.end \in Nat /\ method.end < Size
  BY FindHere, Limits
<1>2. TakeMethod(r) \in {Reject(r), Undefined(r), [r EXCEPT !.last = method.end]}
  BY DEF TakeMethod
<1> HIDE DEF method
<1>3. Sane([r EXCEPT !.last = method.end])
  BY <1>1, Limits DEF Sane, Results
<1>4. QED
  BY <1>2, <1>3, EndSane

LEMMA TakePathSane ==
  ASSUME NEW r, Sane(r)
  PROVE  Sane(TakePath(r))
<1> DEFINE path == Find(r.buf, 0, r.last + 1, Space)
           text == Text(r.buf, path.start, path.end)
<1>1. r.last + 1 \in Nat /\ r.last + 1 <= Size /\ r.buf \in Buffers
  BY Limits DEF Sane, Results
<1>2. path.start = r.last + 1 /\ path.end \in Nat /\ path.end < Size
  BY <1>1, FindHere
<1>3. TakePath(r) \in {Reject(r), Undefined(r), [r EXCEPT !.path = text, !.last = path.end]}
  BY DEF TakePath
<1>4. text \in Seq(Symbols)
  <2>1. path.start \in 0 .. Size /\ path.end \in Int
    BY <1>1, <1>2
  <2> HIDE DEF path
  <2>2. QED
    BY <1>1, <2>1, TextSane
<1> HIDE DEF path, text
<1>5. Sane([r EXCEPT !.path = text, !.last = path.end])
  BY <1>2, <1>4, Limits DEF Sane, Results
<1>6. QED
  BY <1>3, <1>5, EndSane

LEMMA TakeVersionSane ==
  ASSUME NEW r, Sane(r)
  PROVE  Sane(TakeVersion(r))
<1> DEFINE from == r.last + 1 + Len(HttpWord)
           version == Find(r.buf, 0, from, Crlf)
<1>1. from \in Nat
  BY DEF Sane, Results, HttpWord
<1>2. from < Size => version.end \in Nat /\ version.end < Size
  BY <1>1, FindHere, Limits
<1>3. \/ TakeVersion(r) \in {Reject(r), Undefined(r)}
      \/ from < Size /\ TakeVersion(r) = [r EXCEPT !.last = version.end]
  BY <1>1, Limits DEF TakeVersion
<1> HIDE DEF version, from
<1>4. from < Size => Sane([r EXCEPT !.last = version.end])
  BY <1>2, Limits DEF Sane, Results
<1>5. QED
  BY <1>3, <1>4, EndSane

(* atoi returns an int, or there is no telling what it does.               *)
LEMMA AtoiSane ==
  ASSUME NEW text, ~Atoi(text).over
  PROVE  Atoi(text).value \in Int
<1>1. Atoi(text).value \in (-MaxInt - 1) .. MaxInt
  BY DEF Atoi
<1>2. MaxInt \in Nat
  BY ParserAssumption
<1>3. QED
  BY ONLY <1>1, <1>2

LEMMA TakeHeaderSane ==
  ASSUME NEW r, Sane(r)
  PROVE  Sane(TakeHeader(r))
<1> DEFINE from   == r.last + Len(Crlf)
           header == Find(r.buf, 0, from, Crlf)
           name   == Find(r.buf, 0, from, Colon)
           key    == LowerCase(Text(r.buf, from, name.end))
           at     == name.end + Len(Colon)
           value  == Text(r.buf, at, header.end)
           told   == Atoi(Bytes(r.buf, from + Len(ContentLength) + Len(Colon), Size))
           length == IF key = ContentLength THEN told.value ELSE r.content_length
           field  == [key |-> key, value |-> value]
           next   == [r EXCEPT !.headers = Append(@, field), !.content_length = length,
                                !.last = header.end]
           Goes   == /\ from < Size /\ name.end # 0 /\ Len(r.headers) < MaxHeaders
                     /\ header.end - at \in 0 .. ValueSize - 1
                     /\ ~(key = ContentLength /\ told.over)
<1>1. from \in Nat /\ r.buf \in Buffers /\ Len(Colon) = 2
  BY DEF Sane, Results, Crlf, Colon
<1>2. from < Size => /\ header.end \in Nat /\ header.end < Size
                     /\ name.end \in Nat /\ name.end < Size
  BY <1>1, FindHere, Limits
<1>3. TakeHeader(r) \in {r, Reject(r), Undefined(r)} \/ (Goes /\ TakeHeader(r) = next)
  <2> DEFINE over == key = ContentLength /\ told.over
             fits == header.end - at \in 0 .. ValueSize - 1
             room == Len(r.headers) < MaxHeaders
             none == name.end = 0
             long == name.end - from >= KeySize
             out  == header.over \/ name.over
  <2>1. TakeHeader(r) = IF r.last = r.headers_end THEN r
                        ELSE IF from >= Size \/ out THEN Undefined(r)
                        ELSE IF none \/ ~room THEN Reject(r)
                        ELSE IF long \/ ~fits THEN Undefined(r)
                        ELSE IF over THEN Undefined(r)
                        ELSE next
    BY DEF TakeHeader, HeaderRoom
  <2>2. Goes <=> from < Size /\ ~none /\ room /\ fits /\ ~over
    OBVIOUS
  <2>3. from >= Size \/ from < Size
    BY <1>1, Limits
  <2> HIDE DEF Goes, next, over, fits, room, none, long, out, from
  <2>4. QED
    BY <2>1, <2>2, <2>3
<1>4. ASSUME Goes PROVE Sane(next)
  <2>1. key \in Seq(Symbols)
    <3>1. from \in 0 .. Size /\ name.end \in Int
      <4>1. from < Size
        BY <1>4
      <4> HIDE DEF from, name
      <4>2. QED
        BY <1>1, <1>2, <4>1, Limits
    <3> HIDE DEF from, name
    <3>2. Text(r.buf, from, name.end) \in Seq(Symbols)
      BY <1>1, <3>1, TextSane
    <3>3. QED
      BY <3>2, LowerCaseSane
  <2>2. value \in Seq(Symbols)
    <3> DEFINE s == name.end
               e == header.end
    <3>1. s \in Nat /\ e \in Nat /\ e < Size /\ Size \in Nat /\ ValueSize \in Nat
      BY <1>2, <1>4, Limits
    <3>2. at = s + 2 /\ e - at \in 0 .. ValueSize - 1
      BY <1>1, <1>4
    <3> HIDE DEF s, e, at
    <3>3. at \in 0 .. Size /\ e \in Int
      BY <3>1, <3>2
    <3>4. at \in 0 .. Size /\ header.end \in Int
      BY <3>3 DEF e
    <3> HIDE DEF header
    <3>5. QED
      BY <1>1, <3>4, TextSane
  <2>3. length \in Int
    <3>1. r.content_length \in Int
      BY DEF Sane, Results
    <3>2. ~told.over => told.value \in Int
      BY AtoiSane
    <3> HIDE DEF told, key
    <3>3. QED
      BY <1>4, <3>1, <3>2
  <2>4. header.end \in Nat /\ header.end < Size
    BY <1>2, <1>4, Limits
  <2>5. field \in Header
    BY <2>1, <2>2 DEF Header
  <2>6. Append(r.headers, field) \in Seq(Header) /\ Len(Append(r.headers, field)) <= MaxHeaders
    <3>1. r.headers \in Seq(Header) /\ Len(r.headers) \in Nat /\ Len(r.headers) < MaxHeaders
      BY <1>4, LenProperties DEF Sane, Results
    <3> HIDE DEF field
    <3>2. QED
      BY <2>5, <3>1, AppendProperties, Limits
  <2> HIDE DEF field, length, header
  <2>7. QED
    BY <2>3, <2>4, <2>6 DEF Sane, Results
<1> HIDE DEF next, Goes
<1>5. QED
  BY <1>3, <1>4, EndSane

(* What fits chunk_size_str has a value.                                   *)
LEMMA HexSane ==
  ASSUME NEW buf \in Buffers, NEW a \in 0 .. Size, NEW l \in 0 .. ChunkSize - 1
  PROVE  Hex[Text(buf, a, a + l)] \in Int
<1> DEFINE nul == NulFrom(buf, a)
           b == IF nul < a + l THEN nul ELSE a + l
           t == Text(buf, a, a + l)
<1>1. nul \in a .. Size /\ Size \in Nat /\ ChunkSize \in Nat
  BY NulFromFound, Limits
<1>2. t \in Seq(Symbols)
  <2>1. a + l \in Int
    BY <1>1
  <2>2. QED
    BY <2>1, TextSane
<1>3. t = [i \in 1 .. b - a |-> buf[a + i - 1]]
  BY DEF Text, Bytes
<1> HIDE DEF nul
<1>4. b - a \in 0 .. ChunkSize - 1
  BY <1>1
<1> HIDE DEF b, t
<1>5. Len(t) = b - a /\ t \in [1 .. Len(t) -> Symbols]
  <2>1. DOMAIN t = 1 .. b - a
    BY <1>3
  <2>2. b - a \in Nat
    BY <1>1, <1>4
  <2>3. t \in [1 .. Len(t) -> Symbols] /\ Len(t) \in Nat
    BY <1>2, LenProperties, ElementOfSeq
  <2>4. Len(t) = b - a
    BY <1>2, <2>1, <2>2, LenProperties
  <2>5. QED
    BY <2>3, <2>4
<1>6. t \in Sizes
  BY <1>4, <1>5 DEF Sizes
<1>7. QED
  BY <1>6, ParserAssumption DEF t

LEMMA TakeChunkSane ==
  ASSUME NEW r, Sane(r)
  PROVE  Sane(TakeChunk(r))
<1> DEFINE base == r.headers_end + 4
           size == Find(r.buf, base, 0, Crlf)
           room == ChunkRoom(r, size.end)
           told == Hex[Text(r.buf, base, base + size.end)]
           from == base + size.end + 2
           n    == IF room > told THEN told ELSE room
           next == [r EXCEPT !.body = Bytes(r.buf, from, from + n)]
           Goes == base < Size /\ size.end < ChunkSize /\ ~(n < 0 \/ from + n > Size)
<1>1. base \in Nat /\ r.buf \in Buffers /\ r.length \in Int /\ r.headers_end \in Nat
  BY DEF Sane, Results
<1>2. base < Size => size.end \in Nat
  <2>1. base < Size => base + 0 <= Size
    BY <1>1, Limits
  <2> HIDE DEF base
  <2>2. QED
    BY <1>1, <2>1, FindSane, Patterns
<1>3. TakeChunk(r) \in {Reject(r), Undefined(r)} \/ (Goes /\ TakeChunk(r) = next)
  <2>1. size.end >= ChunkSize \/ size.end < ChunkSize \/ ~(base < Size)
    BY <1>2, Limits
  <2> HIDE DEF n, size
  <2>2. QED
    BY <1>1, <2>1, Limits DEF TakeChunk, n, size
<1>4. ASSUME Goes PROVE Sane(next)
  <2>1. from \in Nat /\ from + n \in Nat /\ from <= from + n /\ from + n <= Size
    <3>1. told \in Int
      <4>1. base \in 0 .. Size /\ size.end \in 0 .. ChunkSize - 1
        BY <1>1, <1>2, <1>4, Limits
      <4> HIDE DEF base, size
      <4>2. QED
        BY <1>1, <4>1, HexSane
    <3>2. room \in Int
      BY <1>1, <1>2, <1>4 DEF ChunkRoom
    <3> HIDE DEF told, room, size
    <3>3. QED
      BY <1>1, <1>2, <1>4, <3>1, <3>2, Limits
  <2> DEFINE to == from + n
             body == Bytes(r.buf, from, to)
  <2> HIDE DEF from, to
  <2>2. body \in Seq(Symbols \cup {Nul}) /\ Len(body) = to - from
    BY <1>1, <2>1, BytesSane DEF to
  <2>3. Len(body) <= Size
    BY <2>1, <2>2, Limits DEF to
  <2>4. next = [r EXCEPT !.body = body]
    BY DEF to
  <2> HIDE DEF body, next
  <2>5. QED
    BY <2>2, <2>3, <2>4 DEF Sane, Results
<1> HIDE DEF next, Goes
<1>5. QED
  BY <1>3, <1>4, EndSane

LEMMA TakeLengthSane ==
  ASSUME NEW r, Sane(r)
  PROVE  Sane(TakeLength(r))
<1> DEFINE from == r.headers_end + 4
           to == from + r.content_length
<1>1. from \in Nat /\ r.buf \in Buffers /\ r.length \in Nat /\ r.content_length \in Int /\ r.length <= Size
  BY DEF Sane, Results
<1>2. \/ TakeLength(r) \in {Reject(r), Undefined(r)}
      \/ /\ r.length - from = r.content_length /\ ~(r.content_length < 0)
         /\ TakeLength(r) = [r EXCEPT !.body = Bytes(r.buf, from, to)]
  BY DEF TakeLength
<1>3. ASSUME r.length - from = r.content_length, ~(r.content_length < 0)
      PROVE  Sane([r EXCEPT !.body = Bytes(r.buf, from, to)])
  <2>1. to \in Nat /\ from <= to /\ to <= Size
    BY <1>1, <1>3, Limits
  <2> DEFINE body == Bytes(r.buf, from, to)
  <2> HIDE DEF from, to
  <2>2. body \in Seq(Symbols \cup {Nul}) /\ Len(body) = to - from
    BY <1>1, <2>1, BytesSane
  <2>3. Len(body) <= Size
    BY <1>1, <2>1, <2>2, Limits
  <2> HIDE DEF body
  <2>4. Sane([r EXCEPT !.body = body])
    BY <2>2, <2>3 DEF Sane, Results
  <2>5. QED
    BY <2>4 DEF body
<1>4. QED
  BY <1>2, <1>3, EndSane

LEMMA TakeBodySane ==
  ASSUME NEW r, Sane(r)
  PROVE  Sane(TakeBody(r))
<1>1. TakeBody(r) \in {r, Reject(r), TakeChunk(r), TakeLength(r)}
  BY DEF TakeBody
<1>2. QED
  BY <1>1, EndSane, TakeChunkSane, TakeLengthSane

(* The loop over the headers.                                              *)
HeadersBase(r) == r
HeadersStep(r, x, i) == Then(x, TakeHeader)
HeadersSane(r, x, i) == Sane(x)
Headers == INSTANCE Recursion WITH Base <- HeadersBase, Step <- HeadersStep, Holds <- HeadersSane

LEMMA HeadersRun ==
  ASSUME NEW r
  PROVE  TakeHeaders(r) = Headers!Run(r, 0, MaxHeaders + 1)[MaxHeaders + 1]
BY DEF TakeHeaders, Headers!Run, Headers!Loop, HeadersBase, HeadersStep

LEMMA TakeHeadersSane ==
  ASSUME NEW r, Sane(r)
  PROVE  Sane(TakeHeaders(r))
<1> DEFINE n == MaxHeaders + 1
<1>1. 0 \in Int /\ n \in Int /\ 0 <= n
  BY Limits
<1>2. HeadersSane(r, HeadersBase(r), 0)
  BY DEF HeadersSane, HeadersBase
<1>3. ASSUME NEW i \in 0 + 1 .. n, NEW x, HeadersSane(r, x, i - 1)
      PROVE  HeadersSane(r, HeadersStep(r, x, i), i)
  BY <1>3, TakeHeaderSane DEF HeadersSane, HeadersStep, Then
<1>4. TakeHeaders(r) = Headers!Run(r, 0, n)[n]
  BY HeadersRun
<1> HIDE DEF n
<1>5. HeadersSane(r, Headers!Run(r, 0, n)[n], n)
  BY <1>1, <1>2, <1>3, Headers!Invariant
<1>6. QED
  BY <1>4, <1>5 DEF HeadersSane

(* Every stage in turn, or the rest of them left out.                      *)
LEMMA ParseSane ==
  ASSUME NEW buf \in Buffers, NEW n \in 1 .. Size
  PROVE  Sane(Parse(buf, n)) /\ Parse(buf, n).status # "parsing"
<1> DEFINE r0 == Request(buf, n)
           r1 == Then(r0, FindHeadersEnd)
           r2 == Then(r1, TakeMethod)
           r3 == Then(r2, TakePath)
           r4 == Then(r3, TakeVersion)
           r5 == Then(r4, TakeHeaders)
           r6 == Then(r5, TakeBody)
           r7 == Then(r6, Accept)
<1>1. Sane(r0)
  BY EmptySeq, Limits DEF Request, Sane, Results
<1> HIDE DEF r0
<1>2. Sane(r1)
  BY <1>1, FindHeadersEndSane DEF Then
<1> HIDE DEF r1
<1>3. Sane(r2)
  BY <1>2, TakeMethodSane DEF Then
<1> HIDE DEF r2
<1>4. Sane(r3)
  BY <1>3, TakePathSane DEF Then
<1> HIDE DEF r3
<1>5. Sane(r4)
  BY <1>4, TakeVersionSane DEF Then
<1> HIDE DEF r4
<1>6. Sane(r5)
  BY <1>5, TakeHeadersSane DEF Then
<1> HIDE DEF r5
<1>7. Sane(r6)
  BY <1>6, TakeBodySane DEF Then
<1> HIDE DEF r6
<1>8. Sane(r7) /\ r7.status # "parsing"
  <2>1. Accept(r6).status = "accept"
    BY <1>7 DEF Accept, Sane, Results
  <2>2. QED
    BY <1>7, <2>1, EndSane DEF Then
<1>9. Parse(buf, n) = r7
  BY DEF Parse, r0, r1, r2, r3, r4, r5, r6
<1>10. QED
  BY <1>8, <1>9

-----------------------------------------------------------------------------
(* Sequences one after the other, for the arguments p: the sequences and   *)
(* what they are made of.                                                  *)
FlattenBase(p) == p.seqs[1]
FlattenStep(p, s, i) == s \o p.seqs[i]
FlattenHolds(p, s, i) == s \in Seq(p.of)
Flatten == INSTANCE Recursion WITH Base <- FlattenBase, Step <- FlattenStep, Holds <- FlattenHolds

LEMMA FlattenRuns ==
  ASSUME NEW p, Len(p.seqs) # 0
  PROVE  FlattenSeq(p.seqs) = Flatten!Run(p, 1, Len(p.seqs))[Len(p.seqs)]
BY DEF FlattenSeq, Flatten!Run, Flatten!Loop, FlattenBase, FlattenStep

LEMMA FlattenSequence ==
  ASSUME NEW S, NEW seqs \in Seq(Seq(S))
  PROVE  FlattenSeq(seqs) \in Seq(S)
<1> DEFINE n == Len(seqs)
           p == [seqs |-> seqs, of |-> S]
<1>1. n \in Nat /\ \A i \in 1 .. n : seqs[i] \in Seq(S)
  OBVIOUS
<1>2. CASE n = 0
  <2>1. seqs = <<>>
    BY <1>2
  <2>2. FlattenSeq(seqs) = seqs
    BY <1>2 DEF FlattenSeq
  <2>3. QED
    BY <2>1, <2>2, EmptySeq
<1>3. CASE n # 0
  <2>1. p.seqs = seqs /\ p.of = S
    OBVIOUS
  <2> HIDE DEF n, p
  <2>2. 1 \in Int /\ n \in Int /\ 1 <= n /\ 1 \in 1 .. n
    BY <1>1, <1>3
  <2>3. FlattenHolds(p, FlattenBase(p), 1)
    BY <1>1, <2>1, <2>2 DEF FlattenHolds, FlattenBase
  <2>4. ASSUME NEW i \in 1 + 1 .. n, NEW s, FlattenHolds(p, s, i - 1)
        PROVE  FlattenHolds(p, FlattenStep(p, s, i), i)
    <3>1. seqs[i] \in Seq(S)
      BY <1>1, <2>2
    <3>2. s \in Seq(S)
      BY <2>1, <2>4 DEF FlattenHolds
    <3>3. s \o seqs[i] \in Seq(S)
      BY <3>1, <3>2, ConcatProperties
    <3>4. QED
      BY <2>1, <3>3 DEF FlattenHolds, FlattenStep
  <2>5. FlattenHolds(p, Flatten!Run(p, 1, n)[n], n)
    BY <2>2, <2>3, <2>4, Flatten!Invariant
  <2>6. FlattenSeq(seqs) = Flatten!Run(p, 1, n)[n]
    BY <1>3, <2>1, FlattenRuns DEF n
  <2>7. QED
    BY <2>1, <2>5, <2>6 DEF FlattenHolds
<1>4. QED
  BY <1>2, <1>3

LEMMA FlattenAppend ==
  ASSUME NEW S, NEW seqs \in Seq(Seq(S)), NEW one \in Seq(S)
  PROVE  FlattenSeq(Append(seqs, one)) = FlattenSeq(seqs) \o one
<1> DEFINE n == Len(seqs)
           more == Append(seqs, one)
           p == [seqs |-> seqs, of |-> S]
           q == [seqs |-> more, of |-> S]
           f == Flatten!Run(q, 1, n + 1)
<1>1. /\ n \in Nat /\ Len(more) = n + 1 /\ more[n + 1] = one
      /\ \A i \in 1 .. n : more[i] = seqs[i]
  OBVIOUS
<1>2. p.seqs = seqs /\ q.seqs = more
  OBVIOUS
<1> HIDE DEF more, p, q
<1>3. FlattenSeq(more) = f[n + 1]
  <2>1. Len(more) # 0
    BY <1>1
  <2>2. QED
    BY <1>1, <1>2, <2>1, FlattenRuns
<1>4. f[1] = FlattenBase(q) /\ \A i \in 1 + 1 .. n + 1 : f[i] = FlattenStep(q, f[i - 1], i)
  <2>1. 1 \in Int /\ n + 1 \in Int /\ 1 <= n + 1
    BY <1>1
  <2>2. QED
    BY <2>1, Flatten!Unfolded
<1>5. CASE n = 0
  <2>1. seqs = <<>>
    BY <1>5
  <2>2. FlattenSeq(seqs) = <<>>
    BY <1>5, <2>1 DEF FlattenSeq
  <2>3. FlattenSeq(more) = one
    BY <1>1, <1>2, <1>3, <1>4, <1>5 DEF FlattenBase
  <2>4. QED
    BY <2>2, <2>3, ConcatEmptySeq DEF more
<1>6. CASE n # 0
  <2>1. FlattenSeq(seqs) = Flatten!Run(p, 1, n)[n]
    BY <1>2, <1>6, FlattenRuns
  <2> HIDE DEF n
  <2>2. Flatten!Run(p, 1, n)[n] = f[n]
    <3>1. 1 \in Int /\ n \in Int /\ n + 1 \in Int /\ 1 <= n /\ n <= n + 1
      BY <1>1, <1>6
    <3>2. FlattenBase(p) = FlattenBase(q)
      BY <1>1, <1>2, <1>6 DEF FlattenBase
    <3>3. ASSUME NEW i \in 1 + 1 .. n, NEW x PROVE FlattenStep(p, x, i) = FlattenStep(q, x, i)
      <4>1. more[i] = seqs[i]
        BY <1>1
      <4>2. QED
        BY <1>2, <4>1 DEF FlattenStep
    <3>4. QED
      BY <3>1, <3>2, <3>3, Flatten!Agree
  <2> HIDE DEF f
  <2>3. f[n + 1] = FlattenStep(q, f[n], n + 1)
    <3> DEFINE j == n + 1
    <3>1. j \in 1 + 1 .. n + 1 /\ j - 1 = n
      BY <1>1, <1>6
    <3> HIDE DEF j
    <3>2. f[j] = FlattenStep(q, f[j - 1], j)
      BY <1>4, <3>1
    <3>3. QED
      BY <3>1, <3>2 DEF j
  <2>4. QED
    BY <1>1, <1>2, <1>3, <2>1, <2>2, <2>3 DEF FlattenStep, more
<1>7. QED
  BY <1>5, <1>6

(* What is so of <<>>, and of a sequence with one more when it is so of    *)
(* the sequence, is so of every sequence.                                  *)
LEMMA SequenceInduction ==
  ASSUME NEW E, NEW S, <<>> \in S,
         \A s \in Seq(E) : \A x \in E : s \in S => Append(s, x) \in S
  PROVE  Seq(E) \subseteq S
<1> DEFINE N == {n \in Nat : \A s \in Seq(E) : Len(s) = n => s \in S}
<1>1. 0 \in N
  BY EmptySeq
<1>2. ASSUME NEW n \in Nat, n \in N PROVE n + 1 \in N
  <2> SUFFICES ASSUME NEW t \in Seq(E), Len(t) = n + 1 PROVE t \in S
    OBVIOUS
  <2>1. t # <<>>
    BY EmptySeq
  <2>2. PICK s \in Seq(E), x \in E : t = Append(s, x)
    BY <2>1, SequenceEmptyOrAppend
  <2>3. Len(s) = n
    BY <2>2, AppendProperties
  <2>4. QED
    BY <1>2, <2>2, <2>3
<1> HIDE DEF N
<1>3. Nat \subseteq N
  BY <1>1, <1>2, Flatten!Induction
<1>4. QED
  BY <1>3 DEF N

(* A sequence of sequences is what is before one of them, that one, and    *)
(* what is behind it.                                                      *)
Regrouped(S) == \A s, t, u \in Seq(S) : (s \o t) \o u = s \o (t \o u)

LEMMA Regroup == \A S : Regrouped(S)
BY ConcatAssociative DEF Regrouped

LEMMA FlattenSplit ==
  ASSUME NEW S, NEW seqs \in Seq(Seq(S)), NEW i \in 1 .. Len(seqs)
  PROVE  \E rest \in Seq(S) :
           FlattenSeq(seqs) = (FlattenSeq(SubSeq(seqs, 1, i - 1)) \o seqs[i]) \o rest
<1> DEFINE Splits(ss, j) == \E rest \in Seq(S) :
             FlattenSeq(ss) = (FlattenSeq(SubSeq(ss, 1, j - 1)) \o ss[j]) \o rest
           T == {ss \in Seq(Seq(S)) : \A j \in 1 .. Len(ss) : Splits(ss, j)}
<1>1. <<>> \in T
  BY EmptySeq
<1>2. ASSUME NEW ss \in Seq(Seq(S)), NEW x \in Seq(S), ss \in T
      PROVE  Append(ss, x) \in T
  <2> DEFINE more == Append(ss, x)
  <2>1. /\ more \in Seq(Seq(S)) /\ Len(more) = Len(ss) + 1 /\ Len(ss) \in Nat
        /\ \A j \in 1 .. Len(ss) : more[j] = ss[j]
        /\ more[Len(ss) + 1] = x
    BY AppendProperties, LenProperties
  <2>2. FlattenSeq(more) = FlattenSeq(ss) \o x
    BY FlattenAppend
  <2> HIDE DEF more
  <2>3. ASSUME NEW j \in 1 .. Len(ss) + 1
        PROVE  SubSeq(more, 1, j - 1) = SubSeq(ss, 1, j - 1)
    BY <2>1
  <2>4. ASSUME NEW j \in 1 .. Len(ss) PROVE Splits(more, j)
    <3>1. PICK rest \in Seq(S) : FlattenSeq(ss) = (FlattenSeq(SubSeq(ss, 1, j - 1)) \o ss[j]) \o rest
      BY <1>2
    <3>2. /\ SubSeq(ss, 1, j - 1) \in Seq(Seq(S)) /\ ss[j] \in Seq(S)
      <4> DEFINE R == Seq(S)
      <4>1. ss \in Seq(R) /\ j \in 1 .. Len(ss) /\ Len(ss) \in Nat
        BY <2>1
      <4> HIDE DEF R
      <4>2. SubSeq(ss, 1, j - 1) \in Seq(R) /\ ss[j] \in R
        BY <4>1
      <4>3. QED
        BY <4>2 DEF R
    <3>3. FlattenSeq(SubSeq(ss, 1, j - 1)) \in Seq(S)
      BY <3>2, FlattenSequence
    <3>4. FlattenSeq(SubSeq(ss, 1, j - 1)) \o ss[j] \in Seq(S)
      BY <3>2, <3>3, ConcatProperties
    <3> DEFINE front == FlattenSeq(SubSeq(ss, 1, j - 1)) \o ss[j]
    <3> HIDE DEF front
    <3>5. FlattenSeq(more) = front \o (rest \o x) /\ rest \o x \in Seq(S)
      <4>1. front \in Seq(S) /\ FlattenSeq(more) = (front \o rest) \o x
        BY <2>2, <3>1, <3>4 DEF front
      <4>2. rest \o x \in Seq(S)
        BY ConcatProperties
      <4>3. Regrouped(S)
        BY Regroup
      <4>4. QED
        BY <4>1, <4>2, <4>3 DEF Regrouped
    <3>6. more[j] = ss[j] /\ SubSeq(more, 1, j - 1) = SubSeq(ss, 1, j - 1)
      <4>1. j \in 1 .. Len(ss) + 1
        BY <2>1
      <4>2. QED
        BY <2>1, <2>3, <4>1
    <3>7. QED
      BY <3>5, <3>6 DEF front
  <2>5. Splits(more, Len(ss) + 1)
    <3> DEFINE m == Len(ss) + 1
    <3>1. SubSeq(more, 1, m - 1) = ss /\ more[m] = x
      BY <2>1, <2>3, SubSeqFull
    <3> HIDE DEF m
    <3>2. FlattenSeq(ss) \o x \in Seq(S)
      BY FlattenSequence, ConcatProperties
    <3>3. FlattenSeq(more) = (FlattenSeq(ss) \o x) \o <<>>
      BY <2>2, <3>2, ConcatEmptySeq
    <3>4. Splits(more, m)
      BY <3>1, <3>3, EmptySeq
    <3>5. QED
      BY <3>4 DEF m
  <2> HIDE DEF Splits
  <2>6. \A j \in 1 .. Len(more) : Splits(more, j)
    <3>1. \A j \in 1 .. Len(more) : j \in 1 .. Len(ss) \/ j = Len(ss) + 1
      BY <2>1
    <3>2. QED
      BY <2>4, <2>5, <3>1
  <2>7. QED
    BY <2>1, <2>6 DEF more
<1>3. Seq(Seq(S)) \subseteq T
  <2> HIDE DEF T
  <2>1. QED
    BY <1>1, <1>2, SequenceInduction
<1>4. QED
  BY <1>3

-----------------------------------------------------------------------------
(* What a client sends.                                                    *)

LEMMA MarksTyped ==
  /\ \A s \in {Space, Crlf, Colon, HttpWord} : s \in Seq(Symbols)
  /\ Len(Space) = 1 /\ Len(Crlf) = 2 /\ Len(Colon) = 2 /\ Len(HttpWord) = 1
BY ParserAssumption DEF Space, Crlf, Colon, HttpWord

LEMMA CrlfTwice ==
  LET twice == Crlf \o Crlf IN
  /\ twice \in Seq(Symbols) /\ Len(twice) = 4
  /\ twice[1] = "CR" /\ twice[2] = "LF" /\ twice[3] = "CR" /\ twice[4] = "LF"
<1> DEFINE twice == Crlf \o Crlf
<1>1. Crlf \in Seq(Symbols) /\ Len(Crlf) = 2 /\ Crlf[1] = "CR" /\ Crlf[2] = "LF"
  BY MarksTyped DEF Crlf
<1>2. /\ twice \in Seq(Symbols) /\ Len(twice) = Len(Crlf) + Len(Crlf)
      /\ \A i \in 1 .. Len(Crlf) + Len(Crlf) : twice[i] = IF i <= Len(Crlf) THEN Crlf[i] ELSE Crlf[i - Len(Crlf)]
  BY <1>1, ConcatProperties
<1> HIDE DEF twice
<1>3. /\ twice \in Seq(Symbols) /\ Len(twice) = 2 + 2
      /\ \A i \in 1 .. 2 + 2 : twice[i] = IF i <= 2 THEN Crlf[i] ELSE Crlf[i - 2]
  BY <1>1, <1>2
<1>4. /\ twice[1] = Crlf[1] /\ twice[2] = Crlf[2] /\ twice[3] = Crlf[3 - 2] /\ twice[4] = Crlf[4 - 2]
      /\ Len(twice) = 4
  BY <1>3
<1>5. QED
  BY <1>1, <1>3, <1>4 DEF twice

LEMMA FieldTyped ==
  ASSUME NEW f \in Fields
  PROVE  /\ f.key \in Seq(Symbols) /\ f.sep \in Seq(Symbols) /\ f.value \in Seq(Symbols)
         /\ f.key # <<>> /\ (f.sep = Colon \/ (f.sep = <<>> /\ f.value = <<>>))
         /\ f.key \in Seq(Symbols \ {":", "CR", "LF"}) /\ f.value \in Seq(Symbols \ {"CR", "LF"})
<1>1. \A marks : \A s \in Seq(Symbols \ marks) : s \in Seq(Symbols)
  <2> SUFFICES ASSUME NEW marks, NEW s \in Seq(Symbols \ marks) PROVE s \in Seq(Symbols)
    OBVIOUS
  <2>1. Symbols \ marks \subseteq Symbols
    OBVIOUS
  <2>2. QED
    BY <2>1, SeqMonotonic
<1>2. <<>> \in Seq(Symbols \ {"CR", "LF"}) /\ <<>> \in Seq(Symbols)
  BY EmptySeq
<1>3. CASE f \in [key : Named, sep : {Colon}, value : Free({"CR", "LF"})]
  BY <1>1, <1>3, MarksTyped DEF Named, Free
<1>4. CASE f \in [key : Named, sep : {<<>>}, value : {<<>>}]
  BY <1>1, <1>2, <1>4 DEF Named, Free
<1>5. QED
  BY <1>3, <1>4 DEF Fields

LEMMA LineTyped ==
  ASSUME NEW f \in Fields
  PROVE  /\ Line(f) \in Seq(Symbols) /\ Len(Line(f)) = Len(f.key) + Len(f.sep) + Len(f.value) + 2
<1>1. f.key \in Seq(Symbols) /\ f.sep \in Seq(Symbols) /\ f.value \in Seq(Symbols) /\ Crlf \in Seq(Symbols)
  BY FieldTyped, MarksTyped
<1>2. f.key \o f.sep \in Seq(Symbols) /\ Len(f.key \o f.sep) = Len(f.key) + Len(f.sep)
  BY <1>1, ConcatProperties
<1>3. /\ (f.key \o f.sep) \o f.value \in Seq(Symbols)
      /\ Len((f.key \o f.sep) \o f.value) = Len(f.key) + Len(f.sep) + Len(f.value)
  BY <1>1, <1>2, ConcatProperties
<1>4. /\ ((f.key \o f.sep) \o f.value) \o Crlf \in Seq(Symbols)
      /\ Len(((f.key \o f.sep) \o f.value) \o Crlf) = Len(f.key) + Len(f.sep) + Len(f.value) + 2
  <2> DEFINE front == (f.key \o f.sep) \o f.value
  <2> HIDE DEF front
  <2>1. front \in Seq(Symbols) /\ Len(front) = Len(f.key) + Len(f.sep) + Len(f.value)
    BY <1>3 DEF front
  <2>2. front \o Crlf \in Seq(Symbols) /\ Len(front \o Crlf) = Len(front) + Len(Crlf)
    BY <1>1, <2>1, ConcatProperties
  <2>3. Len(Crlf) = 2
    BY MarksTyped
  <2>4. QED
    BY <2>1, <2>2, <2>3 DEF front
<1>5. QED
  BY <1>4 DEF Line

LEMMA RequestTyped ==
  ASSUME NEW r \in Requests
  PROVE  /\ IsRequest(r)
         /\ r.method \in Seq(Symbols) /\ r.path \in Seq(Symbols) /\ r.version \in Seq(Symbols)
         /\ r.body \in Seq(Symbols) /\ r.fields \in Seq(Fields)
         /\ Len(r.method) \in Nat /\ Len(r.method) >= 1 /\ Len(r.path) \in Nat /\ Len(r.version) \in Nat
         /\ Len(r.body) \in Nat /\ Len(r.fields) \in Nat /\ DOMAIN r.fields = 1 .. Len(r.fields)
<1>1. IsRequest(r)
  BY WireAssumption
<1>2. \A marks : \A s \in Seq(Symbols \ marks) : s \in Seq(Symbols)
  <2> SUFFICES ASSUME NEW marks, NEW s \in Seq(Symbols \ marks) PROVE s \in Seq(Symbols)
    OBVIOUS
  <2>1. Symbols \ marks \subseteq Symbols
    OBVIOUS
  <2>2. QED
    BY <2>1, SeqMonotonic
<1>3. /\ r.method \in Seq(Symbols) /\ r.path \in Seq(Symbols) /\ r.version \in Seq(Symbols)
      /\ r.body \in Seq(Symbols) /\ r.fields \in Seq(Fields) /\ r.method # <<>>
  BY <1>1, <1>2 DEF IsRequest, Free
<1>4. QED
  BY <1>1, <1>3, LenProperties, EmptySeq

(* The lines of the headers; the index of the line end before the first,   *)
(* and of that behind the j-th.                                            *)
Parts(r) == [i \in DOMAIN r.fields |-> Line(r.fields[i])]
Top(r) == Len(r.method) + Len(r.path) + Len(r.version) + 3
Ends(r, j) == Top(r) + Len(FlattenSeq(SubSeq(Parts(r), 1, j)))

LEMMA PartsTyped ==
  ASSUME NEW r \in Requests
  PROVE  /\ Parts(r) \in Seq(Seq(Symbols)) /\ Len(Parts(r)) = Len(r.fields)
         /\ \A i \in 1 .. Len(r.fields) : r.fields[i] \in Fields /\ Parts(r)[i] = Line(r.fields[i])
<1>1. Len(r.fields) \in Nat /\ DOMAIN r.fields = 1 .. Len(r.fields) /\ r.fields \in Seq(Fields)
  BY RequestTyped
<1>2. \A i \in 1 .. Len(r.fields) : r.fields[i] \in Fields
  BY <1>1, ElementOfSeq
<1>3. \A i \in 1 .. Len(r.fields) : Line(r.fields[i]) \in Seq(Symbols)
  BY <1>2, LineTyped
<1>4. Parts(r) = [i \in 1 .. Len(r.fields) |-> Line(r.fields[i])]
  BY <1>1 DEF Parts
<1>5. Parts(r) \in Seq(Seq(Symbols))
  BY <1>1, <1>3, <1>4, IsASeq
<1>6. QED
  BY <1>1, <1>2, <1>4, <1>5

LEMMA EndsFollow ==
  ASSUME NEW r \in Requests
  PROVE  /\ Top(r) \in Nat /\ Ends(r, 0) = Top(r)
         /\ \A j \in 0 .. Len(r.fields) : Ends(r, j) \in Nat
         /\ \A j \in 1 .. Len(r.fields) : Ends(r, j) = Ends(r, j - 1) + Len(Line(r.fields[j]))
<1> DEFINE k == Len(r.fields)
           s == Parts(r)
           F(j) == FlattenSeq(SubSeq(s, 1, j))
<1>1. /\ Len(s) = k /\ k \in Nat /\ s \in Seq(Seq(Symbols))
      /\ \A i \in 1 .. k : r.fields[i] \in Fields /\ s[i] = Line(r.fields[i])
  BY PartsTyped, RequestTyped
<1>2. Top(r) \in Nat
  <2>1. Len(r.method) \in Nat /\ Len(r.path) \in Nat /\ Len(r.version) \in Nat
    BY RequestTyped
  <2>2. \A a, b, c \in Nat : a + b + c + 3 \in Nat
    OBVIOUS
  <2>3. QED
    BY <2>1, <2>2, Zenon DEF Top
<1> HIDE DEF s, k
<1>3. F(0) = <<>> /\ Len(F(0)) = 0
  <2>1. SubSeq(s, 1, 0) = <<>>
    BY <1>1, SubSeqEmpty
  <2>2. FlattenSeq(<<>>) = <<>>
    BY DEF FlattenSeq
  <2>3. F(0) = <<>>
    BY <2>1, <2>2
  <2> HIDE DEF F
  <2>4. QED
    BY <2>3, EmptySeq
<1>4. ASSUME NEW j \in 0 .. k PROVE F(j) \in Seq(Symbols) /\ Len(F(j)) \in Nat
  <2>1. SubSeq(s, 1, j) \in Seq(Seq(Symbols))
    BY <1>1
  <2>2. QED
    BY <2>1, FlattenSequence, LenProperties
<1>5. ASSUME NEW j \in 1 .. k PROVE Len(F(j)) = Len(F(j - 1)) + Len(s[j])
  <2>1. SubSeq(s, 1, j) = Append(SubSeq(s, 1, j - 1), s[j])
    BY <1>1
  <2>2. SubSeq(s, 1, j - 1) \in Seq(Seq(Symbols)) /\ s[j] \in Seq(Symbols)
    BY <1>1
  <2>3. F(j) = F(j - 1) \o s[j]
    BY <2>1, <2>2, FlattenAppend
  <2>4. F(j - 1) \in Seq(Symbols)
    BY <2>2, FlattenSequence
  <2>5. QED
    BY <2>2, <2>3, <2>4, ConcatProperties
<1>6. \A j : Ends(r, j) = Top(r) + Len(F(j))
  BY DEF Ends, s
<1> HIDE DEF F
<1>7. Ends(r, 0) = Top(r)
  BY <1>2, <1>3, <1>6
<1>8. \A j \in 0 .. k : Ends(r, j) \in Nat
  BY <1>2, <1>4, <1>6
<1>9. ASSUME NEW j \in 1 .. k PROVE Ends(r, j) = Ends(r, j - 1) + Len(Line(r.fields[j]))
  <2>1. Len(F(j - 1)) \in Nat /\ s[j] = Line(r.fields[j]) /\ Len(s[j]) \in Nat
    <3>1. j - 1 \in 0 .. k /\ s[j] \in Seq(Symbols)
      BY <1>1
    <3>2. QED
      BY <1>1, <1>4, <3>1, LenProperties
  <2>2. Len(F(j)) = Len(F(j - 1)) + Len(s[j])
    BY <1>5
  <2>3. Ends(r, j) = Top(r) + Len(F(j)) /\ Ends(r, j - 1) = Top(r) + Len(F(j - 1))
    BY <1>6
  <2>4. QED
    BY <1>2, <2>1, <2>2, <2>3
<1>10. QED
  BY <1>2, <1>7, <1>8, <1>9 DEF k

(* The buffer holds s from index i.                                        *)
Has(buf, i, s) == \A h \in 1 .. Len(s) : buf[i + h - 1] = s[h]

LEMMA HasJoin ==
  ASSUME NEW buf, NEW S, NEW i \in Nat, NEW s \in Seq(S), NEW t \in Seq(S), Has(buf, i, s \o t)
  PROVE  Has(buf, i, s) /\ Has(buf, i + Len(s), t)
<1> DEFINE w == s \o t
           n == Len(s)
<1>1. /\ Len(w) = n + Len(t) /\ n \in Nat /\ Len(t) \in Nat
      /\ \A h \in 1 .. Len(w) : w[h] = IF h <= n THEN s[h] ELSE t[h - n]
  BY ConcatProperties, LenProperties
<1>2. \A h \in 1 .. Len(w) : buf[i + h - 1] = w[h]
  BY DEF Has
<1> HIDE DEF w, n
<1>3. ASSUME NEW h \in 1 .. n PROVE buf[i + h - 1] = s[h]
  <2>1. h \in 1 .. Len(w) /\ h <= n
    BY <1>1
  <2>2. QED
    BY <1>1, <1>2, <2>1
<1>4. ASSUME NEW h \in 1 .. Len(t) PROVE buf[i + n + h - 1] = t[h]
  <2> DEFINE g == h + n
  <2>1. g \in 1 .. Len(w) /\ ~(g <= n) /\ g - n = h /\ i + g - 1 = i + n + h - 1
    BY <1>1
  <2> HIDE DEF g
  <2>2. buf[i + g - 1] = t[g - n]
    BY <1>1, <1>2, <2>1
  <2>3. QED
    BY <2>1, <2>2
<1>5. QED
  BY <1>3, <1>4 DEF Has, n

(* Where the parts of a request are in a buffer that begins with it, but   *)
(* for its body.                                                           *)
FirstLine(r) == ((((r.method \o Space) \o r.path) \o Space) \o HttpWord) \o r.version \o Crlf
Laid(buf, r) ==
  LET m == Len(r.method)
      p == m + 1 + Len(r.path)
      k == Len(r.fields) IN
  /\ Has(buf, 0, r.method) /\ buf[m] = "SP"
  /\ Has(buf, m + 1, r.path) /\ buf[p] = "SP" /\ buf[p + 1] = HttpWord[1]
  /\ Has(buf, p + 2, r.version)
  /\ \A j \in 0 .. k : buf[Ends(r, j)] = "CR" /\ buf[Ends(r, j) + 1] = "LF"
  /\ \A j \in 1 .. k : Has(buf, Ends(r, j - 1) + 2, Line(r.fields[j]))
  /\ buf[Ends(r, k) + 2] = "CR" /\ buf[Ends(r, k) + 3] = "LF"

LEMMA Single ==
  ASSUME NEW buf, NEW i \in Nat
  PROVE  /\ Has(buf, i, Space) => buf[i] = "SP"
         /\ Has(buf, i, Crlf) => buf[i] = "CR" /\ buf[i + 1] = "LF"
         /\ Has(buf, i, HttpWord) => buf[i] = HttpWord[1]
         /\ Has(buf, i, Colon) => buf[i] = ":" /\ buf[i + 1] = "SP"
<1>1. \A s : Has(buf, i, s) /\ 1 <= Len(s) /\ Len(s) \in Nat => buf[i] = s[1]
  <2> SUFFICES ASSUME NEW s, Has(buf, i, s), 1 <= Len(s), Len(s) \in Nat PROVE buf[i] = s[1]
    OBVIOUS
  <2>1. 1 \in 1 .. Len(s) /\ i + 1 - 1 = i
    OBVIOUS
  <2>2. QED
    BY <2>1 DEF Has
<1>2. \A s : Has(buf, i, s) /\ 2 <= Len(s) /\ Len(s) \in Nat => buf[i + 1] = s[2]
  <2> SUFFICES ASSUME NEW s, Has(buf, i, s), 2 <= Len(s), Len(s) \in Nat PROVE buf[i + 1] = s[2]
    OBVIOUS
  <2>1. 2 \in 1 .. Len(s) /\ i + 2 - 1 = i + 1
    OBVIOUS
  <2>2. QED
    BY <2>1 DEF Has
<1>3. Space[1] = "SP" /\ Crlf[1] = "CR" /\ Crlf[2] = "LF" /\ Colon[1] = ":" /\ Colon[2] = "SP"
  BY DEF Space, Crlf, Colon
<1>4. QED
  BY <1>1, <1>2, <1>3, MarksTyped

LEMMA FirstLineTyped ==
  ASSUME NEW r \in Requests
  PROVE  /\ FirstLine(r) \in Seq(Symbols) /\ Len(FirstLine(r)) = Top(r) + 2
         /\ \A buf : Has(buf, 0, FirstLine(r)) =>
              LET m == Len(r.method)
                  p == m + 1 + Len(r.path) IN
              /\ Has(buf, 0, r.method) /\ buf[m] = "SP"
              /\ Has(buf, m + 1, r.path) /\ buf[p] = "SP" /\ buf[p + 1] = HttpWord[1]
              /\ Has(buf, p + 2, r.version)
              /\ buf[Top(r)] = "CR" /\ buf[Top(r) + 1] = "LF"
<1> DEFINE m == Len(r.method)
           p == Len(r.path)
           v == Len(r.version)
           h1 == r.method \o Space
           h2 == h1 \o r.path
           h3 == h2 \o Space
           h4 == h3 \o HttpWord
           h5 == h4 \o r.version
           h6 == h5 \o Crlf
<1>1. /\ r.method \in Seq(Symbols) /\ r.path \in Seq(Symbols) /\ r.version \in Seq(Symbols)
      /\ m \in Nat /\ p \in Nat /\ v \in Nat
      /\ Space \in Seq(Symbols) /\ Crlf \in Seq(Symbols) /\ HttpWord \in Seq(Symbols)
      /\ Len(Space) = 1 /\ Len(Crlf) = 2 /\ Len(HttpWord) = 1
  BY RequestTyped, MarksTyped
<1>2. Top(r) = m + p + v + 3
  BY DEF Top
<1>3. FirstLine(r) = h6
  BY DEF FirstLine
<1>4. Len(r.method) = m /\ Len(r.path) = p /\ Len(r.version) = v
  OBVIOUS
<1> HIDE DEF m, p, v
<1>5. h1 \in Seq(Symbols) /\ Len(h1) = m + 1
  <2>1. h1 \in Seq(Symbols) /\ Len(h1) = Len(r.method) + Len(Space)
    BY <1>1, ConcatProperties
  <2> HIDE DEF h1
  <2>2. QED
    BY <1>1, <1>4, <2>1
<1> HIDE DEF h1
<1>6. h2 \in Seq(Symbols) /\ Len(h2) = m + p + 1
  <2>1. h2 \in Seq(Symbols) /\ Len(h2) = Len(h1) + Len(r.path)
    BY <1>1, <1>5, ConcatProperties
  <2> HIDE DEF h2
  <2>2. QED
    BY <1>1, <1>5, <1>4, <2>1
<1> HIDE DEF h2
<1>7. h3 \in Seq(Symbols) /\ Len(h3) = m + p + 2
  <2>1. h3 \in Seq(Symbols) /\ Len(h3) = Len(h2) + Len(Space)
    BY <1>1, <1>6, ConcatProperties
  <2> HIDE DEF h3
  <2>2. QED
    BY <1>1, <1>6, <2>1
<1> HIDE DEF h3
<1>8. h4 \in Seq(Symbols) /\ Len(h4) = m + p + 3
  <2>1. h4 \in Seq(Symbols) /\ Len(h4) = Len(h3) + Len(HttpWord)
    BY <1>1, <1>7, ConcatProperties
  <2> HIDE DEF h4
  <2>2. QED
    BY <1>1, <1>7, <2>1
<1> HIDE DEF h4
<1>9. h5 \in Seq(Symbols) /\ Len(h5) = m + p + v + 3
  <2>1. h5 \in Seq(Symbols) /\ Len(h5) = Len(h4) + Len(r.version)
    BY <1>1, <1>8, ConcatProperties
  <2> HIDE DEF h5
  <2>2. QED
    BY <1>1, <1>8, <1>4, <2>1
<1> HIDE DEF h5
<1>10. h6 \in Seq(Symbols) /\ Len(h6) = m + p + v + 5
  <2>1. h6 \in Seq(Symbols) /\ Len(h6) = Len(h5) + Len(Crlf)
    BY <1>1, <1>9, ConcatProperties
  <2> HIDE DEF h6
  <2>2. QED
    BY <1>1, <1>9, <2>1
<1> HIDE DEF h6
<1>11. ASSUME NEW buf, Has(buf, 0, h6)
       PROVE  /\ Has(buf, 0, r.method) /\ buf[m] = "SP"
              /\ Has(buf, m + 1, r.path) /\ buf[m + 1 + p] = "SP" /\ buf[m + 1 + p + 1] = HttpWord[1]
              /\ Has(buf, m + 1 + p + 2, r.version)
              /\ buf[Top(r)] = "CR" /\ buf[Top(r) + 1] = "LF"
  <2>1. Has(buf, 0, h5) /\ Has(buf, 0 + Len(h5), Crlf)
    BY <1>1, <1>9, <1>11, HasJoin DEF h6
  <2>2. Has(buf, 0, h4) /\ Has(buf, 0 + Len(h4), r.version)
    BY <1>1, <1>8, <2>1, HasJoin DEF h5
  <2>3. Has(buf, 0, h3) /\ Has(buf, 0 + Len(h3), HttpWord)
    BY <1>1, <1>7, <2>2, HasJoin DEF h4
  <2>4. Has(buf, 0, h2) /\ Has(buf, 0 + Len(h2), Space)
    BY <1>1, <1>6, <2>3, HasJoin DEF h3
  <2>5. Has(buf, 0, h1) /\ Has(buf, 0 + Len(h1), r.path)
    BY <1>1, <1>5, <2>4, HasJoin DEF h2
  <2>6. Has(buf, 0, r.method) /\ Has(buf, 0 + m, Space)
    BY <1>1, <2>5, HasJoin DEF h1, m
  <2>7. /\ 0 + Len(h5) = Top(r) /\ 0 + Len(h4) = m + 1 + p + 2 /\ 0 + Len(h3) = m + 1 + p + 1
        /\ 0 + Len(h2) = m + 1 + p /\ 0 + Len(h1) = m + 1 /\ 0 + m = m
        /\ Top(r) \in Nat /\ m + 1 + p + 1 \in Nat /\ m + 1 + p \in Nat
    BY <1>1, <1>2, <1>5, <1>6, <1>7, <1>8, <1>9
  <2>8. QED
    BY <1>1, <2>1, <2>2, <2>3, <2>4, <2>5, <2>6, <2>7, Single
<1>12. Len(h6) = Top(r) + 2
  BY <1>1, <1>2, <1>10
<1>13. QED
  BY <1>3, <1>10, <1>11, <1>12 DEF m, p

LEMMA WiredTyped ==
  ASSUME NEW r \in Requests
  PROVE  /\ Wired[r] \in Seq(Symbols) /\ Lines(r) \in Seq(Symbols)
         /\ Len(Lines(r)) = Ends(r, Len(r.fields)) + 2
         /\ Len(Wired[r]) = Ends(r, Len(r.fields)) + 4 + Len(r.body)
         /\ \A buf : Has(buf, 0, Lines(r) \o Crlf) => Laid(buf, r)
         /\ \A buf : Has(buf, 0, Wired[r]) =>
              Has(buf, 0, Lines(r) \o Crlf) /\ Has(buf, Ends(r, Len(r.fields)) + 4, r.body)
         /\ Lines(r) \o Crlf \in Seq(Symbols) /\ Len(Lines(r) \o Crlf) = Ends(r, Len(r.fields)) + 4
         /\ \A h \in 1 .. Ends(r, Len(r.fields)) + 4 : (Lines(r) \o Crlf)[h] = Wired[r][h]
<1> DEFINE k == Len(r.fields)
           s == Parts(r)
           all == FlattenSeq(s)
           e == Ends(r, k)
           lines == Lines(r)
           w1 == lines \o Crlf
           w2 == w1 \o r.body
<1>1. /\ s \in Seq(Seq(Symbols)) /\ Len(s) = k /\ k \in Nat
      /\ \A i \in 1 .. k : r.fields[i] \in Fields /\ s[i] = Line(r.fields[i])
  BY PartsTyped, RequestTyped
<1>2. /\ Top(r) \in Nat /\ Ends(r, 0) = Top(r) /\ e \in Nat
      /\ \A j \in 0 .. k : Ends(r, j) \in Nat
      /\ \A j \in 1 .. k : Ends(r, j) = Ends(r, j - 1) + Len(Line(r.fields[j]))
  BY <1>1, EndsFollow
<1>3. all \in Seq(Symbols) /\ e = Top(r) + Len(all)
  <2>1. SubSeq(s, 1, k) = s
    BY <1>1, SubSeqFull
  <2>2. QED
    BY <1>1, <2>1, FlattenSequence DEF Ends
<1>4. lines = FirstLine(r) \o all /\ Wired[r] = w2
  BY DEF Lines, FirstLine, Parts, Wired
<1> HIDE DEF s, k, e, lines, all
<1>5. lines \in Seq(Symbols) /\ Len(lines) = e + 2
  <2>1. Top(r) + 2 \in Nat /\ Len(all) \in Nat
    BY <1>2, <1>3, LenProperties
  <2>2. FirstLine(r) \in Seq(Symbols) /\ Len(FirstLine(r)) = Top(r) + 2
    BY FirstLineTyped
  <2>3. lines \in Seq(Symbols) /\ Len(lines) = Len(FirstLine(r)) + Len(all)
    BY <1>3, <1>4, <2>2, ConcatProperties
  <2>4. QED
    BY <1>2, <1>3, <2>1, <2>2, <2>3
<1>6. w1 \in Seq(Symbols) /\ Len(w1) = e + 4
  <2>1. w1 \in Seq(Symbols) /\ Len(w1) = Len(lines) + Len(Crlf)
    BY <1>5, MarksTyped, ConcatProperties
  <2> HIDE DEF w1
  <2>2. QED
    BY <1>2, <1>5, <2>1, MarksTyped
<1> HIDE DEF w1
<1>7. /\ w2 \in Seq(Symbols) /\ Len(w2) = e + 4 + Len(r.body)
      /\ \A h \in 1 .. e + 4 : w1[h] = w2[h]
  <2> DEFINE b == r.body
  <2>1. w1 \in Seq(Symbols) /\ b \in Seq(Symbols) /\ w2 = w1 \o b
    BY <1>6, RequestTyped
  <2> HIDE DEF b, w2
  <2>2. /\ w1 \o b \in Seq(Symbols) /\ Len(w1 \o b) = Len(w1) + Len(b)
        /\ \A h \in 1 .. Len(w1) : (w1 \o b)[h] = w1[h]
    BY <2>1, ConcatProperties
  <2>3. Len(w2) = Len(w1) + Len(r.body)
    BY <2>1, <2>2 DEF b
  <2>4. QED
    BY <1>2, <1>6, <2>1, <2>2, <2>3
<1> HIDE DEF w2
<1>8. ASSUME NEW buf, Has(buf, 0, w2) PROVE Has(buf, 0, w1) /\ Has(buf, e + 4, r.body)
  <2>1. Has(buf, 0, w1) /\ Has(buf, 0 + Len(w1), r.body)
    BY <1>6, <1>8, HasJoin, RequestTyped DEF w2
  <2>2. 0 + Len(w1) = e + 4
    BY <1>2, <1>6
  <2>3. QED
    BY <2>1, <2>2
<1>9. ASSUME NEW buf, Has(buf, 0, w1) PROVE Laid(buf, r)
  <2>2. Has(buf, 0, lines) /\ buf[e + 2] = "CR" /\ buf[e + 3] = "LF"
    <3>1. Has(buf, 0, lines) /\ Has(buf, 0 + Len(lines), Crlf)
      BY <1>5, <1>9, HasJoin, MarksTyped DEF w1
    <3>2. 0 + Len(lines) = e + 2 /\ e + 2 \in Nat /\ e + 2 + 1 = e + 3
      BY <1>2, <1>5
    <3>3. QED
      BY <3>1, <3>2, Single
  <2>3. Has(buf, 0, FirstLine(r)) /\ Has(buf, Top(r) + 2, all)
    <3>1. FirstLine(r) \in Seq(Symbols) /\ Len(FirstLine(r)) = Top(r) + 2
      BY FirstLineTyped
    <3>2. Has(buf, 0, FirstLine(r)) /\ Has(buf, 0 + Len(FirstLine(r)), all)
      BY <1>3, <1>4, <2>2, <3>1, HasJoin
    <3>3. 0 + Len(FirstLine(r)) = Top(r) + 2
      BY <1>2, <3>1
    <3>4. QED
      BY <3>2, <3>3
  <2>4. ASSUME NEW j \in 1 .. k
        PROVE  /\ Has(buf, Ends(r, j - 1) + 2, Line(r.fields[j]))
               /\ buf[Ends(r, j)] = "CR" /\ buf[Ends(r, j) + 1] = "LF"
    <3> DEFINE f == r.fields[j]
               before == FlattenSeq(SubSeq(s, 1, j - 1))
               at == Ends(r, j - 1) + 2
               front == f.key \o f.sep \o f.value
    <3>1. PICK rest \in Seq(Symbols) : all = (before \o s[j]) \o rest
      BY <1>1, FlattenSplit DEF all
    <3>2. before \in Seq(Symbols) /\ s[j] = Line(f) /\ f \in Fields /\ Line(f) \in Seq(Symbols)
      <4>1. SubSeq(s, 1, j - 1) \in Seq(Seq(Symbols))
        BY <1>1
      <4>2. f \in Fields /\ s[j] = Line(f)
        BY <1>1
      <4>3. QED
        BY <4>1, <4>2, FlattenSequence, LineTyped
    <3>3. Top(r) + 2 + Len(before) = at /\ at \in Nat
      <4>1. j - 1 \in 0 .. k /\ Ends(r, j - 1) = Top(r) + Len(before)
        BY <1>1 DEF Ends, s
      <4>2. Len(before) \in Nat
        BY <3>2, LenProperties
      <4> HIDE DEF before
      <4>3. QED
        BY <1>2, <4>1, <4>2
    <3> HIDE DEF before
    <3>4. Has(buf, Top(r) + 2, before \o s[j])
      <4>1. before \o s[j] \in Seq(Symbols) /\ Top(r) + 2 \in Nat
        BY <1>2, <3>2, ConcatProperties
      <4> DEFINE both == before \o s[j]
      <4> HIDE DEF both
      <4>2. Has(buf, Top(r) + 2, both \o rest) /\ both \in Seq(Symbols)
        BY <2>3, <3>1, <4>1 DEF both
      <4>3. Has(buf, Top(r) + 2, both)
        BY <4>1, <4>2, HasJoin
      <4>4. QED
        BY <4>3 DEF both
    <3>5. Has(buf, at, Line(f))
      <4>1. Top(r) + 2 \in Nat
        BY <1>2
      <4>2. Has(buf, Top(r) + 2 + Len(before), s[j])
        BY <3>2, <3>4, <4>1, HasJoin
      <4>3. QED
        BY <3>2, <3>3, <4>2
    <3> HIDE DEF at
    <3>6. front \in Seq(Symbols) /\ Len(front) \in Nat /\ Len(Line(f)) = Len(front) + 2 /\ Line(f) = front \o Crlf
      <4>1. f.key \in Seq(Symbols) /\ f.sep \in Seq(Symbols) /\ f.value \in Seq(Symbols)
        BY <3>2, FieldTyped
      <4>2. f.key \o f.sep \in Seq(Symbols)
        BY <4>1, ConcatProperties
      <4>3. front \in Seq(Symbols)
        BY <4>1, <4>2, ConcatProperties
      <4>4. Line(f) = front \o Crlf
        BY DEF Line
      <4> HIDE DEF front
      <4>5. Len(front) \in Nat
        BY <4>3, LenProperties
      <4>6. Len(front \o Crlf) = Len(front) + Len(Crlf)
        BY <4>3, MarksTyped, ConcatProperties
      <4>7. Len(Line(f)) = Len(front) + 2
        BY <4>4, <4>6, MarksTyped
      <4>8. QED
        BY <4>3, <4>4, <4>5, <4>7
    <3> HIDE DEF front
    <3>7. Has(buf, at + Len(front), Crlf)
      BY <3>3, <3>5, <3>6, HasJoin, MarksTyped
    <3>8. at + Len(front) = Ends(r, j) /\ Ends(r, j) \in Nat
      <4>1. Ends(r, j) = Ends(r, j - 1) + Len(Line(f)) /\ Ends(r, j) \in Nat /\ Ends(r, j - 1) \in Nat
        <5>1. j \in 0 .. k /\ j - 1 \in 0 .. k
          BY <1>1
        <5>2. QED
          BY <1>2, <5>1
      <4>2. QED
        BY <3>6, <4>1 DEF at
    <3>9. QED
      BY <3>5, <3>7, <3>8, Single DEF at
  <2>5. \A j \in 0 .. k : buf[Ends(r, j)] = "CR" /\ buf[Ends(r, j) + 1] = "LF"
    <3>1. buf[Ends(r, 0)] = "CR" /\ buf[Ends(r, 0) + 1] = "LF"
      BY <1>2, <2>3, FirstLineTyped
    <3>2. \A j \in 0 .. k : j = 0 \/ j \in 1 .. k
      BY <1>1
    <3>3. QED
      BY <2>4, <3>1, <3>2
  <2>6. QED
    BY <2>2, <2>3, <2>4, <2>5, FirstLineTyped DEF Laid, k, e
<1>10. QED
  BY <1>4, <1>5, <1>6, <1>7, <1>8, <1>9 DEF k, e, lines, w1

-----------------------------------------------------------------------------
(* The stream, and what a recv leaves in the buffer.                       *)

WiredAll(s) == [i \in DOMAIN s |-> Wired[s[i]]]

LEMMA StreamTyped ==
  ASSUME NEW s \in Seq(Requests)
  PROVE  /\ WiredAll(s) \in Seq(Seq(Symbols)) /\ Len(WiredAll(s)) = Len(s)
         /\ \A i \in 1 .. Len(s) : s[i] \in Requests /\ WiredAll(s)[i] = Wired[s[i]]
         /\ Stream(s) = FlattenSeq(WiredAll(s))
         /\ Stream(s) \in Seq(Symbols) /\ Len(Stream(s)) \in Nat
<1>1. Len(s) \in Nat /\ DOMAIN s = 1 .. Len(s) /\ \A i \in 1 .. Len(s) : s[i] \in Requests
  BY LenProperties, ElementOfSeq
<1>2. \A i \in 1 .. Len(s) : Wired[s[i]] \in Seq(Symbols)
  BY <1>1, WiredTyped
<1>3. WiredAll(s) = [i \in 1 .. Len(s) |-> Wired[s[i]]]
  BY <1>1 DEF WiredAll
<1>4. WiredAll(s) \in Seq(Seq(Symbols)) /\ Len(WiredAll(s)) = Len(s)
  BY <1>1, <1>2, <1>3, IsASeq
<1>5. Stream(s) = FlattenSeq(WiredAll(s))
  BY DEF Stream, WiredAll
<1>6. Stream(s) \in Seq(Symbols)
  BY <1>4, <1>5, FlattenSequence
<1>7. QED
  BY <1>1, <1>3, <1>4, <1>5, <1>6, LenProperties

LEMMA StreamAppend ==
  ASSUME NEW s \in Seq(Requests), NEW r \in Requests
  PROVE  /\ Append(s, r) \in Seq(Requests)
         /\ Len(Stream(Append(s, r))) = Len(Stream(s)) + Len(Wired[r])
         /\ \A h \in 1 .. Len(Stream(s)) : Stream(Append(s, r))[h] = Stream(s)[h]
<1> DEFINE n == Len(s)
           more == Append(s, r)
<1>1. /\ more \in Seq(Requests) /\ n \in Nat /\ Len(more) = n + 1 /\ more[n + 1] = r
      /\ \A i \in 1 .. n : more[i] = s[i]
  BY AppendProperties, LenProperties
<1> HIDE DEF more, n
<1>2. /\ WiredAll(more) \in Seq(Seq(Symbols)) /\ Len(WiredAll(more)) = n + 1
      /\ \A i \in 1 .. n + 1 : WiredAll(more)[i] = Wired[more[i]]
      /\ Stream(more) = FlattenSeq(WiredAll(more))
  BY <1>1, StreamTyped
<1>3. /\ WiredAll(s) \in Seq(Seq(Symbols)) /\ Len(WiredAll(s)) = n
      /\ \A i \in 1 .. n : WiredAll(s)[i] = Wired[s[i]]
      /\ Stream(s) = FlattenSeq(WiredAll(s)) /\ Stream(s) \in Seq(Symbols)
  BY StreamTyped DEF n
<1>4. Wired[r] \in Seq(Symbols)
  BY WiredTyped
<1>5. WiredAll(more) = Append(WiredAll(s), Wired[r])
  <2> DEFINE a == WiredAll(more)
             b == WiredAll(s)
             w == Wired[r]
             c == Append(b, w)
  <2>1. c \in Seq(Seq(Symbols)) /\ Len(c) = n + 1 /\ c[n + 1] = w /\ \A i \in 1 .. n : c[i] = b[i]
    BY <1>3, <1>4, AppendProperties
  <2>2. a[n + 1] = w /\ \A i \in 1 .. n : a[i] = b[i]
    <3>1. n + 1 \in 1 .. n + 1 /\ \A i \in 1 .. n : i \in 1 .. n + 1
      BY <1>1
    <3>2. a[n + 1] = Wired[more[n + 1]]
      BY <1>2, <3>1
    <3>3. ASSUME NEW i \in 1 .. n PROVE a[i] = b[i]
      BY <1>1, <1>2, <1>3, <3>1
    <3>4. QED
      BY <1>1, <3>2, <3>3
  <2>3. a \in Seq(Seq(Symbols)) /\ Len(a) = n + 1
    BY <1>2
  <2> HIDE DEF a, b, w, c
  <2>4. \A i \in 1 .. n + 1 : a[i] = c[i]
    <3>1. \A i \in 1 .. n + 1 : i = n + 1 \/ i \in 1 .. n
      BY <1>1
    <3>2. QED
      BY <2>1, <2>2, <3>1
  <2>5. a = c
    BY <2>1, <2>3, <2>4, SeqEqual
  <2>6. QED
    BY <2>5 DEF a, b, c, w
<1>6. Stream(more) = Stream(s) \o Wired[r]
  <2> DEFINE all == WiredAll(s)
             w == Wired[r]
  <2>1. all \in Seq(Seq(Symbols)) /\ w \in Seq(Symbols)
    BY <1>3, <1>4
  <2> HIDE DEF all, w
  <2>2. FlattenSeq(Append(all, w)) = FlattenSeq(all) \o w
    BY <2>1, FlattenAppend
  <2>3. QED
    BY <1>2, <1>3, <1>5, <2>2 DEF all, w
<1>7. QED
  BY <1>1, <1>3, <1>4, <1>6, ConcatProperties DEF more

LEMMA Filled ==
  ASSUME NEW text \in Seq(Symbols), NEW n \in 1 .. Size, Len(text) = n, NEW old \in Buffers
  PROVE  LET buf == [i \in 0 .. n - 1 |-> text[i + 1]] @@ old IN
         /\ buf \in Buffers
         /\ \A i \in 0 .. n - 1 : buf[i] = text[i + 1] /\ buf[i] # Nul
         /\ Has(buf, 0, text)
<1> DEFINE new == [i \in 0 .. n - 1 |-> text[i + 1]]
           buf == new @@ old
<1>1. DOMAIN old = 0 .. Size - 1 /\ Size \in Nat /\ n \in Nat /\ n <= Size
  BY Limits DEF Buffers
<1>2. buf = [i \in 0 .. Size - 1 |-> IF i \in 0 .. n - 1 THEN text[i + 1] ELSE old[i]]
  <2>1. (DOMAIN new) \cup (DOMAIN old) = 0 .. Size - 1
    BY <1>1
  <2>2. QED
    BY <2>1
<1>3. \A i \in 0 .. n - 1 : text[i + 1] \in Symbols
  <2>1. \A i \in 0 .. n - 1 : i + 1 \in 1 .. Len(text)
    BY <1>1
  <2>2. QED
    BY <2>1, ElementOfSeq
<1>4. Nul \notin Symbols
  BY ParserAssumption
<1> HIDE DEF buf
<1>5. buf \in Buffers
  BY <1>1, <1>2, <1>3 DEF Buffers
<1>6. \A i \in 0 .. n - 1 : buf[i] = text[i + 1] /\ buf[i] # Nul
  <2>1. \A i \in 0 .. n - 1 : i \in 0 .. Size - 1
    BY <1>1
  <2>2. QED
    BY <1>2, <1>3, <1>4, <2>1
<1>7. Has(buf, 0, text)
  <2> SUFFICES ASSUME NEW h \in 1 .. Len(text) PROVE buf[0 + h - 1] = text[h]
    BY DEF Has
  <2> DEFINE i == h - 1
  <2>1. i \in 0 .. n - 1 /\ i + 1 = h /\ 0 + h - 1 = i
    BY <1>1
  <2> HIDE DEF i
  <2>2. QED
    BY <1>6, <2>1
<1>8. QED
  BY <1>5, <1>6, <1>7 DEF buf

(* No byte of what came ends the string.                                   *)
LEMMA NoNul ==
  ASSUME NEW buf, NEW n \in 0 .. Size, \A i \in 0 .. n - 1 : buf[i] # Nul, NEW i \in 0 .. n
  PROVE  NulFrom(buf, i) \in Nat /\ n <= NulFrom(buf, i)
<1> DEFINE nul == NulFrom(buf, i)
<1>1. i \in 0 .. Size /\ Size \in Nat
  BY Limits
<1>2. nul \in i .. Size /\ (nul = Size \/ buf[nul] = Nul)
  BY <1>1, NulFromFound
<1> HIDE DEF nul
<1>3. nul \in Nat /\ n <= nul
  <2>1. CASE nul < n
    <3>1. nul \in 0 .. n - 1 /\ nul # Size
      BY <1>1, <1>2, <2>1
    <3>2. QED
      BY <1>2, <3>1
  <2>2. QED
    BY <1>1, <1>2, <2>1
<1>4. QED
  BY <1>3 DEF nul

-----------------------------------------------------------------------------
(* Type correctness: a recv never writes past payload, nor returns more    *)
(* than was sent (listen_messages, httpserver.c:113); what the parser      *)
(* makes of it fits where the caller wants it (httpparser.c:13).           *)

Typed ==
  /\ TypeOK
  /\ payload \in Buffers
  /\ last.from \in Nat /\ last.length \in Nat

LEMMA TypedInit == Init => Typed
<1> SUFFICES ASSUME Init PROVE Typed
  OBVIOUS
<1>1. sent \in Seq(Requests) /\ Len(sent) = 0 /\ MaxSent \in Nat
  BY EmptySeq, WireAssumption DEF Init
<1>2. Len(Stream(sent)) \in Nat
  BY <1>1, StreamTyped
<1>3. payload \in Buffers /\ DOMAIN payload = 0 .. Size - 1
  BY WireAssumption DEF Init, Buffers
<1>4. MaxHeaders \in Nat /\ Size \in Nat /\ Len(<<>>) = 0
  BY Limits, EmptySeq
<1>5. QED
  BY <1>1, <1>2, <1>3, <1>4 DEF Init, Typed, TypeOK

LEMMA TypedNext == Typed /\ [Next]_vars => Typed'
<1> SUFFICES ASSUME Typed, [Next]_vars PROVE Typed'
  OBVIOUS
<1>1. /\ sent \in Seq(Requests) /\ Len(sent) <= MaxSent /\ taken \in 0 .. Len(Stream(sent))
      /\ payload \in Buffers /\ MaxSent \in Nat /\ Len(Stream(sent)) \in Nat /\ Len(sent) \in Nat
  BY StreamTyped, WireAssumption, LenProperties DEF Typed, TypeOK
<1>2. ASSUME NEW r \in Requests, Send(r) PROVE Typed'
  <2>1. sent' \in Seq(Requests) /\ Len(Stream(sent')) = Len(Stream(sent)) + Len(Wired[r])
    BY <1>1, <1>2, StreamAppend DEF Send
  <2>2. Len(Wired[r]) \in Nat
    BY WiredTyped, LenProperties
  <2>3. taken' \in 0 .. Len(Stream(sent'))
    BY <1>1, <1>2, <2>1, <2>2 DEF Send
  <2>4. Len(sent') <= MaxSent
    <3>1. Len(sent') = Len(sent) + 1
      BY <1>1, <1>2, AppendProperties DEF Send
    <3>2. QED
      BY <1>1, <1>2, <3>1 DEF Send
  <2>5. QED
    BY <1>2, <2>1, <2>3, <2>4 DEF Send, Typed, TypeOK
<1>3. ASSUME NEW n \in 1 .. Size, Receive(n) PROVE Typed'
  <2> DEFINE text == SubSeq(Stream(sent), taken + 1, taken + n)
             buf == [i \in 0 .. n - 1 |-> text[i + 1]] @@ payload
             p == Parse(buf, n)
  <2>1. text \in Seq(Symbols) /\ Len(text) = n
    <3>1. Stream(sent) \in Seq(Symbols)
      BY <1>1, StreamTyped
    <3>2. n <= Len(Stream(sent)) - taken /\ n \in Nat /\ n >= 1
      BY <1>3, Limits DEF Receive
    <3>3. taken + 1 \in 1 .. Len(Stream(sent)) /\ taken + n \in 1 .. Len(Stream(sent)) /\ taken + n - (taken + 1) + 1 = n
      BY <1>1, <3>2
    <3>4. QED
      BY <1>1, <3>1, <3>2, <3>3, SubSeqProperties
  <2> HIDE DEF text
  <2>2. buf \in Buffers
    BY <1>1, <2>1, Filled
  <2>3. /\ payload' = buf /\ taken' = taken + n /\ sent' = sent /\ n <= Len(Stream(sent)) - taken
        /\ last' = [from |-> taken, length |-> n, stale |-> \E i \in n .. Size - 1 : buf[i] # Nul,
                     status |-> p.status, path |-> p.path, headers |-> p.headers, body |-> p.body]
        /\ status' = StatusAfter(p)
    BY <1>3 DEF Receive, text
  <2> HIDE DEF buf
  <2>4. Sane(p) /\ p.status # "parsing"
    BY <2>2, ParseSane
  <2> HIDE DEF p
  <2>5. /\ p.status \in {"accept", "reject", "undefined"} /\ Len(p.headers) <= MaxHeaders
        /\ Len(p.body) <= Size
    BY <2>4 DEF Sane, Results
  <2>6. taken' \in 0 .. Len(Stream(sent'))
    BY <1>1, <2>3, Limits
  <2>7. DOMAIN payload' = 0 .. Size - 1 /\ payload' \in Buffers
    BY <2>2, <2>3 DEF Buffers
  <2>8. /\ last'.from = taken /\ last'.length = n /\ last'.status = p.status
        /\ last'.headers = p.headers /\ last'.body = p.body
    BY <2>3
  <2>9. status' \in {"open", "closed", "undefined"}
    BY <2>3, <2>5 DEF StatusAfter
  <2>10. last'.from \in Nat /\ last'.length \in Nat /\ last'.from + last'.length = taken'
    BY <1>1, <2>3, <2>8, Limits
  <2>11. QED
    BY <1>1, <2>3, <2>5, <2>6, <2>7, <2>8, <2>9, <2>10 DEF Typed, TypeOK
<1>4. CASE Hangup
  BY <1>4 DEF Hangup, Typed, TypeOK
<1>5. CASE UNCHANGED vars
  BY <1>5 DEF vars, Typed, TypeOK
<1>6. QED
  BY <1>2, <1>3, <1>4, <1>5 DEF Next

LEMMA TypedInvariant == Spec => []Typed
BY TypedInit, TypedNext, PTL DEF Spec

THEOREM Typing == Spec => []TypeOK
<1>1. Typed => TypeOK
  BY DEF Typed
<1>2. QED
  BY <1>1, TypedInvariant, PTL

LEMMA OccursBytes ==
  ASSUME NEW buf, NEW i \in Nat, NEW S, NEW pat \in Seq(S), NEW l \in Nat, l = Len(pat)
  PROVE  (Bytes(buf, i, i + l) = pat) <=> Occurs(buf, i, pat, l)
<1>1. i + l - i = l
  OBVIOUS
<1> DEFINE b == Bytes(buf, i, i + l)
<1>2. b = [h \in 1 .. l |-> buf[i + h - 1]]
  BY <1>1 DEF Bytes
<1>3. pat = [h \in 1 .. l |-> pat[h]]
  OBVIOUS
<1> HIDE DEF b
<1>4. QED
  BY <1>2, <1>3 DEF Occurs, b

(* The search finds the first occurrence of a string the parser looks for, *)
(* unless the byte before it begins the same string: it does not go back   *)
(* after half a match (libtstr.c:54).                                      *)
THEOREM Searching == Spec => []SearchFindsFirst
<1>1. ASSUME Typed PROVE SearchFindsFirst
  <2> DEFINE nul == NulFrom(payload, 0)
             At(pat, i) == i + Len(pat) <= nul /\ \A h \in 1 .. Len(pat) : payload[i + h - 1] = pat[h]
  <2> SUFFICES ASSUME NEW pat \in {Space, Crlf, Colon, Crlf \o Crlf}, NEW e \in 1 .. nul - 1,
                      At(pat, e), \A j \in 1 .. e - 1 : ~At(pat, j), e > 1 => payload[e - 1] # pat[1]
               PROVE  Find(payload, 0, 1, pat).end = e
    BY DEF SearchFindsFirst
  <2> DEFINE l == Len(pat)
  <2>1. /\ l \in Nat /\ l >= 1 /\ Len(pat) = l /\ (l = 1 \/ l = 2 \/ l = 4)
        /\ l = 4 => pat[1] = "CR" /\ pat[2] = "LF" /\ pat[3] = "CR" /\ pat[4] = "LF"
    <3>1. Len(Space) = 1 /\ Len(Crlf) = 2 /\ Len(Colon) = 2
      BY DEF Space, Crlf, Colon
    <3>2. /\ Len(Crlf \o Crlf) = 4
          /\ LET d == Crlf \o Crlf IN d[1] = "CR" /\ d[2] = "LF" /\ d[3] = "CR" /\ d[4] = "LF"
      BY CrlfTwice
    <3>3. pat = Space \/ pat = Crlf \/ pat = Colon \/ pat = Crlf \o Crlf
      OBVIOUS
    <3> HIDE DEF At
    <3>4. CASE pat = Space
      <4>1. l = 1
        BY <3>1, <3>4
      <4>2. QED
        BY <4>1
    <3>5. CASE pat = Crlf
      <4>1. l = 2
        BY <3>1, <3>5
      <4>2. QED
        BY <4>1
    <3>6. CASE pat = Colon
      <4>1. l = 2
        BY <3>1, <3>6
      <4>2. QED
        BY <4>1
    <3>7. CASE pat = Crlf \o Crlf
      BY <3>2, <3>7
    <3>8. QED
      BY <3>3, <3>4, <3>5, <3>6, <3>7
  <2> HIDE DEF l
  <2>2. nul \in 0 .. Size /\ Size \in Nat /\ (\A h \in 0 .. nul - 1 : payload[h] # Nul)
    BY NulFromFound, Limits
  <2>3. NulFrom(payload, 0 + 1) = nul
    <3>1. nul >= 1 /\ 1 \in 0 .. Size
      BY <2>2
    <3> DEFINE one == NulFrom(payload, 1)
    <3>2. one \in 1 .. Size /\ (one = Size \/ payload[one] = Nul) /\ \A h \in 1 .. one - 1 : payload[h] # Nul
      BY <3>1, NulFromFound
    <3>3. nul = Size \/ payload[nul] = Nul
      BY <2>2, NulFromFound
    <3> HIDE DEF nul, one
    <3>4. ~(one < nul)
      <4> SUFFICES ASSUME one < nul PROVE FALSE
        OBVIOUS
      <4>1. one \in 0 .. nul - 1 /\ one # Size
        BY <2>2, <3>2
      <4>2. QED
        BY <2>2, <3>2, <4>1
    <3>5. ~(nul < one)
      <4> SUFFICES ASSUME nul < one PROVE FALSE
        OBVIOUS
      <4>1. nul \in 1 .. one - 1 /\ nul # Size
        BY <2>2, <3>1, <3>2
      <4>2. QED
        BY <3>2, <3>3, <4>1
    <3>6. one = nul
      BY <2>2, <3>2, <3>4, <3>5
    <3>7. QED
      BY <3>6 DEF one
  <2>4. ASSUME NEW i \in Nat
        PROVE  (i + l <= nul /\ Occurs(payload, 0 + i, pat, l)) <=> At(pat, i)
    <3>1. 0 + i = i /\ Len(pat) = l
      BY <2>1
    <3> HIDE DEF nul
    <3>2. QED
      BY <3>1 DEF Occurs
  <2>5. e \in Nat /\ e >= 1 /\ 1 <= e /\ l \in Nat /\ l >= 1 /\ 0 + 1 <= Size /\ 0 + e + l <= nul /\ e + l <= nul
    BY <2>2, <2>1
  <2>6. Occurs(payload, 0 + e, pat, l)
    BY <2>4, <2>5
  <2> HIDE DEF At
  <2>7. \A o \in 1 .. e - l : ~Occurs(payload, 0 + o, pat, l)
    <3> SUFFICES ASSUME NEW o \in 1 .. e - l PROVE ~Occurs(payload, 0 + o, pat, l)
      OBVIOUS
    <3> HIDE DEF nul
    <3>1. o \in 1 .. e - 1 /\ o \in Nat /\ o + l <= nul
      BY <2>2, <2>5
    <3>2. QED
      BY <2>4, <3>1
  <2>8. ASSUME NEW j \in 1 .. l - 1, e - j >= 1, Occurs(payload, 0 + e - j, pat, j) PROVE FALSE
    <3>1. \A h \in 1 .. l : payload[e + h - 1] = pat[h]
      BY <2>6 DEF Occurs
    <3>2. \A h \in 1 .. j : payload[e - j + h - 1] = pat[h]
      BY <2>8 DEF Occurs
    <3>3. payload[e - 1] = pat[j] /\ e > 1
      <4>1. j \in 1 .. j /\ e - j + j - 1 = e - 1 /\ e > 1
        BY <2>5, <2>1, <2>8
      <4>2. QED
        BY <3>2, <4>1
    <3>4. pat[j] # pat[1]
      BY <3>3
    <3>5. l = 4 /\ j = 2
      <4>1. j # 1 /\ (l = 4 => j # 3)
        BY <2>1, <3>4
      <4>2. QED
        BY <2>1, <4>1
    <3>6. pat[1] = "CR" /\ pat[2] = "LF" /\ pat[3] = "CR" /\ pat[4] = "LF"
      BY <2>1, <3>5
    <3>7. payload[e - 2] = "CR" /\ payload[e - 1] = "LF"
      <4>1. 1 \in 1 .. j /\ e - j + 1 - 1 = e - 2
        BY <2>5, <3>5
      <4>2. QED
        BY <3>2, <3>3, <3>5, <3>6, <4>1
    <3>8. payload[e] = "CR" /\ payload[e + 1] = "LF"
      <4>1. 1 \in 1 .. l /\ 2 \in 1 .. l /\ e + 1 - 1 = e /\ e + 2 - 1 = e + 1
        BY <2>5, <3>5
      <4>2. QED
        BY <3>1, <3>6, <4>1
    <3>9. e - 2 \in Nat /\ e - 2 \in 1 .. e - 1 /\ e - 2 + l <= nul
      <4> HIDE DEF nul
      <4>1. e - 2 >= 1
        BY <2>8, <3>5
      <4>2. QED
        BY <2>2, <2>5, <4>1
    <3>10. Occurs(payload, 0 + (e - 2), pat, l)
      <4>1. 0 + (e - 2) + 1 - 1 = e - 2 /\ 0 + (e - 2) + 2 - 1 = e - 1 /\ 0 + (e - 2) + 3 - 1 = e /\ 0 + (e - 2) + 4 - 1 = e + 1
        <5>1. e \in Nat
          BY <2>5
        <5>2. QED
          BY ONLY <5>1
      <4>2. \A h \in 1 .. l : h = 1 \/ h = 2 \/ h = 3 \/ h = 4
        BY <3>5
      <4>3. QED
        BY <3>6, <3>7, <3>8, <4>1, <4>2 DEF Occurs
    <3>11. QED
      BY <2>4, <3>9, <3>10
  <2>9. Find(payload, 0, 1, pat) = [start |-> 1, end |-> e, over |-> FALSE]
    <3> HIDE DEF nul
    <3>1. Len(pat) = l /\ 0 \in Nat /\ 1 \in Nat
      BY <2>1
    <3>2. \A j \in 1 .. l - 1 : e - j >= 1 => ~Occurs(payload, 0 + e - j, pat, j)
      BY <2>8
    <3>3. 0 + e + l <= NulFrom(payload, 0 + 1)
      BY <2>3, <2>5
    <3>4. First(payload, 0, 1, pat, e, l)
      BY <2>6, <2>7, <3>2 DEF First
    <3>5. QED
      BY <2>5, <3>1, <3>3, <3>4, FindsAt
  <2>10. QED
    BY <2>9
<1>2. QED
  BY <1>1, TypedInvariant, PTL

-----------------------------------------------------------------------------
(* A request of which all but the body came in one recv, and one that came *)
(* in a recv of its own.                                                   *)

PathAt(r) == Len(r.method) + 1
PathEnd(r) == PathAt(r) + Len(r.path)
HeadersEnd(r) == Ends(r, Len(r.fields))

Headed(buf, n, r) ==
  /\ buf \in Buffers /\ n \in 1 .. Size /\ HeadersEnd(r) + 4 <= n
  /\ Laid(buf, r)
  /\ \A i \in 0 .. n - 1 : buf[i] # Nul

Arrived(buf, n, r) ==
  /\ Headed(buf, n, r)
  /\ n = Len(Wired[r])
  /\ Has(buf, HeadersEnd(r) + 4, r.body)

LEMMA Distances ==
  ASSUME NEW r \in Requests
  PROVE  /\ PathAt(r) \in Nat /\ PathAt(r) >= 2 /\ PathEnd(r) \in Nat /\ PathEnd(r) >= PathAt(r)
         /\ Top(r) \in Nat /\ Top(r) = PathEnd(r) + 2 + Len(r.version)
         /\ HeadersEnd(r) \in Nat /\ Len(Wired[r]) = HeadersEnd(r) + 4 + Len(r.body)
         /\ Len(Lines(r)) = HeadersEnd(r) + 2
<1>1. Len(r.method) \in Nat /\ Len(r.method) >= 1 /\ Len(r.path) \in Nat /\ Len(r.version) \in Nat /\ Len(r.fields) \in Nat
  BY RequestTyped
<1>2. Len(r.method) + Len(r.path) + Len(r.version) + 3 = Len(r.method) + 1 + Len(r.path) + 2 + Len(r.version)
  <2>1. \A a, b, c \in Nat : a + b + c + 3 = a + 1 + b + 2 + c
    OBVIOUS
  <2>2. QED
    BY <1>1, <2>1, Zenon
<1>3. Top(r) \in Nat /\ \A j \in 0 .. Len(r.fields) : Ends(r, j) \in Nat
  BY EndsFollow
<1>4. Len(Wired[r]) = HeadersEnd(r) + 4 + Len(r.body) /\ Len(Lines(r)) = HeadersEnd(r) + 2
  BY WiredTyped DEF HeadersEnd
<1>5. Top(r) = PathEnd(r) + 2 + Len(r.version)
  BY <1>2 DEF Top, PathEnd, PathAt
<1>6. HeadersEnd(r) \in Nat
  BY <1>1, <1>3 DEF HeadersEnd
<1>7. PathAt(r) \in Nat /\ PathAt(r) >= 2
  BY <1>1 DEF PathAt
<1>8. PathEnd(r) \in Nat /\ PathEnd(r) >= PathAt(r)
  BY <1>1, <1>7 DEF PathEnd
<1>9. QED
  BY <1>3, <1>4, <1>5, <1>6, <1>7, <1>8

LEMMA Places ==
  ASSUME NEW r \in Requests, NEW buf, NEW n, Headed(buf, n, r)
  PROVE  /\ n \in Nat /\ n <= Size /\ Size \in Nat
         /\ PathAt(r) \in Nat /\ PathAt(r) >= 2 /\ PathEnd(r) \in Nat /\ PathEnd(r) >= PathAt(r)
         /\ Top(r) \in Nat /\ Top(r) = PathEnd(r) + 2 + Len(r.version)
         /\ HeadersEnd(r) \in Nat /\ HeadersEnd(r) + 4 <= n
         /\ Len(Lines(r)) = HeadersEnd(r) + 2
<1>1. Size \in Nat /\ n \in 1 .. Size /\ HeadersEnd(r) + 4 <= n
  BY Limits DEF Headed
<1>2. QED
  BY <1>1, Distances

(* Two line ends are at least a name and a line end apart.                 *)
LEMMA EndsApart ==
  ASSUME NEW r \in Requests
  PROVE  \A g \in 0 .. Len(r.fields), h \in 0 .. Len(r.fields) : g < h => Ends(r, g) + 3 <= Ends(r, h)
<1> DEFINE k == Len(r.fields)
           N == {h \in Nat : h <= k => \A g \in 0 .. h - 1 : Ends(r, g) + 3 <= Ends(r, h)}
<1>1. k \in Nat /\ \A j \in 0 .. k : Ends(r, j) \in Nat
  BY RequestTyped, EndsFollow
<1>2. ASSUME NEW j \in 1 .. k PROVE Ends(r, j - 1) + 3 <= Ends(r, j)
  <2>1. Ends(r, j) = Ends(r, j - 1) + Len(Line(r.fields[j])) /\ r.fields[j] \in Fields
    BY EndsFollow, PartsTyped
  <2> DEFINE f == r.fields[j]
  <2>2. f \in Fields
    BY <2>1
  <2> HIDE DEF f
  <2>3. /\ Len(Line(f)) = Len(f.key) + Len(f.sep) + Len(f.value) + 2
        /\ f.key \in Seq(Symbols) /\ f.sep \in Seq(Symbols) /\ f.value \in Seq(Symbols) /\ f.key # <<>>
    BY <2>2, LineTyped, FieldTyped
  <2>4. Len(f.key) \in Nat /\ Len(f.sep) \in Nat /\ Len(f.value) \in Nat /\ Len(f.key) # 0
    BY <2>3, LenProperties, EmptySeq
  <2>5. Len(Line(f)) \in Nat /\ Len(Line(f)) >= 3
    <3>1. \A a, b, c \in Nat : a # 0 => a + b + c + 2 \in Nat /\ a + b + c + 2 >= 3
      OBVIOUS
    <3>2. Len(f.key) + Len(f.sep) + Len(f.value) + 2 \in Nat /\ Len(f.key) + Len(f.sep) + Len(f.value) + 2 >= 3
      BY <2>4, <3>1, Zenon
    <3>3. QED
      BY <2>3, <3>2, Zenon
  <2>6. Ends(r, j - 1) \in Nat
    <3>1. j - 1 \in 0 .. k
      BY <1>1
    <3>2. QED
      BY <1>1, <3>1
  <2>7. QED
    BY <2>1, <2>5, <2>6 DEF f
<1> HIDE DEF k
<1>3. 0 \in N
  OBVIOUS
<1>4. ASSUME NEW h \in Nat, h \in N PROVE h + 1 \in N
  <2> SUFFICES ASSUME h + 1 <= k, NEW g \in 0 .. h PROVE Ends(r, g) + 3 <= Ends(r, h + 1)
    OBVIOUS
  <2> DEFINE j == h + 1
  <2>1. j \in 1 .. k /\ j - 1 = h /\ h \in 0 .. k /\ j \in 0 .. k /\ g \in 0 .. k
    BY <1>1
  <2> HIDE DEF j
  <2>2. Ends(r, h) + 3 <= Ends(r, j)
    BY <1>2, <2>1
  <2>3. g = h \/ (g \in 0 .. h - 1 /\ Ends(r, g) + 3 <= Ends(r, h))
    <3>1. g = h \/ g \in 0 .. h - 1
      BY <2>1
    <3>2. h <= k
      BY <1>1, <2>1
    <3>3. QED
      BY <1>4, <3>1, <3>2
  <2>4. Ends(r, g) + 3 <= Ends(r, j)
    BY <1>1, <2>1, <2>2, <2>3
  <2>5. QED
    BY <2>4 DEF j
<1> HIDE DEF N
<1>5. Nat \subseteq N
  BY <1>3, <1>4, Flatten!Induction
<1>6. QED
  <2> SUFFICES ASSUME NEW g \in 0 .. k, NEW h \in 0 .. k, g < h PROVE Ends(r, g) + 3 <= Ends(r, h)
    BY DEF k
  <2>1. h \in N /\ h <= k /\ g \in 0 .. h - 1
    BY <1>1, <1>5
  <2>2. QED
    BY <2>1 DEF N

(* What has no mark in it has none in the buffer.                          *)
Without(c, s) == \A g \in 1 .. Len(s) : s[g] # c

LEMMA FreeOf ==
  ASSUME NEW S, NEW marks, NEW s \in Seq(S \ marks), NEW c \in marks
  PROVE  Without(c, s)
BY ElementOfSeq DEF Without

LEMMA NoneIn ==
  ASSUME NEW buf, NEW i \in Nat, NEW c, NEW s, NEW l \in Nat, l = Len(s), Has(buf, i, s), Without(c, s)
  PROVE  \A h \in i .. i + l - 1 : buf[h] # c
<1> SUFFICES ASSUME NEW h \in i .. i + l - 1 PROVE buf[h] # c
  OBVIOUS
<1> DEFINE g == h - i + 1
<1>1. g \in 1 .. l /\ i + g - 1 = h
  OBVIOUS
<1> HIDE DEF g
<1>2. QED
  BY <1>1 DEF Has, Without

LEMMA PartsWithout ==
  /\ \A r \in Requests :
       /\ Without("SP", r.method) /\ Without("CR", r.method)
       /\ Without("SP", r.path) /\ Without("CR", r.path) /\ Without("CR", r.version)
  /\ \A f \in Fields :
       /\ Without("CR", f.key) /\ Without(":", f.key) /\ Without("CR", f.sep) /\ Without("CR", f.value)
<1>1. ASSUME NEW r \in Requests
      PROVE  /\ Without("SP", r.method) /\ Without("CR", r.method)
             /\ Without("SP", r.path) /\ Without("CR", r.path) /\ Without("CR", r.version)
  <2>1. /\ r.method \in Seq(Symbols \ {"SP", "CR", "LF"}) /\ r.path \in Seq(Symbols \ {"SP", "CR", "LF"})
        /\ r.version \in Seq(Symbols \ {"CR", "LF"})
    BY RequestTyped DEF IsRequest, Free
  <2>2. QED
    BY <2>1, FreeOf
<1>2. ASSUME NEW f \in Fields
      PROVE  /\ Without("CR", f.key) /\ Without(":", f.key) /\ Without("CR", f.sep) /\ Without("CR", f.value)
  <2>1. f.key \in Seq(Symbols \ {":", "CR", "LF"}) /\ f.value \in Seq(Symbols \ {"CR", "LF"})
    BY FieldTyped
  <2>2. Without("CR", f.sep)
    <3>1. f.sep = Colon \/ f.sep = <<>>
      BY FieldTyped
    <3>2. Without("CR", Colon) /\ Without("CR", <<>>)
      BY DEF Without, Colon
    <3>3. QED
      BY <3>1, <3>2
  <2>3. QED
    BY <2>1, <2>2, FreeOf
<1>3. QED
  BY <1>1, <1>2

(* Where the parts of a header line are.                                   *)
LEMMA FieldPlaces ==
  ASSUME NEW f \in Fields, NEW buf, NEW i \in Nat, Has(buf, i, Line(f))
  PROVE  /\ Has(buf, i, f.key) /\ Has(buf, i + Len(f.key), f.sep)
         /\ Has(buf, i + Len(f.key) + Len(f.sep), f.value)
         /\ Len(f.key) \in Nat /\ Len(f.key) >= 1 /\ Len(f.sep) \in Nat /\ Len(f.value) \in Nat
<1>1. f.key \in Seq(Symbols) /\ f.sep \in Seq(Symbols) /\ f.value \in Seq(Symbols) /\ f.key # <<>> /\ Crlf \in Seq(Symbols)
  BY FieldTyped, MarksTyped
<1>2. Len(f.key) \in Nat /\ Len(f.key) >= 1 /\ Len(f.sep) \in Nat /\ Len(f.value) \in Nat
  BY <1>1, LenProperties, EmptySeq
<1> DEFINE a == f.key \o f.sep
           b == a \o f.value
<1>3. a \in Seq(Symbols) /\ Len(a) = Len(f.key) + Len(f.sep)
  BY <1>1, ConcatProperties
<1>4. Line(f) = b \o Crlf
  BY DEF Line
<1> HIDE DEF a
<1>5. b \in Seq(Symbols)
  BY <1>1, <1>3, ConcatProperties
<1> HIDE DEF b
<1>6. Has(buf, i, b)
  BY <1>1, <1>4, <1>5, HasJoin
<1>7. Has(buf, i, a) /\ Has(buf, i + Len(a), f.value)
  BY <1>1, <1>3, <1>6, HasJoin DEF b
<1>8. Has(buf, i, f.key) /\ Has(buf, i + Len(f.key), f.sep)
  BY <1>1, <1>7, HasJoin DEF a
<1>9. i + Len(a) = i + Len(f.key) + Len(f.sep)
  <2>1. \A x, y \in Nat : i + (x + y) = i + x + y
    OBVIOUS
  <2>2. i + (Len(f.key) + Len(f.sep)) = i + Len(f.key) + Len(f.sep)
    BY <1>2, <2>1, Zenon
  <2>3. QED
    BY <1>3, <2>2, Zenon
<1>10. QED
  BY <1>2, <1>7, <1>8, <1>9

(* Up to the end of the headers, a '\r' is the end of a line.              *)
LEMMA CrOnly ==
  ASSUME NEW r \in Requests, NEW buf, Laid(buf, r)
  PROVE  \A i \in 0 .. HeadersEnd(r) : buf[i] = "CR" => \E g \in 0 .. Len(r.fields) : i = Ends(r, g)
<1> DEFINE k == Len(r.fields)
           OnlyTo(j) == \A i \in 0 .. Ends(r, j) : buf[i] = "CR" => \E g \in 0 .. k : i = Ends(r, g)
           N == {j \in Nat : j <= k => OnlyTo(j)}
<1>1. /\ k \in Nat /\ \A j \in 0 .. k : Ends(r, j) \in Nat
      /\ Ends(r, 0) = Top(r)
  BY RequestTyped, EndsFollow
<1>2. Laid(buf, r)
  OBVIOUS
<1>3. OnlyTo(0)
  <2> SUFFICES ASSUME NEW i \in 0 .. Top(r), buf[i] = "CR" PROVE i = Top(r)
    BY <1>1
  <2>1. /\ PathAt(r) \in Nat /\ PathEnd(r) \in Nat /\ Top(r) \in Nat /\ Top(r) = PathEnd(r) + 2 + Len(r.version)
        /\ Len(r.method) \in Nat /\ Len(r.path) \in Nat /\ Len(r.version) \in Nat
    BY Distances, RequestTyped
  <2>2. Without("CR", r.method) /\ Without("CR", r.path) /\ Without("CR", r.version)
    BY PartsWithout
  <2>3. /\ Has(buf, 0, r.method) /\ Has(buf, PathAt(r), r.path) /\ Has(buf, PathEnd(r) + 2, r.version)
        /\ buf[Len(r.method)] = "SP" /\ buf[PathEnd(r)] = "SP" /\ buf[PathEnd(r) + 1] = "HTTP/"
    BY <1>2 DEF Laid, PathAt, PathEnd, HttpWord
  <2>4. i \notin 0 .. 0 + Len(r.method) - 1
    BY <2>1, <2>2, <2>3, NoneIn
  <2>5. i \notin PathAt(r) .. PathAt(r) + Len(r.path) - 1
    BY <2>1, <2>2, <2>3, NoneIn
  <2>6. i \notin PathEnd(r) + 2 .. PathEnd(r) + 2 + Len(r.version) - 1
    <3>1. PathEnd(r) + 2 \in Nat
      BY <2>1
    <3>2. QED
      BY <2>1, <2>2, <2>3, <3>1, NoneIn
  <2>7. i # Len(r.method) /\ i # PathEnd(r) /\ i # PathEnd(r) + 1
    BY <2>3
  <2>8. PathAt(r) = Len(r.method) + 1 /\ PathEnd(r) = PathAt(r) + Len(r.path)
    BY DEF PathAt, PathEnd
  <2> DEFINE m == Len(r.method)
             v == Len(r.version)
             x == PathAt(r)
             y == PathEnd(r)
             u == Len(r.path)
             t == Top(r)
  <2>9. m \in Nat /\ v \in Nat /\ u \in Nat /\ x \in Nat /\ y \in Nat
    BY <2>1
  <2>10. x = m + 1 /\ y = x + u /\ t = y + 2 + v
    BY <2>1, <2>8
  <2>11. i \notin 0 .. 0 + m - 1 /\ i \notin x .. x + u - 1 /\ i \notin y + 2 .. y + 2 + v - 1
    BY <2>4, <2>5, <2>6
  <2>12. i # m /\ i # y /\ i # y + 1
    BY <2>7
  <2>13. i \in 0 .. t
    OBVIOUS
  <2> HIDE DEF m, v, x, y, u, t
  <2>14. i \notin 0 .. m - 1 /\ i \notin x .. y - 1 /\ i \notin y + 2 .. t - 1
    BY <2>9, <2>10, <2>11
  <2>15. i >= x
    BY <2>9, <2>10, <2>12, <2>13, <2>14
  <2>16. i >= y + 2
    BY <2>9, <2>12, <2>13, <2>14, <2>15
  <2>17. i = t
    BY <2>9, <2>10, <2>13, <2>14, <2>16
  <2>18. QED
    BY <2>17 DEF t
<1> HIDE DEF k
<1>4. ASSUME NEW h \in Nat, h + 1 <= k, OnlyTo(h) PROVE OnlyTo(h + 1)
  <2> DEFINE j == h + 1
             f == r.fields[j]
             at == Ends(r, h) + 2
  <2>1. j \in 1 .. k /\ j - 1 = h /\ h \in 0 .. k /\ j \in 0 .. k
    BY <1>1, <1>4
  <2> HIDE DEF j
  <2>2. f \in Fields /\ Has(buf, Ends(r, j - 1) + 2, Line(f)) /\ buf[Ends(r, h) + 1] = "LF"
    BY <1>2, <2>1, PartsTyped DEF Laid, k
  <2>3. Ends(r, j) = Ends(r, j - 1) + Len(Line(f))
    BY <2>1, EndsFollow DEF k
  <2> HIDE DEF f
  <2>4. at \in Nat /\ Has(buf, at, Line(f)) /\ Ends(r, h) \in Nat /\ Ends(r, j) \in Nat
    BY <1>1, <2>1, <2>2
  <2>5. /\ Has(buf, at, f.key) /\ Has(buf, at + Len(f.key), f.sep)
        /\ Has(buf, at + Len(f.key) + Len(f.sep), f.value)
        /\ Len(f.key) \in Nat /\ Len(f.sep) \in Nat /\ Len(f.value) \in Nat
    BY <2>2, <2>4, FieldPlaces
  <2>6. Ends(r, j) = at + Len(f.key) + Len(f.sep) + Len(f.value)
    <3>1. Len(Line(f)) = Len(f.key) + Len(f.sep) + Len(f.value) + 2
      BY <2>2, LineTyped
    <3> DEFINE a == Len(f.key)
               b == Len(f.sep)
               c == Len(f.value)
               e == Ends(r, h)
    <3>2. a \in Nat /\ b \in Nat /\ c \in Nat /\ e \in Nat
      BY <2>4, <2>5
    <3>3. Ends(r, j) = e + (a + b + c + 2)
      BY <2>1, <2>3, <3>1
    <3> HIDE DEF a, b, c, e
    <3>4. Ends(r, j) = e + 2 + a + b + c
      BY <3>2, <3>3
    <3>5. QED
      BY <3>4 DEF a, b, c, e
  <2> SUFFICES ASSUME NEW i \in 0 .. Ends(r, j), buf[i] = "CR", i > Ends(r, h) PROVE i = Ends(r, j)
    <3>1. \A i \in 0 .. Ends(r, j) : i \in 0 .. Ends(r, h) \/ i > Ends(r, h)
      BY <2>4
    <3>2. QED
      BY <1>4, <2>1, <3>1 DEF j
  <2>7. Without("CR", f.key) /\ Without("CR", f.sep) /\ Without("CR", f.value)
    BY <2>2, PartsWithout
  <2> HIDE DEF at
  <2> DEFINE x == at + Len(f.key)
             y == x + Len(f.sep)
             z == y + Len(f.value)
  <2>8. x \in Nat
    BY <2>4, <2>5
  <2>9. i \notin at .. x - 1
    BY <2>4, <2>5, <2>7, NoneIn
  <2>10. /\ Ends(r, j) = z
         /\ Has(buf, x, f.sep) /\ Has(buf, y, f.value)
    BY <2>5, <2>6
  <2> HIDE DEF x
  <2>11. y \in Nat
    BY <2>5, <2>8
  <2>12. i \notin x .. y - 1
    BY <2>5, <2>7, <2>8, <2>10, NoneIn
  <2> HIDE DEF y
  <2>13. z \in Nat
    BY <2>5, <2>11
  <2>14. i \notin y .. z - 1
    BY <2>5, <2>7, <2>11, <2>10, NoneIn
  <2>15. i # Ends(r, h) + 1
    BY <2>2
  <2> HIDE DEF z
  <2>16. i >= at
    BY <2>4, <2>15 DEF at
  <2>17. QED
    BY <2>4, <2>9, <2>12, <2>14, <2>10, <2>16, <2>8, <2>11, <2>13
<1>5. 0 \in N
  BY <1>3
<1>6. ASSUME NEW h \in Nat, h \in N PROVE h + 1 \in N
  <2>1. h + 1 <= k => h <= k
    BY <1>1
  <2>2. QED
    BY <1>4, <1>6, <2>1
<1> HIDE DEF N, OnlyTo
<1>7. Nat \subseteq N
  BY <1>5, <1>6, Flatten!Induction
<1>8. k \in N /\ k <= k
  BY <1>1, <1>7
<1>9. QED
  BY <1>8 DEF N, OnlyTo, k, HeadersEnd

(* No second '\r' within two bytes of one.                                 *)
LEMMA CrApart ==
  ASSUME NEW r \in Requests, NEW buf, Laid(buf, r),
         NEW i \in Nat, NEW d \in 1 .. 2, i + d <= HeadersEnd(r), buf[i] = "CR"
  PROVE  buf[i + d] # "CR"
<1> SUFFICES ASSUME buf[i + d] = "CR" PROVE FALSE
  OBVIOUS
<1>1. HeadersEnd(r) \in Nat /\ i \in 0 .. HeadersEnd(r) /\ i + d \in 0 .. HeadersEnd(r)
  BY Distances
<1>2. PICK g \in 0 .. Len(r.fields) : i = Ends(r, g)
  BY <1>1, CrOnly
<1>3. PICK h \in 0 .. Len(r.fields) : i + d = Ends(r, h)
  BY <1>1, CrOnly
<1>4. g < h => Ends(r, g) + 3 <= Ends(r, h)
  BY EndsApart
<1>5. h < g => Ends(r, h) + 3 <= Ends(r, g)
  BY EndsApart
<1>6. Len(r.fields) \in Nat
  BY RequestTyped
<1>7. g = h \/ g < h \/ h < g
  BY <1>6
<1>8. QED
  BY <1>2, <1>3, <1>4, <1>5, <1>7

-----------------------------------------------------------------------------
(* The searches of the parser over such a request.                         *)

Clear(buf, a, b, c) == \A h \in a .. b - 1 : buf[h] # c

(* Where pat is, from index from of the string at base, with nothing that  *)
(* could begin it before.                                                  *)
Alone(buf, base, from, pat, e) ==
  /\ base \in Nat /\ from \in Nat /\ e \in Nat /\ Len(pat) \in Nat
  /\ base + from <= Size /\ Len(pat) >= 1 /\ e >= 1 /\ from <= e
  /\ base + e + Len(pat) <= NulFrom(buf, base + from)
  /\ Has(buf, base + e, pat)
  /\ Clear(buf, base + from, base + e, pat[1])

LEMMA FindsFree ==
  ASSUME NEW buf, NEW base, NEW from, NEW pat, NEW e, Alone(buf, base, from, pat, e)
  PROVE  Find(buf, base, from, pat) = [start |-> from, end |-> e, over |-> FALSE]
<1> DEFINE l == Len(pat)
           a == base + from
           b == base + e
<1>1. /\ base \in Nat /\ from \in Nat /\ e \in Nat /\ l \in Nat /\ a = base + from /\ b = base + e
      /\ a <= Size /\ l >= 1 /\ e >= 1 /\ from <= e /\ base + e + l <= NulFrom(buf, base + from)
      /\ Len(pat) = l /\ Has(buf, b, pat) /\ Clear(buf, a, b, pat[1])
  BY DEF Alone
<1> HIDE DEF l, a, b
<1>2. Occurs(buf, base + e, pat, l)
  BY <1>1 DEF Has, Occurs
<1>3. ASSUME NEW o \in from .. e - l, Occurs(buf, base + o, pat, l) PROVE FALSE
  <2>1. 1 \in 1 .. l /\ base + o + 1 - 1 = base + o /\ base + o \in a .. b - 1
    BY <1>1
  <2>2. QED
    BY <1>3, <1>1, <2>1 DEF Occurs, Clear
<1>4. ASSUME NEW j \in 1 .. l - 1, e - j >= from, Occurs(buf, base + e - j, pat, j) PROVE FALSE
  <2>1. 1 \in 1 .. j /\ base + e - j + 1 - 1 = base + e - j /\ base + e - j \in a .. b - 1
    BY <1>1, <1>4
  <2>2. QED
    BY <1>1, <1>4, <2>1 DEF Occurs, Clear
<1>5. First(buf, base, from, pat, e, l)
  BY <1>2, <1>3, <1>4 DEF First
<1>6. base + from <= Size
  BY <1>1
<1>7. QED
  BY <1>1, <1>5, <1>6, FindsAt

LEMMA TextHas ==
  ASSUME NEW buf, NEW a \in Nat, NEW S, NEW s \in Seq(S), NEW b \in Nat, b = a + Len(s), Has(buf, a, s),
         b <= NulFrom(buf, a), NulFrom(buf, a) \in Nat
  PROVE  Text(buf, a, b) = s
<1> DEFINE l == Len(s)
           nul == NulFrom(buf, a)
<1>1. l \in Nat /\ l = Len(s) /\ b = a + l
  BY LenProperties
<1>2. nul \in Nat /\ b <= nul
  OBVIOUS
<1>3. Text(buf, a, b) = Bytes(buf, a, IF nul < b THEN nul ELSE b)
  BY DEF Text
<1>4. Occurs(buf, a, s, l)
  BY DEF Occurs, Has
<1> HIDE DEF nul, l
<1>5. Bytes(buf, a, a + l) = s
  BY <1>1, <1>4, OccursBytes
<1>6. (IF nul < b THEN nul ELSE b) = a + l
  BY <1>1, <1>2
<1>7. QED
  BY <1>3, <1>5, <1>6

(* A search for a line end, for a space, for a ": ".                       *)
LEMMA SearchIn ==
  ASSUME NEW r \in Requests, NEW buf, NEW n, Headed(buf, n, r),
         NEW from \in Nat, NEW e \in Nat, NEW pat \in {Space, Crlf, Colon}, e >= 1, from <= e, e + Len(pat) <= n,
         Has(buf, e, pat), Clear(buf, from, e, pat[1])
  PROVE  Find(buf, 0, from, pat) = [start |-> from, end |-> e, over |-> FALSE]
<1> DEFINE l == Len(pat)
<1>1. n \in Nat /\ n <= Size /\ Size \in Nat
  BY Places
<1>2. l \in Nat /\ l >= 1 /\ Len(pat) = l /\ e + l <= n
  BY Patterns
<1> HIDE DEF l
<1>3. from \in 0 .. n /\ n \in 0 .. Size
  BY <1>1, <1>2
<1>4. n <= NulFrom(buf, from) /\ NulFrom(buf, from) \in Nat
  BY <1>3, NoNul DEF Headed
<1>5. 0 \in Nat /\ 0 + from = from /\ 0 + e = e /\ from <= Size /\ e + l <= NulFrom(buf, from)
  BY <1>1, <1>2, <1>3, <1>4
<1>6. Alone(buf, 0, from, pat, e)
  BY <1>2, <1>5 DEF Alone
<1>7. QED
  BY <1>6, FindsFree

LEMMA TopFits ==
  ASSUME NEW r \in Requests, NEW buf, NEW n, Headed(buf, n, r)
  PROVE  HeadersEnd(r) >= Top(r) /\ HeadersEnd(r) + 4 <= n /\ Top(r) + 4 <= n
<1>1. n \in Nat /\ HeadersEnd(r) \in Nat /\ Top(r) \in Nat
  BY Places
<1>2. HeadersEnd(r) >= Top(r)
  <2>1. Len(r.fields) \in Nat /\ Ends(r, 0) = Top(r)
    BY RequestTyped, EndsFollow
  <2>2. Len(r.fields) = 0 \/ Ends(r, 0) + 3 <= Ends(r, Len(r.fields))
    BY <2>1, EndsApart
  <2>3. QED
    BY <1>1, <2>1, <2>2 DEF HeadersEnd
<1>3. HeadersEnd(r) + 4 <= n
  BY Places
<1>4. QED
  BY <1>1, <1>2, <1>3

LEMMA FindsMethod ==
  ASSUME NEW r \in Requests, NEW buf, NEW n, Headed(buf, n, r)
  PROVE  Find(buf, 0, 0, Space) = [start |-> 0, end |-> Len(r.method), over |-> FALSE]
<1> DEFINE m == Len(r.method)
<1>1. m \in Nat /\ m >= 1 /\ m + 1 = PathAt(r)
  BY RequestTyped DEF PathAt
<1>2. Has(buf, 0, r.method) /\ buf[m] = "SP"
  BY DEF Headed, Laid
<1> HIDE DEF m
<1>3. Has(buf, m, Space)
  BY <1>1, <1>2 DEF Has, Space
<1>4. Clear(buf, 0, m, "SP")
  <2>1. \A h \in 0 .. 0 + m - 1 : buf[h] # "SP"
    BY <1>1, <1>2, PartsWithout, NoneIn DEF m
  <2>2. 0 + m - 1 = m - 1
    BY <1>1
  <2>3. QED
    BY <2>1, <2>2 DEF Clear
<1>5. m + Len(Space) <= n
  <2> DEFINE y == PathEnd(r)
             v == Len(r.version)
             t == Top(r)
  <2>1. t + 4 <= n /\ t = y + 2 + v /\ v \in Nat /\ t \in Nat /\ n \in Nat /\ y \in Nat /\ y >= m + 1
    BY <1>1, TopFits, Places, RequestTyped
  <2>2. Len(Space) = 1
    BY MarksTyped
  <2> HIDE DEF y, v, t
  <2>3. QED
    BY <1>1, <2>1, <2>2
<1>6. Space[1] = "SP" /\ 0 \in Nat /\ 0 <= m
  BY <1>1 DEF Space
<1>7. QED
  BY <1>1, <1>3, <1>4, <1>5, <1>6, SearchIn DEF m

LEMMA FindsPath ==
  ASSUME NEW r \in Requests, NEW buf, NEW n, Headed(buf, n, r)
  PROVE  Find(buf, 0, PathAt(r), Space) = [start |-> PathAt(r), end |-> PathEnd(r), over |-> FALSE]
<1> DEFINE x == PathAt(r)
           y == PathEnd(r)
           u == Len(r.path)
<1>1. x \in Nat /\ y \in Nat /\ x >= 2 /\ y = x + u /\ u \in Nat
  BY Places, RequestTyped DEF PathEnd
<1>2. Has(buf, x, r.path) /\ buf[y] = "SP"
  BY DEF Headed, Laid, PathAt, PathEnd
<1>3. y + 1 <= n
  <2> DEFINE v == Len(r.version)
             t == Top(r)
  <2>1. t + 4 <= n /\ t = y + 2 + v /\ v \in Nat /\ t \in Nat /\ n \in Nat
    BY TopFits, Places, RequestTyped
  <2> HIDE DEF y, v, t, x, u
  <2>2. QED
    BY <1>1, <2>1
<1> HIDE DEF x, y, u
<1>4. Has(buf, y, Space)
  BY <1>1, <1>2 DEF Has, Space
<1>5. Clear(buf, x, y, "SP")
  <2>1. \A h \in x .. x + u - 1 : buf[h] # "SP"
    BY <1>1, <1>2, PartsWithout, NoneIn DEF u
  <2>2. QED
    BY <1>1, <2>1 DEF Clear
<1>6. Space[1] = "SP" /\ Len(Space) = 1 /\ x <= y /\ y >= 1
  BY <1>1 DEF Space
<1>7. Find(buf, 0, x, Space) = [start |-> x, end |-> y, over |-> FALSE]
  <2>1. y + Len(Space) <= n /\ Clear(buf, x, y, Space[1])
    BY <1>3, <1>5, <1>6
  <2>2. x \in Nat /\ y \in Nat /\ y >= 1 /\ x <= y
    BY <1>1, <1>6
  <2>3. QED
    BY <1>4, <2>1, <2>2, SearchIn
<1>8. QED
  BY <1>7 DEF x, y

(* From a place in a line that is not behind its end.                      *)
LEMMA FindsLineEnd ==
  ASSUME NEW r \in Requests, NEW buf, NEW n, Headed(buf, n, r),
         NEW from \in Nat, NEW e \in Nat, e >= 1, from <= e, e <= HeadersEnd(r),
         buf[e] = "CR", buf[e + 1] = "LF", Clear(buf, from, e, "CR")
  PROVE  Find(buf, 0, from, Crlf) = [start |-> from, end |-> e, over |-> FALSE]
<1>1. Len(Crlf) = 2 /\ Crlf[1] = "CR" /\ Crlf[2] = "LF"
  BY DEF Crlf
<1>2. Has(buf, e, Crlf)
  <2>1. \A h \in 1 .. 2 : h = 1 \/ h = 2
    OBVIOUS
  <2>2. e + 1 - 1 = e /\ e + 2 - 1 = e + 1
    OBVIOUS
  <2>3. QED
    BY <1>1, <2>1, <2>2 DEF Has
<1>3. e + Len(Crlf) <= n
  <2>1. n \in Nat /\ HeadersEnd(r) \in Nat /\ HeadersEnd(r) + 4 <= n
    BY Places, TopFits
  <2>2. QED
    BY <1>1, <2>1
<1>4. QED
  BY <1>1, <1>2, <1>3, SearchIn

LEMMA FindsHeadersEnd ==
  ASSUME NEW r \in Requests, NEW buf, NEW n, Headed(buf, n, r)
  PROVE  Find(buf, 0, 0, Crlf \o Crlf) = [start |-> 0, end |-> HeadersEnd(r), over |-> FALSE]
<1> DEFINE e == HeadersEnd(r)
           k == Len(r.fields)
           pat == Crlf \o Crlf
<1>1. n \in Nat /\ n <= Size /\ Size \in Nat /\ e \in Nat /\ Top(r) \in Nat /\ e + 4 <= n /\ e >= Top(r)
  BY Places, TopFits
<1>2. e >= 1
  <2>1. PathEnd(r) \in Nat /\ Top(r) = PathEnd(r) + 2 + Len(r.version) /\ Len(r.version) \in Nat
    BY Places, RequestTyped
  <2>2. Top(r) >= 2
    BY <2>1
  <2>3. QED
    BY <1>1, <2>2
<1>3. buf[e] = "CR" /\ buf[e + 1] = "LF" /\ buf[e + 2] = "CR" /\ buf[e + 3] = "LF"
  BY RequestTyped DEF Headed, Laid, HeadersEnd
<1>4. Len(pat) = 4 /\ pat[1] = "CR" /\ pat[2] = "LF" /\ pat[3] = "CR" /\ pat[4] = "LF"
  BY CrlfTwice
<1> HIDE DEF e, pat
<1>5. Occurs(buf, 0 + e, pat, 4)
  <2>1. \A h \in 1 .. 4 : h = 1 \/ h = 2 \/ h = 3 \/ h = 4
    OBVIOUS
  <2>2. 0 + e + 1 - 1 = e /\ 0 + e + 2 - 1 = e + 1 /\ 0 + e + 3 - 1 = e + 2 /\ 0 + e + 4 - 1 = e + 3
    BY <1>1
  <2>3. QED
    BY <1>3, <1>4, <2>1, <2>2 DEF Occurs
<1>6. ASSUME NEW i \in Nat, NEW d \in 1 .. 2, i + d <= e, buf[i] = "CR" PROVE buf[i + d] # "CR"
  BY <1>6, CrApart DEF e, Headed
<1>7. ASSUME NEW o \in 0 .. e - 4, Occurs(buf, 0 + o, pat, 4) PROVE FALSE
  <2>1. 1 \in 1 .. 4 /\ 3 \in 1 .. 4 /\ 0 + o + 1 - 1 = o /\ 0 + o + 3 - 1 = o + 2 /\ o + 2 <= e /\ 2 \in 1 .. 2 /\ o \in Nat
    BY <1>1
  <2>2. buf[o] = "CR" /\ buf[o + 2] = "CR"
    BY <1>4, <1>7, <2>1 DEF Occurs
  <2>3. QED
    BY <1>6, <2>1, <2>2
<1>8. ASSUME NEW j \in 1 .. 4 - 1, e - j >= 0, Occurs(buf, 0 + e - j, pat, j) PROVE FALSE
  <2>1. j = 1 \/ j = 2 \/ j = 3
    OBVIOUS
  <2>2. \A h \in 1 .. j : buf[0 + e - j + h - 1] = pat[h]
    BY <1>8 DEF Occurs
  <2>3. CASE j = 1 \/ j = 2
    <3>1. 1 \in 1 .. j /\ 0 + e - j + 1 - 1 = e - j /\ e - j \in Nat /\ e - j + j = e /\ j \in 1 .. 2
      BY <1>1, <1>8, <2>3
    <3>2. buf[e - j] = "CR"
      BY <1>4, <2>2, <3>1
    <3> DEFINE i == e - j
    <3>3. i \in Nat /\ i + j = e /\ i + j <= e /\ buf[i] = "CR"
      BY <1>1, <3>1, <3>2
    <3> HIDE DEF i
    <3>4. QED
      BY <1>3, <1>6, <3>1, <3>3
  <2>4. CASE j = 3
    <3>1. 3 \in 1 .. j /\ 0 + e - j + 3 - 1 = e - 1 /\ e - 1 \in Nat /\ e - 1 + 1 = e
      BY <1>1, <1>2, <2>4
    <3>2. buf[e - 1] = "CR"
      BY <1>4, <2>2, <3>1
    <3> DEFINE i == e - 1
    <3>3. i \in Nat /\ i + 1 = e /\ i + 1 <= e /\ buf[i] = "CR" /\ 1 \in 1 .. 2
      BY <1>1, <3>1, <3>2
    <3> HIDE DEF i
    <3>4. QED
      BY <1>3, <1>6, <3>3
  <2>5. QED
    BY <2>1, <2>3, <2>4
<1>9. First(buf, 0, 0, pat, e, 4)
  BY <1>5, <1>7, <1>8 DEF First
<1>10. 0 + e + 4 <= NulFrom(buf, 0 + 0)
  <2>1. n \in 0 .. Size /\ 0 \in 0 .. n
    BY <1>1
  <2>2. n <= NulFrom(buf, 0) /\ NulFrom(buf, 0) \in Nat
    BY <2>1, NoNul DEF Headed
  <2>3. QED
    BY <1>1, <2>2
<1>11. 0 \in Nat /\ 4 \in Nat /\ 0 + 0 <= Size /\ 4 >= 1 /\ 0 <= e
  BY <1>1
<1>12. Find(buf, 0, 0, pat) = [start |-> 0, end |-> e, over |-> FALSE]
  <2> DEFINE z == 0
             l == 4
  <2>1. /\ First(buf, z, z, pat, e, l) /\ z + e + l <= NulFrom(buf, z + z)
        /\ z \in Nat /\ l \in Nat /\ z + z <= Size /\ l >= 1 /\ z <= e /\ Len(pat) = l
    BY <1>4, <1>9, <1>10, <1>11
  <2> HIDE DEF z, l
  <2>2. Find(buf, z, z, pat) = [start |-> z, end |-> e, over |-> FALSE]
    BY <1>1, <1>2, <2>1, FindsAt
  <2>3. QED
    BY <2>2 DEF z
<1>13. QED
  BY <1>12 DEF e, pat

-----------------------------------------------------------------------------
(* The stages of the parser over such a request, up to its headers.        *)

Read(buf, n, r, path, at) ==
  [buf |-> buf, length |-> n, status |-> "parsing", headers_end |-> HeadersEnd(r), path |-> path, last |-> at,
   headers |-> <<>>, content_length |-> 0, body |-> <<>>]

LEMMA ReadFields ==
  ASSUME NEW buf, NEW n, NEW r, NEW path, NEW at
  PROVE  LET x == Read(buf, n, r, path, at) IN
         /\ x.buf = buf /\ x.length = n /\ x.status = "parsing" /\ x.headers_end = HeadersEnd(r)
         /\ x.path = path /\ x.last = at /\ x.headers = <<>> /\ x.content_length = 0 /\ x.body = <<>>
BY DEF Read

LEMMA HeadersEndFound ==
  ASSUME NEW r \in Requests, NEW buf, NEW n, Headed(buf, n, r)
  PROVE  FindHeadersEnd(Request(buf, n)) = Read(buf, n, r, <<>>, 0)
<1> DEFINE e == HeadersEnd(r)
           q == Request(buf, n)
           f == Find(buf, 0, 0, Crlf \o Crlf)
<1>1. f.end = e /\ f.over = FALSE
  BY FindsHeadersEnd
<1>2. e # 0
  <2> DEFINE t == Top(r)
             y == PathEnd(r)
             v == Len(r.version)
  <2>1. e \in Nat /\ t \in Nat /\ e >= t /\ t = y + 2 + v /\ y \in Nat /\ v \in Nat
    BY Places, TopFits, RequestTyped
  <2> HIDE DEF e, t, y, v
  <2>2. QED
    BY <2>1
<1>3. q.buf = buf
  BY DEF Request
<1> HIDE DEF e, f
<1>4. [q EXCEPT !.headers_end = e] = Read(buf, n, r, <<>>, 0)
  BY DEF Read, Request, e
<1> HIDE DEF q
<1>5. FindHeadersEnd(q) = [q EXCEPT !.headers_end = e]
  BY <1>1, <1>2, <1>3 DEF FindHeadersEnd, f
<1>6. QED
  BY <1>4, <1>5 DEF q

LEMMA TextIn ==
  ASSUME NEW r \in Requests, NEW buf, NEW n, Headed(buf, n, r),
         NEW a \in Nat, NEW b \in Nat, NEW s \in Seq(Symbols), b = a + Len(s), b <= n, Has(buf, a, s)
  PROVE  Text(buf, a, b) = s
<1>1. Len(s) \in Nat /\ n \in Nat /\ n <= Size /\ Size \in Nat
  BY Places, LenProperties
<1>2. a \in 0 .. n /\ n \in 0 .. Size
  BY <1>1
<1>3. n <= NulFrom(buf, a) /\ NulFrom(buf, a) \in Nat
  BY <1>2, NoNul DEF Headed
<1>4. b <= NulFrom(buf, a)
  BY <1>1, <1>3
<1>5. QED
  BY <1>3, <1>4, TextHas

LEMMA MethodTaken ==
  ASSUME NEW r \in Requests, NEW buf, NEW n, Headed(buf, n, r)
  PROVE  LET x == Read(buf, n, r, <<>>, 0) IN
         TakeMethod(x) = IF Len(r.method) >= MethodSize THEN Undefined(x)
                         ELSE IF r.method \notin Methods THEN Reject(x)
                         ELSE Read(buf, n, r, <<>>, Len(r.method))
<1> DEFINE x == Read(buf, n, r, <<>>, 0)
           m == Len(r.method)
           f == Find(buf, 0, 0, Space)
<1>1. x.buf = buf /\ [x EXCEPT !.last = m] = Read(buf, n, r, <<>>, m)
  BY DEF Read
<1>2. f.end = m /\ f.over = FALSE
  BY FindsMethod
<1>3. m \in Nat /\ m # 0 /\ r.method \in Seq(Symbols)
  BY RequestTyped
<1>4. Text(buf, 0, m) = r.method
  <2>1. Has(buf, 0, r.method) /\ m = 0 + Len(r.method)
    BY <1>3 DEF Headed, Laid
  <2>2. m <= n
    <3> DEFINE t == Top(r)
               y == PathEnd(r)
               v == Len(r.version)
               z == PathAt(r)
    <3>1. n \in Nat /\ t \in Nat /\ t + 4 <= n /\ t = y + 2 + v /\ y \in Nat /\ v \in Nat /\ z <= y /\ z \in Nat
      BY Places, TopFits, RequestTyped
    <3>2. z = m + 1
      BY DEF PathAt
    <3> HIDE DEF t, y, v, z, m
    <3>3. QED
      BY <1>3, <3>1, <3>2
  <2>3. QED
    BY <1>3, <2>1, <2>2, TextIn
<1> HIDE DEF x, f, m
<1>5. TakeMethod(x) = IF m >= MethodSize THEN Undefined(x)
                      ELSE IF r.method \notin Methods THEN Reject(x)
                      ELSE [x EXCEPT !.last = m]
  BY <1>1, <1>2, <1>3, <1>4 DEF TakeMethod, f
<1>6. QED
  BY <1>1, <1>5 DEF x, m

LEMMA PathTaken ==
  ASSUME NEW r \in Requests, NEW buf, NEW n, Headed(buf, n, r)
  PROVE  TakePath(Read(buf, n, r, <<>>, Len(r.method))) = Read(buf, n, r, r.path, PathEnd(r))
<1> DEFINE x == Read(buf, n, r, <<>>, Len(r.method))
           a == PathAt(r)
           b == PathEnd(r)
           f == Find(buf, 0, a, Space)
<1>1. x.buf = buf /\ x.last = Len(r.method) /\ [x EXCEPT !.path = r.path, !.last = b] = Read(buf, n, r, r.path, b)
  <2> DEFINE h == HeadersEnd(r)
             m == Len(r.method)
             q == r.path
             y == [buf |-> buf, length |-> n, status |-> "parsing", headers_end |-> h, path |-> <<>>, last |-> m,
                   headers |-> <<>>, content_length |-> 0, body |-> <<>>]
             z == [buf |-> buf, length |-> n, status |-> "parsing", headers_end |-> h, path |-> q, last |-> b,
                   headers |-> <<>>, content_length |-> 0, body |-> <<>>]
  <2>1. x = y /\ Read(buf, n, r, q, b) = z
    BY DEF Read
  <2> HIDE DEF h, m, q, b, x
  <2> DEFINE w == [buf |-> buf, length |-> n, status |-> "parsing", headers_end |-> h, path |-> q, last |-> m,
                   headers |-> <<>>, content_length |-> 0, body |-> <<>>]
  <2>2. y.buf = buf /\ y.last = m /\ [y EXCEPT !.path = q] = w
    OBVIOUS
  <2>3. [w EXCEPT !.last = b] = z
    OBVIOUS
  <2> HIDE DEF y, z, w
  <2>4. y.buf = buf /\ y.last = m /\ [y EXCEPT !.path = q, !.last = b] = z
    <3>1. [y EXCEPT !.path = q, !.last = b] = [[y EXCEPT !.path = q] EXCEPT !.last = b]
      OBVIOUS
    <3>2. QED
      BY <2>2, <2>3, <3>1
  <2>5. QED
    BY <2>1, <2>4 DEF q, m
<1>2. f.start = a /\ f.end = b /\ f.over = FALSE
  BY FindsPath
<1>3. a \in Nat /\ b \in Nat /\ a >= 2 /\ b >= a /\ r.path \in Seq(Symbols)
  BY Places, RequestTyped
<1>4. Text(buf, a, b) = r.path
  <2>1. Has(buf, a, r.path) /\ b = a + Len(r.path)
    BY DEF Headed, Laid, PathAt, PathEnd
  <2>2. b <= n
    <3> DEFINE t == Top(r)
               v == Len(r.version)
    <3>1. n \in Nat /\ t \in Nat /\ t + 4 <= n /\ t = b + 2 + v /\ v \in Nat
      BY Places, TopFits, RequestTyped
    <3> HIDE DEF t, v, a, b
    <3>2. QED
      BY <1>3, <3>1
  <2>3. QED
    BY <1>3, <2>1, <2>2, TextIn
<1>5. a = x.last + 1
  BY <1>1 DEF PathAt
<1> HIDE DEF x, f, a, b
<1>6. TakePath(x) = [x EXCEPT !.path = r.path, !.last = b]
  <2>1. Find(x.buf, 0, x.last + 1, Space) = f
    BY <1>1, <1>5 DEF f
  <2>2. b # 0
    BY <1>3
  <2>3. QED
    BY <1>1, <1>2, <1>4, <2>1, <2>2 DEF TakePath
<1>7. QED
  BY <1>1, <1>6 DEF x, b

LEMMA VersionTaken ==
  ASSUME NEW r \in Requests, NEW buf, NEW n, Headed(buf, n, r)
  PROVE  LET x == Read(buf, n, r, r.path, PathEnd(r)) IN
         TakeVersion(x) = IF Len(r.version) >= VersionSize THEN Undefined(x)
                          ELSE IF r.version # Version THEN Reject(x)
                          ELSE Read(buf, n, r, r.path, Top(r))
<1> DEFINE x == Read(buf, n, r, r.path, PathEnd(r))
           y == PathEnd(r)
           a == y + 2
           t == Top(r)
           v == Len(r.version)
           f == Find(buf, 0, a, Crlf)
<1>1. x.buf = buf /\ x.last = y /\ [x EXCEPT !.last = t] = Read(buf, n, r, r.path, t)
  BY DEF Read
<1>2. /\ y \in Nat /\ t \in Nat /\ v \in Nat /\ t = y + 2 + v /\ t + 4 <= n /\ n <= Size /\ n \in Nat /\ Size \in Nat
      /\ HeadersEnd(r) \in Nat /\ HeadersEnd(r) >= t
  BY Places, TopFits, RequestTyped
<1>3. Has(buf, a, r.version) /\ Has(buf, y + 2, r.version)
  BY DEF Headed, Laid, PathAt, PathEnd
<1>4. buf[t] = "CR" /\ buf[t + 1] = "LF"
  <2>1. Ends(r, 0) = t /\ 0 \in 0 .. Len(r.fields)
    BY EndsFollow, RequestTyped
  <2>2. QED
    BY <2>1 DEF Headed, Laid
<1>5. v = Len(r.version) /\ r.version \in Seq(Symbols) /\ VersionSize \in Nat
  BY RequestTyped, Limits
<1>6. Len(HttpWord) = 1
  BY MarksTyped
<1> HIDE DEF x, y, t, v, f
<1>7. a \in Nat /\ t = a + v /\ t >= 1 /\ a <= t /\ t <= n /\ a < Size /\ a = y + 1 + 1
  BY <1>2
<1> HIDE DEF a
<1>8. Clear(buf, a, t, "CR")
  <2>1. \A h \in a .. a + v - 1 : buf[h] # "CR"
    BY <1>2, <1>3, <1>5, <1>7, PartsWithout, NoneIn
  <2>2. a + v - 1 = t - 1
    BY <1>2, <1>7
  <2>3. QED
    BY <2>1, <2>2 DEF Clear
<1>9. f = [start |-> a, end |-> t, over |-> FALSE]
  <2>1. a \in Nat /\ t \in Nat /\ t >= 1 /\ a <= t /\ t <= HeadersEnd(r)
    BY <1>2, <1>7
  <2>2. QED
    BY <1>4, <1>8, <2>1, FindsLineEnd DEF f
<1>10. Text(buf, a, t) = r.version
  <2>1. /\ a \in Nat /\ t \in Nat /\ r.version \in Seq(Symbols)
        /\ t = a + Len(r.version) /\ t <= n /\ Has(buf, a, r.version)
    BY <1>2, <1>3, <1>5, <1>7
  <2>2. QED
    BY ONLY <2>1, r \in Requests, Headed(buf, n, r), TextIn
<1>11. t # 0 /\ t - a = v /\ ~(a >= Size)
  BY <1>2, <1>7
<1>12. TakeVersion(x) = IF v >= VersionSize THEN Undefined(x)
                        ELSE IF r.version # Version THEN Reject(x)
                        ELSE [x EXCEPT !.last = t]
  <2>1. x.last + 1 + Len(HttpWord) = a
    BY <1>1, <1>6, <1>7
  <2>2. Find(x.buf, 0, x.last + 1 + Len(HttpWord), Crlf) = f
    BY <1>1, <2>1 DEF f
  <2>3. f.start = a /\ f.end = t /\ f.over = FALSE
    BY <1>9
  <2> HIDE DEF f
  <2>4. QED
    BY <1>1, <1>10, <1>11, <2>1, <2>2, <2>3 DEF TakeVersion
<1>13. QED
  BY <1>1, <1>12 DEF x, y, t, v

-----------------------------------------------------------------------------
(* The headers of such a request.                                          *)

(* The number that the first j fields tell, if no Content-Length is blank. *)
IsTold(r, j, c) ==
  \/ Blanked(r)
  \/ c = 0 /\ \A h \in 1 .. j : LowerCase(r.fields[h].key) # ContentLength
  \/ \E h \in 1 .. j :
       /\ LowerCase(r.fields[h].key) = ContentLength
       /\ \A g \in 1 .. j : LowerCase(r.fields[g].key) = ContentLength => g <= h
       /\ c = Told(r.fields[h]).value

Fits(r, h) ==
  /\ Len(r.fields[h].key) < KeySize /\ Len(r.fields[h].value) < ValueSize
  /\ LowerCase(r.fields[h].key) = ContentLength => ~Told(r.fields[h]).over
FieldsOverfull(r) == \E h \in 1 .. Len(r.fields) : h <= MaxHeaders /\ ~Fits(r, h)

Heads(r, j) == [h \in 1 .. j |-> [key |-> LowerCase(r.fields[h].key), value |-> r.fields[h].value]]

(* The first j fields are read.                                            *)
Passed(buf, n, r, x, j) ==
  /\ x.buf = buf /\ x.length = n /\ x.headers_end = HeadersEnd(r) /\ x.path = r.path
  /\ x.last = Ends(r, j) /\ x.body = <<>>
  /\ x.headers = Heads(r, j)
  /\ IsTold(r, j, x.content_length)
  /\ j <= MaxHeaders
  /\ \A h \in 1 .. j : r.fields[h].sep = Colon /\ (Fits(r, h) \/ Blanked(r))

(* What the parse of the headers may have come to.                         *)
Stuck(r, x) ==
  \/ x.status = "undefined" /\ (Unseparated(r) \/ Blanked(r) \/ FieldsOverfull(r))
  \/ x.status = "reject" /\ (Unseparated(r) \/ Blanked(r) \/ (Len(r.fields) > MaxHeaders /\ ~FieldsOverfull(r)))

LEMMA HeadsTyped ==
  ASSUME NEW r \in Requests, NEW j \in 0 .. Len(r.fields)
  PROVE  Heads(r, j) \in Seq(Header) /\ Len(Heads(r, j)) = j
<1>1. Len(r.fields) \in Nat
  BY RequestTyped
<1>2. \A h \in 1 .. j : [key |-> LowerCase(r.fields[h].key), value |-> r.fields[h].value] \in Header
  <2> SUFFICES ASSUME NEW h \in 1 .. j
               PROVE  [key |-> LowerCase(r.fields[h].key), value |-> r.fields[h].value] \in Header
    OBVIOUS
  <2>1. r.fields[h] \in Fields
    BY <1>1, PartsTyped
  <2>2. r.fields[h].key \in Seq(Symbols) /\ r.fields[h].value \in Seq(Symbols)
    BY <2>1, FieldTyped
  <2>3. LowerCase(r.fields[h].key) \in Seq(Symbols)
    BY <2>2, LowerCaseSane
  <2>4. QED
    BY <2>2, <2>3 DEF Header
<1>3. j \in Nat
  BY <1>1
<1>4. QED
  BY <1>2, <1>3, IsASeq DEF Heads

LEMMA HeadsAppend ==
  ASSUME NEW r \in Requests, NEW j \in 1 .. Len(r.fields)
  PROVE  Append(Heads(r, j - 1), [key |-> LowerCase(r.fields[j].key), value |-> r.fields[j].value]) = Heads(r, j)
<1> DEFINE a == Heads(r, j - 1)
           one == [key |-> LowerCase(r.fields[j].key), value |-> r.fields[j].value]
           b == Heads(r, j)
           c == Append(a, one)
<1>1. Len(r.fields) \in Nat /\ j - 1 \in 0 .. Len(r.fields) /\ j \in 0 .. Len(r.fields) /\ j \in Nat
  BY RequestTyped
<1>2. a \in Seq(Header) /\ Len(a) = j - 1 /\ b \in Seq(Header) /\ Len(b) = j
  BY <1>1, HeadsTyped
<1>3. b[j] = one /\ \A h \in 1 .. j - 1 : b[h] = a[h]
  BY <1>1 DEF Heads
<1>4. one \in Header
  <2>1. b[j] \in Header
    BY <1>1, <1>2, ElementOfSeq
  <2>2. QED
    BY <1>3, <2>1
<1> HIDE DEF a, b, one, c
<1>5. c \in Seq(Header) /\ Len(c) = j /\ c[j] = one /\ \A h \in 1 .. j - 1 : c[h] = a[h]
  <2>1. c \in Seq(Header) /\ Len(c) = Len(a) + 1 /\ c[Len(a) + 1] = one /\ \A h \in 1 .. Len(a) : c[h] = a[h]
    BY <1>2, <1>4, AppendProperties DEF c
  <2>2. Len(a) + 1 = j
    BY <1>1, <1>2
  <2>3. QED
    BY <1>2, <2>1, <2>2
<1>6. \A h \in 1 .. j : c[h] = b[h]
  <2>1. \A h \in 1 .. j : h = j \/ h \in 1 .. j - 1
    BY <1>1
  <2>2. QED
    BY <1>3, <1>5, <2>1
<1>7. c = b
  BY <1>2, <1>5, <1>6, SeqEqual
<1>8. QED
  BY <1>7 DEF a, b, one, c

LEMMA ToldOn ==
  ASSUME NEW r, NEW j \in Nat, j >= 1, NEW c, IsTold(r, j - 1, c)
  PROVE  /\ LowerCase(r.fields[j].key) # ContentLength => IsTold(r, j, c)
         /\ LowerCase(r.fields[j].key) = ContentLength => IsTold(r, j, Told(r.fields[j]).value)
<1> DEFINE L(h) == LowerCase(r.fields[h].key) = ContentLength
           V(h) == Told(r.fields[h]).value
           Told0(i, d) == \/ Blanked(r)
                          \/ d = 0 /\ \A h \in 1 .. i : ~L(h)
                          \/ \E h \in 1 .. i : L(h) /\ (\A g \in 1 .. i : L(g) => g <= h) /\ d = V(h)
<1>1. \A i, d : IsTold(r, i, d) <=> Told0(i, d)
  BY DEF IsTold
<1>2. \A h \in 1 .. j : h = j \/ h \in 1 .. j - 1
  OBVIOUS
<1>3. j \in 1 .. j /\ \A h \in 1 .. j - 1 : h \in 1 .. j
  OBVIOUS
<1>4. Told0(j - 1, c)
  BY <1>1
<1> HIDE DEF L, V
<1>5. ~L(j) => Told0(j, c)
  BY <1>2, <1>3, <1>4
<1>6. L(j) => Told0(j, V(j))
  BY <1>3
<1> HIDE DEF Told0
<1>7. QED
  BY <1>1, <1>5, <1>6 DEF L, V

LEMMA ToldDeclared ==
  ASSUME NEW r \in Requests, NEW c, IsTold(r, Len(r.fields), c), ~Blanked(r)
  PROVE  c = Declared(r)
<1> DEFINE k == Len(r.fields)
           told == Keyed(r, ContentLength)
           i == CHOOSE h \in told : \A g \in told : g <= h
<1>1. DOMAIN r.fields = 1 .. k /\ k \in Nat
  BY RequestTyped
<1>2. told = {h \in 1 .. k : LowerCase(r.fields[h].key) = ContentLength}
  BY <1>1 DEF Keyed
<1>3. Declared(r) = IF told = {} THEN 0 ELSE Told(r.fields[i]).value
  BY DEF Declared
<1> HIDE DEF told, i, k
<1>4. CASE \A h \in 1 .. k : LowerCase(r.fields[h].key) # ContentLength
  <2>1. told = {}
    BY <1>2, <1>4
  <2>2. c = 0
    BY <1>4 DEF IsTold, k
  <2>3. QED
    BY <1>3, <2>1, <2>2
<1>5. CASE ~(\A h \in 1 .. k : LowerCase(r.fields[h].key) # ContentLength)
  <2>1. PICK h \in 1 .. k :
          /\ LowerCase(r.fields[h].key) = ContentLength
          /\ \A g \in 1 .. k : LowerCase(r.fields[g].key) = ContentLength => g <= h
          /\ c = Told(r.fields[h]).value
    BY <1>5 DEF IsTold, k
  <2>2. h \in told /\ \A g \in told : g <= h
    BY <1>2, <2>1
  <2>3. i \in told /\ \A g \in told : g <= i
    BY <2>2 DEF i
  <2>4. h \in Nat /\ i \in Nat
    BY <1>1, <1>2, <2>2, <2>3
  <2>5. i = h
    BY <2>2, <2>3, <2>4
  <2>6. QED
    BY <1>3, <2>1, <2>2, <2>5
<1>6. QED
  BY <1>4, <1>5

(* atoi stops at a byte that is no digit, behind one that is no blank, and *)
(* makes the same of two texts that are the same up to there.              *)
AddingBase(p) == 0
AddingStep(p, x, i) == 10 * x + Digit[p.text[i - 1]]
AddingHolds(p, x, i) == x \in Nat
Adding == INSTANCE Recursion WITH Base <- AddingBase, Step <- AddingStep, Holds <- AddingHolds

LEMMA PastFound ==
  ASSUME NEW text, NEW S, NEW m \in Nat, NEW i \in 1 .. m, Len(text) \in Nat, m <= Len(text), text[m] \notin S
  PROVE  /\ Past(text, i, S) \in i .. m /\ text[Past(text, i, S)] \notin S
         /\ \A h \in i .. Past(text, i, S) - 1 : text[h] \in S
<1> DEFINE T == {k \in i .. m : \A h \in i .. k - 1 : text[h] \in S}
           l == Len(text)
           Is(k) == (k = l + 1 \/ text[k] \notin S) /\ \A h \in i .. k - 1 : text[h] \in S
<1>1. i \in T /\ T \in SUBSET (0 .. m)
  OBVIOUS
<1>2. PICK k \in T : \A h \in T : h <= k
  <2> HIDE DEF T
  <2>1. QED
    BY <1>1, Search!LastExists
<1>3. text[k] \notin S
  <2> SUFFICES ASSUME text[k] \in S PROVE FALSE
    OBVIOUS
  <2>1. k # m
    OBVIOUS
  <2>2. k + 1 \in i .. m /\ \A h \in i .. k + 1 - 1 : h = k \/ h \in i .. k - 1
    BY <2>1
  <2>3. k + 1 \in T /\ k \in Nat
    BY <1>2, <2>2
  <2> HIDE DEF T
  <2>4. k + 1 <= k
    BY <1>2, <2>3
  <2>5. QED
    BY <2>3, <2>4
<1>4. l \in Nat /\ m <= l /\ k \in i .. m /\ k \in i .. l + 1 /\ Is(k)
  BY <1>2, <1>3
<1> DEFINE o == Past(text, i, S)
<1>5. o \in i .. l + 1 /\ Is(o)
  <2>1. o = CHOOSE c \in i .. l + 1 : Is(c)
    BY DEF Past
  <2> HIDE DEF o, Is
  <2>2. QED
    BY <1>4, <2>1
<1> HIDE DEF o, T, l
<1>6. o <= k
  <2> SUFFICES ASSUME o > k PROVE FALSE
    BY <1>4, <1>5
  <2>1. k \in i .. o - 1
    BY <1>4, <1>5
  <2>2. QED
    BY <1>3, <1>5, <2>1
<1>7. o \in i .. m /\ o # l + 1
  BY <1>4, <1>5, <1>6
<1>8. QED
  BY <1>5, <1>7 DEF o

LEMMA PastStops ==
  ASSUME NEW t, NEW u, NEW S, NEW m \in Nat, NEW i \in 1 .. m, Len(t) \in Nat, Len(u) \in Nat,
         m <= Len(t), m <= Len(u), \A h \in 1 .. m : t[h] = u[h], t[m] \notin S
  PROVE  Past(t, i, S) = Past(u, i, S) /\ Past(t, i, S) \in i .. m
<1> DEFINE a == Past(t, i, S)
           b == Past(u, i, S)
<1>1. m \in 1 .. m /\ u[m] \notin S
  OBVIOUS
<1>2. a \in i .. m /\ t[a] \notin S /\ \A h \in i .. a - 1 : t[h] \in S
  BY PastFound
<1>3. b \in i .. m /\ u[b] \notin S /\ \A h \in i .. b - 1 : u[h] \in S
  BY <1>1, PastFound
<1> HIDE DEF a, b
<1>4. ~(a < b)
  <2> SUFFICES ASSUME a < b PROVE FALSE
    OBVIOUS
  <2>1. a \in i .. b - 1 /\ a \in 1 .. m
    BY <1>2, <1>3
  <2>2. QED
    BY <1>2, <1>3, <2>1
<1>5. ~(b < a)
  <2> SUFFICES ASSUME b < a PROVE FALSE
    OBVIOUS
  <2>1. b \in i .. a - 1 /\ b \in 1 .. m
    BY <1>2, <1>3
  <2>2. QED
    BY <1>2, <1>3, <2>1
<1>6. a = b
  BY <1>2, <1>3, <1>4, <1>5
<1>7. QED
  BY <1>2, <1>6 DEF a, b

LEMMA AtoiStops ==
  ASSUME NEW t, NEW u, NEW m \in Nat, NEW k \in 1 .. m - 1, Len(t) \in Nat, Len(u) \in Nat,
         m <= Len(t), m <= Len(u), \A h \in 1 .. m : t[h] = u[h],
         t[k] \notin Blank, t[m] \notin DOMAIN Digit
  PROVE  Atoi(t) = Atoi(u)
<1> DEFINE Sign(s) == Past(s, 1, Blank)
           Start(s) == IF Sign(s) <= Len(s) /\ s[Sign(s)] \in {"-", "+"} THEN Sign(s) + 1 ELSE Sign(s)
           End(s) == Past(s, Start(s), DOMAIN Digit)
           Text0(s) == [text |-> s]
           Amount(s) == Adding!Run(Text0(s), Start(s), End(s))[End(s)]
           Value(s) == IF Start(s) > Sign(s) /\ s[Sign(s)] = "-" THEN -Amount(s) ELSE Amount(s)
<1>1. ASSUME NEW s
      PROVE  Atoi(s) = [value |-> Value(s), over |-> End(s) > Len(s) \/ Value(s) \notin (-MaxInt - 1) .. MaxInt]
  <2>1. Text0(s).text = s
    OBVIOUS
  <2> HIDE DEF Text0
  <2>2. QED
    BY <2>1 DEF Atoi, Adding!Run, Adding!Loop, AddingBase, AddingStep
<1>2. Sign(t) = Sign(u) /\ Sign(t) \in 1 .. k
  <2>1. k \in Nat /\ 1 \in 1 .. k /\ k <= Len(t) /\ k <= Len(u) /\ \A h \in 1 .. k : t[h] = u[h]
    OBVIOUS
  <2>2. QED
    BY <2>1, PastStops
<1>3. Start(t) = Start(u) /\ Start(t) \in 1 .. m
  <2> DEFINE a == Sign(t)
  <2>1. a = Sign(u) /\ a \in 1 .. k
    BY <1>2
  <2> HIDE DEF a
  <2>2. a <= Len(t) /\ a <= Len(u) /\ a \in 1 .. m /\ a + 1 \in 1 .. m
    BY <2>1
  <2>3. t[a] = u[a]
    BY <2>2
  <2>4. Start(t) = (IF t[a] \in {"-", "+"} THEN a + 1 ELSE a) /\ Start(u) = (IF u[a] \in {"-", "+"} THEN a + 1 ELSE a)
    BY <2>1, <2>2 DEF a
  <2>5. QED
    BY <2>2, <2>3, <2>4
<1> HIDE DEF Sign
<1>4. End(t) = End(u) /\ End(t) \in Start(t) .. m
  <2> DEFINE a == Start(t)
  <2>1. a = Start(u) /\ a \in 1 .. m
    BY <1>3
  <2> HIDE DEF Start
  <2>2. Past(t, a, DOMAIN Digit) = Past(u, a, DOMAIN Digit) /\ Past(t, a, DOMAIN Digit) \in a .. m
    BY <2>1, PastStops
  <2>3. QED
    BY <2>1, <2>2
<1> HIDE DEF Start, End
<1>5. Amount(t) = Amount(u)
  <2> DEFINE a == Start(t)
             z == End(t)
             p == Text0(t)
             q == Text0(u)
  <2>1. a = Start(u) /\ z = End(u) /\ a \in 1 .. m /\ z \in a .. m
    BY <1>3, <1>4
  <2>2. p.text = t /\ q.text = u
    OBVIOUS
  <2> HIDE DEF a, z, p, q
  <2>3. AddingBase(p) = AddingBase(q)
    BY DEF AddingBase
  <2>4. \A i \in a + 1 .. z : \A x : AddingStep(p, x, i) = AddingStep(q, x, i)
    <3>1. ASSUME NEW i \in a + 1 .. z, NEW x PROVE AddingStep(p, x, i) = AddingStep(q, x, i)
      <4>1. i - 1 \in 1 .. m
        BY <2>1
      <4>2. QED
        BY <2>2, <4>1 DEF AddingStep
    <3>2. QED
      BY <3>1
  <2>5. a \in Int /\ z \in Int /\ a <= z /\ z <= z
    BY <2>1
  <2>6. Adding!Run(p, a, z)[z] = Adding!Run(q, a, z)[z]
    BY ONLY <2>3, <2>4, <2>5, Adding!Agree
  <2>7. QED
    BY <2>1, <2>6 DEF a, z, p, q
<1> HIDE DEF Amount
<1>6. t[Sign(t)] = u[Sign(t)]
  <2>1. Sign(t) \in 1 .. m
    BY <1>2
  <2>2. QED
    BY <2>1
<1>7. Value(t) = Value(u)
  BY <1>2, <1>3, <1>5, <1>6
<1> HIDE DEF Value
<1>8. ~(End(t) > Len(t)) /\ ~(End(u) > Len(u))
  BY <1>3, <1>4
<1>9. QED
  BY <1>1, <1>7, <1>8

(* What atoi reads in the buffer is the number on the line, if there is    *)
(* something on it.                                                        *)
LEMMA ToldHere ==
  ASSUME NEW buf, NEW g \in Nat, NEW f \in Fields, Has(buf, g, f.value), buf[g + Len(f.value)] = "CR",
         g + Len(f.value) < Size, f.value \notin Seq(Blank)
  PROVE  Atoi(Bytes(buf, g, Size)) = Told(f)
<1> DEFINE v == f.value
           c == Len(v)
           t == v \o Crlf
           u == Bytes(buf, g, Size)
           m == c + 1
<1>1. v \in Seq(Symbols) /\ c \in Nat /\ Crlf \in Seq({"CR", "LF"}) /\ Len(Crlf) = 2 /\ Crlf[1] = "CR" /\ Size \in Nat
  BY FieldTyped, LenProperties, Limits DEF Crlf
<1>2. PICK k \in 1 .. c : v[k] \notin Blank
  <2> SUFFICES ASSUME \A k \in 1 .. c : v[k] \in Blank PROVE FALSE
    OBVIOUS
  <2>1. v = [k \in 1 .. c |-> v[k]]
    BY <1>1, LenProperties
  <2> HIDE DEF v, c
  <2>2. [k \in 1 .. c |-> v[k]] \in Seq(Blank)
    BY <1>1, IsASeq
  <2>3. QED
    BY <2>1, <2>2 DEF v
<1>3. Len(t) = c + 2 /\ t[m] = "CR" /\ \A h \in 1 .. c : t[h] = v[h]
  <2> DEFINE A == Symbols \cup {"CR", "LF"}
  <2>1. v \in Seq(A) /\ Crlf \in Seq(A)
    BY <1>1
  <2> HIDE DEF v, A, t
  <2>2. /\ Len(t) = Len(v) + Len(Crlf)
        /\ \A i \in 1 .. Len(v) + Len(Crlf) : t[i] = IF i <= Len(v) THEN v[i] ELSE Crlf[i - Len(v)]
    BY <2>1, ConcatProperties DEF t
  <2> DEFINE d == Len(v)
  <2>3. d \in Nat /\ Len(t) = d + 2 /\ \A i \in 1 .. d + 2 : t[i] = IF i <= d THEN v[i] ELSE Crlf[i - d]
    BY <1>1, <2>2
  <2> HIDE DEF d
  <2>4. d + 1 \in 1 .. d + 2 /\ ~(d + 1 <= d) /\ d + 1 - d = 1
    BY <2>3
  <2>5. t[d + 1] = "CR"
    BY <1>1, <2>3, <2>4
  <2>6. ASSUME NEW h \in 1 .. d PROVE t[h] = v[h]
    <3>1. h \in 1 .. d + 2 /\ h <= d
      BY <2>3
    <3>2. QED
      BY <2>3, <3>1
  <2>7. QED
    BY <2>3, <2>5, <2>6 DEF d
<1> HIDE DEF v, c, t
<1>4. Len(u) = Size - g /\ \A h \in 1 .. Size - g : u[h] = buf[g + h - 1]
  <2>1. Size - g \in Nat
    BY <1>1 DEF c, v
  <2> HIDE DEF u
  <2>2. u = [i \in 1 .. Size - g |-> buf[g + i - 1]]
    BY DEF u, Bytes
  <2>3. QED
    BY <2>1, <2>2
<1> HIDE DEF u
<1>5. g + c < Size /\ buf[g + c] = "CR" /\ \A h \in 1 .. c : buf[g + h - 1] = v[h]
  BY DEF Has, c, v
<1>6. \A h \in 1 .. m : t[h] = u[h]
  <2> SUFFICES ASSUME NEW h \in 1 .. m PROVE t[h] = u[h]
    OBVIOUS
  <2>1. h \in 1 .. Size - g
    BY <1>1, <1>5
  <2>2. CASE h = m
    <3>1. g + h - 1 = g + c
      BY <1>1, <2>2
    <3>2. QED
      BY <1>3, <1>4, <1>5, <2>1, <2>2, <3>1
  <2>3. CASE h # m
    <3>1. h \in 1 .. c
      BY <1>1, <2>3
    <3>2. QED
      BY <1>3, <1>4, <1>5, <2>1, <3>1
  <2>4. QED
    BY <2>2, <2>3
<1>7. /\ m \in Nat /\ k \in 1 .. m - 1 /\ Len(t) \in Nat /\ Len(u) \in Nat /\ m <= Len(t) /\ m <= Len(u)
      /\ t[k] \notin Blank
  BY <1>1, <1>2, <1>3, <1>4, <1>5
<1>8. t[m] \notin DOMAIN Digit
  BY <1>3, ParserAssumption
<1> HIDE DEF m
<1>9. Atoi(t) = Atoi(u)
  BY <1>6, <1>7, <1>8, AtoiStops
<1>10. QED
  BY <1>9 DEF Told, t, u, v

(* Where the j-th field is.                                                *)
LEMMA FieldLaid ==
  ASSUME NEW r \in Requests, NEW buf, Laid(buf, r), NEW j \in 1 .. Len(r.fields)
  PROVE  LET f    == r.fields[j]
             from == Ends(r, j - 1) + 2
             e    == Ends(r, j)
             a    == Len(f.key)
             b    == Len(f.sep)
             c    == Len(f.value) IN
         /\ f \in Fields /\ from \in Nat /\ e \in Nat /\ e <= HeadersEnd(r) /\ Ends(r, j - 1) \in Nat
         /\ a \in Nat /\ a >= 1 /\ b \in Nat /\ c \in Nat /\ e = from + a + b + c
         /\ Has(buf, from, f.key) /\ Has(buf, from + a, f.sep) /\ Has(buf, from + a + b, f.value)
         /\ Ends(r, j - 1) # HeadersEnd(r) /\ buf[e] = "CR" /\ buf[e + 1] = "LF" /\ Clear(buf, from, e, "CR")
<1> DEFINE f    == r.fields[j]
           from == Ends(r, j - 1) + 2
           e    == Ends(r, j)
           a    == Len(f.key)
           b    == Len(f.sep)
           c    == Len(f.value)
           k    == Len(r.fields)
           end  == HeadersEnd(r)
           was  == Ends(r, j - 1)
<1>1. /\ k \in Nat /\ j \in 1 .. k /\ j \in 0 .. k /\ j - 1 \in 0 .. k /\ k \in 0 .. k /\ j - 1 < j /\ j <= k
      /\ j - 1 < k
  BY RequestTyped
<1>2. was \in Nat /\ e \in Nat /\ e = was + Len(Line(f)) /\ f \in Fields
  BY <1>1, EndsFollow, PartsTyped
<1>3. was + 3 <= e /\ was + 3 <= end
  BY <1>1, EndsApart DEF HeadersEnd
<1>4. e <= end
  <2>1. j = k \/ j < k
    BY <1>1
  <2>2. j < k => e + 3 <= end
    BY <1>1, EndsApart DEF HeadersEnd
  <2>3. j = k => e = end
    BY DEF HeadersEnd
  <2>4. end \in Nat
    BY Distances
  <2> HIDE DEF e, end, k
  <2>5. QED
    BY <1>2, <2>1, <2>2, <2>3, <2>4
<1>5. end \in Nat
  BY Distances
<1>6. Has(buf, was + 2, Line(f)) /\ buf[e] = "CR" /\ buf[e + 1] = "LF" /\ Laid(buf, r)
  BY <1>1 DEF Laid
<1>7. ASSUME NEW i \in was + 1 .. e - 1 PROVE buf[i] # "CR"
  <2> SUFFICES ASSUME buf[i] = "CR" PROVE FALSE
    OBVIOUS
  <2> HIDE DEF was, e, end
  <2>1. i \in 0 .. end
    BY <1>2, <1>4, <1>5
  <2>2. PICK g \in 0 .. k : i = Ends(r, g)
    BY <1>6, <2>1, CrOnly DEF end, k
  <2>3. /\ g < j - 1 => Ends(r, g) + 3 <= was
        /\ j - 1 < g => was + 3 <= Ends(r, g)
        /\ g < j => Ends(r, g) + 3 <= e
        /\ j < g => e + 3 <= Ends(r, g)
        /\ g = j => Ends(r, g) = e /\ (g = j - 1 => Ends(r, g) = was)
    BY <1>1, EndsApart DEF was, e, k
  <2>4. g = j - 1 => Ends(r, g) = was
    BY DEF was
  <2>5. g < j - 1 \/ g = j - 1 \/ g = j \/ j < g
    BY <1>1
  <2>6. QED
    BY <1>2, <2>2, <2>3, <2>4, <2>5
<1> HIDE DEF was, e, end, k, f
<1>8. from \in Nat /\ from <= e /\ e >= 1 /\ was # end
  BY <1>2, <1>3, <1>4, <1>5 DEF was
<1>9. Clear(buf, from, e, "CR")
  BY <1>2, <1>7, <1>8 DEF Clear, was
<1>11. /\ Has(buf, from, f.key) /\ Has(buf, from + a, f.sep) /\ Has(buf, from + a + b, f.value)
       /\ a \in Nat /\ a >= 1 /\ b \in Nat /\ c \in Nat
  <2>1. Has(buf, from, Line(f))
    BY <1>6 DEF was
  <2> HIDE DEF from
  <2>2. QED
    BY <1>2, <1>8, <2>1, FieldPlaces
<1>12. e = from + a + b + c
  <2>1. Len(Line(f)) = a + b + c + 2
    BY <1>2, LineTyped
  <2>2. from = was + 2
    BY DEF was
  <2> HIDE DEF a, b, c, from
  <2>3. QED
    BY <1>2, <1>11, <2>1, <2>2
<1>13. QED
  BY <1>2, <1>4, <1>6, <1>8, <1>9, <1>11, <1>12 DEF was, e, end, f

(* Where the search for the end of its line ends.                          *)
LEMMA FieldAt ==
  ASSUME NEW r \in Requests, NEW buf, NEW n, Headed(buf, n, r), NEW j \in 1 .. Len(r.fields)
  PROVE  LET f    == r.fields[j]
             from == Ends(r, j - 1) + 2
             e    == Ends(r, j)
             a    == Len(f.key)
             b    == Len(f.sep)
             c    == Len(f.value) IN
         /\ f \in Fields /\ from \in Nat /\ e \in Nat /\ from < Size /\ e < n
         /\ a \in Nat /\ a >= 1 /\ b \in Nat /\ c \in Nat /\ e = from + a + b + c
         /\ Has(buf, from, f.key) /\ Has(buf, from + a, f.sep) /\ Has(buf, from + a + b, f.value)
         /\ Ends(r, j - 1) # HeadersEnd(r) /\ buf[e] = "CR"
         /\ Find(buf, 0, from, Crlf) = [start |-> from, end |-> e, over |-> FALSE]
<1> DEFINE f    == r.fields[j]
           from == Ends(r, j - 1) + 2
           e    == Ends(r, j)
           a    == Len(f.key)
           b    == Len(f.sep)
           c    == Len(f.value)
           end  == HeadersEnd(r)
<1>1. /\ f \in Fields /\ from \in Nat /\ e \in Nat /\ e <= end
      /\ a \in Nat /\ a >= 1 /\ b \in Nat /\ c \in Nat /\ e = from + a + b + c
      /\ Has(buf, from, f.key) /\ Has(buf, from + a, f.sep) /\ Has(buf, from + a + b, f.value)
      /\ Ends(r, j - 1) # end /\ buf[e] = "CR" /\ buf[e + 1] = "LF" /\ Clear(buf, from, e, "CR")
  BY FieldLaid DEF Headed
<1>2. end \in Nat /\ end + 4 <= n /\ n \in Nat /\ n <= Size /\ Size \in Nat
  BY Places
<1> HIDE DEF f, from, e, a, b, c, end
<1>3. from <= e /\ e >= 1 /\ from < Size /\ e < n
  BY ONLY <1>1, <1>2
<1>4. Find(buf, 0, from, Crlf) = [start |-> from, end |-> e, over |-> FALSE]
  BY <1>1, <1>3, FindsLineEnd DEF end
<1>5. QED
  BY <1>1, <1>3, <1>4 DEF f, from, e, a, b, c, end

(* One turn of the loop over the headers: the next field is read, or the   *)
(* parse ends for a reason the request gives.                              *)
LEMMA HeaderTaken ==
  ASSUME NEW r \in Requests, NEW buf, NEW n, Headed(buf, n, r), NEW j \in 1 .. Len(r.fields),
         NEW x, Sane(x), x.status = "parsing", Passed(buf, n, r, x, j - 1)
  PROVE  LET y == TakeHeader(x) IN
         Sane(y) /\ ((y.status = "parsing" /\ Passed(buf, n, r, y, j)) \/ Stuck(r, y))
<1> DEFINE f      == r.fields[j]
           from   == Ends(r, j - 1) + 2
           e      == Ends(r, j)
           a      == Len(f.key)
           b      == Len(f.sep)
           c      == Len(f.value)
           k      == Len(r.fields)
           header == Find(buf, 0, from, Crlf)
           name   == Find(buf, 0, from, Colon)
           at     == name.end + Len(Colon)
           key    == LowerCase(Text(buf, from, name.end))
           value  == Text(buf, at, header.end)
           told   == Atoi(Bytes(buf, from + Len(ContentLength) + Len(Colon), Size))
           over   == key = ContentLength /\ told.over
           length == IF key = ContentLength THEN told.value ELSE x.content_length
           room   == Len(x.headers) < MaxHeaders
           next   == [x EXCEPT !.headers = Append(@, [key |-> key, value |-> value]),
                               !.content_length = length, !.last = header.end]
           y      == TakeHeader(x)
<1>1. /\ f \in Fields /\ from \in Nat /\ e \in Nat /\ from < Size /\ e < n
      /\ a \in Nat /\ a >= 1 /\ b \in Nat /\ c \in Nat /\ e = from + a + b + c
      /\ Has(buf, from, f.key) /\ Has(buf, from + a, f.sep) /\ Has(buf, from + a + b, f.value)
      /\ Ends(r, j - 1) # HeadersEnd(r) /\ buf[e] = "CR"
      /\ header = [start |-> from, end |-> e, over |-> FALSE]
  BY FieldAt
<1>2. k \in Nat /\ j \in 1 .. k /\ j - 1 \in 0 .. k /\ j \in Nat /\ j \in DOMAIN r.fields
  BY RequestTyped
<1>3. n \in Nat /\ n <= Size /\ Size \in Nat /\ MaxHeaders \in Nat /\ KeySize \in Nat /\ ValueSize \in Nat
  BY Places, Limits
<1>4. /\ x.buf = buf /\ x.length = n /\ x.headers_end = HeadersEnd(r) /\ x.path = r.path
      /\ x.last = Ends(r, j - 1) /\ x.body = <<>> /\ x.headers = Heads(r, j - 1)
      /\ IsTold(r, j - 1, x.content_length) /\ j - 1 <= MaxHeaders
      /\ \A h \in 1 .. j - 1 : r.fields[h].sep = Colon /\ (Fits(r, h) \/ Blanked(r))
  BY DEF Passed
<1>5. Len(x.headers) = j - 1
  BY <1>2, <1>4, HeadsTyped DEF k
<1>6. Len(Colon) = 2 /\ Len(Crlf) = 2 /\ Colon[1] = ":" /\ header.end = e /\ header.over = FALSE
  BY <1>1, MarksTyped DEF Colon
<1>7. x.last + Len(Crlf) = from
  BY <1>4, <1>6
<1>8. Sane(y)
  BY TakeHeaderSane
<1> HIDE DEF f, from, e, a, b, c, k, header, name
<1>9. y = IF name.over THEN Undefined(x)
          ELSE IF name.end = 0 \/ ~room THEN Reject(x)
          ELSE IF name.end - from >= KeySize \/ e - at \notin 0 .. ValueSize - 1 THEN Undefined(x)
          ELSE IF over THEN Undefined(x)
          ELSE next
  <2>1. header = Find(x.buf, 0, x.last + Len(Crlf), Crlf) /\ name = Find(x.buf, 0, x.last + Len(Crlf), Colon)
    BY <1>4, <1>7 DEF header, name
  <2>2. x.last # x.headers_end /\ ~(from >= Size)
    BY <1>1, <1>3, <1>4
  <2>3. QED
    BY <1>4, <1>6, <1>7, <2>1, <2>2 DEF TakeHeader, HeaderRoom
<1> HIDE DEF y
<1>10. /\ Undefined(x).status = "undefined" /\ Reject(x).status = "reject"
  BY DEF Undefined, Reject, Sane, Results
<1>11. CASE f.sep # Colon
  <2>1. Unseparated(r)
    BY <1>2, <1>11 DEF Unseparated, f
  <2>2. b = 0 /\ c = 0
    <3>1. f.sep = <<>> /\ f.value = <<>>
      BY <1>1, <1>11, FieldTyped
    <3>2. QED
      BY <3>1 DEF b, c
  <2>3. e = from + a
    BY <1>1, <2>2
  <2>4. name.end \in Nat /\ (name.end # 0 => e <= name.end)
    <3>1. \A h \in from .. from + a - 1 : buf[h] # ":"
      BY <1>1, PartsWithout, NoneIn DEF a
    <3>2. \A h \in from .. e - 1 : buf[0 + h] # Colon[1]
      <4>1. \A h \in from .. e - 1 : h \in from .. from + a - 1 /\ 0 + h = h
        <5>1. from \in Nat /\ a \in Nat
          BY <1>1
        <5>2. QED
          BY ONLY <2>3, <5>1
      <4>2. QED
        BY <1>6, <3>1, <4>1
    <3>3. from \in 0 .. n /\ n \in 0 .. Size
      BY <1>1, <1>3, <2>3
    <3>4. n <= NulFrom(buf, from) /\ NulFrom(buf, from) \in Nat
      BY <3>3, NoNul DEF Headed
    <3>5. /\ 0 \in Nat /\ 0 + from <= Size /\ from <= e /\ 0 + e <= NulFrom(buf, 0 + from)
          /\ Len(Colon) \in Nat /\ Len(Colon) >= 1
      BY <1>1, <1>3, <1>6, <2>3, <3>3, <3>4
    <3>6. QED
      BY <1>1, <3>2, <3>5, FindRange DEF name, InRange
  <2>5. name.end # 0 => e - at \notin 0 .. ValueSize - 1
    <3> DEFINE s == name.end
    <3>1. at = s + 2 /\ s \in Nat /\ (s # 0 => e <= s)
      BY <1>6, <2>4
    <3> HIDE DEF s, at
    <3>2. s # 0 => e - at \notin 0 .. ValueSize - 1
      BY <1>1, <1>3, <3>1
    <3>3. QED
      BY <3>2 DEF s
  <2>6. y = Undefined(x) \/ y = Reject(x)
    BY <1>9, <2>5
  <2>7. Stuck(r, y)
    BY <1>10, <2>1, <2>6 DEF Stuck
  <2>8. QED
    BY <1>8, <2>7 DEF y
<1>12. CASE f.sep = Colon
  <2>1. b = 2 /\ e = from + a + 2 + c /\ from + a \in Nat /\ from + a + 2 \in Nat
    <3>1. b = 2
      BY <1>6, <1>12 DEF b
    <3>2. QED
      BY <1>1, <3>1
  <2>2. name = [start |-> from, end |-> from + a, over |-> FALSE]
    <3>1. \A h \in from .. from + a - 1 : buf[h] # ":"
      BY <1>1, PartsWithout, NoneIn DEF a
    <3>2. Clear(buf, from, from + a, Colon[1])
      <4> DEFINE g == from + a
      <4>1. \A h \in from .. g - 1 : buf[h] # ":"
        BY <1>1, <3>1
      <4> HIDE DEF g
      <4>2. Clear(buf, from, g, ":")
        BY <4>1 DEF Clear
      <4>3. QED
        BY <1>6, <4>2 DEF g
    <3>3. from <= from + a /\ from + a >= 1 /\ from + a + Len(Colon) <= n
      <4>1. from + a + 2 <= n
        <5>1. c \in Nat /\ e < n
          BY <1>1
        <5>2. QED
          BY ONLY <1>3, <2>1, <5>1
      <4>2. QED
        BY <1>1, <1>6, <4>1
    <3>4. Has(buf, from + a, Colon)
      BY <1>1, <1>12
    <3>5. QED
      <4> DEFINE g == from + a
      <4>1. from \in Nat /\ g \in Nat
        BY <1>1, <2>1
      <4>2. g >= 1 /\ from <= g /\ g + Len(Colon) <= n /\ Has(buf, g, Colon) /\ Clear(buf, from, g, Colon[1])
        BY ONLY <3>2, <3>3, <3>4
      <4> HIDE DEF g
      <4>3. Find(buf, 0, from, Colon) = [start |-> from, end |-> g, over |-> FALSE]
        BY ONLY <4>1, <4>2, r \in Requests, Headed(buf, n, r), SearchIn
      <4>4. QED
        BY ONLY <4>3 DEF name, g
  <2>3. name.end = from + a /\ name.over = FALSE /\ at = from + a + 2
    BY <1>6, <2>2
  <2>4. f.key \in Seq(Symbols) /\ f.value \in Seq(Symbols) /\ a = Len(f.key) /\ c = Len(f.value)
    BY <1>1, FieldTyped DEF a, c
  <2>5. key = LowerCase(f.key)
    <3>1. from + a <= n
      BY <1>1, <1>3, <2>1
    <3>2. Text(buf, from, from + a) = f.key
      BY <1>1, <2>1, <2>4, <3>1, TextIn
    <3>3. QED
      BY <2>3, <3>2
  <2>6. value = f.value
    <3>1. Has(buf, from + a + 2, f.value) /\ e = from + a + 2 + c /\ e <= n
      BY <1>1, <1>3, <2>1
    <3>2. Text(buf, from + a + 2, e) = f.value
      BY <1>1, <2>1, <2>4, <3>1, TextIn
    <3>3. QED
      BY <1>6, <2>3, <3>2
  <2>7. name.end - from = a /\ e - at = c /\ name.end # 0
    <3> DEFINE s == name.end
    <3>1. s = from + a /\ at = from + a + 2 /\ e = from + a + 2 + c
      BY <2>1, <2>3
    <3> HIDE DEF at, s
    <3>2. s - from = a /\ s # 0
      <4>1. from \in Nat /\ a \in Nat /\ a >= 1 /\ s = from + a
        BY <1>1, <3>1
      <4>2. QED
        BY <4>1
    <3>3. e - at = c
      BY <1>1, <3>1
    <3>4. QED
      BY <3>2, <3>3 DEF s
  <2>8. key = ContentLength /\ ~Blanked(r) => told = Told(f)
    <3> SUFFICES ASSUME key = ContentLength, ~Blanked(r) PROVE told = Told(f)
      OBVIOUS
    <3>1. a = 1
      <4>1. Len(LowerCase(f.key)) = a /\ Len(ContentLength) = 1
        BY <2>4, LowerCaseSane DEF ContentLength
      <4>2. QED
        BY <2>5, <4>1
    <3> DEFINE g == from + a + 2
    <3>2. from + Len(ContentLength) + Len(Colon) = g
      <4>1. Len(ContentLength) = 1
        BY DEF ContentLength
      <4>2. QED
        BY <1>6, <3>1, <4>1
    <3>3. told = Atoi(Bytes(buf, g, Size))
      BY <3>2
    <3>4. f.value \notin Seq(Blank)
      <4>1. j \in Keyed(r, ContentLength)
        BY <1>2, <2>5 DEF Keyed, f
      <4>2. QED
        BY <1>12, <4>1 DEF Blanked, f
    <3>5. g \in Nat /\ Has(buf, g, f.value) /\ g + Len(f.value) = e
      <4>1. Has(buf, g, f.value) /\ g \in Nat
        BY <1>1, <2>1
      <4>2. g + c = e
        BY <1>1, <2>1
      <4>3. QED
        BY <2>4, <4>1, <4>2
    <3> HIDE DEF g, told
    <3>6. buf[g + Len(f.value)] = "CR" /\ g + Len(f.value) < Size
      BY <1>1, <1>3, <3>5
    <3>7. Atoi(Bytes(buf, g, Size)) = Told(f)
      BY <1>1, <3>4, <3>5, <3>6, ToldHere
    <3>8. QED
      BY <3>3, <3>7
  <2>9. IsTold(r, j, length)
    <3> HIDE DEF told
    <3>1. CASE Blanked(r)
      BY <3>1 DEF IsTold
    <3>2. CASE key # ContentLength
      <4>1. length = x.content_length
        BY <3>2
      <4>2. QED
        BY <1>2, <1>4, <2>5, <3>2, <4>1, ToldOn DEF f
    <3>3. CASE key = ContentLength /\ ~Blanked(r)
      <4>1. LowerCase(r.fields[j].key) = ContentLength /\ length = Told(r.fields[j]).value
        BY <2>5, <2>8, <3>3 DEF f
      <4> HIDE DEF length
      <4>2. IsTold(r, j, Told(r.fields[j]).value)
        <5> DEFINE d == x.content_length
        <5>1. IsTold(r, j - 1, d) /\ j \in Nat /\ j >= 1 /\ LowerCase(r.fields[j].key) = ContentLength
          BY <1>2, <1>4, <4>1
        <5> HIDE DEF d
        <5>2. QED
          BY <5>1, ToldOn
      <4>3. QED
        BY <4>1, <4>2
    <3>4. QED
      BY <3>1, <3>2, <3>3
  <2>10. /\ ~room => y = Reject(x)
         /\ room /\ ~Blanked(r) => y = IF ~Fits(r, j) THEN Undefined(x) ELSE next
         /\ room => y \in {Undefined(x), next}
    <3>1. c \notin 0 .. ValueSize - 1 <=> ~(c < ValueSize)
      BY <1>1, <1>3
    <3>2. y = IF ~room THEN Reject(x)
              ELSE IF a >= KeySize \/ ~(c < ValueSize) THEN Undefined(x)
              ELSE IF over THEN Undefined(x)
              ELSE next
      <4> HIDE DEF next, room, at, over
      <4>1. QED
        BY <1>9, <2>3, <2>7, <3>1
    <3>3. ~Blanked(r) => (Fits(r, j) <=> a < KeySize /\ c < ValueSize /\ ~over)
      <4> HIDE DEF told
      <4>1. QED
        BY <2>5, <2>8 DEF Fits, a, c, f
    <3>4. a >= KeySize <=> ~(a < KeySize)
      BY <1>1, <1>3
    <3> HIDE DEF next, room, over
    <3>5. QED
      BY <3>2, <3>3, <3>4
  <2>11. CASE ~room
    <3>1. j - 1 = MaxHeaders /\ k > MaxHeaders
      BY <1>2, <1>3, <1>4, <1>5, <2>11
    <3>2. Blanked(r) \/ ~FieldsOverfull(r)
      <4> SUFFICES ASSUME NEW h \in 1 .. k, h <= MaxHeaders, ~Fits(r, h), ~Blanked(r) PROVE FALSE
        BY DEF FieldsOverfull, k
      <4>1. h \in 1 .. j - 1
        BY <1>2, <3>1
      <4>2. QED
        BY <1>4, <4>1
    <3>3. y = Reject(x)
      BY <2>10, <2>11
    <3>4. Stuck(r, y)
      BY <1>10, <3>1, <3>2, <3>3 DEF Stuck, k
    <3>5. QED
      BY <1>8, <3>4 DEF y
  <2>12. CASE room /\ y = Undefined(x)
    <3>1. j <= MaxHeaders
      BY <1>2, <1>3, <1>5, <2>12
    <3>2. Blanked(r) \/ FieldsOverfull(r) \/ y = next
      <4> HIDE DEF next
      <4>1. QED
        BY <1>2, <2>10, <2>12, <3>1 DEF FieldsOverfull, k
    <3>3. next.status = "parsing"
      BY DEF Sane, Results
    <3>4. y # next
      BY <1>10, <2>12, <3>3
    <3>5. Stuck(r, y)
      BY <1>10, <2>12, <3>2, <3>4 DEF Stuck
    <3>6. QED
      BY <1>8, <3>5 DEF y
  <2>13. CASE room /\ y = next /\ y # Undefined(x)
    <3>1. y = next /\ j <= MaxHeaders /\ (Fits(r, j) \/ Blanked(r))
      <4>1. j <= MaxHeaders
        BY <1>2, <1>3, <1>5, <2>13
      <4> HIDE DEF next
      <4>2. QED
        BY <2>10, <2>13, <4>1
    <3> DEFINE heads == Append(x.headers, [key |-> key, value |-> value])
    <3>2. heads = Heads(r, j)
      BY <1>2, <1>4, <2>5, <2>6, HeadsAppend DEF f, k
    <3>3. /\ y.buf = buf /\ y.length = n /\ y.headers_end = HeadersEnd(r) /\ y.path = r.path /\ y.body = <<>>
          /\ y.status = "parsing" /\ y.last = e /\ y.headers = heads /\ y.content_length = length
      <4> HIDE DEF heads, length
      <4>1. next = [x EXCEPT !.headers = heads, !.content_length = length, !.last = e]
        BY <1>6 DEF heads, length
      <4> HIDE DEF next
      <4>2. QED
        BY <1>4, <3>1, <4>1 DEF Sane, Results
    <3>4. \A h \in 1 .. j : r.fields[h].sep = Colon /\ (Fits(r, h) \/ Blanked(r))
      <4>1. \A h \in 1 .. j : h = j \/ h \in 1 .. j - 1
        BY <1>2
      <4>2. QED
        BY <1>4, <1>12, <3>1, <4>1 DEF f
    <3> HIDE DEF heads, length
    <3>5. Passed(buf, n, r, y, j)
      BY <2>9, <3>1, <3>2, <3>3, <3>4 DEF Passed, e
    <3>6. QED
      BY <1>8, <3>3, <3>5 DEF y
  <2>14. QED
    <3> HIDE DEF next
    <3>1. QED
      BY <2>10, <2>11, <2>12, <2>13
<1>13. QED
  BY <1>11, <1>12

(* The loop over the headers, for the arguments p: what came, the request, *)
(* and what the parse has made of it.                                      *)
ReadingBase(p) == p.x
ReadingStep(p, x, i) == Then(x, TakeHeader)
ReadingHolds(p, x, i) ==
  /\ Sane(x)
  /\ \/ x.status = "parsing" /\ Passed(p.buf, p.n, p.r, x, IF i <= Len(p.r.fields) THEN i ELSE Len(p.r.fields))
     \/ Stuck(p.r, x)
Reading == INSTANCE Recursion WITH Base <- ReadingBase, Step <- ReadingStep, Holds <- ReadingHolds

LEMMA HeadersTurn ==
  ASSUME NEW p, p.r \in Requests, Headed(p.buf, p.n, p.r), NEW i \in Nat, i >= 1,
         NEW x, ReadingHolds(p, x, i - 1)
  PROVE  ReadingHolds(p, ReadingStep(p, x, i), i)
<1> DEFINE k == Len(p.r.fields)
           y == ReadingStep(p, x, i)
<1>1. k \in Nat
  BY RequestTyped
<1>2. Sane(x)
  BY DEF ReadingHolds
<1>3. CASE Stuck(p.r, x)
  <2>1. x.status # "parsing"
    BY <1>3 DEF Stuck
  <2>2. y = x
    BY <2>1 DEF ReadingStep, Then
  <2>3. QED
    BY <1>2, <1>3, <2>2 DEF ReadingHolds
<1>4. CASE ~Stuck(p.r, x) /\ i <= k
  <2>1. i \in 1 .. k /\ i - 1 <= k
    BY <1>1, <1>4
  <2>2. x.status = "parsing" /\ Passed(p.buf, p.n, p.r, x, i - 1)
    BY <1>4, <2>1 DEF ReadingHolds
  <2>3. y = TakeHeader(x)
    BY <2>2 DEF ReadingStep, Then
  <2>4. Sane(y) /\ ((y.status = "parsing" /\ Passed(p.buf, p.n, p.r, y, i)) \/ Stuck(p.r, y))
    BY <1>2, <2>1, <2>2, <2>3, HeaderTaken
  <2> HIDE DEF y
  <2>5. QED
    BY <1>4, <2>4 DEF ReadingHolds, y
<1>5. CASE ~Stuck(p.r, x) /\ ~(i <= k)
  <2>1. (IF i - 1 <= k THEN i - 1 ELSE k) = k
    BY <1>1, <1>5
  <2>2. x.status = "parsing" /\ Passed(p.buf, p.n, p.r, x, k)
    BY <1>5, <2>1 DEF ReadingHolds
  <2>3. x.last = x.headers_end
    BY <2>2 DEF Passed, HeadersEnd
  <2>4. y = x
    BY <2>2, <2>3 DEF ReadingStep, Then, TakeHeader
  <2>5. QED
    BY <1>2, <1>5, <2>2, <2>4 DEF ReadingHolds
<1>6. QED
  BY <1>3, <1>4, <1>5

(* All the fields are read, or the parse ended for a reason the request    *)
(* gives.                                                                  *)
Separate(r) == Len(r.fields) <= MaxHeaders /\ ~Unseparated(r) /\ (Blanked(r) \/ ~FieldsOverfull(r))

LEMMA PassedSeparate ==
  ASSUME NEW r \in Requests, NEW buf, NEW n, NEW x, Passed(buf, n, r, x, Len(r.fields))
  PROVE  Separate(r)
<1>1. DOMAIN r.fields = 1 .. Len(r.fields)
  BY RequestTyped
<1>2. QED
  BY <1>1 DEF Passed, Separate, Unseparated, FieldsOverfull

LEMMA HeadersTaken ==
  ASSUME NEW r \in Requests, NEW buf, NEW n, Headed(buf, n, r)
  PROVE  LET y == TakeHeaders(Read(buf, n, r, r.path, Top(r))) IN
         Sane(y) /\ ((y.status = "parsing" /\ Passed(buf, n, r, y, Len(r.fields)) /\ Separate(r)) \/ Stuck(r, y))
<1> DEFINE x0 == Read(buf, n, r, r.path, Top(r))
           y  == TakeHeaders(x0)
           p  == [buf |-> buf, n |-> n, r |-> r, x |-> x0]
           m  == MaxHeaders + 1
           k  == Len(r.fields)
<1>1. /\ MaxHeaders \in Nat /\ k \in Nat /\ Ends(r, 0) = Top(r) /\ Top(r) \in Nat /\ HeadersEnd(r) \in Nat
      /\ Top(r) + 4 <= n /\ HeadersEnd(r) + 4 <= n /\ n \in Nat /\ n <= Size /\ Size \in Nat
  BY Limits, RequestTyped, EndsFollow, Places, TopFits
<1>2. /\ x0.buf = buf /\ x0.length = n /\ x0.status = "parsing" /\ x0.headers_end = HeadersEnd(r)
      /\ x0.path = r.path /\ x0.last = Top(r) /\ x0.headers = <<>> /\ x0.content_length = 0 /\ x0.body = <<>>
  BY ReadFields
<1>3. Sane(x0)
  <2>1. r.path \in Seq(Symbols) /\ buf \in Buffers /\ n \in 1 .. Size
    BY RequestTyped DEF Headed
  <2>2. QED
    BY <1>1, <2>1, EmptySeq DEF Read, Sane, Results
<1>4. Passed(buf, n, r, x0, 0)
  <2>1. Heads(r, 0) = <<>>
    BY DEF Heads
  <2>2. IsTold(r, 0, 0)
    BY DEF IsTold
  <2> HIDE DEF x0
  <2>3. QED
    BY <1>1, <1>2, <2>1, <2>2 DEF Passed
<1>5. p.buf = buf /\ p.n = n /\ p.r = r /\ p.x = x0
  OBVIOUS
<1>6. y = Reading!Run(p, 0, m)[m]
  BY <1>5 DEF TakeHeaders, Reading!Run, Reading!Loop, ReadingBase, ReadingStep
<1> HIDE DEF p, x0, y
<1>7. ReadingHolds(p, ReadingBase(p), 0)
  BY <1>1, <1>2, <1>3, <1>4, <1>5 DEF ReadingHolds, ReadingBase
<1>8. ASSUME NEW i \in 0 + 1 .. m, NEW x, ReadingHolds(p, x, i - 1) PROVE ReadingHolds(p, ReadingStep(p, x, i), i)
  <2>1. i \in Nat /\ i >= 1 /\ p.r \in Requests /\ Headed(p.buf, p.n, p.r)
    BY <1>1, <1>5
  <2>2. QED
    BY <1>8, <2>1, HeadersTurn
<1>9. ReadingHolds(p, Reading!Run(p, 0, m)[m], m)
  <2> DEFINE z == 0
  <2>1. z \in Int /\ m \in Int /\ z <= m
    BY <1>1
  <2>2. ReadingHolds(p, ReadingBase(p), z)
    BY <1>7
  <2>3. \A i \in z + 1 .. m : \A x : ReadingHolds(p, x, i - 1) => ReadingHolds(p, ReadingStep(p, x, i), i)
    BY <1>8
  <2> HIDE DEF z, m
  <2>4. ReadingHolds(p, Reading!Run(p, z, m)[m], m)
    BY <2>1, <2>2, <2>3, Reading!Invariant
  <2>5. QED
    BY <2>4 DEF z
<1>10. Sane(y) /\ ((y.status = "parsing" /\ Passed(buf, n, r, y, IF m <= k THEN m ELSE k)) \/ Stuck(r, y))
  BY <1>5, <1>6, <1>9 DEF ReadingHolds
<1>11. CASE Stuck(r, y)
  BY <1>10, <1>11 DEF y, x0
<1>12. CASE y.status = "parsing" /\ Passed(buf, n, r, y, IF m <= k THEN m ELSE k)
  <2>1. ~(m <= k)
    <3> SUFFICES ASSUME m <= k PROVE FALSE
      OBVIOUS
    <3>1. Passed(buf, n, r, y, m)
      BY <1>12
    <3>2. m <= MaxHeaders
      BY <3>1 DEF Passed
    <3>3. QED
      BY <1>1, <3>2
  <2>2. Passed(buf, n, r, y, k)
    BY <1>12, <2>1
  <2>3. Separate(r)
    BY <2>2, PassedSeparate
  <2>4. QED
    BY <1>10, <1>12, <2>2, <2>3 DEF y, x0
<1>13. QED
  BY <1>10, <1>11, <1>12

-----------------------------------------------------------------------------
(* The body of such a request.                                             *)

LEMMA FirstExists ==
  ASSUME NEW n \in Nat, NEW S \in SUBSET (1 .. n), S # {}
  PROVE  \E i \in S : \A j \in S : i <= j
<1> DEFINE T == {n - i : i \in S}
<1>1. T \in SUBSET (0 .. n) /\ T # {}
  <2>1. \A i \in S : n - i \in 0 .. n
    OBVIOUS
  <2>2. QED
    BY <2>1
<1> HIDE DEF T
<1>2. PICK m \in T : \A h \in T : h <= m
  BY <1>1, Reading!LastExists
<1>3. PICK i \in S : m = n - i
  BY <1>2 DEF T
<1>4. ASSUME NEW j \in S PROVE i <= j
  <2>1. n - j <= m
    BY <1>2 DEF T
  <2>2. QED
    BY <1>3, <2>1
<1>5. QED
  BY <1>3, <1>4

(* httpparser_get_header tells whether the request has the field, and what *)
(* the first of them says.                                                 *)
LEMMA HeaderGot ==
  ASSUME NEW r \in Requests, NEW x, x.headers = Heads(r, Len(r.fields)), NEW key
  PROVE  /\ GetHeader(x, key) = {} <=> Keyed(r, key) = {}
         /\ GetHeader(x, key) = {Chunked} <=>
              \E i \in Keyed(r, key) : r.fields[i].value = Chunked /\ \A j \in Keyed(r, key) : i <= j
<1> DEFINE k    == Len(r.fields)
           S    == Keyed(r, key)
           V(i) == r.fields[i].value
           F    == {j \in S : \A h \in S : j <= h}
<1>1. k \in Nat /\ DOMAIN r.fields = 1 .. k
  BY RequestTyped
<1>2. S \in SUBSET (1 .. k)
  BY <1>1 DEF Keyed
<1>3. GetHeader(x, key) = {V(i) : i \in F}
  <2>1. DOMAIN x.headers = 1 .. k
    BY DEF Heads
  <2>2. \A i \in 1 .. k : x.headers[i].key = LowerCase(r.fields[i].key) /\ x.headers[i].value = V(i)
    BY DEF Heads
  <2>3. {i \in DOMAIN x.headers : x.headers[i].key = key} = S
    BY <1>1, <2>1, <2>2 DEF Keyed
  <2>4. \A i \in S : x.headers[i].value = V(i)
    BY <1>2, <2>2
  <2> HIDE DEF S, V
  <2>5. QED
    BY <2>3, <2>4 DEF GetHeader
<1> HIDE DEF S, V, k
<1>4. ASSUME NEW i \in F, NEW j \in F PROVE i = j
  <2>1. i \in Nat /\ j \in Nat /\ i <= j /\ j <= i
    BY <1>1, <1>2
  <2>2. QED
    BY <2>1
<1>5. S # {} => F # {}
  <2>1. SUFFICES ASSUME S # {} PROVE F # {}
    OBVIOUS
  <2>2. \E i \in S : \A j \in S : i <= j
    BY <1>1, <1>2, <2>1, FirstExists
  <2>3. QED
    BY <2>2
<1>6. F \subseteq S /\ ((\E i \in S : V(i) = Chunked /\ \A j \in S : i <= j) <=> (\E i \in F : V(i) = Chunked))
  OBVIOUS
<1> HIDE DEF F
<1>7. GetHeader(x, key) = {} <=> S = {}
  BY <1>3, <1>5, <1>6
<1>8. GetHeader(x, key) = {Chunked} <=> \E i \in F : V(i) = Chunked
  BY <1>3, <1>4
<1>9. QED
  BY <1>6, <1>7, <1>8 DEF S, V

(* Where the body is.                                                      *)
LEMMA BodyAt ==
  ASSUME NEW r \in Requests, NEW buf, NEW n, Arrived(buf, n, r)
  PROVE  LET at == HeadersEnd(r) + 4 IN
         /\ at \in Nat /\ Len(r.body) \in Nat /\ n = at + Len(r.body) /\ n <= Size /\ n \in Nat /\ Size \in Nat
         /\ Has(buf, at, r.body) /\ r.body \in Seq(Symbols)
         /\ Len(Lines(r)) = HeadersEnd(r) + 2 /\ HeadersEnd(r) \in Nat
<1>1. /\ HeadersEnd(r) \in Nat /\ n = HeadersEnd(r) + 4 + Len(r.body) /\ n \in Nat /\ n <= Size /\ Size \in Nat
      /\ Len(r.body) \in Nat /\ r.body \in Seq(Symbols) /\ Len(Lines(r)) = HeadersEnd(r) + 2
  BY Places, Distances, RequestTyped DEF Arrived
<1>2. Has(buf, HeadersEnd(r) + 4, r.body)
  BY DEF Arrived
<1>3. QED
  BY <1>1, <1>2

LEMMA LengthTaken ==
  ASSUME NEW r \in Requests, NEW buf, NEW n, Arrived(buf, n, r),
         NEW x, Passed(buf, n, r, x, Len(r.fields)), x.content_length \in Int
  PROVE  TakeLength(x) = IF Len(r.body) # x.content_length THEN Reject(x) ELSE [x EXCEPT !.body = r.body]
<1> DEFINE at == HeadersEnd(r) + 4
           l  == Len(r.body)
           d  == x.content_length
<1>1. /\ at \in Nat /\ l \in Nat /\ n = at + l /\ n \in Nat /\ Has(buf, at, r.body) /\ r.body \in Seq(Symbols)
      /\ l = Len(r.body) /\ d \in Int
  BY BodyAt
<1>2. x.content_length = d /\ x.buf = buf /\ x.length = n /\ x.headers_end + 4 = at
  BY DEF Passed
<1> HIDE DEF at, l, d
<1>3. Bytes(buf, at, at + l) = r.body
  <2>1. Occurs(buf, at, r.body, l)
    BY <1>1 DEF Has, Occurs
  <2>2. QED
    BY <1>1, <2>1, OccursBytes
<1>4. n - at = l
  BY <1>1
<1>5. TakeLength(x) = IF l # d THEN Reject(x) ELSE [x EXCEPT !.body = r.body]
  <2>1. CASE l # d
    BY <1>2, <1>4, <2>1 DEF TakeLength
  <2>2. CASE l = d
    <3>1. ~(d < 0)
      BY <1>1, <2>2
    <3>2. QED
      BY <1>2, <1>3, <1>4, <2>2, <3>1 DEF TakeLength
  <2>3. QED
    BY <2>1, <2>2
<1>6. QED
  BY <1>5 DEF l, d

(* A chunk: its size is before the first line end of the body, its data is *)
(* behind it.                                                              *)
Chunk(r, buf) == LET at == Len(Lines(r)) + 4 + Measured(r) IN Bytes(buf, at, at + Copied(r))

LEMMA PartSub ==
  ASSUME NEW s \in Seq(Symbols), NEW a \in 1 .. Len(s) + 1, NEW c \in Nat, a - 1 + c <= Len(s)
  PROVE  SubSeq(s, a, a - 1 + c) = [i \in 1 .. c |-> s[a + i - 1]] /\ SubSeq(s, a, a - 1 + c) \in [1 .. c -> Symbols]
<1> DEFINE e == a - 1 + c
           t == SubSeq(s, a, e)
           l == Len(s)
<1>1. l \in Nat /\ a \in Nat /\ e \in Int /\ e - a + 1 = c /\ (a <= e \/ c = 0) /\ e <= l /\ a >= 1
  <2>1. l \in Nat
    BY LenProperties
  <2> HIDE DEF l
  <2>2. e <= l /\ a \in 1 .. l + 1
    BY DEF l
  <2>3. QED
    BY <2>1, <2>2
<1>2. \A i \in a .. e : s[i] \in Symbols
  <2>1. \A i \in a .. e : i \in 1 .. l
    <3> HIDE DEF l, e
    <3>1. QED
      BY <1>1
  <2>2. QED
    BY <2>1, ElementOfSeq
<1> HIDE DEF e
<1>3. t \in Seq(Symbols) /\ Len(t) = (IF a <= e THEN e - a + 1 ELSE 0) /\ \A i \in 1 .. e - a + 1 : t[i] = s[a + i - 1]
  BY <1>1, <1>2, SubSeqProperties
<1> HIDE DEF t
<1>4. Len(t) = c /\ \A i \in 1 .. c : t[i] = s[a + i - 1]
  BY <1>1, <1>3
<1>5. t \in [1 .. c -> Symbols]
  BY <1>3, <1>4
<1>6. t = [i \in 1 .. c |-> s[a + i - 1]]
  BY <1>4, <1>5
<1>7. QED
  BY <1>5, <1>6 DEF t, e

LEMMA ChunkTyped ==
  ASSUME NEW r \in Requests, IsChunked(r)
  PROVE  LET m == Measured(r) IN
         /\ m \in Nat /\ m >= 1 /\ m < ChunkSize /\ m + 2 <= Len(r.body)
         /\ r.body[m + 1] = "CR" /\ r.body[m + 2] = "LF" /\ \A h \in 1 .. m : r.body[h] # "CR"
         /\ SubSeq(r.body, 1, m) \in Seq(Symbols) /\ Len(SubSeq(r.body, 1, m)) = m
         /\ \A h \in 1 .. m : SubSeq(r.body, 1, m)[h] = r.body[h]
         /\ ChunkDeclared(r) \in Int
<1> DEFINE m == Measured(r)
           b == r.body
           l == Len(b)
           s == SubSeq(b, 1, m)
<1>1. IsRequest(r) /\ b \in Seq(Symbols) /\ l \in Nat /\ ChunkSize \in Nat
  BY RequestTyped, Limits
<1>2. \E n \in 1 .. ChunkSize - 1 : Measures(r, n)
  BY <1>1 DEF IsRequest
<1>3. m \in 1 .. ChunkSize - 1 /\ Measures(r, m)
  BY <1>2 DEF Measured
<1> HIDE DEF m
<1>4. m \in Nat /\ m >= 1 /\ m < ChunkSize
  BY <1>1, <1>3
<1>5. m + 2 <= l /\ SubSeq(b, m + 1, m + 2) = Crlf /\ \A h \in 1 .. m : b[h] # "CR"
  BY <1>3 DEF Measures
<1> HIDE DEF b, l
<1>6. b[m + 1] = "CR" /\ b[m + 2] = "LF"
  <2> DEFINE a == m + 1
  <2>1. a \in 1 .. l + 1 /\ a - 1 + 2 <= l /\ a - 1 + 2 = m + 2
    BY <1>1, <1>4, <1>5
  <2>2. a \in 1 .. Len(b) + 1 /\ a - 1 + 2 <= Len(b) /\ 2 \in Nat
    BY <2>1 DEF l
  <2> HIDE DEF a
  <2>3. SubSeq(b, a, a - 1 + 2) = [i \in 1 .. 2 |-> b[a + i - 1]]
    BY <1>1, <2>2, PartSub
  <2>4. Crlf = [i \in 1 .. 2 |-> b[a + i - 1]]
    BY <1>5, <2>1, <2>3 DEF a
  <2>5. Crlf[1] = b[a + 1 - 1] /\ Crlf[2] = b[a + 2 - 1]
    BY <2>4
  <2>6. a + 1 - 1 = m + 1 /\ a + 2 - 1 = m + 2
    BY <1>4 DEF a
  <2>7. QED
    BY <2>5, <2>6 DEF Crlf
<1>7. s = [i \in 1 .. m |-> b[1 + i - 1]] /\ s \in [1 .. m -> Symbols]
  <2> DEFINE o == 1
  <2>1. o \in 1 .. Len(b) + 1 /\ o - 1 + m <= Len(b) /\ o - 1 + m = m
    <3>1. o \in 1 .. l + 1 /\ o - 1 + m <= l /\ o - 1 + m = m
      BY <1>1, <1>4, <1>5
    <3>2. QED
      BY <3>1 DEF l
  <2> HIDE DEF o, s
  <2>2. SubSeq(b, o, o - 1 + m) = [i \in 1 .. m |-> b[o + i - 1]] /\ SubSeq(b, o, o - 1 + m) \in [1 .. m -> Symbols]
    BY <1>1, <1>4, <2>1, PartSub
  <2>3. QED
    BY <2>1, <2>2 DEF o, s
<1> HIDE DEF s
<1>8. s \in Seq(Symbols) /\ Len(s) = m
  BY <1>4, <1>7, IsASeq
<1>9. \A h \in 1 .. m : s[h] = b[h]
  <2> SUFFICES ASSUME NEW h \in 1 .. m PROVE s[h] = b[h]
    OBVIOUS
  <2>1. 1 + h - 1 = h
    OBVIOUS
  <2>2. QED
    BY <1>7, <2>1
<1>10. Hex[s] \in Int
  <2>1. m \in 0 .. ChunkSize - 1
    BY <1>1, <1>4
  <2>2. s \in Sizes
    BY <1>7, <2>1 DEF Sizes
  <2>3. QED
    BY <2>2, ParserAssumption
<1>11. QED
  BY <1>4, <1>5, <1>6, <1>8, <1>9, <1>10 DEF m, b, l, s, ChunkDeclared

LEMMA ChunkTaken ==
  ASSUME NEW r \in Requests, NEW buf, NEW n, Arrived(buf, n, r), IsChunked(r),
         NEW x, Passed(buf, n, r, x, Len(r.fields))
  PROVE  TakeChunk(x) = IF Overdrawn(r) THEN Undefined(x) ELSE [x EXCEPT !.body = Chunk(r, buf)]
<1> DEFINE at   == HeadersEnd(r) + 4
           l    == Len(r.body)
           w    == Len(Lines(r))
           m    == Measured(r)
           s    == SubSeq(r.body, 1, m)
           size == Find(buf, at, 0, Crlf)
           told == ChunkDeclared(r)
           c    == Copied(r)
<1>1. /\ at \in Nat /\ l \in Nat /\ n = at + l /\ n \in Nat /\ n <= Size /\ Size \in Nat
      /\ Has(buf, at, r.body) /\ l = Len(r.body) /\ w + 2 = at /\ w \in Nat
  <2> DEFINE e == HeadersEnd(r)
  <2>1. e \in Nat /\ w = e + 2 /\ at = e + 4
    BY BodyAt
  <2>2. /\ at \in Nat /\ l \in Nat /\ n = at + l /\ n \in Nat /\ n <= Size /\ Size \in Nat
        /\ Has(buf, at, r.body)
    BY BodyAt
  <2>3. l = Len(r.body)
    OBVIOUS
  <2> HIDE DEF e, at, w, l
  <2>4. w + 2 = at /\ w \in Nat
    BY <2>1
  <2>5. QED
    BY <2>2, <2>3, <2>4
<1>2. /\ m \in Nat /\ m >= 1 /\ m < ChunkSize /\ m + 2 <= l /\ told \in Int
      /\ r.body[m + 1] = "CR" /\ r.body[m + 2] = "LF" /\ \A h \in 1 .. m : r.body[h] # "CR"
      /\ s \in Seq(Symbols) /\ Len(s) = m /\ \A h \in 1 .. m : s[h] = r.body[h]
      /\ told = Hex[s]
  BY ChunkTyped DEF ChunkDeclared
<1>3. x.buf = buf /\ x.length = n /\ x.headers_end + 4 = at /\ x.headers_end = HeadersEnd(r)
  BY DEF Passed
<1>4. x.headers_end = at - 4
  BY <1>3, BodyAt
<1> HIDE DEF at, l, w, m, s, told
<1>5. \A h \in 1 .. l : buf[at + h - 1] = r.body[h]
  BY <1>1 DEF Has
<1>6. size.end = m /\ size.over = FALSE
  <2> DEFINE z == 0
             o == m
  <2>1. z \in Nat /\ o \in Nat /\ at + z = at /\ o >= 1 /\ z <= o /\ at + z <= Size /\ at + o + 2 <= n
    BY <1>1, <1>2
  <2>2. Len(Crlf) = 2 /\ Crlf[1] = "CR" /\ Crlf[2] = "LF" /\ Len(Crlf) \in Nat /\ Len(Crlf) >= 1
    BY MarksTyped DEF Crlf
  <2>3. at + o + Len(Crlf) <= NulFrom(buf, at + z)
    <3>1. at \in 0 .. n /\ n \in 0 .. Size
      BY <1>1
    <3>2. n <= NulFrom(buf, at) /\ NulFrom(buf, at) \in Nat
      BY <3>1, NoNul DEF Arrived, Headed
    <3>3. at + o + Len(Crlf) <= n
      BY <2>1, <2>2
    <3> HIDE DEF z, o
    <3>4. QED
      BY <1>1, <2>1, <2>2, <3>2, <3>3
  <2>4. Has(buf, at + o, Crlf)
    <3> SUFFICES ASSUME NEW h \in 1 .. 2 PROVE buf[at + o + h - 1] = Crlf[h]
      BY <2>2 DEF Has
    <3>1. m + h \in 1 .. l /\ at + (m + h) - 1 = at + o + h - 1
      BY <1>1, <1>2
    <3>2. buf[at + o + h - 1] = r.body[m + h]
      BY <1>5, <3>1
    <3>3. h = 1 \/ h = 2
      OBVIOUS
    <3>4. QED
      BY <1>2, <2>2, <3>2, <3>3
  <2>5. Clear(buf, at + z, at + o, Crlf[1])
    <3>1. ASSUME NEW h \in at + z .. at + o - 1 PROVE buf[h] # Crlf[1]
      <4> DEFINE i == h - at + 1
      <4>1. i \in 1 .. m /\ i \in 1 .. l /\ at + i - 1 = h
        BY <1>1, <1>2
      <4> HIDE DEF i
      <4>2. QED
        BY <1>2, <1>5, <2>2, <4>1
    <3> HIDE DEF z, o
    <3>2. QED
      BY <1>1, <2>1, <3>1 DEF Clear
  <2> HIDE DEF z, o
  <2>6. Alone(buf, at, z, Crlf, o)
    BY <1>1, <2>1, <2>2, <2>3, <2>4, <2>5 DEF Alone
  <2>7. Find(buf, at, z, Crlf) = [start |-> z, end |-> o, over |-> FALSE]
    BY <2>6, FindsFree
  <2>8. QED
    BY <2>7 DEF z, o
<1>7. Text(buf, at, at + m) = s
  <2>1. at + m \in Nat /\ at + m <= n
    BY ONLY <1>1, <1>2
  <2>2. Has(buf, at, s)
    <3> SUFFICES ASSUME NEW h \in 1 .. m PROVE buf[at + h - 1] = s[h]
      BY <1>2 DEF Has
    <3>1. h \in 1 .. l
      BY <1>1, <1>2
    <3>2. QED
      BY <1>2, <1>5, <3>1
  <2>3. Headed(buf, n, r)
    BY DEF Arrived
  <2>4. s \in Seq(Symbols) /\ at + m = at + Len(s) /\ at \in Nat
    BY <1>1, <1>2
  <2> DEFINE e == at + m
  <2>5. e \in Nat /\ e <= n /\ e = at + Len(s)
    BY <2>1, <2>4
  <2> HIDE DEF e
  <2>6. Text(buf, at, e) = s
    BY <2>2, <2>3, <2>4, <2>5, TextIn
  <2>7. QED
    BY <2>6 DEF e
<1> DEFINE room == ChunkRoom(x, size.end)
<1>8. room = n + at - 10 - m
  <2>1. room = x.length + x.headers_end - 4 - size.end - 2
    BY DEF ChunkRoom
  <2>2. room = n + (at - 4) - 4 - m - 2
    BY <1>3, <1>4, <1>6, <2>1
  <2> HIDE DEF room
  <2>3. n \in Nat /\ at \in Nat /\ m \in Nat
    BY <1>1, <1>2
  <2>4. QED
    BY ONLY <2>2, <2>3
<1>9. c = (IF room > told THEN told ELSE room)
  <2>1. c = LET o == Len(Wired[r]) + w - 8 - m IN IF o > told THEN told ELSE o
    BY DEF Copied, w, m, told
  <2>2. Len(Wired[r]) = n
    BY DEF Arrived
  <2>3. n + w - 8 - m = room
    <3> HIDE DEF room
    <3>1. w = at - 2
      BY <1>1
    <3>2. n \in Nat /\ at \in Nat /\ m \in Nat
      BY <1>1, <1>2
    <3>3. QED
      BY ONLY <1>8, <3>1, <3>2
  <2>4. QED
    BY <2>1, <2>2, <2>3
<1>10. room \in Int /\ c \in Int
  <2> HIDE DEF room
  <2>1. room \in Int
    BY <1>1, <1>2, <1>8
  <2>2. QED
    BY <1>2, <1>9, <2>1
<1>11. Overdrawn(r) <=> (c < 0 \/ w + 4 + m + c > Size)
  BY DEF Overdrawn, w, m
<1>12. TakeChunk(x) = IF c < 0 \/ at + m + 2 + c > Size THEN Undefined(x)
                      ELSE [x EXCEPT !.body = Bytes(buf, at + m + 2, at + m + 2 + c)]
  <2>1. ~(at >= Size)
    BY <1>1, <1>2
  <2>2. ~(size.end >= ChunkSize) /\ size.end # 0
    BY <1>2, <1>6, Limits
  <2>3. size = Find(x.buf, x.headers_end + 4, 0, Crlf) /\ told = Hex[Text(x.buf, at, at + size.end)]
    BY <1>2, <1>3, <1>6, <1>7
  <2> HIDE DEF size, room, c
  <2>4. QED
    BY <1>3, <1>6, <1>9, <2>1, <2>2, <2>3 DEF TakeChunk, room
<1>13. at + m + 2 = w + 4 + m
  BY <1>1, <1>2
<1> HIDE DEF c
<1>14. TakeChunk(x) = IF Overdrawn(r) THEN Undefined(x)
                      ELSE [x EXCEPT !.body = Bytes(buf, w + 4 + m, w + 4 + m + c)]
  BY <1>11, <1>12, <1>13
<1>15. QED
  BY <1>14 DEF Chunk, w, m, c

(* What BodyIsWhatCame says of last.body.                                  *)
Came(r, body) ==
  LET size == Measured(r)
      n    == Len(r.body) - size - 2
      l    == Len(body) IN
  IF IsChunked(r) THEN ChunkDeclared(r) > n \/ (l <= n /\ body = SubSeq(r.body, size + 3, size + 2 + l))
  ELSE IF Blanked(r) THEN body \in {<<>>, r.body}
  ELSE body = IF HasBody(r) THEN r.body ELSE <<>>

LEMMA ChunkCame ==
  ASSUME NEW r \in Requests, NEW buf, NEW n, Arrived(buf, n, r), IsChunked(r), ~Overdrawn(r)
  PROVE  Came(r, Chunk(r, buf))
<1> DEFINE at   == HeadersEnd(r) + 4
           l    == Len(r.body)
           w    == Len(Lines(r))
           m    == Measured(r)
           told == ChunkDeclared(r)
           c    == Copied(r)
           b    == Chunk(r, buf)
           d    == l - m - 2
<1>1. /\ at \in Nat /\ l \in Nat /\ n = at + l /\ n \in Nat /\ r.body \in Seq(Symbols)
      /\ Has(buf, at, r.body) /\ l = Len(r.body) /\ w + 2 = at /\ w \in Nat
  <2> DEFINE e == HeadersEnd(r)
  <2>1. e \in Nat /\ w = e + 2 /\ at = e + 4
    BY BodyAt
  <2>2. /\ at \in Nat /\ l \in Nat /\ n = at + l /\ n \in Nat /\ r.body \in Seq(Symbols)
        /\ Has(buf, at, r.body)
    BY BodyAt
  <2>3. l = Len(r.body)
    OBVIOUS
  <2> HIDE DEF e, at, w, l
  <2>4. w + 2 = at /\ w \in Nat
    BY <2>1
  <2>5. QED
    BY <2>2, <2>3, <2>4
<1>2. m \in Nat /\ m >= 1 /\ m + 2 <= l /\ told \in Int
  BY ChunkTyped
<1>3. c = IF n + w - 8 - m > told THEN told ELSE n + w - 8 - m
  <2>1. Len(Wired[r]) = n
    BY DEF Arrived
  <2>2. QED
    BY <2>1 DEF Copied
<1>4. c >= 0 /\ c \in Int
  <2>1. ~(c < 0)
    BY DEF Overdrawn
  <2> HIDE DEF c, told, w, m
  <2>2. c \in Int
    BY <1>1, <1>2, <1>3
  <2>3. QED
    BY <2>1, <2>2
<1>5. b = Bytes(buf, w + 4 + m, w + 4 + m + c)
  BY DEF Chunk
<1> HIDE DEF at, l, w, told, c, b, m
<1>6. d \in Nat
  BY <1>1, <1>2
<1>7. CASE told <= d
  <2> DEFINE a == w + 4 + m
  <2>1. c <= d /\ c \in Nat
    BY <1>1, <1>2, <1>3, <1>4, <1>7
  <2>2. a = at + m + 2 /\ a \in Nat /\ a + c - a = c
    BY <1>1, <1>2, <2>1
  <2>3. b = [i \in 1 .. c |-> buf[a + i - 1]]
    <3> HIDE DEF a
    <3> DEFINE e == a + c
    <3>1. b = Bytes(buf, a, e)
      BY <1>5 DEF a
    <3>2. e - a = c
      BY <2>2, <2>1
    <3> HIDE DEF e
    <3>3. b = [i \in 1 .. e - a |-> buf[a + i - 1]]
      BY <3>1 DEF Bytes
    <3>4. QED
      BY <3>2, <3>3
  <2> HIDE DEF a
  <2>4. Len(b) = c
    BY <2>1, <2>3
  <2> DEFINE g == m + 3
  <2>5. g \in 1 .. l + 1 /\ g - 1 + c <= l /\ g - 1 + c = m + 2 + c
    BY <1>1, <1>2, <2>1
  <2>6. SubSeq(r.body, g, g - 1 + c) = [i \in 1 .. c |-> r.body[g + i - 1]]
    <3>1. g \in 1 .. Len(r.body) + 1 /\ g - 1 + c <= Len(r.body)
      BY <2>5 DEF l
    <3> HIDE DEF g
    <3>2. QED
      BY <1>1, <2>1, <3>1, PartSub
  <2>7. ASSUME NEW i \in 1 .. c PROVE buf[a + i - 1] = r.body[g + i - 1]
    <3> DEFINE h == g + i - 1
    <3>1. h \in 1 .. l /\ a + i - 1 = at + h - 1
      BY <1>1, <1>2, <2>1, <2>2
    <3> HIDE DEF h
    <3>2. buf[at + h - 1] = r.body[h]
      BY <1>1, <3>1 DEF Has
    <3>3. QED
      BY <3>1, <3>2 DEF h
  <2>8. b = SubSeq(r.body, m + 3, m + 2 + Len(b))
    BY <2>3, <2>4, <2>5, <2>6, <2>7
  <2>9. Len(b) <= d
    BY <2>1, <2>4
  <2> HIDE DEF d, g
  <2>10. QED
    BY <2>8, <2>9 DEF Came, l, b, d, m
<1>8. CASE told > d
  <2> HIDE DEF d
  <2>1. QED
    BY <1>8 DEF Came, l, b, d, m, told
<1>9. QED
  BY <1>2, <1>6, <1>7, <1>8

(* The part of Sensible that is about the body.                            *)
Embodied(r) ==
  HasBody(r) => /\ Keyed(r, ContentType) # {}
                /\ ~IsChunked(r) => Len(r.body) = Declared(r)

LEMMA BodyTaken ==
  ASSUME NEW r \in Requests, NEW buf, NEW n, Arrived(buf, n, r),
         NEW x, Sane(x), x.status = "parsing", Passed(buf, n, r, x, Len(r.fields))
  PROVE  LET y == TakeBody(x) IN
         /\ Sane(y) /\ y.status # "accept"
         /\ Blanked(r) \/ y.status = IF ~Embodied(r) THEN "reject" ELSE IF Overdrawn(r) THEN "undefined" ELSE "parsing"
         /\ y.path = r.path /\ y.headers = Heads(r, Len(r.fields))
         /\ y.status = "parsing" => Came(r, y.body)
<1> DEFINE y == TakeBody(x)
           d == x.content_length
           chunked == IsChunked(r)
           none == d <= 0 /\ Keyed(r, TransferEncoding) = {}
           typed == Keyed(r, ContentType) # {}
           kept == [x EXCEPT !.body = r.body]
           cut == [x EXCEPT !.body = Chunk(r, buf)]
<1>1. Sane(y)
  BY TakeBodySane
<1>2. /\ x.path = r.path /\ x.headers = Heads(r, Len(r.fields)) /\ x.body = <<>>
      /\ ~Blanked(r) => d = Declared(r)
  BY ToldDeclared DEF Passed
<1>3. d \in Int
  BY <1>2 DEF Sane, Results
<1>4. /\ GetHeader(x, ContentType) = {} <=> ~typed
      /\ GetHeader(x, TransferEncoding) = {} <=> Keyed(r, TransferEncoding) = {}
      /\ GetHeader(x, TransferEncoding) = {Chunked} <=> chunked
  BY <1>2, HeaderGot DEF IsChunked
<1>5. chunked => HasBody(r) /\ ~none
  BY DEF IsChunked, HasBody
<1>6. ~Blanked(r) => (none <=> ~HasBody(r))
  BY <1>2, <1>3 DEF HasBody
<1>7. y = IF none THEN x ELSE IF ~typed THEN Reject(x) ELSE IF chunked THEN TakeChunk(x) ELSE TakeLength(x)
  BY <1>4 DEF TakeBody
<1>8. chunked => TakeChunk(x) = IF Overdrawn(r) THEN Undefined(x) ELSE cut
  BY ChunkTaken
<1>9. TakeLength(x) = IF Len(r.body) # d THEN Reject(x) ELSE kept
  BY <1>3, LengthTaken
<1>10. /\ Reject(x).status = "reject" /\ Undefined(x).status = "undefined"
       /\ Reject(x).path = x.path /\ Undefined(x).path = x.path
       /\ Reject(x).headers = x.headers /\ Undefined(x).headers = x.headers
  BY DEF Reject, Undefined, Sane, Results
<1>11. /\ kept.status = "parsing" /\ kept.path = x.path /\ kept.headers = x.headers /\ kept.body = r.body
       /\ cut.status = "parsing" /\ cut.path = x.path /\ cut.headers = x.headers /\ cut.body = Chunk(r, buf)
  BY DEF Sane, Results
<1>12. ~chunked => ~Overdrawn(r)
  BY DEF Overdrawn
<1> HIDE DEF y, d, none, typed, kept, cut, chunked
<1>13. y.status # "accept" /\ y.path = r.path /\ y.headers = Heads(r, Len(r.fields))
  BY <1>2, <1>7, <1>8, <1>9, <1>10, <1>11
<1>14. y.status = "parsing" => Came(r, y.body)
  <2> SUFFICES ASSUME y.status = "parsing" PROVE Came(r, y.body)
    OBVIOUS
  <2>1. CASE none
    <3>1. y = x /\ ~chunked
      BY <1>5, <1>7, <2>1
    <3>2. ~Blanked(r) => ~HasBody(r)
      BY <1>6, <2>1
    <3>3. QED
      BY <1>2, <3>1, <3>2 DEF Came, chunked
  <2>2. CASE ~none /\ chunked
    <3>1. y = cut /\ ~Overdrawn(r)
      BY <1>7, <1>8, <1>10, <2>2
    <3>2. Came(r, Chunk(r, buf))
      BY <2>2, <3>1, ChunkCame DEF chunked
    <3>3. QED
      BY <1>11, <3>1, <3>2
  <2>3. CASE ~none /\ ~chunked
    <3>1. y = kept
      BY <1>7, <1>9, <1>10, <2>3
    <3>2. ~Blanked(r) => HasBody(r)
      BY <1>6, <2>3
    <3>3. QED
      BY <1>11, <2>3, <3>1, <3>2 DEF Came, chunked
  <2>4. QED
    BY <2>1, <2>2, <2>3
<1>15. ASSUME ~Blanked(r)
       PROVE  y.status = IF ~Embodied(r) THEN "reject" ELSE IF Overdrawn(r) THEN "undefined" ELSE "parsing"
  <2>1. (none <=> ~HasBody(r)) /\ d = Declared(r)
    BY <1>2, <1>6, <1>15
  <2>2. Embodied(r) <=> (none \/ (typed /\ (chunked \/ Len(r.body) = d)))
    BY <2>1 DEF Embodied, typed, chunked
  <2>3. QED
    BY <1>5, <1>7, <1>8, <1>9, <1>10, <1>11, <1>12, <2>2
<1>16. QED
  BY <1>1, <1>13, <1>14, <1>15 DEF y

-----------------------------------------------------------------------------
(* The whole parse of such a request.                                      *)

(* What WholeRequestServed says of the last recv.                          *)
Understood(r, p) ==
  /\ IF Unseparated(r) THEN p.status # "accept"
     ELSE Blanked(r)
       \/ p.status = (IF Overfull(r) \/ (Sensible(r) /\ Overdrawn(r)) THEN "undefined"
                      ELSE IF Sensible(r) THEN "accept" ELSE "reject")
  /\ p.status = "accept" => /\ p.path = r.path
                            /\ p.headers = Heads(r, Len(r.fields))
                            /\ Came(r, p.body)

LEMMA OverfullParts ==
  ASSUME NEW r \in Requests
  PROVE  Overfull(r) <=> \/ Len(r.method) >= MethodSize
                         \/ r.method \in Methods /\ Len(r.version) >= VersionSize
                         \/ r.method \in Methods /\ r.version = Version /\ FieldsOverfull(r)
<1>1. DOMAIN r.fields = 1 .. Len(r.fields)
  BY RequestTyped
<1>2. KeySize \in Nat /\ ValueSize \in Nat
  BY Limits
<1> DEFINE Full(h) == \/ Len(r.fields[h].key) >= KeySize \/ Len(r.fields[h].value) >= ValueSize
                      \/ h \in Keyed(r, ContentLength) /\ Told(r.fields[h]).over
<1>3. ASSUME NEW h \in 1 .. Len(r.fields)
      PROVE  ~Fits(r, h) <=> Full(h)
  <2>1. r.fields[h] \in Fields
    BY RequestTyped, ElementOfSeq
  <2>2. Len(r.fields[h].key) \in Nat /\ Len(r.fields[h].value) \in Nat
    BY <2>1, FieldTyped, LenProperties
  <2>3. h \in Keyed(r, ContentLength) <=> LowerCase(r.fields[h].key) = ContentLength
    BY <1>1 DEF Keyed
  <2> DEFINE o == Told(r.fields[h]).over
  <2>4. Fits(r, h) <=> /\ Len(r.fields[h].key) < KeySize /\ Len(r.fields[h].value) < ValueSize
                       /\ h \in Keyed(r, ContentLength) => ~o
    BY <2>3 DEF Fits
  <2> HIDE DEF o
  <2>5. QED
    BY <1>2, <2>2, <2>4 DEF o
<1>4. Overfull(r) <=> \/ Len(r.method) >= MethodSize
                      \/ r.method \in Methods /\ Len(r.version) >= VersionSize
                      \/ /\ r.method \in Methods /\ r.version = Version
                         /\ \E i \in DOMAIN r.fields : i <= MaxHeaders /\ Full(i)
  BY DEF Overfull
<1> HIDE DEF Full
<1>5. FieldsOverfull(r) <=> \E i \in DOMAIN r.fields : i <= MaxHeaders /\ Full(i)
  BY <1>1, <1>3 DEF FieldsOverfull
<1>6. QED
  BY <1>4, <1>5

LEMMA ParseUnderstood ==
  ASSUME NEW r \in Requests, NEW buf, NEW n, Arrived(buf, n, r)
  PROVE  Understood(r, Parse(buf, n))
<1> DEFINE r0 == Request(buf, n)
           r1 == Then(r0, FindHeadersEnd)
           r2 == Then(r1, TakeMethod)
           r3 == Then(r2, TakePath)
           r4 == Then(r3, TakeVersion)
           r5 == Then(r4, TakeHeaders)
           r6 == Then(r5, TakeBody)
           p  == Then(r6, Accept)
           x1 == Read(buf, n, r, <<>>, 0)
           x2 == Read(buf, n, r, <<>>, Len(r.method))
           x3 == Read(buf, n, r, r.path, PathEnd(r))
           x4 == Read(buf, n, r, r.path, Top(r))
           k  == Len(r.fields)
<1>0. Headed(buf, n, r)
  BY DEF Arrived
<1>1. Parse(buf, n) = p
  BY DEF Parse
<1>2. /\ x1.status = "parsing" /\ x2.status = "parsing" /\ x3.status = "parsing" /\ x4.status = "parsing"
      /\ r0.status = "parsing"
  BY DEF Read, Request
<1>3. /\ Undefined(x1).status = "undefined" /\ Reject(x1).status = "reject"
      /\ Undefined(x3).status = "undefined" /\ Reject(x3).status = "reject"
  BY DEF Read, Undefined, Reject
<1> HIDE DEF x1, x2, x3, x4, r0
<1>4. r1 = x1
  BY <1>2, <1>0, HeadersEndFound DEF Then, r0, x1
<1>5. r2 = IF Len(r.method) >= MethodSize THEN Undefined(x1) ELSE IF r.method \notin Methods THEN Reject(x1) ELSE x2
  BY <1>2, <1>4, <1>0, MethodTaken DEF Then, x1, x2
<1> HIDE DEF r1
<1>6. r2.status # "parsing" => p = r2
  BY DEF Then
<1> HIDE DEF r2
<1>7. r2 = x2 => r3 = x3
  BY <1>2, <1>0, PathTaken DEF Then, x2, x3
<1>8. r4.status # "parsing" => p = r4
  BY DEF Then
<1> HIDE DEF r3
<1>9. r3 = x3 => r4 = IF Len(r.version) >= VersionSize THEN Undefined(x3)
                       ELSE IF r.version # Version THEN Reject(x3) ELSE x4
  BY <1>2, <1>0, VersionTaken DEF Then, x3, x4
<1> HIDE DEF r4
<1>10. r5.status # "parsing" => p = r5
  BY DEF Then
<1>11. r4 = x4 => r5 = TakeHeaders(x4)
  BY <1>2 DEF Then
<1> HIDE DEF r5
<1>12. r6.status # "parsing" => p = r6
  BY DEF Then
<1>13. r5.status = "parsing" => r6 = TakeBody(r5)
  BY DEF Then
<1> HIDE DEF r6
<1>14. r6.status = "parsing" => p = Accept(r6)
  BY DEF Then
<1> HIDE DEF p
<1>15. Sensible(r) <=> r.method \in Methods /\ r.version = Version /\ Len(r.fields) <= MaxHeaders /\ Embodied(r)
  BY DEF Sensible, Embodied
<1>16. CASE Len(r.method) >= MethodSize
  <2>1. p.status = "undefined" /\ Overfull(r)
    BY <1>3, <1>5, <1>6, <1>16, OverfullParts
  <2>2. QED
    BY <1>1, <2>1 DEF Understood
<1>17. CASE ~(Len(r.method) >= MethodSize) /\ r.method \notin Methods
  <2>1. p.status = "reject" /\ ~Overfull(r) /\ ~Sensible(r)
    BY <1>3, <1>5, <1>6, <1>15, <1>17, OverfullParts
  <2>2. QED
    BY <1>1, <2>1 DEF Understood
<1>18. CASE ~(Len(r.method) >= MethodSize) /\ r.method \in Methods
  <2>1. r3 = x3
    BY <1>5, <1>7, <1>18
  <2>2. CASE Len(r.version) >= VersionSize
    <3>1. p.status = "undefined" /\ Overfull(r)
      BY <1>3, <1>8, <1>9, <1>18, <2>1, <2>2, OverfullParts
    <3>2. QED
      BY <1>1, <3>1 DEF Understood
  <2>3. CASE ~(Len(r.version) >= VersionSize) /\ r.version # Version
    <3>1. p.status = "reject" /\ ~Overfull(r) /\ ~Sensible(r)
      BY <1>3, <1>8, <1>9, <1>15, <1>18, <2>1, <2>3, OverfullParts
    <3>2. QED
      BY <1>1, <3>1 DEF Understood
  <2>4. CASE ~(Len(r.version) >= VersionSize) /\ r.version = Version
    <3>1. r5 = TakeHeaders(x4)
      BY <1>9, <1>11, <2>1, <2>4
    <3>2. Overfull(r) <=> FieldsOverfull(r)
      BY <1>18, <2>4, OverfullParts
    <3>3. Sensible(r) <=> k <= MaxHeaders /\ Embodied(r)
      BY <1>15, <1>18, <2>4
    <3>4. /\ Sane(r5)
          /\ (r5.status = "parsing" /\ Passed(buf, n, r, r5, k) /\ Separate(r)) \/ Stuck(r, r5)
      BY <1>0, <3>1, HeadersTaken DEF x4
    <3>5. CASE Stuck(r, r5)
      <4>1. r5.status # "parsing" /\ r5.status # "accept" /\ p = r5
        BY <1>10, <3>5 DEF Stuck
      <4>2. CASE Unseparated(r)
        BY <1>1, <4>1, <4>2 DEF Understood
      <4>3. CASE ~Unseparated(r)
        <5>1. \/ Blanked(r)
              \/ p.status = "undefined" /\ Overfull(r)
              \/ p.status = "reject" /\ ~Overfull(r) /\ k > MaxHeaders
          BY <3>2, <3>5, <4>1, <4>3 DEF Stuck
        <5>2. k > MaxHeaders => ~Sensible(r)
          <6>1. k \in Nat /\ MaxHeaders \in Nat
            BY RequestTyped, Limits
          <6> HIDE DEF k
          <6>2. QED
            BY <3>3, <6>1
        <5>3. QED
          BY <1>1, <4>1, <4>3, <5>1, <5>2 DEF Understood
      <4>4. QED
        BY <4>2, <4>3
    <3>6. CASE r5.status = "parsing" /\ Passed(buf, n, r, r5, k) /\ Separate(r)
      <4>1. k <= MaxHeaders /\ ~Unseparated(r) /\ (Blanked(r) \/ ~Overfull(r))
        BY <3>2, <3>6 DEF Separate
      <4>2. r6 = TakeBody(r5)
        BY <1>13, <3>6
      <4>3. /\ Sane(r6) /\ r6.status # "accept"
            /\ Blanked(r) \/ r6.status = IF ~Embodied(r) THEN "reject" ELSE IF Overdrawn(r) THEN "undefined" ELSE "parsing"
            /\ r6.path = r.path /\ r6.headers = Heads(r, k)
            /\ r6.status = "parsing" => Came(r, r6.body)
        BY <3>4, <3>6, <4>2, BodyTaken
      <4>4. CASE r6.status # "parsing"
        <5>1. p = r6 /\ p.status # "accept"
          BY <1>12, <4>3, <4>4
        <5>2. Blanked(r) \/ p.status = IF ~Embodied(r) THEN "reject" ELSE "undefined"
          BY <4>3, <4>4, <5>1
        <5>3. Blanked(r) \/ ~Embodied(r) \/ Overdrawn(r)
          BY <4>3, <4>4
        <5>4. QED
          BY <1>1, <3>3, <4>1, <5>1, <5>2, <5>3 DEF Understood
      <4>5. CASE r6.status = "parsing"
        <5>1. p = Accept(r6)
          BY <1>14, <4>5
        <5>2. Accept(r6).status = "accept" /\ Accept(r6).path = r6.path /\ Accept(r6).headers = r6.headers
              /\ Accept(r6).body = r6.body
          BY <4>3 DEF Accept, Sane, Results
        <5>3. p.status = "accept" /\ p.path = r.path /\ p.headers = Heads(r, k) /\ Came(r, p.body)
          BY <4>3, <4>5, <5>1, <5>2
        <5>4. Blanked(r) \/ (Embodied(r) /\ ~Overdrawn(r))
          BY <4>3, <4>5
        <5>5. QED
          BY <1>1, <3>3, <4>1, <5>3, <5>4 DEF Understood
      <4>7. QED
        BY <4>4, <4>5
    <3>7. QED
      BY <3>4, <3>5, <3>6
  <2>5. QED
    BY <2>2, <2>3, <2>4
<1>19. QED
  BY <1>16, <1>17, <1>18

-----------------------------------------------------------------------------
(* Where a request is in the stream.                                       *)

LEMMA BeforeAppend ==
  ASSUME NEW s \in Seq(Requests), NEW r \in Requests
  PROVE  /\ \A i \in 1 .. Len(s) : Append(s, r)[i] = s[i] /\ Before(Append(s, r), i) = Before(s, i)
         /\ Before(Append(s, r), Len(s) + 1) = Len(Stream(s))
         /\ Len(Append(s, r)) = Len(s) + 1 /\ Append(s, r) \in Seq(Requests)
<1> DEFINE more == Append(s, r)
           n    == Len(s)
<1>1. /\ more \in Seq(Requests) /\ Len(more) = n + 1 /\ n \in Nat /\ \A i \in 1 .. n : more[i] = s[i]
  BY AppendProperties, LenProperties
<1> HIDE DEF more
<1>2. \A i \in 1 .. n : SubSeq(more, 1, i - 1) = SubSeq(s, 1, i - 1)
  BY <1>1
<1>3. SubSeq(more, 1, n) = s
  BY <1>1
<1>4. n + 1 - 1 = n
  BY <1>1
<1>5. \A i \in 1 .. n : Before(more, i) = Before(s, i)
  BY <1>2 DEF Before
<1>6. Before(more, n + 1) = Len(Stream(s))
  <2> DEFINE j == n + 1
  <2>1. SubSeq(more, 1, j - 1) = s
    BY <1>3, <1>4
  <2> HIDE DEF j
  <2>2. Before(more, j) = Len(Stream(s))
    BY <2>1 DEF Before
  <2>3. QED
    BY <2>2 DEF j
<1>7. QED
  BY <1>1, <1>5, <1>6 DEF more

LEMMA PartOf ==
  ASSUME NEW all \in Seq(Symbols), NEW from \in Nat, NEW n \in Nat, n >= 1, n <= Len(all) - from
  PROVE  LET text == SubSeq(all, from + 1, from + n) IN
         text \in Seq(Symbols) /\ Len(text) = n /\ \A h \in 1 .. n : text[h] = all[from + h]
<1> DEFINE a == from + 1
           b == from + n
<1>1. /\ a \in Int /\ b \in Int /\ a <= b /\ b - a + 1 = n /\ \A h \in 1 .. n : a + h - 1 = from + h
      /\ \A i \in a .. b : i \in 1 .. Len(all)
  BY LenProperties
<1>2. \A i \in a .. b : all[i] \in Symbols
  BY <1>1, ElementOfSeq
<1> HIDE DEF a, b
<1>3. /\ SubSeq(all, a, b) \in Seq(Symbols) /\ Len(SubSeq(all, a, b)) = (IF a <= b THEN b - a + 1 ELSE 0)
      /\ \A i \in 1 .. b - a + 1 : SubSeq(all, a, b)[i] = all[a + i - 1]
  BY <1>1, <1>2, SubSeqProperties
<1>4. /\ SubSeq(all, a, b) \in Seq(Symbols) /\ Len(SubSeq(all, a, b)) = n
      /\ \A i \in 1 .. n : SubSeq(all, a, b)[i] = all[from + i]
  BY <1>1, <1>3
<1>5. QED
  BY <1>4 DEF a, b

LEMMA InStream ==
  ASSUME NEW s \in Seq(Requests), NEW i \in 1 .. Len(s)
  PROVE  LET w == Wired[s[i]] IN
         /\ Before(s, i) \in Nat /\ Before(s, i) + Len(w) <= Len(Stream(s))
         /\ \A h \in 1 .. Len(w) : Stream(s)[Before(s, i) + h] = w[h]
<1> DEFINE w   == Wired[s[i]]
           t   == SubSeq(s, 1, i - 1)
           all == WiredAll(s)
           was == Stream(t)
           b   == Len(was)
           n   == Len(s)
<1>1. /\ n \in Nat /\ i \in 1 .. n /\ t \in Seq(Requests) /\ Len(t) = i - 1 /\ s[i] \in Requests
      /\ \A h \in 1 .. i - 1 : t[h] = s[h]
  BY LenProperties
<1>2. /\ all \in Seq(Seq(Symbols)) /\ Len(all) = n /\ Stream(s) = FlattenSeq(all)
      /\ \A h \in 1 .. n : all[h] = Wired[s[h]]
  BY StreamTyped
<1> HIDE DEF t, n, all
<1>3. /\ WiredAll(t) \in Seq(Seq(Symbols)) /\ Len(WiredAll(t)) = i - 1 /\ was = FlattenSeq(WiredAll(t))
      /\ \A h \in 1 .. i - 1 : WiredAll(t)[h] = Wired[t[h]]
      /\ was \in Seq(Symbols) /\ b \in Nat
  BY <1>1, StreamTyped
<1>4. WiredAll(t) = SubSeq(all, 1, i - 1)
  <2> DEFINE a == WiredAll(t)
             c == SubSeq(all, 1, i - 1)
             k == i - 1
  <2>1. c \in Seq(Seq(Symbols)) /\ Len(c) = k /\ \A h \in 1 .. k : c[h] = all[h]
    BY <1>1, <1>2
  <2>2. k \in Nat /\ a \in Seq(Seq(Symbols)) /\ Len(a) = k /\ \A h \in 1 .. k : a[h] = all[h]
    <3>1. k \in Nat /\ \A h \in 1 .. k : h \in 1 .. n /\ t[h] = s[h]
      BY <1>1
    <3>2. \A h \in 1 .. k : all[h] = Wired[s[h]]
      BY <1>2, <3>1
    <3>3. a \in Seq(Seq(Symbols)) /\ Len(a) = k /\ \A h \in 1 .. k : a[h] = Wired[t[h]]
      BY <1>3
    <3> HIDE DEF a, k
    <3>4. QED
      BY <3>1, <3>2, <3>3
  <2> HIDE DEF a, c, k
  <2>3. \A h \in 1 .. Len(a) : a[h] = c[h]
    BY <2>1, <2>2
  <2>4. a = c
    BY <2>1, <2>2, <2>3, SeqEqual
  <2>5. QED
    BY <2>4 DEF a, c, k
<1>5. PICK rest \in Seq(Symbols) : FlattenSeq(all) = (FlattenSeq(SubSeq(all, 1, i - 1)) \o all[i]) \o rest
  <2>1. i \in 1 .. Len(all)
    BY <1>1, <1>2
  <2>2. QED
    BY <1>2, <2>1, FlattenSplit
<1>6. w \in Seq(Symbols) /\ all[i] = w
  BY <1>1, <1>2, WiredTyped
<1> HIDE DEF was, w
<1>7. Stream(s) = (was \o w) \o rest
  BY <1>2, <1>3, <1>4, <1>5, <1>6
<1> DEFINE front == was \o w
           l     == Len(w)
<1>8. l \in Nat /\ Len(rest) \in Nat
  BY <1>6, LenProperties
<1>9. front \in Seq(Symbols) /\ Len(front) = b + l /\ \A h \in 1 .. l : front[b + h] = w[h]
  <2>1. /\ front \in Seq(Symbols) /\ Len(front) = Len(was) + Len(w)
        /\ \A h \in 1 .. Len(was) + Len(w) : front[h] = IF h <= Len(was) THEN was[h] ELSE w[h - Len(was)]
    BY <1>3, <1>6, ConcatProperties
  <2> HIDE DEF front, b, l
  <2>2. /\ front \in Seq(Symbols) /\ Len(front) = b + l
        /\ \A h \in 1 .. b + l : front[h] = IF h <= b THEN was[h] ELSE w[h - b]
    BY <2>1 DEF b, l
  <2>3. ASSUME NEW h \in 1 .. l PROVE front[b + h] = w[h]
    <3> DEFINE g == b + h
    <3>1. g \in 1 .. b + l /\ ~(g <= b) /\ g - b = h
      BY <1>3, <1>8
    <3> HIDE DEF g
    <3>2. front[g] = w[g - b]
      BY <2>2, <3>1
    <3>3. QED
      BY <3>1, <3>2 DEF g
  <2>4. QED
    BY <2>2, <2>3
<1> DEFINE m == Len(front)
<1> HIDE DEF front, b, l
<1>10. m \in Nat /\ m = b + l
  BY <1>3, <1>8, <1>9
<1>11. /\ Len(front \o rest) = m + Len(rest)
       /\ \A h \in 1 .. m : (front \o rest)[h] = front[h]
  <2> DEFINE u == front \o rest
  <2>1. /\ Len(u) = Len(front) + Len(rest)
        /\ \A h \in 1 .. Len(front) + Len(rest) : u[h] = IF h <= Len(front) THEN front[h] ELSE rest[h - Len(front)]
    BY <1>9, ConcatProperties
  <2> HIDE DEF u
  <2>2. QED
    BY <1>8, <1>10, <2>1 DEF u
<1>12. Before(s, i) = b
  BY DEF Before, b, was, t
<1>13. Stream(s) = front \o rest
  BY <1>7 DEF front
<1> HIDE DEF m
<1>14. b + l <= Len(Stream(s))
  BY <1>3, <1>8, <1>10, <1>11, <1>13
<1>15. ASSUME NEW h \in 1 .. l PROVE Stream(s)[b + h] = w[h]
  <2>1. b + h \in 1 .. m
    BY <1>3, <1>8, <1>10
  <2>2. QED
    BY <1>9, <1>11, <1>13, <2>1
<1>16. QED
  BY <1>3, <1>12, <1>14, <1>15 DEF l, w

-----------------------------------------------------------------------------
(* A recv that brings one whole request is understood (listen_messages,    *)
(* httpserver.c:113, and httpparser_parse_request).                        *)

Handled ==
  /\ Typed
  /\ \A i \in 1 .. Len(sent) : Whole(i) => Understood(sent[i], last)

LEMMA HandledServed == Handled => WholeRequestServed
<1> SUFFICES ASSUME Handled, NEW i \in DOMAIN sent, Whole(i)
             PROVE  LET r == sent[i] IN
                    /\ IF Unseparated(r) THEN last.status # "accept"
                       ELSE Blanked(r)
                         \/ last.status = (IF Overfull(r) \/ (Sensible(r) /\ Overdrawn(r)) THEN "undefined"
                                           ELSE IF Sensible(r) THEN "accept" ELSE "reject")
                    /\ last.status = "accept" =>
                         /\ last.path = r.path
                         /\ last.headers = [j \in DOMAIN r.fields |->
                                           [key |-> LowerCase(r.fields[j].key), value |-> r.fields[j].value]]
                         /\ BodyIsWhatCame(r)
  BY DEF WholeRequestServed
<1> DEFINE r == sent[i]
<1>1. sent \in Seq(Requests) /\ i \in 1 .. Len(sent) /\ r \in Requests
  <2>1. sent \in Seq(Requests)
    BY DEF Handled, Typed, TypeOK
  <2>2. QED
    BY <2>1, ElementOfSeq
<1>2. Understood(r, last)
  BY <1>1 DEF Handled
<1> HIDE DEF r
<1>3. DOMAIN r.fields = 1 .. Len(r.fields)
  BY <1>1, RequestTyped
<1>4. Heads(r, Len(r.fields)) =
        [j \in DOMAIN r.fields |-> [key |-> LowerCase(r.fields[j].key), value |-> r.fields[j].value]]
  BY <1>3 DEF Heads
<1>5. Came(r, last.body) <=> BodyIsWhatCame(r)
  BY DEF Came, BodyIsWhatCame
<1>6. QED
  BY <1>2, <1>4, <1>5 DEF Understood, r

LEMMA HandledInit == Init => Handled
<1>1. Init => last.length = 0
  BY DEF Init
<1>2. QED
  BY <1>1, TypedInit DEF Handled, Whole, Begins

LEMMA HandledNext == Handled /\ [Next]_vars => Handled'
<1> SUFFICES ASSUME Handled, [Next]_vars PROVE Handled'
  OBVIOUS
<1>1. Typed /\ Typed'
  BY TypedNext DEF Handled
<1>2. /\ sent \in Seq(Requests) /\ Len(sent) \in Nat /\ taken \in Nat /\ taken <= Len(Stream(sent))
      /\ Len(Stream(sent)) \in Nat /\ payload \in Buffers
      /\ last.from \in Nat /\ last.length \in Nat /\ last.from + last.length = taken
  BY <1>1, StreamTyped, LenProperties DEF Typed, TypeOK
<1>3. \A i \in 1 .. Len(sent) : Whole(i) => Understood(sent[i], last)
  BY DEF Handled
<1>4. ASSUME NEW r \in Requests, Send(r) PROVE Handled'
  <2>1. sent' = Append(sent, r) /\ last' = last
    BY <1>4 DEF Send
  <2>2. /\ \A i \in 1 .. Len(sent) : sent'[i] = sent[i] /\ Before(sent', i) = Before(sent, i)
        /\ Before(sent', Len(sent) + 1) = Len(Stream(sent)) /\ Len(sent') = Len(sent) + 1
    BY <1>2, <2>1, BeforeAppend
  <2>3. ASSUME NEW i \in 1 .. Len(sent'), Whole(i)' PROVE Understood(sent'[i], last')
    <3>1. last.length > 0 /\ last.from = Before(sent', i) /\ last.length = Len(Wired[sent'[i]])
      BY <2>1, <2>3 DEF Whole, Begins
    <3>2. i # Len(sent) + 1
      <4> DEFINE b == Before(sent', i)
                 l == Len(Stream(sent))
      <4>1. last.from = b /\ (i = Len(sent) + 1 => b = l) /\ l \in Nat /\ taken <= l
        BY <1>2, <2>2, <3>1
      <4> HIDE DEF b, l
      <4>2. QED
        BY <1>2, <3>1, <4>1
    <3>3. i \in 1 .. Len(sent)
      BY <1>2, <2>2, <3>2
    <3>4. Whole(i)
      BY <2>2, <3>1, <3>3 DEF Whole, Begins
    <3>5. QED
      BY <1>3, <2>1, <2>2, <3>3, <3>4
  <2>4. QED
    BY <1>1, <2>3 DEF Handled
<1>5. ASSUME NEW n \in 1 .. Size, Receive(n) PROVE Handled'
  <2> DEFINE all  == Stream(sent)
             text == SubSeq(all, taken + 1, taken + n)
             buf  == [i \in 0 .. n - 1 |-> text[i + 1]] @@ payload
             p    == Parse(buf, n)
  <2>1. /\ n <= Len(all) - taken /\ sent' = sent
        /\ last' = [from |-> taken, length |-> n, stale |-> \E i \in n .. Size - 1 : buf[i] # Nul,
                     status |-> p.status, path |-> p.path, headers |-> p.headers, body |-> p.body]
    BY <1>5 DEF Receive
  <2> HIDE DEF p
  <2>2. /\ last'.from = taken /\ last'.length = n /\ last'.status = p.status /\ last'.path = p.path
        /\ last'.headers = p.headers /\ last'.body = p.body
    BY <2>1
  <2>3. n \in Nat /\ n >= 1 /\ Size \in Nat /\ n <= Size /\ all \in Seq(Symbols) /\ Len(all) \in Nat
    BY <1>2, Limits, StreamTyped
  <2> HIDE DEF all, buf
  <2>4. text \in Seq(Symbols) /\ Len(text) = n /\ \A h \in 1 .. n : text[h] = all[taken + h]
    BY <1>2, <2>1, <2>3, PartOf
  <2> HIDE DEF text
  <2>5. buf \in Buffers /\ Has(buf, 0, text) /\ \A i \in 0 .. n - 1 : buf[i] # Nul
    BY <1>2, <2>4, Filled DEF buf
  <2>6. ASSUME NEW i \in 1 .. Len(sent'), Whole(i)' PROVE Understood(sent'[i], last')
    <3> DEFINE r == sent[i]
               w == Wired[r]
    <3>1. i \in 1 .. Len(sent) /\ taken = Before(sent, i) /\ n = Len(w) /\ sent'[i] = r
      BY <2>1, <2>2, <2>6 DEF Whole, Begins
    <3>2. r \in Requests
      BY <1>2, <3>1, ElementOfSeq
    <3>3. \A h \in 1 .. n : all[taken + h] = w[h]
      BY <1>2, <3>1, InStream DEF all
    <3>4. /\ w \in Seq(Symbols)
          /\ Has(buf, 0, w) => Laid(buf, r) /\ Has(buf, HeadersEnd(r) + 4, r.body)
          /\ HeadersEnd(r) + 4 <= Len(w)
      <4> DEFINE e == HeadersEnd(r)
                 l == Len(r.body)
      <4>1. e \in Nat /\ l \in Nat /\ Len(w) = e + 4 + l
        BY <3>2, Distances, RequestTyped
      <4>2. w \in Seq(Symbols) /\ (Has(buf, 0, w) => Laid(buf, r) /\ Has(buf, e + 4, r.body))
        BY <3>2, WiredTyped DEF HeadersEnd
      <4> HIDE DEF e, l, w, r
      <4>3. e + 4 <= Len(w)
        BY <4>1
      <4>4. QED
        BY <4>2, <4>3 DEF e, r
    <3> HIDE DEF r, w
    <3>5. text = w
      <4>1. \A h \in 1 .. Len(text) : text[h] = w[h]
        BY <2>4, <3>3
      <4>2. Len(text) = Len(w)
        BY <2>4, <3>1
      <4>3. QED
        BY <2>4, <3>4, <4>1, <4>2, SeqEqual
    <3>6. Arrived(buf, n, r)
      BY <2>5, <3>1, <3>4, <3>5 DEF Arrived, Headed, w
    <3>7. Understood(r, p)
      BY <3>2, <3>6, ParseUnderstood DEF p
    <3>8. Understood(r, last')
      BY <2>2, <3>7 DEF Understood
    <3>9. QED
      BY <3>1, <3>8
  <2>7. QED
    BY <1>1, <2>6 DEF Handled
<1>6. CASE Hangup
  BY <1>1, <1>3, <1>6 DEF Hangup, Handled, Whole, Begins
<1>7. CASE UNCHANGED vars
  BY <1>1, <1>3, <1>7 DEF vars, Handled, Whole, Begins
<1>8. QED
  BY <1>4, <1>5, <1>6, <1>7 DEF Next

THEOREM Served == Spec => []WholeRequestServed
<1>1. Spec => []Handled
  BY HandledInit, HandledNext, PTL DEF Spec
<1>2. QED
  BY <1>1, HandledServed, PTL

-----------------------------------------------------------------------------
(* What is accepted begins as a method does (httpparser.c:43).             *)

(* The first n symbols of the buffer begin as m does.                      *)
BeginsAs(buf, n, m) == m # <<>> /\ \A h \in 1 .. Len(m) : h <= n => buf[h - 1] = m[h]

LEMMA MethodFirst ==
  ASSUME NEW r, Sane(r), NEW n \in 1 .. Size, \A i \in 0 .. n - 1 : r.buf[i] # Nul,
         TakeMethod(r).status \notin {"reject", "undefined"}
  PROVE  \E m \in Methods : BeginsAs(r.buf, n, m)
<1> DEFINE method == Find(r.buf, 0, 0, Space)
           end    == method.end
           nul    == NulFrom(r.buf, 0)
           c      == IF nul < end THEN nul ELSE end
           m      == Bytes(r.buf, 0, c)
<1>1. end \in Nat
  BY FindHere, Limits
<1>2. nul \in Nat /\ n <= nul /\ n \in Nat /\ n >= 1
  BY NoNul, Limits
<1>3. Text(r.buf, 0, end) = m
  BY DEF Text
<1>4. Reject(r).status = "reject" /\ Undefined(r).status = "undefined"
  BY DEF Reject, Undefined, Sane, Results
<1> HIDE DEF m, c
<1>5. method.end # 0 /\ m \in Methods
  <2>1. ~(method.end = 0 /\ ~method.over) /\ ~(method.over \/ method.end >= MethodSize)
        /\ Text(r.buf, 0, method.end) \in Methods
    BY <1>4 DEF TakeMethod
  <2>2. QED
    BY <1>3, <2>1
<1> HIDE DEF end, nul, method
<1>6. c \in Nat /\ c >= 1
  BY <1>1, <1>2, <1>5 DEF c, end
<1>7. m = [h \in 1 .. c |-> r.buf[h - 1]]
  <2>1. c - 0 = c /\ \A h \in 1 .. c : 0 + h - 1 = h - 1
    BY <1>6
  <2>2. QED
    BY <2>1 DEF m, Bytes
<1>8. m \in Seq(Symbols)
  BY <1>5, ParserAssumption
<1>9. Len(m) = c /\ m # <<>>
  BY <1>6, <1>7, <1>8, LenProperties, EmptySeq
<1>10. BeginsAs(r.buf, n, m)
  BY <1>7, <1>9 DEF BeginsAs
<1>11. QED
  BY <1>5, <1>10

LEMMA AcceptedBegins ==
  ASSUME NEW buf \in Buffers, NEW n \in 1 .. Size, \A i \in 0 .. n - 1 : buf[i] # Nul,
         Parse(buf, n).status = "accept"
  PROVE  \E m \in Methods : BeginsAs(buf, n, m)
<1> DEFINE r0 == Request(buf, n)
           r1 == Then(r0, FindHeadersEnd)
           r2 == Then(r1, TakeMethod)
           r3 == Then(r2, TakePath)
           r4 == Then(r3, TakeVersion)
           r5 == Then(r4, TakeHeaders)
           r6 == Then(r5, TakeBody)
           r7 == Then(r6, Accept)
           Ended(r) == r.status \in {"reject", "undefined"}
<1>1. Sane(r0) /\ r0.status = "parsing" /\ r0.buf = buf
  BY EmptySeq, Limits DEF Request, Sane, Results
<1> HIDE DEF r0
<1>2. r1 = FindHeadersEnd(r0) /\ Sane(r1)
  BY <1>1, FindHeadersEndSane DEF Then
<1>3. r1.buf = buf /\ (r1.status = "parsing" \/ Ended(r1))
  <2> DEFINE e == Find(r0.buf, 0, 0, Crlf \o Crlf)
  <2>1. FindHeadersEnd(r0) \in {Undefined(r0), Reject(r0), [r0 EXCEPT !.headers_end = e.end]}
    BY DEF FindHeadersEnd
  <2> HIDE DEF e
  <2>2. \A x \in {Undefined(r0), Reject(r0), [r0 EXCEPT !.headers_end = e.end]} :
          x.buf = buf /\ (x.status = "parsing" \/ Ended(x))
    BY <1>1 DEF Undefined, Reject, Sane, Results
  <2>3. QED
    BY <1>2, <2>1, <2>2
<1> HIDE DEF r1
<1>4. r2.status = "parsing" \/ Ended(r2)
  <2>1. CASE Ended(r1)
    BY <2>1 DEF Then
  <2>2. CASE r1.status = "parsing"
    <3> DEFINE e == Find(r1.buf, 0, 0, Space)
    <3>1. TakeMethod(r1) \in {Undefined(r1), Reject(r1), [r1 EXCEPT !.last = e.end]}
      BY DEF TakeMethod
    <3> HIDE DEF e
    <3>2. \A x \in {Undefined(r1), Reject(r1), [r1 EXCEPT !.last = e.end]} : x.status = "parsing" \/ Ended(x)
      BY <1>2, <2>2 DEF Undefined, Reject, Sane, Results
    <3>3. QED
      BY <2>2, <3>1, <3>2 DEF Then
  <2>3. QED
    BY <1>3, <2>1, <2>2
<1>5. ~Ended(r2)
  <2> SUFFICES ASSUME Ended(r2) PROVE FALSE
    OBVIOUS
  <2> HIDE DEF r2
  <2>1. r3 = r2
    BY DEF Then
  <2> HIDE DEF r3
  <2>2. r4 = r2
    BY <2>1 DEF Then
  <2> HIDE DEF r4
  <2>3. r5 = r2
    BY <2>2 DEF Then
  <2> HIDE DEF r5
  <2>4. r6 = r2
    BY <2>3 DEF Then
  <2> HIDE DEF r6
  <2>5. r7 = r2
    BY <2>4 DEF Then
  <2>6. Parse(buf, n) = r7
    BY DEF Parse, r0, r1, r2, r3, r4, r5, r6
  <2>7. QED
    BY <2>5, <2>6
<1>6. r1.status = "parsing"
  BY <1>3, <1>5 DEF Then
<1>7. TakeMethod(r1).status \notin {"reject", "undefined"}
  BY <1>5, <1>6 DEF Then
<1>8. QED
  BY <1>2, <1>3, <1>7, MethodFirst

-----------------------------------------------------------------------------
(* A recv that is accepted begins where a request does, or at a place that *)
(* reads like a method (httpserver.c:120).                                 *)

Begun ==
  /\ Typed
  /\ last.status = "accept" => last.length > 0 /\ ReadsAsMethod(last.from)

LEMMA BegunAccepted == Begun => AcceptedAtBeginning
<1> SUFFICES ASSUME Begun, last.status = "accept", \A p \in Inside : ~ReadsAsMethod(p)
             PROVE  \E i \in DOMAIN sent : Begins(i)
  BY DEF AcceptedAtBeginning
<1>1. last.length > 0 /\ ReadsAsMethod(last.from)
  BY DEF Begun
<1>2. last.from \in 0 .. Len(Stream(sent)) - 1
  <2> DEFINE l == Len(Stream(sent))
  <2>1. /\ last.from \in Nat /\ last.length \in Nat /\ last.from + last.length = taken
        /\ taken \in 0 .. l /\ l \in Nat
    BY StreamTyped DEF Begun, Typed, TypeOK
  <2> HIDE DEF l
  <2>2. last.from \in 0 .. l - 1
    BY <1>1, <2>1
  <2>3. QED
    BY <2>2 DEF l
<1>3. \E i \in DOMAIN sent : last.from = Before(sent, i)
  BY <1>1, <1>2 DEF Inside
<1>4. QED
  BY <1>1, <1>3 DEF Begins

LEMMA BegunInit == Init => Begun
<1>1. Init => last.status = "none"
  BY DEF Init
<1>2. QED
  BY <1>1, TypedInit DEF Begun

LEMMA BegunNext == Begun /\ [Next]_vars => Begun'
<1> SUFFICES ASSUME Begun, [Next]_vars PROVE Begun'
  OBVIOUS
<1>1. Typed /\ Typed'
  BY TypedNext DEF Begun
<1>2. /\ sent \in Seq(Requests) /\ taken \in Nat /\ payload \in Buffers /\ Stream(sent) \in Seq(Symbols)
      /\ Len(Stream(sent)) \in Nat /\ Methods \subseteq Seq(Symbols)
      /\ last.from \in Nat /\ last.length \in Nat
  BY <1>1, StreamTyped, ParserAssumption DEF Typed, TypeOK
<1>3. ASSUME NEW r \in Requests, Send(r), (last.status = "accept")'
      PROVE  (last.length > 0 /\ ReadsAsMethod(last.from))'
  <2>1. sent' = Append(sent, r) /\ last' = last
    BY <1>3 DEF Send
  <2>2. last.length > 0 /\ ReadsAsMethod(last.from)
    BY <1>3, <2>1 DEF Begun
  <2> DEFINE l  == Len(Stream(sent))
             l2 == Len(Stream(sent'))
  <2>3. /\ l \in Nat /\ l2 \in Nat /\ l <= l2
        /\ \A h \in 1 .. l : Stream(sent')[h] = Stream(sent)[h]
    <3>1. Len(Wired[r]) \in Nat
      BY WiredTyped, LenProperties
    <3>2. QED
      BY <1>2, <2>1, <3>1, StreamAppend
  <2>4. PICK m \in Methods \ {<<>>} :
          \A h \in 1 .. Len(m) : h <= last.length => last.from + h <= l /\ Stream(sent)[last.from + h] = m[h]
    BY <2>2 DEF ReadsAsMethod
  <2> HIDE DEF l, l2
  <2>5. ASSUME NEW h \in 1 .. Len(m), h <= last.length
        PROVE  last.from + h <= l2 /\ Stream(sent')[last.from + h] = m[h]
    <3>1. last.from + h \in 1 .. l /\ last.from + h <= l2
      BY <1>2, <2>3, <2>4, <2>5
    <3>2. QED
      BY <2>3, <2>4, <2>5, <3>1
  <2>6. ReadsAsMethod(last.from)'
    BY <2>1, <2>5 DEF ReadsAsMethod, l2
  <2>7. QED
    BY <2>1, <2>2, <2>6
<1>4. ASSUME NEW n \in 1 .. Size, Receive(n), (last.status = "accept")'
      PROVE  (last.length > 0 /\ ReadsAsMethod(last.from))'
  <2> DEFINE all  == Stream(sent)
             text == SubSeq(all, taken + 1, taken + n)
             buf  == [i \in 0 .. n - 1 |-> text[i + 1]] @@ payload
             p    == Parse(buf, n)
  <2>1. /\ n <= Len(all) - taken /\ sent' = sent
        /\ last' = [from |-> taken, length |-> n, stale |-> \E i \in n .. Size - 1 : buf[i] # Nul,
                     status |-> p.status, path |-> p.path, headers |-> p.headers, body |-> p.body]
    BY <1>4 DEF Receive
  <2> HIDE DEF p
  <2>2. last'.from = taken /\ last'.length = n /\ p.status = "accept"
    BY <1>4, <2>1
  <2> HIDE DEF all, buf
  <2>3. n \in Nat /\ n >= 1 /\ all \in Seq(Symbols) /\ Len(all) \in Nat
    BY <1>2, Limits DEF all
  <2>4. text \in Seq(Symbols) /\ Len(text) = n /\ \A h \in 1 .. n : text[h] = all[taken + h]
    BY <1>2, <2>1, <2>3, PartOf
  <2> HIDE DEF text
  <2>5. buf \in Buffers /\ \A i \in 0 .. n - 1 : buf[i] = text[i + 1] /\ buf[i] # Nul
    BY <1>2, <2>4, Filled DEF buf
  <2>6. PICK m \in Methods : BeginsAs(buf, n, m)
    BY <2>2, <2>5, AcceptedBegins DEF p
  <2>7. ASSUME NEW h \in 1 .. Len(m), h <= n PROVE taken + h <= Len(all) /\ all[taken + h] = m[h]
    <3>1. Len(m) \in Nat
      BY <1>2, LenProperties
    <3>2. h \in 1 .. n /\ h - 1 \in 0 .. n - 1 /\ h - 1 + 1 = h /\ taken + h <= Len(all)
      BY <1>2, <2>1, <2>3, <2>7, <3>1
    <3>3. QED
      BY <2>4, <2>5, <2>6, <2>7, <3>2 DEF BeginsAs
  <2>8. ReadsAsMethod(last.from)'
    BY <2>1, <2>2, <2>6, <2>7 DEF ReadsAsMethod, BeginsAs, all
  <2>9. QED
    BY <2>2, <2>3, <2>8
<1>5. ASSUME UNCHANGED <<sent, last>> PROVE Begun'
  BY <1>1, <1>5 DEF Begun, ReadsAsMethod
<1>6. Hangup \/ UNCHANGED vars => UNCHANGED <<sent, last>>
  BY DEF Hangup, vars
<1>7. QED
  BY <1>1, <1>3, <1>4, <1>5, <1>6 DEF Next, Begun

(* However the stream is cut, a recv that is accepted begins where a       *)
(* request begins, or where the inside of one reads like a method.         *)
THEOREM Once == Spec => []AcceptedAtBeginning
<1>1. Spec => []Begun
  BY BegunInit, BegunNext, PTL DEF Spec
<1>2. QED
  BY <1>1, BegunAccepted, PTL

-----------------------------------------------------------------------------
(* A request cut short: what a search finds in a text with nothing behind  *)
(* it.                                                                     *)

(* The first n bytes of the buffer are text, and nothing is behind them.   *)
Short(buf, n) ==
  /\ buf \in Buffers /\ n \in 1 .. Size
  /\ \A h \in 0 .. n - 1 : buf[h] # Nul
  /\ \A h \in n .. Size - 1 : buf[h] = Nul

LEMMA NulAt ==
  ASSUME NEW buf, NEW n, Short(buf, n), NEW i \in 0 .. Size
  PROVE  NulFrom(buf, i) = IF i <= n THEN n ELSE i
<1> DEFINE nul == NulFrom(buf, i)
<1>1. Size \in Nat /\ n \in 1 .. Size
  BY Limits DEF Short
<1>2. nul \in i .. Size /\ (nul = Size \/ buf[nul] = Nul) /\ \A h \in i .. nul - 1 : buf[h] # Nul
  BY NulFromFound
<1> HIDE DEF nul
<1>3. nul >= n
  <2> SUFFICES ASSUME nul < n PROVE FALSE
    BY <1>1, <1>2
  <2>1. nul \in 0 .. n - 1 /\ nul # Size
    BY <1>1, <1>2
  <2>2. QED
    BY <1>2, <2>1 DEF Short
<1>4. CASE i <= n
  <2> SUFFICES ASSUME nul > n PROVE FALSE
    BY <1>1, <1>2, <1>3, <1>4 DEF nul
  <2>1. n \in i .. nul - 1 /\ n \in n .. Size - 1
    BY <1>1, <1>2, <1>4
  <2>2. QED
    BY <1>2, <2>1 DEF Short
<1>5. CASE i > n
  <2> SUFFICES ASSUME nul > i PROVE FALSE
    BY <1>1, <1>2, <1>5 DEF nul
  <2>1. i \in i .. nul - 1 /\ i \in n .. Size - 1
    BY <1>1, <1>2, <1>5
  <2>2. QED
    BY <1>2, <2>1 DEF Short
<1>6. QED
  BY <1>1, <1>4, <1>5

(* Behind the text a search finds the second '\0' from where it begins.    *)
LEMMA FindsPast ==
  ASSUME NEW buf, NEW n, Short(buf, n), NEW base \in Nat, NEW from \in Nat, n <= base + from, base + from <= Size,
         NEW pat, Len(pat) \in Nat, Len(pat) >= 1
  PROVE  Find(buf, base, from, pat).end \in {0, from + 1}
<1> DEFINE f == Find(buf, base, from, pat)
<1>1. Size \in Nat /\ n \in Nat
  BY Limits DEF Short
<1>2. base + from \in 0 .. Size
  BY <1>1
<1>3. NulFrom(buf, base + from) = base + from
  BY <1>1, <1>2, NulAt
<1>4. base + from <= NulFrom(buf, base + from)
  BY <1>2, <1>3
<1>5. \A o \in from .. from - 1 : buf[base + o] # pat[1]
  OBVIOUS
<1>6. from <= from
  OBVIOUS
<1>7. InRange(buf, base, from, from, f)
  BY <1>4, <1>5, <1>6, FindRange
<1> HIDE DEF f
<1>8. f.end # 0 => f.end = from + 1
  BY <1>2, <1>3, <1>7 DEF InRange
<1>9. QED
  BY <1>8 DEF f

(* In the text it finds nothing before what the pattern can begin with.    *)
LEMMA FindsFrom ==
  ASSUME NEW buf, NEW n, Short(buf, n), NEW from \in Nat, NEW e \in Nat, from <= e, e <= n,
         NEW pat, Len(pat) \in Nat, Len(pat) >= 1, Clear(buf, from, e, pat[1])
  PROVE  LET end == Find(buf, 0, from, pat).end IN
         end \in Nat /\ (end # 0 => e <= end /\ (end < n \/ end = n + 1))
<1> DEFINE f == Find(buf, 0, from, pat)
<1>1. Size \in Nat /\ n \in Nat /\ n <= Size
  BY Limits DEF Short
<1>2. from \in 0 .. Size /\ from <= n
  BY <1>1
<1>3. NulFrom(buf, from) = n
  BY <1>2, NulAt
<1>4. 0 \in Nat /\ 0 + from = from /\ 0 + e = e /\ \A o \in Nat : 0 + o = o
  OBVIOUS
<1>5. \A o \in from .. e - 1 : buf[0 + o] # pat[1]
  <2> SUFFICES ASSUME NEW o \in from .. e - 1 PROVE buf[0 + o] # pat[1]
    OBVIOUS
  <2>1. 0 + o = o
    OBVIOUS
  <2>2. QED
    BY <2>1 DEF Clear
<1>6. InRange(buf, 0, from, e, f)
  BY <1>1, <1>2, <1>3, <1>4, <1>5, FindRange
<1> HIDE DEF f
<1>7. f.end \in Nat /\ (f.end # 0 => e <= f.end /\ (f.end < n \/ f.end = n + 1))
  BY <1>1, <1>3, <1>4, <1>6 DEF InRange
<1>8. QED
  BY <1>7 DEF f

(* It finds the pattern where it begins first, or where it is cut.         *)
Following(p, x, i) ==
  x = IF i <= p.at THEN [j |-> 0, end |-> 0]
      ELSE [j |-> IF i - p.at <= p.l THEN i - p.at ELSE p.l, end |-> p.at]
Trail == INSTANCE Recursion WITH Base <- SearchBase, Step <- SearchStep, Holds <- Following

LEMMA FindsCut ==
  ASSUME NEW buf, NEW n, Short(buf, n), NEW from \in Nat, NEW e \in Nat, e >= 1, from <= e, e < n,
         NEW pat, NEW l \in Nat, Len(pat) = l, l >= 1, Clear(buf, from, e, pat[1]),
         \A h \in 1 .. l : e + h <= n => buf[e + h - 1] = pat[h]
  PROVE  Find(buf, 0, from, pat).end = e
<1> DEFINE p == [buf |-> buf, base |-> 0, pat |-> pat, at |-> e, l |-> l]
           q == [buf |-> buf, base |-> 0, pat |-> pat]
           s == Searched(buf, 0, from, pat)
<1>1. Size \in Nat /\ n \in Nat /\ n <= Size /\ from <= n /\ from \in 0 .. Size
  BY Limits DEF Short
<1>2. NulFrom(buf, 0 + from) = n /\ n - 0 = n
  <2>1. 0 + from = from
    OBVIOUS
  <2>2. QED
    BY <1>1, <2>1, NulAt
<1>3. /\ p.buf = buf /\ p.base = 0 /\ p.pat = pat /\ p.at = e /\ p.l = l
      /\ q.buf = buf /\ q.base = 0 /\ q.pat = pat
  OBVIOUS
<1>4. s = Search!Run(q, from, n)[n]
  BY <1>2 DEF Searched
<1> HIDE DEF p, q, s
<1>5. s = Trail!Run(p, from, n)[n]
  <2>1. \A i \in from + 1 .. n : \A x : SearchStep(q, x, i) = SearchStep(p, x, i)
    BY <1>3 DEF SearchStep
  <2>2. SearchBase(q) = SearchBase(p)
    BY DEF SearchBase
  <2>3. n \in Int /\ from \in Int /\ from <= n /\ n <= n
    BY <1>1
  <2>4. Trail!Run(q, from, n)[n] = Trail!Run(p, from, n)[n]
    BY <2>1, <2>2, <2>3, Trail!Agree
  <2>5. Search!Run(q, from, n) = Trail!Run(q, from, n)
    BY DEF Search!Run, Search!Loop, Trail!Run, Trail!Loop
  <2>6. QED
    BY <1>4, <2>4, <2>5
<1>6. Following(p, SearchBase(p), from)
  BY <1>3 DEF Following, SearchBase
<1>7. ASSUME NEW i \in from + 1 .. n, NEW x, Following(p, x, i - 1)
      PROVE  Following(p, SearchStep(p, x, i), i)
  <2> DEFINE c == buf[i - 1]
             y == Follow(x, c, i - 1, pat)
  <2>1. i \in Nat /\ i >= 1 /\ i - 1 \in Nat /\ i - 1 >= from /\ i <= n
    BY <1>1
  <2>2. SearchStep(p, x, i) = y
    <3>1. 0 + i - 1 = i - 1
      BY <2>1
    <3>2. QED
      BY <1>3, <3>1 DEF SearchStep
  <2>3. x = IF i - 1 <= e THEN [j |-> 0, end |-> 0]
            ELSE [j |-> IF i - 1 - e <= l THEN i - 1 - e ELSE l, end |-> e]
    BY <1>3, <1>7 DEF Following
  <2>4. i <= e => c # pat[1]
    <3> SUFFICES ASSUME i <= e PROVE c # pat[1]
      OBVIOUS
    <3>1. i - 1 \in from .. e - 1
      BY <2>1
    <3>2. QED
      BY <3>1 DEF Clear
  <2>5. i > e /\ i - e <= l => c = pat[i - e]
    <3> SUFFICES ASSUME i > e, i - e <= l PROVE c = pat[i - e]
      OBVIOUS
    <3> DEFINE h == i - e
    <3>1. h \in 1 .. l /\ e + h <= n /\ e + h - 1 = i - 1
      BY <2>1
    <3> HIDE DEF h
    <3>2. c = pat[h]
      BY <3>1
    <3>3. QED
      BY <3>2 DEF h
  <2> HIDE DEF c
  <2>6. y = IF i <= e THEN [j |-> 0, end |-> 0]
            ELSE [j |-> IF i - e <= l THEN i - e ELSE l, end |-> e]
    <3>1. CASE i <= e
      <4>1. x.j = 0 /\ x.end = 0
        BY <2>1, <2>3, <3>1
      <4>2. QED
        BY <2>4, <3>1, <4>1 DEF Follow
    <3>2. CASE i = e + 1
      <4>1. x.j = 0 /\ x.end = 0 /\ i - 1 = e /\ i - e = 1
        BY <2>1, <2>3, <3>2
      <4>2. c = pat[1]
        <5>1. i > e /\ i - e <= l
          BY ONLY e \in Nat, l >= 1, <3>2, <4>1
        <5>2. c = pat[i - e]
          BY <2>5, <5>1
        <5>3. QED
          BY <4>1, <5>2
      <4>3. y = [j |-> 1, end |-> e]
        BY <4>1, <4>2 DEF Follow
      <4>4. QED
        BY <3>2, <4>1, <4>3
    <3>3. CASE i > e + 1
      <4> DEFINE d == i - 1 - e
      <4>1. d \in Nat /\ d >= 1 /\ i - e = d + 1 /\ i > e /\ ~(i - 1 <= e)
        BY <2>1, <3>3
      <4>2. x.j = (IF d <= l THEN d ELSE l) /\ x.end = e
        BY <2>3, <4>1
      <4> HIDE DEF d
      <4>3. CASE d < l
        <5>1. x.j = d /\ x.j # l /\ c = pat[x.j + 1]
          BY <2>5, <4>1, <4>2, <4>3
        <5>2. y = [j |-> d + 1, end |-> e]
          BY <4>2, <5>1 DEF Follow
        <5>3. QED
          BY <4>1, <4>3, <5>2
      <4>4. CASE d >= l
        <5>1. x.j = l
          BY <4>1, <4>2, <4>4
        <5>2. x = [j |-> l, end |-> e]
          BY <2>3, <4>1, <4>2, <5>1
        <5>3. y = x
          BY <5>1 DEF Follow
        <5>4. QED
          BY <4>1, <4>4, <5>2, <5>3
      <4>5. QED
        BY <4>1, <4>3, <4>4
    <3>4. QED
      BY <2>1, <3>1, <3>2, <3>3
  <2> HIDE DEF y
  <2>7. QED
    BY <1>3, <2>2, <2>6 DEF Following
<1>8. Following(p, s, n)
  BY <1>1, <1>5, <1>6, <1>7, Trail!Invariant
<1>9. s.end = e
  BY <1>1, <1>3, <1>8 DEF Following
<1>10. Find(buf, 0, from, pat).end = s.end
  BY <1>9, FindUnfolds DEF s
<1>11. QED
  BY <1>9, <1>10

(* If the pattern is not in the text, what a search finds is behind it, or *)
(* where the text ends with a part of the pattern.                         *)
Trailing(p, x, i) ==
  Groping(p, x, i) /\ x.end \in Nat /\ (x.j < p.l /\ x.end # 0 => x.end + x.j >= i)
Remains == INSTANCE Recursion WITH Base <- SearchBase, Step <- SearchStep, Holds <- Trailing

LEMMA FindsNone ==
  ASSUME NEW buf, NEW n, Short(buf, n), NEW pat, NEW l \in Nat, Len(pat) = l, l >= 1,
         \A o \in 0 .. n - l : ~Occurs(buf, o, pat, l)
  PROVE  LET f == Find(buf, 0, 0, pat) IN f.end # 0 /\ ~f.over => f.end + l > n /\ n < Size
<1> DEFINE p == [buf |-> buf, base |-> 0, from |-> 0, pat |-> pat, l |-> l]
           q == [buf |-> buf, base |-> 0, pat |-> pat]
           s == Searched(buf, 0, 0, pat)
           f == Find(buf, 0, 0, pat)
<1>1. Size \in Nat /\ n \in Nat /\ n <= Size /\ 0 \in 0 .. Size
  BY Limits DEF Short
<1>2. NulFrom(buf, 0 + 0) = n /\ n - 0 = n
  <2>1. 0 + 0 = 0
    OBVIOUS
  <2>2. QED
    BY <1>1, <2>1, NulAt
<1>3. /\ p.buf = buf /\ p.base = 0 /\ p.from = 0 /\ p.pat = pat /\ p.l = l
      /\ q.buf = buf /\ q.base = 0 /\ q.pat = pat
  OBVIOUS
<1>4. s = Search!Run(q, 0, n)[n]
  BY <1>2 DEF Searched
<1> DEFINE zero == 0
<1>5. zero \in Int /\ zero = 0 /\ zero <= n
  BY <1>1
<1> HIDE DEF p, q, s, f, zero
<1>6. s = Remains!Run(p, zero, n)[n]
  <2>1. \A i \in zero + 1 .. n : \A x : SearchStep(q, x, i) = SearchStep(p, x, i)
    BY <1>3 DEF SearchStep
  <2>2. SearchBase(q) = SearchBase(p)
    BY DEF SearchBase
  <2>3. n \in Int /\ n <= n
    BY <1>1
  <2>4. Remains!Run(q, zero, n)[n] = Remains!Run(p, zero, n)[n]
    BY <1>5, <2>1, <2>2, <2>3, Remains!Agree
  <2>5. Search!Run(q, zero, n) = Remains!Run(q, zero, n)
    BY DEF Search!Run, Search!Loop, Remains!Run, Remains!Loop
  <2>6. QED
    BY <1>4, <1>5, <2>4, <2>5
<1>7. Trailing(p, SearchBase(p), zero)
  BY <1>3, <1>5 DEF Trailing, Groping, SearchBase, Occurs
<1>8. ASSUME NEW i \in zero + 1 .. n, NEW x, Trailing(p, x, i - 1)
      PROVE  Trailing(p, SearchStep(p, x, i), i)
  <2> DEFINE c == p.buf[p.base + i - 1]
             y == Follow(x, c, i - 1, p.pat)
  <2>1. i \in Nat /\ i >= 1 /\ i - 1 \in Nat /\ i - 1 >= p.from /\ p.base \in Nat /\ p.from \in Nat
        /\ p.l \in Nat /\ Len(p.pat) = p.l /\ p.l >= 1
    BY <1>1, <1>3, <1>5
  <2>2. Groping(p, x, i - 1)
    BY <1>8 DEF Trailing
  <2>3. Groping(p, y, i)
    BY <2>1, <2>2, GropingStep
  <2>4. SearchStep(p, x, i) = y
    BY DEF SearchStep
  <2> HIDE DEF c
  <2>5. x.j \in 0 .. l /\ x.end \in Nat /\ (x.j < l /\ x.end # 0 => x.end + x.j >= i - 1)
    BY <1>3, <1>8, <2>2 DEF Trailing, Groping
  <2>6. \/ y = x /\ x.j = l
        \/ y.j = x.j + 1 /\ y.end = IF x.end = 0 THEN i - 1 ELSE x.end
        \/ y.j = 0 /\ y.end = 0
    BY <1>3 DEF Follow
  <2> HIDE DEF y
  <2>7. y.end \in Nat /\ (y.j < l /\ y.end # 0 => y.end + y.j >= i)
    <3>1. CASE y = x /\ x.j = l
      BY <2>5, <3>1
    <3>2. CASE y.j = x.j + 1 /\ y.end = IF x.end = 0 THEN i - 1 ELSE x.end
      BY <2>1, <2>5, <3>2
    <3>3. CASE y.j = 0 /\ y.end = 0
      BY <3>3
    <3>4. QED
      BY <2>6, <3>1, <3>2, <3>3
  <2>8. QED
    BY <1>3, <2>3, <2>4, <2>7 DEF Trailing
<1>9. Trailing(p, s, n)
  BY <1>1, <1>5, <1>6, <1>7, <1>8, Remains!Invariant
<1>10. s.j \in Nat /\ s.j < l
  <2>1. s.j \in 0 .. l
    BY <1>3, <1>9 DEF Trailing, Groping
  <2>2. s.j # l
    <3> SUFFICES ASSUME s.j = l PROVE FALSE
      OBVIOUS
    <3>1. PICK o \in 0 .. n - l : Occurs(buf, 0 + o, pat, l)
      BY <1>3, <1>9 DEF Trailing, Groping
    <3>2. 0 + o = o
      OBVIOUS
    <3>3. QED
      BY <3>1, <3>2
  <2>3. QED
    BY <2>1, <2>2
<1>11. s.end \in Nat /\ (s.end # 0 => s.end + s.j >= n)
  BY <1>3, <1>9, <1>10 DEF Trailing
<1>12. /\ f.end = IF s.end # 0 \/ n + 1 >= Size THEN s.end
                  ELSE IF buf[n + 1] = Nul THEN n + 1 - 0 ELSE 0
       /\ s.j # Len(pat) /\ (n = Size \/ (s.end = 0 /\ n + 1 = Size)) => f.over
  <2>1. s.j # Len(pat)
    BY <1>1, <1>10
  <2> DEFINE v == IF s.j = Len(pat) \/ s.end # 0 \/ n + 1 >= Size THEN s.end
                  ELSE IF buf[n + 1] = Nul THEN n + 1 - 0 ELSE 0
             o == s.j # Len(pat) /\ (n = Size \/ (s.end = 0 /\ n + 1 = Size))
  <2>2. f = [start |-> 0, end |-> v, over |-> o]
    BY <1>2, FindUnfolds DEF f, s
  <2>3. v = IF s.end # 0 \/ n + 1 >= Size THEN s.end ELSE IF buf[n + 1] = Nul THEN n + 1 - 0 ELSE 0
    BY <2>1
  <2>4. f.end = v /\ f.over = o
    <3> HIDE DEF v, o
    <3>1. QED
      BY <2>2
  <2>5. QED
    BY <2>3, <2>4
<1>13. f.end # 0 /\ ~f.over => f.end + l > n /\ n < Size
  <2> SUFFICES ASSUME f.end # 0, ~f.over PROVE f.end + l > n /\ n < Size
    OBVIOUS
  <2>1. n < Size /\ ~(s.end = 0 /\ n + 1 = Size)
    BY <1>1, <1>10, <1>12
  <2>2. CASE s.end # 0
    <3>1. f.end = s.end
      BY <1>12, <2>2
    <3> HIDE DEF f
    <3>2. QED
      BY <1>1, <1>10, <1>11, <2>1, <2>2, <3>1
  <2>3. CASE s.end = 0
    <3>1. f.end = n + 1
      BY <1>1, <1>12, <2>1, <2>3
    <3>2. QED
      BY <1>1, <2>1, <3>1
  <2>4. QED
    BY <2>2, <2>3
<1>14. QED
  BY <1>13 DEF f

-----------------------------------------------------------------------------
(* A request cut short: the text in the buffer ends before its lines do.   *)
(* w is where they would be if all had come.                               *)
Cut(buf, n, r, w) ==
  /\ Short(buf, n) /\ n < HeadersEnd(r) + 4
  /\ Laid(w, r)
  /\ \A i \in 0 .. n - 1 : buf[i] = w[i]

LEMMA CutTyped ==
  ASSUME NEW buf, NEW n, NEW r, NEW w, Cut(buf, n, r, w)
  PROVE  buf \in Buffers /\ n \in Nat /\ n >= 1 /\ n <= Size /\ Size \in Nat
BY Limits DEF Cut, Short

LEMMA HasCut ==
  ASSUME NEW r, NEW buf, NEW n, NEW w, Cut(buf, n, r, w), NEW a \in Nat, NEW S, NEW s \in Seq(S),
         a + Len(s) <= n, Has(w, a, s)
  PROVE  Has(buf, a, s)
<1> SUFFICES ASSUME NEW h \in 1 .. Len(s) PROVE buf[a + h - 1] = s[h]
  BY DEF Has
<1>1. n \in Nat /\ Len(s) \in Nat
  BY CutTyped, LenProperties
<1>2. a + h - 1 \in 0 .. n - 1
  BY <1>1
<1>3. QED
  BY <1>2 DEF Cut, Has

(* A text that came whole.                                                 *)
LEMMA TextCut ==
  ASSUME NEW r, NEW buf, NEW n, NEW w, Cut(buf, n, r, w), NEW a \in Nat, NEW s \in Seq(Symbols), NEW b \in Nat,
         b = a + Len(s), b <= n, Has(w, a, s)
  PROVE  Text(buf, a, b) = s
<1>1. n \in Nat /\ n <= Size /\ Size \in Nat /\ Len(s) \in Nat /\ Short(buf, n)
  BY CutTyped, LenProperties DEF Cut
<1>2. a \in 0 .. Size /\ a <= n
  BY <1>1
<1>3. NulFrom(buf, a) = n
  BY <1>1, <1>2, NulAt
<1>4. Has(buf, a, s)
  BY HasCut
<1>5. QED
  BY <1>1, <1>3, <1>4, TextHas

LEMMA TextPast ==
  ASSUME NEW buf, NEW n, Short(buf, n), NEW a \in Nat, n <= a, a <= Size, NEW b \in Nat, a <= b
  PROVE  Text(buf, a, b) = <<>>
<1>1. NulFrom(buf, a) = a
  <2>1. a \in 0 .. Size /\ n \in Nat
    BY Limits DEF Short
  <2>2. QED
    BY <2>1, NulAt
<1>2. (IF a < b THEN a ELSE b) = a
  OBVIOUS
<1>3. Text(buf, a, b) = Bytes(buf, a, a)
  BY <1>1, <1>2 DEF Text
<1>4. 1 .. a - a = {}
  OBVIOUS
<1>5. Bytes(buf, a, a) = <<>>
  BY <1>4 DEF Bytes
<1>6. QED
  BY <1>3, <1>5

(* A search that ends in the text ends where it does in the whole request. *)
LEMMA FindsPart ==
  ASSUME NEW r, NEW buf, NEW n, NEW w, Cut(buf, n, r, w), NEW from \in Nat, from <= Size, NEW e \in Nat,
         e >= 1, from <= e, NEW pat, NEW l \in Nat, Len(pat) = l, l >= 1,
         Has(w, e, pat), Clear(w, from, e, pat[1])
  PROVE  LET end == Find(buf, 0, from, pat).end IN
         end \in Nat /\ (e < n => end = e) /\ (e >= n => end = 0 \/ end > n)
<1> DEFINE end == Find(buf, 0, from, pat).end
<1>1. n \in Nat /\ n <= Size /\ Size \in Nat /\ Short(buf, n) /\ \A i \in 0 .. n - 1 : buf[i] = w[i]
  BY CutTyped DEF Cut
<1>2. CASE e < n
  <2>1. Clear(buf, from, e, pat[1])
    BY <1>1, <1>2 DEF Clear
  <2>2. \A h \in 1 .. l : e + h <= n => buf[e + h - 1] = pat[h]
    <3> SUFFICES ASSUME NEW h \in 1 .. l, e + h <= n PROVE buf[e + h - 1] = pat[h]
      OBVIOUS
    <3>1. e + h - 1 \in 0 .. n - 1
      BY <1>1
    <3>2. QED
      BY <1>1, <3>1 DEF Has
  <2>3. end = e
    BY <1>1, <1>2, <2>1, <2>2, FindsCut
  <2> HIDE DEF end
  <2>4. end \in Nat /\ (e < n => end = e) /\ (e >= n => end = 0 \/ end > n)
    BY <1>1, <1>2, <2>3
  <2>5. QED
    BY <2>4 DEF end
<1>3. CASE e >= n /\ from <= n
  <2>1. Clear(buf, from, n, pat[1])
    BY <1>1, <1>3 DEF Clear
  <2>2. end \in Nat /\ (end # 0 => n <= end /\ (end < n \/ end = n + 1))
    BY <1>1, <1>3, <2>1, FindsFrom
  <2> HIDE DEF end
  <2>3. end \in Nat /\ (e < n => end = e) /\ (e >= n => end = 0 \/ end > n)
    BY <1>1, <1>3, <2>2
  <2>4. QED
    BY <2>3 DEF end
<1>4. CASE from > n
  <2>1. n <= 0 + from /\ 0 + from <= Size /\ 0 \in Nat
    BY <1>1, <1>4
  <2>2. end \in {0, from + 1}
    BY <1>1, <2>1, FindsPast
  <2> HIDE DEF end
  <2>3. end \in Nat /\ (e < n => end = e) /\ (e >= n => end = 0 \/ end > n)
    BY <1>1, <1>4, <2>2
  <2>4. QED
    BY <2>3 DEF end
<1>5. QED
  BY <1>1, <1>2, <1>3, <1>4

(* What is true of the parse of such a request while it goes on.           *)
Carried(buf, n, x) ==
  /\ Sane(x) /\ x.status = "parsing" /\ x.buf = buf /\ x.length = n /\ x.body = <<>>
  /\ n < Size /\ n < x.headers_end + 4
Stops(x) == x.status \in {"reject", "undefined"}

LEMMA StopsTyped ==
  ASSUME NEW x, Sane(x)
  PROVE  Stops(Reject(x)) /\ Stops(Undefined(x))
BY DEF Sane, Results, Stops, Reject, Undefined

LEMMA HeadersEndCut ==
  ASSUME NEW r \in Requests, NEW buf, NEW n, NEW w, Cut(buf, n, r, w)
  PROVE  LET y == FindHeadersEnd(Request(buf, n)) IN Stops(y) \/ (Carried(buf, n, y) /\ y.headers = <<>>)
<1> DEFINE x == Request(buf, n)
           pat == Crlf \o Crlf
           f == Find(buf, 0, 0, pat)
           y == FindHeadersEnd(x)
           h == HeadersEnd(r)
<1>1. buf \in Buffers /\ n \in Nat /\ n >= 1 /\ n <= Size /\ Size \in Nat
  BY CutTyped
<1>2. Sane(x) /\ x.buf = buf /\ x.status = "parsing" /\ x.length = n /\ x.body = <<>> /\ x.headers = <<>>
  BY <1>1, EmptySeq, Limits DEF Request, Sane, Results
<1>3. h \in Nat /\ n < h + 4 /\ w[h] = "CR" /\ w[h + 1] = "LF"
  <2>1. Len(r.fields) \in 0 .. Len(r.fields)
    BY RequestTyped
  <2>2. QED
    BY <2>1, Distances DEF Cut, Laid, HeadersEnd
<1> HIDE DEF h
<1>4. \A o \in 0 .. n - 4 : ~Occurs(buf, o, pat, 4)
  <2> SUFFICES ASSUME NEW o \in 0 .. n - 4, Occurs(buf, o, pat, 4) PROVE FALSE
    OBVIOUS
  <2>1. 1 \in 1 .. 4 /\ 3 \in 1 .. 4 /\ o + 1 - 1 = o /\ o + 3 - 1 = o + 2 /\ o \in Nat
    BY <1>1
  <2>2. buf[o] = "CR" /\ buf[o + 2] = "CR"
    <3>1. pat[1] = "CR" /\ pat[3] = "CR"
      BY CrlfTwice
    <3>2. buf[o + 1 - 1] = pat[1] /\ buf[o + 3 - 1] = pat[3]
      BY <2>1 DEF Occurs
    <3> HIDE DEF pat
    <3>3. QED
      BY <2>1, <3>1, <3>2
  <2>3. w[o] = "CR" /\ w[o + 2] = "CR"
    <3>1. o \in 0 .. n - 1 /\ o + 2 \in 0 .. n - 1
      BY <1>1
    <3>2. QED
      BY <2>2, <3>1 DEF Cut
  <2>4. CASE o + 2 <= h
    <3>1. 2 \in 1 .. 2 /\ Laid(w, r)
      BY DEF Cut
    <3>2. QED
      BY <2>1, <2>3, <2>4, <3>1, CrApart DEF h
  <2>5. CASE o + 2 > h
    <3>1. o + 2 = h + 1
      BY <1>1, <1>3, <2>5
    <3>2. QED
      BY <1>3, <2>3, <3>1
  <2>6. QED
    BY <1>1, <1>3, <2>1, <2>4, <2>5
<1>5. Len(pat) = 4 /\ 4 >= 1 /\ 4 \in Nat
  BY CrlfTwice
<1>6. Short(buf, n)
  BY DEF Cut
<1>7. f.end # 0 /\ ~f.over => f.end + 4 > n /\ n < Size
  <2> HIDE DEF pat
  <2>1. QED
    BY <1>4, <1>5, <1>6, FindsNone
<1>8. y = IF f.over THEN Undefined(x) ELSE IF f.end = 0 THEN Reject(x) ELSE [x EXCEPT !.headers_end = f.end]
  BY <1>2 DEF FindHeadersEnd
<1>9. Sane(y)
  BY <1>2, FindHeadersEndSane
<1>10. f.end \in Nat
  <2>1. pat \in {Space, Crlf, Crlf \o Crlf, Colon} /\ 0 \in Nat /\ 0 <= Size
    BY <1>1
  <2>2. QED
    BY <2>1, FindHere
<1> HIDE DEF f, x, y
<1>11. CASE f.over \/ f.end = 0
  BY <1>2, <1>8, <1>11, StopsTyped DEF y, x
<1>12. CASE ~(f.over \/ f.end = 0)
  <2>1. y = [x EXCEPT !.headers_end = f.end]
    BY <1>8, <1>12
  <2>2. /\ y.status = "parsing" /\ y.buf = buf /\ y.length = n /\ y.body = <<>> /\ y.headers = <<>>
        /\ y.headers_end = f.end
    BY <1>2, <2>1 DEF Sane, Results
  <2>3. n < y.headers_end + 4 /\ n < Size
    BY <1>1, <1>7, <1>10, <1>12, <2>2
  <2>4. QED
    BY <1>9, <2>2, <2>3 DEF Carried, y, x
<1>13. QED
  BY <1>11, <1>12

(* An end that a stage goes on from.                                       *)
LEMMA LastCarried ==
  ASSUME NEW buf, NEW n, NEW x, Carried(buf, n, x), NEW y, Sane(y), NEW at, y = [x EXCEPT !.last = at]
  PROVE  Carried(buf, n, y) /\ y.headers = x.headers
<1>1. /\ y.status = x.status /\ y.buf = x.buf /\ y.length = x.length /\ y.body = x.body
      /\ y.headers_end = x.headers_end /\ y.headers = x.headers
  BY DEF Carried, Sane, Results
<1>2. QED
  BY <1>1 DEF Carried

LEMMA PathCarried ==
  ASSUME NEW buf, NEW n, NEW x, Carried(buf, n, x), NEW y, Sane(y), NEW at, NEW text,
         y = [x EXCEPT !.path = text, !.last = at]
  PROVE  Carried(buf, n, y) /\ y.headers = x.headers
<1>1. /\ y.status = x.status /\ y.buf = x.buf /\ y.length = x.length /\ y.body = x.body
      /\ y.headers_end = x.headers_end /\ y.headers = x.headers
  BY DEF Carried, Sane, Results
<1>2. QED
  BY <1>1 DEF Carried

LEMMA MethodCut ==
  ASSUME NEW r \in Requests, NEW buf, NEW n, NEW w, Cut(buf, n, r, w), NEW x, Carried(buf, n, x)
  PROVE  LET y == TakeMethod(x) IN
         Stops(y) \/ (Carried(buf, n, y) /\ y.headers = x.headers /\ (y.last = Len(r.method) \/ y.last > n))
<1> DEFINE f == Find(buf, 0, 0, Space)
           m == Len(r.method)
           y == TakeMethod(x)
<1>1. x.buf = buf /\ Sane(x) /\ Sane(y) /\ n \in Nat /\ Size \in Nat
  BY TakeMethodSane, CutTyped DEF Carried
<1>2. f.end \in Nat /\ (m < n => f.end = m) /\ (m >= n => f.end = 0 \/ f.end > n)
  <2>1. m \in Nat /\ m >= 1
    BY RequestTyped
  <2>2. Has(w, 0, r.method) /\ w[m] = "SP"
    BY DEF Cut, Laid
  <2>3. Clear(w, 0, m, "SP")
    <3>1. \A h \in 0 .. 0 + m - 1 : w[h] # "SP"
      BY <2>1, <2>2, PartsWithout, NoneIn
    <3>2. 0 + m - 1 = m - 1
      BY <2>1
    <3>3. QED
      BY <3>1, <3>2 DEF Clear
  <2>4. Space[1] = "SP" /\ Len(Space) = 1 /\ 1 \in Nat /\ 1 >= 1 /\ 0 \in Nat /\ 0 <= Size /\ 0 <= m
    BY <1>1, <2>1 DEF Space
  <2> HIDE DEF m
  <2>5. Has(w, m, Space)
    BY <2>1, <2>2 DEF Has, Space
  <2>6. Clear(w, 0, m, Space[1])
    BY <2>3, <2>4
  <2>7. QED
    BY <2>1, <2>4, <2>5, <2>6, FindsPart
<1> HIDE DEF f, m
<1>3. y \in {Reject(x), Undefined(x)} \/ (f.end # 0 /\ y = [x EXCEPT !.last = f.end])
  BY <1>1 DEF TakeMethod, f
<1>4. CASE y \in {Reject(x), Undefined(x)}
  BY <1>1, <1>4, StopsTyped
<1>5. CASE f.end # 0 /\ y = [x EXCEPT !.last = f.end]
  <2>1. Carried(buf, n, y) /\ y.headers = x.headers
    <3>1. Sane(y)
      BY <1>1
    <3> HIDE DEF y
    <3>2. QED
      BY ONLY Carried(buf, n, x), <1>5, <3>1, LastCarried
  <2>2. y.last = f.end
    BY <1>1, <1>5 DEF Sane, Results
  <2>3. f.end = m \/ f.end > n
    <3>1. m \in Nat
      BY RequestTyped DEF m
    <3>2. QED
      BY <1>1, <1>2, <1>5, <3>1
  <2> HIDE DEF y
  <2>4. QED
    BY <2>1, <2>2, <2>3 DEF y, m
<1>6. QED
  BY <1>3, <1>4, <1>5

(* Where a stage begins when the one before it passed the end of the text. *)
LEMMA EndsPast ==
  ASSUME NEW buf, NEW n, Short(buf, n), NEW from \in Nat, n < from, from <= Size,
         NEW pat \in {Space, Crlf, Colon}
  PROVE  Find(buf, 0, from, pat).end \in {0, from + 1}
<1>1. n <= 0 + from /\ 0 + from <= Size /\ 0 \in Nat /\ Len(pat) \in Nat /\ Len(pat) >= 1
  BY Limits, Patterns DEF Short
<1>2. QED
  BY <1>1, FindsPast

LEMMA PathCut ==
  ASSUME NEW r \in Requests, NEW buf, NEW n, NEW w, Cut(buf, n, r, w), NEW x, Carried(buf, n, x),
         x.last = Len(r.method) \/ x.last > n
  PROVE  LET y == TakePath(x) IN
         Stops(y) \/ (Carried(buf, n, y) /\ y.headers = x.headers
                      /\ ((y.path = r.path /\ y.last = PathEnd(r)) \/ y.last > n))
<1> DEFINE from == x.last + 1
           f == Find(buf, 0, from, Space)
           e == PathEnd(r)
           u == Len(r.path)
           t == Text(buf, f.start, f.end)
           y == TakePath(x)
<1>1. x.buf = buf /\ Sane(x) /\ Sane(y) /\ n \in Nat /\ Size \in Nat /\ n < Size /\ x.last \in Nat /\ x.last < Size
      /\ Short(buf, n) /\ from \in Nat /\ from <= Size
  <2>1. x.last \in Nat /\ x.last < Size /\ Size \in Nat
    BY Limits DEF Carried, Sane, Results
  <2>2. QED
    BY <2>1, TakePathSane, CutTyped DEF Carried, Cut
<1>2. f.start = from /\ f.end \in Nat
  BY <1>1, FindHere
<1>3. y \in {Reject(x), Undefined(x)} \/ (f.end # 0 /\ y = [x EXCEPT !.path = t, !.last = f.end])
  BY <1>1 DEF TakePath
<1>4. CASE y \in {Reject(x), Undefined(x)}
  BY <1>1, <1>4, StopsTyped
<1>5. CASE f.end # 0 /\ y = [x EXCEPT !.path = t, !.last = f.end]
  <2> HIDE DEF f, t
  <2>1. Carried(buf, n, y) /\ y.headers = x.headers
    <3>1. Sane(y)
      BY <1>1
    <3> HIDE DEF y
    <3>2. ASSUME NEW at, NEW text, y = [x EXCEPT !.path = text, !.last = at]
          PROVE  Carried(buf, n, y) /\ y.headers = x.headers
      BY ONLY Carried(buf, n, x), <3>1, <3>2, PathCarried
    <3>3. QED
      BY ONLY <1>5, <3>2
  <2>2. y.last = f.end /\ y.path = t
    BY <1>1, <1>5 DEF Sane, Results
  <2> HIDE DEF y
  <2>3. CASE x.last > n
    <3>1. f.end \in {0, from + 1}
      BY <1>1, <2>3, EndsPast DEF f
    <3>2. f.end > n
      BY <1>1, <1>5, <2>3, <3>1
    <3>3. QED
      BY <2>1, <2>2, <3>2 DEF y
  <2>4. CASE x.last = Len(r.method)
    <3>1. from = PathAt(r) /\ e \in Nat /\ e = from + u /\ u \in Nat /\ e >= 1 /\ from <= e
      <4>1. from = PathAt(r)
        BY <2>4 DEF PathAt
      <4>2. PathAt(r) \in Nat /\ PathAt(r) >= 2 /\ e \in Nat /\ e >= PathAt(r) /\ u \in Nat
        BY Distances, RequestTyped
      <4>3. e = PathAt(r) + u
        BY DEF PathEnd
      <4> HIDE DEF from, e, u
      <4>4. QED
        BY <4>1, <4>2, <4>3
    <3>2. Has(w, from, r.path) /\ w[e] = "SP"
      BY <3>1 DEF Cut, Laid, PathAt, PathEnd
    <3> HIDE DEF from, e
    <3>3. Clear(w, from, e, "SP")
      <4>1. \A h \in from .. from + u - 1 : w[h] # "SP"
        BY <1>1, <3>1, <3>2, PartsWithout, NoneIn
      <4>2. QED
        BY <1>1, <3>1, <4>1 DEF Clear
    <3>4. Space[1] = "SP" /\ Len(Space) = 1 /\ 1 \in Nat /\ 1 >= 1
      BY DEF Space
    <3>5. Has(w, e, Space)
      BY <3>1, <3>2 DEF Has, Space
    <3>6. Clear(w, from, e, Space[1])
      BY <3>3, <3>4
    <3>7. f.end \in Nat /\ (e < n => f.end = e) /\ (e >= n => f.end = 0 \/ f.end > n)
      <4>1. from \in Nat /\ from <= Size /\ e \in Nat /\ e >= 1 /\ from <= e
        BY <1>1, <3>1
      <4>2. QED
        BY <3>4, <3>5, <3>6, <4>1, FindsPart DEF f
    <3>8. CASE e < n
      <4>1. f.end = e
        BY <3>7, <3>8
      <4>2. Text(buf, from, e) = r.path
        <5>1. r.path \in Seq(Symbols) /\ e <= n /\ e = from + Len(r.path)
          BY <1>1, <3>1, <3>8, RequestTyped
        <5>2. QED
          BY <1>1, <3>1, <3>2, <5>1, TextCut
      <4>3. t = r.path
        BY <1>2, <4>1, <4>2 DEF t
      <4>4. QED
        BY <2>1, <2>2, <4>1, <4>3 DEF y, e
    <3>9. CASE e >= n
      <4>1. f.end > n
        BY <1>5, <3>7, <3>9
      <4>2. QED
        BY <2>1, <2>2, <4>1 DEF y
    <3>10. QED
      BY <1>1, <3>1, <3>8, <3>9
  <2>5. QED
    BY <2>3, <2>4
<1>6. QED
  BY <1>3, <1>4, <1>5

LEMMA VersionCut ==
  ASSUME NEW r \in Requests, NEW buf, NEW n, NEW w, Cut(buf, n, r, w), NEW x, Carried(buf, n, x),
         (x.path = r.path /\ x.last = PathEnd(r)) \/ x.last > n
  PROVE  LET y == TakeVersion(x) IN
         Stops(y) \/ (Carried(buf, n, y) /\ y.headers = x.headers /\ y.path = r.path /\ (y.last = Top(r) \/ y.last > n))
<1> DEFINE from == x.last + 2
           f == Find(buf, 0, from, Crlf)
           e == Top(r)
           v == Len(r.version)
           t == Text(buf, f.start, f.end)
           y == TakeVersion(x)
<1>1. x.buf = buf /\ Sane(x) /\ Sane(y) /\ n \in Nat /\ Size \in Nat /\ n < Size /\ x.last \in Nat
      /\ Short(buf, n) /\ from \in Nat
  <2>1. x.last \in Nat
    BY DEF Carried, Sane, Results
  <2>2. QED
    BY <2>1, TakeVersionSane, CutTyped DEF Carried, Cut
<1>2. x.last + 1 + Len(HttpWord) = from
  BY <1>1, MarksTyped
<1>3. y = IF from >= Size \/ f.over THEN Undefined(x)
          ELSE IF f.end = 0 THEN Reject(x)
          ELSE IF f.end - f.start >= VersionSize THEN Undefined(x)
          ELSE IF t # Version THEN Reject(x)
          ELSE [x EXCEPT !.last = f.end]
  <2> HIDE DEF from
  <2>1. QED
    BY <1>1, <1>2 DEF TakeVersion
<1> HIDE DEF y, f, t
<1>4. y \in {Reject(x), Undefined(x)} \/ (from < Size /\ f.end # 0 /\ t = Version /\ y = [x EXCEPT !.last = f.end])
  BY <1>1, <1>3
<1>5. CASE y \in {Reject(x), Undefined(x)}
  BY <1>1, <1>5, StopsTyped DEF y
<1>6. CASE from < Size /\ f.end # 0 /\ t = Version /\ y = [x EXCEPT !.last = f.end]
  <2>1. Carried(buf, n, y) /\ y.headers = x.headers
    BY <1>1, <1>6, LastCarried
  <2>2. y.last = f.end /\ y.path = x.path
    BY <1>1, <1>6 DEF Sane, Results
  <2>3. f.start = from /\ f.end \in Nat /\ from <= Size
    BY <1>1, <1>6, FindHere DEF f
  <2>4. CASE x.last > n
    <3>1. from > n /\ from <= Size
      BY <1>1, <2>3, <2>4
    <3> HIDE DEF from
    <3>2. f.end = from + 1
      BY <1>1, <1>6, <3>1, EndsPast DEF f
    <3>3. t = <<>>
      <4>1. n <= from /\ from + 1 \in Nat /\ from <= from + 1
        BY <1>1, <3>1
      <4>2. Text(buf, from, from + 1) = <<>>
        BY <1>1, <3>1, <4>1, TextPast
      <4>3. QED
        BY <2>3, <3>2, <4>2 DEF t
    <3>4. Version # <<>>
      BY DEF Version
    <3>5. QED
      BY <1>6, <3>3, <3>4
  <2>5. CASE x.path = r.path /\ x.last = PathEnd(r)
    <3>1. from = PathEnd(r) + 2 /\ e \in Nat /\ e = from + v /\ v \in Nat /\ e >= 1 /\ from <= e
      <4>1. PathEnd(r) \in Nat /\ e \in Nat /\ e = PathEnd(r) + 2 + v /\ v \in Nat
        BY Distances, RequestTyped
      <4>2. from = PathEnd(r) + 2
        BY <2>5
      <4> HIDE DEF from, e, v
      <4>3. QED
        BY <4>1, <4>2
    <3>2. Has(w, from, r.version) /\ w[e] = "CR" /\ w[e + 1] = "LF"
      <4>1. Len(r.method) + 1 + Len(r.path) + 2 = from
        BY <3>1 DEF PathEnd, PathAt
      <4>2. Ends(r, 0) = e /\ 0 \in 0 .. Len(r.fields)
        BY EndsFollow, RequestTyped
      <4> HIDE DEF from, e
      <4>3. Laid(w, r)
        BY DEF Cut
      <4>4. Has(w, from, r.version)
        BY <4>1, <4>3 DEF Laid
      <4>5. w[Ends(r, 0)] = "CR" /\ w[Ends(r, 0) + 1] = "LF"
        BY <4>2, <4>3 DEF Laid
      <4>6. QED
        BY <4>2, <4>4, <4>5
    <3> HIDE DEF from, e
    <3>3. Clear(w, from, e, "CR")
      <4>1. \A h \in from .. from + v - 1 : w[h] # "CR"
        BY <1>1, <3>1, <3>2, PartsWithout, NoneIn
      <4>2. QED
        BY <1>1, <3>1, <4>1 DEF Clear
    <3>4. Crlf[1] = "CR" /\ Crlf[2] = "LF" /\ Len(Crlf) = 2 /\ 2 \in Nat /\ 2 >= 1
      BY DEF Crlf
    <3>5. Has(w, e, Crlf)
      <4>1. \A h \in 1 .. 2 : h = 1 \/ h = 2
        OBVIOUS
      <4>2. e + 1 - 1 = e /\ e + 2 - 1 = e + 1
        BY <3>1
      <4>3. QED
        BY <3>2, <3>4, <4>1, <4>2 DEF Has
    <3>6. Clear(w, from, e, Crlf[1])
      BY <3>3, <3>4
    <3>7. f.end \in Nat /\ (e < n => f.end = e) /\ (e >= n => f.end = 0 \/ f.end > n)
      <4>1. from \in Nat /\ from <= Size /\ e \in Nat /\ e >= 1 /\ from <= e
        BY <1>1, <2>3, <3>1
      <4>2. QED
        BY <3>4, <3>5, <3>6, <4>1, FindsPart DEF f
    <3>8. f.end = e \/ f.end > n
      BY <1>1, <1>6, <3>1, <3>7
    <3>9. QED
      BY <2>1, <2>2, <2>5, <3>8 DEF y, e
  <2>6. QED
    BY <2>4, <2>5
<1>7. QED
  BY <1>4, <1>5, <1>6

(* The ": " of a field, as far as it came.                                 *)
LEMMA NameCut ==
  ASSUME NEW r \in Requests, NEW buf, NEW n, NEW w, Cut(buf, n, r, w), NEW j \in 1 .. Len(r.fields),
         Ends(r, j - 1) + 2 <= n
  PROVE  LET f    == r.fields[j]
             from == Ends(r, j - 1) + 2
             name == Find(buf, 0, from, Colon).end IN
         name = 0 \/ name >= n \/ (f.sep # Colon /\ name >= Ends(r, j))
           \/ (f.sep = Colon /\ name = from + Len(f.key))
<1> DEFINE f    == r.fields[j]
           from == Ends(r, j - 1) + 2
           name == Find(buf, 0, from, Colon).end
           e    == Ends(r, j)
           a    == Len(f.key)
           b    == Len(f.sep)
           c    == Len(f.value)
           k    == from + a
<1>1. n \in Nat /\ n <= Size /\ Size \in Nat /\ Short(buf, n) /\ from <= n /\ \A i \in 0 .. n - 1 : buf[i] = w[i]
  BY CutTyped DEF Cut
<1>2. /\ f \in Fields /\ from \in Nat /\ e \in Nat
      /\ a \in Nat /\ a >= 1 /\ b \in Nat /\ c \in Nat /\ e = from + a + b + c
      /\ Has(w, from, f.key) /\ Has(w, from + a, f.sep) /\ Has(w, from + a + b, f.value)
  BY FieldLaid DEF Cut
<1> HIDE DEF f, from, name, e, a, b, c
<1>3. Clear(w, from, k, ":")
  <2>1. \A h \in from .. from + a - 1 : w[h] # ":"
    BY <1>2, PartsWithout, NoneIn DEF a
  <2>2. QED
    BY <1>2, <2>1 DEF Clear
<1>4. Colon[1] = ":" /\ Len(Colon) = 2 /\ 2 \in Nat /\ 2 >= 1 /\ k \in Nat /\ k >= 1 /\ from <= k
  BY <1>2 DEF Colon
<1> HIDE DEF k
<1>5. \A g \in Nat : from <= g /\ g <= k /\ g <= n => name = 0 \/ name >= g
  <2> SUFFICES ASSUME NEW g \in Nat, from <= g, g <= k, g <= n PROVE name = 0 \/ name >= g
    OBVIOUS
  <2>1. Clear(buf, from, g, Colon[1])
    <3> SUFFICES ASSUME NEW h \in from .. g - 1 PROVE buf[h] # ":"
      BY <1>4 DEF Clear
    <3>1. h \in from .. k - 1 /\ h \in 0 .. n - 1
      BY <1>1, <1>2, <1>4
    <3>2. QED
      BY <1>1, <1>3, <3>1 DEF Clear
  <2>2. name \in Nat /\ (name # 0 => g <= name)
    BY <1>1, <1>2, <1>4, <2>1, FindsFrom DEF name
  <2>3. QED
    BY <2>2
<1>6. CASE f.sep = Colon
  <2>1. Has(w, k, Colon) /\ Clear(w, from, k, Colon[1])
    BY <1>2, <1>3, <1>4, <1>6 DEF k
  <2>2. from <= Size
    BY <1>1, <1>2
  <2>3. name \in Nat /\ (k < n => name = k) /\ (k >= n => name = 0 \/ name > n)
    BY <1>2, <1>4, <2>1, <2>2, FindsPart DEF name
  <2>4. name = k \/ name = 0 \/ name >= n
    BY <1>1, <1>4, <2>3
  <2>5. QED
    BY <1>6, <2>4 DEF f, from, name, k, a
<1>7. CASE f.sep # Colon
  <2>1. b = 0 /\ c = 0
    <3>1. f.sep = <<>> /\ f.value = <<>>
      BY <1>2, <1>7, FieldTyped
    <3>2. QED
      BY <3>1 DEF b, c
  <2>2. e = k
    BY <1>2, <2>1 DEF k
  <2>3. name = 0 \/ name >= n \/ name >= e
    <3>1. CASE e <= n
      BY <1>2, <1>4, <1>5, <2>2, <3>1
    <3>2. CASE e > n
      <4>1. n <= k /\ n <= n
        BY <1>1, <1>2, <2>2, <3>2
      <4>2. QED
        BY <1>1, <1>5, <4>1
    <3>3. QED
      BY <1>1, <1>2, <3>1, <3>2
  <2>4. QED
    BY <1>7, <2>3 DEF f, from, name, e
<1>8. QED
  BY <1>6, <1>7

LEMMA Prefixed ==
  ASSUME NEW s \in Seq(Symbols), NEW t \in Seq(Symbols), NEW d \in Nat, Len(t) = d, d <= Len(s),
         \A h \in 1 .. d : t[h] = s[h]
  PROVE  IsPrefix(t, s)
<1>1. CASE d = 0
  <2>1. t = <<>>
    BY <1>1, EmptySeq
  <2>2. QED
    BY <2>1 DEF IsPrefix
<1>2. CASE d # 0
  <2> DEFINE z == 0
  <2>1. z \in Nat /\ z + 1 = 1 /\ z + d = d /\ d >= 1 /\ d <= Len(s) - z /\ d <= Len(t) - z /\ Len(s) \in Nat
        /\ \A h \in 1 .. d : z + h = h
    BY <1>2, LenProperties
  <2> HIDE DEF z
  <2>2. LET u == SubSeq(s, z + 1, z + d) IN u \in Seq(Symbols) /\ Len(u) = d /\ \A h \in 1 .. d : u[h] = s[z + h]
    BY <2>1, PartOf
  <2>3. LET u == SubSeq(t, z + 1, z + d) IN u \in Seq(Symbols) /\ Len(u) = d /\ \A h \in 1 .. d : u[h] = t[z + h]
    BY <2>1, PartOf
  <2>4. /\ SubSeq(s, 1, d) \in Seq(Symbols) /\ SubSeq(t, 1, d) \in Seq(Symbols)
        /\ Len(SubSeq(s, 1, d)) = d /\ Len(SubSeq(t, 1, d)) = d
        /\ \A h \in 1 .. d : SubSeq(s, 1, d)[h] = SubSeq(t, 1, d)[h]
    BY <2>1, <2>2, <2>3
  <2>5. SubSeq(s, 1, d) = SubSeq(t, 1, d)
    BY <2>4, SeqEqual
  <2>6. QED
    BY <2>5 DEF IsPrefix
<1>3. QED
  BY <1>1, <1>2

(* The value of a field, as far as it came.                                *)
LEMMA ValueCut ==
  ASSUME NEW r \in Requests, NEW buf, NEW n, NEW w, Cut(buf, n, r, w), NEW j \in 1 .. Len(r.fields),
         r.fields[j].sep = Colon, Ends(r, j - 1) + 2 + Len(r.fields[j].key) < n, n < Size
  PROVE  LET f    == r.fields[j]
             from == Ends(r, j - 1) + 2
             at   == from + Len(f.key) + 2
             end  == Find(buf, 0, from, Crlf).end IN
         end = 0 \/ ((end = Ends(r, j) \/ end > n) /\ (at <= end => IsPrefix(Text(buf, at, end), f.value)))
<1> DEFINE f    == r.fields[j]
           from == Ends(r, j - 1) + 2
           e    == Ends(r, j)
           a    == Len(f.key)
           b    == Len(f.sep)
           c    == Len(f.value)
           at   == from + a + 2
           end  == Find(buf, 0, from, Crlf).end
<1>1. n \in Nat /\ n <= Size /\ Size \in Nat /\ Short(buf, n) /\ from + a < n /\ \A i \in 0 .. n - 1 : buf[i] = w[i]
  BY CutTyped DEF Cut
<1>2. /\ f \in Fields /\ from \in Nat /\ e \in Nat
      /\ a \in Nat /\ a >= 1 /\ b \in Nat /\ c \in Nat /\ e = from + a + b + c
      /\ Has(w, from, f.key) /\ Has(w, from + a, f.sep) /\ Has(w, from + a + b, f.value)
      /\ w[e] = "CR" /\ w[e + 1] = "LF" /\ Clear(w, from, e, "CR")
  BY FieldLaid DEF Cut
<1>3. b = 2 /\ c = Len(f.value) /\ f.value \in Seq(Symbols)
  BY <1>2, FieldTyped DEF Colon
<1> HIDE DEF f, from, e, a, b, c, end
<1>4. at \in Nat /\ at <= e /\ e = at + c /\ from <= n /\ from <= e /\ e >= 1 /\ from <= Size /\ at = from + a + b
      /\ at <= n + 1
  <2>1. n \in Nat /\ n <= Size /\ Size \in Nat /\ from + a < n /\ from \in Nat /\ e \in Nat
        /\ a \in Nat /\ a >= 1 /\ b = 2 /\ c \in Nat /\ e = from + a + b + c
    BY <1>1, <1>2, <1>3
  <2>2. QED
    BY <2>1
<1> HIDE DEF at
<1>5. Has(w, at, f.value)
  BY <1>2, <1>4
<1>6. Crlf[1] = "CR" /\ Crlf[2] = "LF" /\ Len(Crlf) = 2 /\ 2 \in Nat /\ 2 >= 1
  BY DEF Crlf
<1>7. Has(w, e, Crlf)
  <2>1. \A h \in 1 .. 2 : h = 1 \/ h = 2
    OBVIOUS
  <2>2. e + 1 - 1 = e /\ e + 2 - 1 = e + 1
    BY <1>2
  <2>3. QED
    BY <1>2, <1>6, <2>1, <2>2 DEF Has
<1>8. end \in Nat /\ (e < n => end = e) /\ (e >= n => end = 0 \/ end > n)
  <2>1. Clear(w, from, e, Crlf[1])
    BY <1>2, <1>6
  <2>2. QED
    BY <1>2, <1>4, <1>6, <1>7, <2>1, FindsPart DEF end
<1>9. CASE e < n
  <2>1. end = e /\ e <= n
    BY <1>1, <1>2, <1>8, <1>9
  <2>2. Text(buf, at, e) = f.value
    <3>1. e = at + Len(f.value)
      BY <1>3, <1>4
    <3> DEFINE v == f.value
    <3>2. v \in Seq(Symbols) /\ Has(w, at, v) /\ at \in Nat /\ e \in Nat /\ e <= n /\ e = at + Len(v)
      BY <1>2, <1>3, <1>4, <1>5, <2>1, <3>1
    <3> HIDE DEF v
    <3>3. Text(buf, at, e) = v
      <4>1. Cut(buf, n, r, w)
        OBVIOUS
      <4> QED
        BY ONLY <3>2, <4>1, TextCut
    <3>4. QED
      BY <3>3 DEF v
  <2>3. IsPrefix(f.value, f.value)
    BY <1>3 DEF IsPrefix
  <2>4. QED
    BY <2>1, <2>2, <2>3 DEF f, from, e, a, at, end
<1>10. CASE e >= n /\ end # 0
  <2>1. end > n
    BY <1>8, <1>10
  <2>2. IsPrefix(Text(buf, at, end), f.value)
    <3>1. CASE at > n
      <4>1. Text(buf, at, end) = <<>>
        <5>1. n <= at /\ at <= Size /\ at <= end
          BY <1>1, <1>4, <1>8, <2>1, <3>1
        <5>2. QED
          BY <1>1, <1>4, <1>8, <5>1, TextPast
      <4>2. IsPrefix(<<>>, f.value)
        BY <1>3 DEF IsPrefix
      <4>3. QED
        BY <4>1, <4>2
    <3>2. CASE at <= n
      <4>1. NulFrom(buf, at) = n
        <5>1. at \in 0 .. Size
          BY <1>1, <1>4, <3>2
        <5>2. QED
          BY <1>1, <3>2, <5>1, NulAt
      <4>2. Text(buf, at, end) = Bytes(buf, at, n)
        BY <2>1, <4>1 DEF Text
      <4> DEFINE d == n - at
                 t == Bytes(buf, at, n)
      <4>3. d \in Nat /\ d <= c /\ at + d = n
        BY <1>1, <1>2, <1>4, <1>10, <3>2
      <4>4. t = [h \in 1 .. d |-> buf[at + h - 1]]
        BY DEF Bytes
      <4>5. \A h \in 1 .. d : buf[at + h - 1] = f.value[h]
        <5> SUFFICES ASSUME NEW h \in 1 .. d PROVE buf[at + h - 1] = f.value[h]
          OBVIOUS
        <5>1. h \in 1 .. c /\ at + h - 1 \in 0 .. n - 1
          BY <1>1, <1>2, <1>4, <4>3
        <5>2. QED
          BY <1>1, <1>3, <1>5, <5>1 DEF Has
      <4> HIDE DEF d, t
      <4>6. t \in Seq(Symbols) /\ Len(t) = d /\ \A h \in 1 .. d : t[h] = f.value[h]
        <5>1. \A h \in 1 .. d : f.value[h] \in Symbols
          BY <1>2, <1>3, <4>3, ElementOfSeq
        <5>2. t = [h \in 1 .. d |-> f.value[h]]
          BY <4>4, <4>5
        <5>3. QED
          BY <4>3, <5>1, <5>2
      <4>7. IsPrefix(t, f.value)
        BY <1>3, <4>3, <4>6, Prefixed
      <4>8. QED
        BY <4>2, <4>7 DEF t
    <3>3. QED
      BY <1>1, <1>4, <3>1, <3>2
  <2>3. QED
    BY <2>1, <2>2 DEF f, from, e, a, at, end
<1>11. QED
  <2>1. end = 0 => end = 0
    OBVIOUS
  <2>2. QED
    BY <1>1, <1>2, <1>9, <1>10 DEF end, from

(* The headers so far are those of the request, the last of them perhaps   *)
(* without the end of its value.                                           *)
Heading(r, headers) ==
  \A j \in 1 .. Len(headers) :
    /\ j \in 1 .. Len(r.fields)
    /\ headers[j].key = LowerCase(r.fields[j].key)
    /\ IsPrefix(headers[j].value, r.fields[j].value)

CutPassed(buf, n, r, x) ==
  /\ Carried(buf, n, x) /\ x.path = r.path /\ Heading(r, x.headers)
  /\ x.last > n \/ (Len(x.headers) <= Len(r.fields) /\ x.last = Ends(r, Len(x.headers)))

LEMMA HeadingAppend ==
  ASSUME NEW r, NEW headers \in Seq(Header), Heading(r, headers), NEW h \in Header,
         NEW j, j = Len(headers) + 1, j \in 1 .. Len(r.fields),
         h.key = LowerCase(r.fields[j].key), IsPrefix(h.value, r.fields[j].value)
  PROVE  Heading(r, Append(headers, h)) /\ Len(Append(headers, h)) = j
<1> DEFINE more == Append(headers, h)
<1>1. /\ Len(more) = j /\ more[j] = h /\ j \in Nat
      /\ \A g \in 1 .. j - 1 : more[g] = headers[g] /\ g \in 1 .. Len(headers)
  BY AppendProperties, LenProperties
<1> HIDE DEF more
<1>2. ASSUME NEW g \in 1 .. j
      PROVE  /\ g \in 1 .. Len(r.fields)
             /\ more[g].key = LowerCase(r.fields[g].key)
             /\ IsPrefix(more[g].value, r.fields[g].value)
  <2>1. CASE g = j
    BY <1>1, <2>1
  <2>2. CASE g # j
    <3>1. g \in 1 .. j - 1
      BY <1>1, <2>2
    <3>2. more[g] = headers[g] /\ g \in 1 .. Len(headers)
      BY <1>1, <3>1
    <3>3. QED
      BY <3>2 DEF Heading
  <2>3. QED
    BY <2>1, <2>2
<1>3. Heading(r, more)
  BY <1>1, <1>2 DEF Heading
<1>4. QED
  BY <1>1, <1>3 DEF more

(* A turn that reads a header.                                             *)
LEMMA HeaderRead ==
  ASSUME NEW x, Sane(x), x.status = "parsing", x.last # x.headers_end
  PROVE  LET from   == x.last + 2
             header == Find(x.buf, 0, from, Crlf).end
             name   == Find(x.buf, 0, from, Colon).end
             at     == name + 2
             y      == TakeHeader(x) IN
         \/ Stops(y)
         \/ /\ from \in Nat /\ from < Size /\ header \in Nat /\ name \in Nat
            /\ name # 0 /\ at <= header
            /\ y.buf = x.buf /\ y.length = x.length /\ y.status = "parsing" /\ y.headers_end = x.headers_end
            /\ y.path = x.path /\ y.body = x.body /\ y.last = header
            /\ y.headers = Append(x.headers, [key   |-> LowerCase(Text(x.buf, from, name)),
                                              value |-> Text(x.buf, at, header)])
<1> DEFINE from   == x.last + 2
           header == Find(x.buf, 0, from, Crlf)
           name   == Find(x.buf, 0, from, Colon)
           at     == name.end + 2
           key    == LowerCase(Text(x.buf, from, name.end))
           value  == Text(x.buf, at, header.end)
           told   == Atoi(Bytes(x.buf, from + Len(ContentLength) + 2, Size))
           length == IF key = ContentLength THEN told.value ELSE x.content_length
           one    == [key |-> key, value |-> value]
           next   == [x EXCEPT !.headers = Append(@, one), !.content_length = length, !.last = header.end]
           y      == TakeHeader(x)
<1>1. Len(Crlf) = 2 /\ Len(Colon) = 2 /\ from \in Nat /\ Size \in Nat /\ ValueSize \in Nat
  BY MarksTyped, Limits DEF Sane, Results
<1> HIDE DEF from
<1>2. y \in {Reject(x), Undefined(x)}
      \/ (from < Size /\ name.end # 0 /\ header.end - at \in 0 .. ValueSize - 1 /\ y = next)
  <2>1. x.last + Len(Crlf) = from
    BY <1>1 DEF from
  <2> HIDE DEF header, name, y, key, value, told
  <2>2. y = IF from >= Size \/ header.over \/ name.over THEN Undefined(x)
            ELSE IF name.end = 0 \/ ~HeaderRoom(x) THEN Reject(x)
            ELSE IF name.end - from >= KeySize \/ header.end - at \notin 0 .. ValueSize - 1 THEN Undefined(x)
            ELSE IF key = ContentLength /\ told.over THEN Undefined(x)
            ELSE next
    BY <1>1, <2>1 DEF TakeHeader, y, header, name, key, value, told
  <2> HIDE DEF next, at
  <2>3. QED
    BY <1>1, <2>2
<1>3. CASE y \in {Reject(x), Undefined(x)}
  <2>1. Stops(y)
    BY <1>3, StopsTyped
  <2>2. QED
    BY <2>1
<1>4. CASE from < Size /\ name.end # 0 /\ header.end - at \in 0 .. ValueSize - 1 /\ y = next
  <2>1. header.end \in Nat /\ name.end \in Nat
    BY <1>1, <1>4, FindHere
  <2> HIDE DEF header, name, y, length, one
  <2>2. at <= header.end
    BY <1>1, <1>4, <2>1
  <2>3. /\ y.buf = x.buf /\ y.length = x.length /\ y.status = "parsing" /\ y.headers_end = x.headers_end
        /\ y.path = x.path /\ y.body = x.body /\ y.last = header.end /\ y.headers = Append(x.headers, one)
    BY <1>4 DEF Sane, Results
  <2>4. QED
    BY <1>1, <1>4, <2>1, <2>2, <2>3 DEF y, header, name, one, from
<1>5. QED
  BY <1>2, <1>3, <1>4

LEMMA HeaderCut ==
  ASSUME NEW r \in Requests, NEW buf, NEW n, NEW w, Cut(buf, n, r, w), NEW x, CutPassed(buf, n, r, x)
  PROVE  LET y == TakeHeader(x) IN Stops(y) \/ CutPassed(buf, n, r, y)
<1> DEFINE from   == x.last + 2
           header == Find(buf, 0, from, Crlf).end
           name   == Find(buf, 0, from, Colon).end
           at     == name + 2
           one    == [key |-> LowerCase(Text(buf, from, name)), value |-> Text(buf, at, header)]
           y      == TakeHeader(x)
           k      == Len(r.fields)
           i      == Len(x.headers)
           j      == i + 1
<1>1. /\ n \in Nat /\ n <= Size /\ Size \in Nat /\ Short(buf, n) /\ buf \in Buffers
      /\ k \in Nat /\ \A h \in 0 .. n - 1 : buf[h] = w[h]
  BY CutTyped, RequestTyped DEF Cut
<1>2. /\ Carried(buf, n, x) /\ x.path = r.path /\ Heading(r, x.headers)
      /\ Sane(x) /\ x.buf = buf /\ x.length = n /\ x.body = <<>> /\ x.status = "parsing"
      /\ n < Size /\ n < x.headers_end + 4
  BY DEF CutPassed, Carried
<1>3. x.headers \in Seq(Header) /\ i \in Nat /\ x.last \in Nat
  BY <1>2, LenProperties DEF Sane, Results
<1>4. CASE x.last = x.headers_end
  <2>1. y = x
    BY <1>4 DEF TakeHeader
  <2>2. QED
    BY <2>1
<1>5. CASE x.last # x.headers_end /\ ~Stops(y)
  <2>1. /\ from \in Nat /\ from < Size /\ header \in Nat /\ name \in Nat
        /\ name # 0 /\ at <= header
        /\ y.buf = x.buf /\ y.length = x.length /\ y.status = "parsing" /\ y.headers_end = x.headers_end
        /\ y.path = x.path /\ y.body = x.body /\ y.last = header
        /\ y.headers = Append(x.headers, one)
    BY <1>2, <1>5, HeaderRead
  <2>2. Sane(y)
    BY <1>2, TakeHeaderSane
  <2> HIDE DEF y
  <2>3. Carried(buf, n, y) /\ y.path = r.path
    BY <1>2, <2>1, <2>2 DEF Carried
  <2> HIDE DEF header, name, one
  <2>4. header # 0
    BY <2>1
  <2>5. from <= n
    <3> SUFFICES ASSUME from > n PROVE FALSE
      BY <1>1, <2>1
    <3>1. from <= Size
      BY <1>1, <2>1
    <3> HIDE DEF from
    <3>2. header \in {0, from + 1} /\ name \in {0, from + 1}
      BY <1>1, <2>1, <3>1, EndsPast DEF header, name
    <3>3. QED
      BY <2>1, <3>2
  <2>6. i <= k /\ x.last = Ends(r, i)
    <3>1. ~(x.last > n)
      BY <1>1, <1>3, <2>5
    <3>2. QED
      BY <3>1 DEF CutPassed
  <2>7. header < n \/ header = n + 1
    <3>1. from <= from /\ Clear(buf, from, from, Crlf[1]) /\ Len(Crlf) \in Nat /\ Len(Crlf) >= 1
      BY <2>1, Patterns DEF Clear
    <3> HIDE DEF from
    <3>2. header \in Nat /\ (header # 0 => from <= header /\ (header < n \/ header = n + 1))
      BY <1>1, <2>1, <2>5, <3>1, FindsFrom DEF header
    <3>3. QED
      BY <2>4, <3>2
  <2>8. name < n
    BY <1>1, <2>1, <2>7
  <2>9. i # k
    <3> SUFFICES ASSUME i = k PROVE FALSE
      OBVIOUS
    <3>1. from = HeadersEnd(r) + 2 /\ HeadersEnd(r) \in Nat
      BY <2>6, Distances DEF HeadersEnd
    <3>2. w[from] = "CR" /\ n <= from + 1
      BY <1>1, <3>1 DEF Cut, Laid, HeadersEnd
    <3> HIDE DEF from
    <3>3. Clear(buf, from, n, Colon[1])
      <4> SUFFICES ASSUME NEW h \in from .. n - 1 PROVE buf[h] # ":"
        BY DEF Clear, Colon
      <4>1. h = from /\ h \in 0 .. n - 1
        BY <1>1, <2>1, <3>2
      <4>2. QED
        BY <1>1, <3>2, <4>1
    <3>4. Len(Colon) \in Nat /\ Len(Colon) >= 1 /\ n <= n
      BY <1>1, Patterns
    <3>5. name # 0 => n <= name
      BY <1>1, <2>1, <2>5, <3>3, <3>4, FindsFrom DEF name
    <3>6. QED
      BY <1>1, <2>1, <2>8, <3>5
  <2>10. j \in 1 .. k /\ j - 1 = i /\ from = Ends(r, j - 1) + 2
    BY <1>1, <1>3, <2>6, <2>9
  <2> DEFINE f == r.fields[j]
             e == Ends(r, j)
             a == Len(f.key)
  <2>11. f \in Fields /\ a \in Nat /\ e \in Nat /\ Has(w, from, f.key) /\ w[e] = "CR" /\ w[e + 1] = "LF"
         /\ Clear(w, from, e, "CR") /\ from <= e /\ e >= 1 /\ f.key \in Seq(Symbols)
    <3> HIDE DEF from, j
    <3> DEFINE b == Len(f.sep)
               c == Len(f.value)
    <3>1. /\ f \in Fields /\ e \in Nat
          /\ a \in Nat /\ a >= 1 /\ b \in Nat /\ c \in Nat /\ e = from + a + b + c
          /\ Has(w, from, f.key) /\ w[e] = "CR" /\ w[e + 1] = "LF" /\ Clear(w, from, e, "CR")
      BY <2>10, FieldLaid DEF Cut
    <3>2. f.key \in Seq(Symbols)
      BY <3>1, FieldTyped
    <3> HIDE DEF f, e, a, b, c
    <3>3. from <= e /\ e >= 1
      BY <2>1, <3>1
    <3>4. QED
      BY <3>1, <3>2, <3>3
  <2> HIDE DEF j, from
  <2>12. name = 0 \/ name >= n \/ (f.sep # Colon /\ name >= e) \/ (f.sep = Colon /\ name = from + a)
    <3>1. Ends(r, j - 1) + 2 <= n
      BY <2>5, <2>10
    <3>2. QED
      BY <2>10, <3>1, NameCut DEF name
  <2>13. f.sep = Colon /\ name = from + a
    <3> SUFFICES ASSUME f.sep # Colon, name >= e PROVE FALSE
      BY <1>1, <2>1, <2>8, <2>12
    <3> HIDE DEF e, f, a
    <3>1. header # e
      BY <2>1, <2>11
    <3>2. e < n
      BY <1>1, <2>1, <2>8, <2>11
    <3>3. Has(w, e, Crlf) /\ Clear(w, from, e, Crlf[1]) /\ Len(Crlf) = 2 /\ 2 \in Nat /\ 2 >= 1
      <4>1. \A h \in 1 .. 2 : h = 1 \/ h = 2
        OBVIOUS
      <4>2. e + 1 - 1 = e /\ e + 2 - 1 = e + 1
        BY <2>11
      <4>3. QED
        BY <2>11, <4>1, <4>2 DEF Has, Crlf
    <3>4. from \in Nat /\ from <= Size /\ e \in Nat /\ e >= 1 /\ from <= e
      BY <1>1, <2>1, <2>11
    <3>5. header = e
      <4>1. header \in Nat /\ (e < n => header = e) /\ (e >= n => header = 0 \/ header > n)
        BY <3>3, <3>4, FindsPart DEF header
      <4>2. QED
        BY <3>2, <4>1
    <3>6. QED
      BY <3>1, <3>5
  <2>14. one.key = LowerCase(f.key)
    <3>1. name <= n /\ name = from + Len(f.key)
      BY <1>1, <2>1, <2>8, <2>13
    <3>2. Text(buf, from, name) = f.key
      <4> DEFINE v == f.key
      <4>1. v \in Seq(Symbols) /\ Has(w, from, v) /\ from \in Nat /\ name \in Nat /\ name <= n /\ name = from + Len(v)
        BY <2>1, <2>11, <3>1
      <4> HIDE DEF v
      <4>2. Cut(buf, n, r, w)
        OBVIOUS
      <4>3. Text(buf, from, name) = v
        BY ONLY <4>1, <4>2, TextCut
      <4>4. QED
        BY <4>3 DEF v
    <3>3. QED
      BY <3>2 DEF one
  <2>15. (header = e \/ header > n) /\ IsPrefix(one.value, f.value)
    <3> DEFINE p == Ends(r, j - 1) + 2
               q == p + Len(f.key) + 2
               z == Find(buf, 0, p, Crlf).end
    <3>1. p = from /\ q = at /\ z = header
      BY <2>10, <2>13 DEF header
    <3>2. Ends(r, j - 1) + 2 + Len(f.key) < n
      BY <2>8, <2>10, <2>13
    <3>3. z = 0 \/ ((z = e \/ z > n) /\ (q <= z => IsPrefix(Text(buf, q, z), f.value)))
      BY <1>2, <2>10, <2>13, <3>2, ValueCut
    <3> HIDE DEF p, q, z, e, f, at
    <3>4. one.value = Text(buf, at, header)
      BY DEF one
    <3>5. QED
      BY <2>1, <2>4, <3>1, <3>3, <3>4
  <2>16. one \in Header
    <3>1. Text(buf, from, name) \in Seq(Symbols) /\ Text(buf, at, header) \in Seq(Symbols)
      <4>1. from \in 0 .. Size /\ at \in 0 .. Size /\ name \in Int /\ header \in Int
        BY <1>1, <1>2, <2>1, <2>7
      <4>2. QED
        BY <1>1, <4>1, TextSane
    <3>2. QED
      BY <3>1, LowerCaseSane DEF one, Header
  <2>17. Heading(r, y.headers) /\ Len(y.headers) = j
    <3>1. j = Len(x.headers) + 1
      BY DEF j
    <3> HIDE DEF f
    <3>2. Heading(r, Append(x.headers, one)) /\ Len(Append(x.headers, one)) = j
      BY <1>2, <1>3, <2>10, <2>14, <2>15, <2>16, <3>1, HeadingAppend DEF f
    <3>3. QED
      BY <2>1, <3>2
  <2>18. y.last > n \/ (Len(y.headers) <= k /\ y.last = Ends(r, Len(y.headers)))
    BY <1>1, <2>1, <2>10, <2>15, <2>17
  <2>19. QED
    BY <2>3, <2>17, <2>18 DEF CutPassed, y
<1>6. QED
  BY <1>4, <1>5

(* All the turns.                                                          *)
Cutting(p, x, i) == Stops(x) \/ CutPassed(p.buf, p.n, p.r, x)
CutTurns == INSTANCE Recursion WITH Base <- ReadingBase, Step <- ReadingStep, Holds <- Cutting

LEMMA HeadersCut ==
  ASSUME NEW r \in Requests, NEW buf, NEW n, NEW w, Cut(buf, n, r, w), NEW x, Carried(buf, n, x),
         x.headers = <<>>, x.path = r.path, x.last = Top(r) \/ x.last > n
  PROVE  LET y == TakeHeaders(x) IN Stops(y) \/ CutPassed(buf, n, r, y)
<1> DEFINE y == TakeHeaders(x)
           p == [buf |-> buf, n |-> n, r |-> r, x |-> x]
           m == MaxHeaders + 1
           z == 0
<1>1. z \in Int /\ m \in Int /\ z <= m
  BY Limits
<1>2. CutPassed(buf, n, r, x)
  <2>1. Len(x.headers) = 0 /\ 0 <= Len(r.fields) /\ Ends(r, 0) = Top(r)
    BY RequestTyped, EndsFollow
  <2>2. Heading(r, x.headers)
    BY <2>1 DEF Heading
  <2>3. QED
    BY <2>1, <2>2 DEF CutPassed
<1>3. p.buf = buf /\ p.n = n /\ p.r = r /\ p.x = x
  OBVIOUS
<1>4. y = CutTurns!Run(p, z, m)[m]
  BY <1>3 DEF TakeHeaders, CutTurns!Run, CutTurns!Loop, ReadingBase, ReadingStep
<1> HIDE DEF p, y, m, z
<1>5. Cutting(p, ReadingBase(p), z)
  BY <1>2, <1>3 DEF Cutting, ReadingBase
<1>6. ASSUME NEW i \in z + 1 .. m, NEW v, Cutting(p, v, i - 1) PROVE Cutting(p, ReadingStep(p, v, i), i)
  <2>1. CASE Stops(v)
    BY <2>1 DEF Cutting, ReadingStep, Then, Stops
  <2>2. CASE CutPassed(buf, n, r, v)
    <3>1. v.status = "parsing"
      BY <2>2 DEF CutPassed, Carried
    <3>2. ReadingStep(p, v, i) = TakeHeader(v)
      BY <3>1 DEF ReadingStep, Then
    <3>3. QED
      BY <1>3, <2>2, <3>2, HeaderCut DEF Cutting
  <2>3. QED
    BY <1>3, <1>6, <2>1, <2>2 DEF Cutting
<1>7. Cutting(p, CutTurns!Run(p, z, m)[m], m)
  BY <1>1, <1>5, <1>6, CutTurns!Invariant
<1>8. QED
  BY <1>3, <1>4, <1>7 DEF Cutting, y

(* There is no body: of a length that was told not all came, and a chunk   *)
(* is read behind the text.                                                *)
LEMMA ChunkCut ==
  ASSUME NEW r \in Requests, NEW buf, NEW n, NEW w, Cut(buf, n, r, w), NEW x, Carried(buf, n, x)
  PROVE  LET y == TakeChunk(x) IN Stops(y) \/ y = [x EXCEPT !.body = <<>>]
<1> DEFINE base == x.headers_end + 4
           size == Find(buf, base, 0, Crlf)
           room == ChunkRoom(x, size.end)
           told == Hex[Text(buf, base, base + size.end)]
           from == base + size.end + 2
           l    == IF room > told THEN told ELSE room
           y    == TakeChunk(x)
<1>1. /\ Sane(x) /\ x.buf = buf /\ x.length = n /\ base \in Nat /\ n < base /\ x.headers_end \in Nat
      /\ n \in Nat /\ Size \in Nat /\ Short(buf, n)
  <2>1. x.headers_end \in Nat
    BY DEF Carried, Sane, Results
  <2>2. QED
    BY <2>1, CutTyped DEF Carried, Cut
<1>2. y = IF base >= Size \/ size.over THEN Undefined(x)
          ELSE IF size.end = 0 THEN Reject(x)
          ELSE IF size.end >= ChunkSize \/ l < 0 \/ from + l > Size THEN Undefined(x)
          ELSE [x EXCEPT !.body = Bytes(buf, from, from + l)]
  <2> HIDE DEF room, told, size
  <2>1. QED
    BY <1>1 DEF TakeChunk, room, told, size
<1>3. CASE base >= Size
  BY <1>1, <1>2, <1>3, StopsTyped
<1>4. CASE base < Size
  <2>1. size.end \in Nat
    <3>1. n <= base + 0 /\ base + 0 <= Size /\ 0 \in Nat /\ Len(Crlf) \in Nat /\ Len(Crlf) >= 1
      BY <1>1, <1>4, Patterns
    <3> HIDE DEF base
    <3>2. size.end \in {0, 0 + 1}
      BY <1>1, <3>1, FindsPast
    <3>3. QED
      BY <3>2
  <2>2. told = 0
    <3> DEFINE e == base + size.end
               nul == NulFrom(buf, base)
               b == IF nul < e THEN nul ELSE e
    <3>1. nul = base
      <4>1. base \in 0 .. Size /\ ~(base <= n)
        BY <1>1, <1>4
      <4> HIDE DEF base
      <4>2. QED
        BY <1>1, <4>1, NulAt
    <3>2. base \in Nat /\ e >= base /\ e \in Nat
      BY <1>1, <2>1
    <3> HIDE DEF nul, e, base
    <3>3. b = base /\ b - base = 0
      BY <3>1, <3>2
    <3>4. Text(buf, base, e) = [i \in 1 .. b - base |-> buf[base + i - 1]]
      BY DEF Text, Bytes, nul
    <3> HIDE DEF b
    <3>5. Text(buf, base, e) = [i \in 1 .. 0 |-> buf[base + i - 1]]
      BY <3>3, <3>4
    <3>6. Text(buf, base, e) = <<>>
      BY <3>5
    <3>7. QED
      BY <3>6, ParserAssumption DEF e
  <2> HIDE DEF base, size, told, y
  <2>3. room \in Int
    BY <1>1, <2>1 DEF ChunkRoom
  <2> HIDE DEF room
  <2>4. l >= 0 => l = 0
    BY <2>2, <2>3
  <2>5. l \in Int
    BY <2>2, <2>3
  <2>6. from \in Nat
    BY <1>1, <2>1
  <2> HIDE DEF l, from
  <2>7. Bytes(buf, from, from + 0) = <<>>
    <3>1. 1 .. (from + 0) - from = {}
      BY <2>6
    <3>2. QED
      BY <3>1 DEF Bytes
  <2>8. y \in {Undefined(x), Reject(x)} \/ (l = 0 /\ y = [x EXCEPT !.body = Bytes(buf, from, from + l)])
    <3>1. CASE l < 0
      BY <1>2, <3>1
    <3>2. CASE l >= 0
      BY <1>2, <2>4, <3>2
    <3>3. QED
      BY <2>5, <3>1, <3>2
  <2>9. CASE y \in {Undefined(x), Reject(x)}
    BY <1>1, <2>9, StopsTyped DEF y
  <2>10. CASE l = 0 /\ y = [x EXCEPT !.body = Bytes(buf, from, from + l)]
    BY <2>7, <2>10 DEF y
  <2>11. QED
    BY <2>8, <2>9, <2>10
<1>5. QED
  BY <1>1, <1>3, <1>4

LEMMA BodyCut ==
  ASSUME NEW r \in Requests, NEW buf, NEW n, NEW w, Cut(buf, n, r, w), NEW x, CutPassed(buf, n, r, x)
  PROVE  LET y == TakeBody(x) IN
         Stops(y) \/ (Sane(y) /\ y.status = "parsing" /\ y.path = r.path /\ Heading(r, y.headers) /\ y.body = <<>>)
<1> DEFINE y == TakeBody(x)
<1>1. /\ Carried(buf, n, x) /\ Sane(x) /\ Sane(y) /\ x.status = "parsing" /\ x.path = r.path /\ Heading(r, x.headers)
      /\ x.body = <<>> /\ x.length = n
  BY TakeBodySane DEF CutPassed, Carried
<1>2. y \in {x, Reject(x), TakeChunk(x), TakeLength(x)}
  BY DEF TakeBody
<1>3. TakeLength(x) \in {Reject(x), Undefined(x)}
  <2>1. n \in Nat /\ x.headers_end \in Nat /\ n < x.headers_end + 4 /\ x.content_length \in Int
    BY <1>1, CutTyped DEF Carried, Sane, Results
  <2> DEFINE from == x.headers_end + 4
  <2>2. TakeLength(x) = IF n - from # x.content_length THEN Reject(x)
                        ELSE IF x.content_length < 0 THEN Undefined(x)
                        ELSE [x EXCEPT !.body = Bytes(x.buf, from, from + x.content_length)]
    BY <1>1 DEF TakeLength
  <2>3. n - from < 0
    BY <2>1
  <2> HIDE DEF from
  <2>4. QED
    BY <2>1, <2>2, <2>3
<1>4. Stops(TakeChunk(x)) \/ TakeChunk(x) = [x EXCEPT !.body = <<>>]
  BY <1>1, ChunkCut
<1> HIDE DEF y
<1>5. CASE Stops(y)
  BY <1>5 DEF y
<1>6. CASE y = x
  BY <1>1, <1>6 DEF y
<1>7. CASE y = [x EXCEPT !.body = <<>>]
  <2>1. y.status = "parsing" /\ y.path = r.path /\ y.headers = x.headers /\ y.body = <<>>
    BY <1>1, <1>7 DEF Sane, Results
  <2>2. QED
    BY <1>1, <2>1 DEF y
<1>8. QED
  BY <1>1, <1>2, <1>3, <1>4, <1>5, <1>6, <1>7, StopsTyped
-----------------------------------------------------------------------------
(* The whole parse of what began with a request and had nothing older      *)
(* behind it.                                                              *)

(* What CutKeepsRequest says of the last recv.                             *)
Keeps(r, p) ==
  /\ p.path = r.path /\ Heading(r, p.headers)
  /\ Sensible(r) /\ ~Blanked(r) /\ ~IsChunked(r) => p.body \in {<<>>, r.body}

LEMMA AcceptKeeps ==
  ASSUME NEW r, NEW x, Sane(x), Keeps(r, x)
  PROVE  Keeps(r, Accept(x))
BY DEF Keeps, Accept, Sane, Results

LEMMA ParseCut ==
  ASSUME NEW r \in Requests, NEW buf, NEW n, NEW w, Cut(buf, n, r, w)
  PROVE  Stops(Parse(buf, n)) \/ Keeps(r, Parse(buf, n))
<1> DEFINE r0 == Request(buf, n)
           r1 == Then(r0, FindHeadersEnd)
           r2 == Then(r1, TakeMethod)
           r3 == Then(r2, TakePath)
           r4 == Then(r3, TakeVersion)
           r5 == Then(r4, TakeHeaders)
           r6 == Then(r5, TakeBody)
           p  == Then(r6, Accept)
<1>1. Parse(buf, n) = p
  BY DEF Parse
<1>2. r1 = FindHeadersEnd(r0)
  BY DEF Then, Request
<1>3. Stops(r1) \/ (Carried(buf, n, r1) /\ r1.headers = <<>>)
  BY <1>2, HeadersEndCut DEF r0
<1> HIDE DEF r0, r1
<1>4. (Stops(r1) => r2 = r1) /\ (r1.status = "parsing" => r2 = TakeMethod(r1))
  BY DEF Then, Stops
<1> HIDE DEF r2
<1>5. (Stops(r2) => r3 = r2) /\ (r2.status = "parsing" => r3 = TakePath(r2))
  BY DEF Then, Stops
<1> HIDE DEF r3
<1>6. (Stops(r3) => r4 = r3) /\ (r3.status = "parsing" => r4 = TakeVersion(r3))
  BY DEF Then, Stops
<1> HIDE DEF r4
<1>7. (Stops(r4) => r5 = r4) /\ (r4.status = "parsing" => r5 = TakeHeaders(r4))
  BY DEF Then, Stops
<1> HIDE DEF r5
<1>8. (Stops(r5) => r6 = r5) /\ (r5.status = "parsing" => r6 = TakeBody(r5))
  BY DEF Then, Stops
<1> HIDE DEF r6
<1>9. (Stops(r6) => p = r6) /\ (r6.status = "parsing" => p = Accept(r6))
  BY DEF Then, Stops
<1> HIDE DEF p
<1>10. \A x : Carried(buf, n, x) => x.status = "parsing"
  BY DEF Carried
<1>11. Stops(r2) \/ (Carried(buf, n, r2) /\ r2.headers = <<>> /\ (r2.last = Len(r.method) \/ r2.last > n))
  <2>1. CASE Stops(r1)
    BY <1>4, <2>1
  <2>2. CASE Carried(buf, n, r1) /\ r1.headers = <<>>
    BY <1>4, <1>10, <2>2, MethodCut
  <2>3. QED
    BY <1>3, <2>1, <2>2
<1>12. Stops(r3) \/ (/\ Carried(buf, n, r3) /\ r3.headers = <<>>
                     /\ (r3.path = r.path /\ r3.last = PathEnd(r)) \/ r3.last > n)
  <2>1. CASE Stops(r2)
    BY <1>5, <2>1
  <2>2. CASE Carried(buf, n, r2) /\ r2.headers = <<>> /\ (r2.last = Len(r.method) \/ r2.last > n)
    BY <1>5, <1>10, <2>2, PathCut
  <2>3. QED
    BY <1>11, <2>1, <2>2
<1>13. Stops(r4) \/ (/\ Carried(buf, n, r4) /\ r4.headers = <<>> /\ r4.path = r.path
                     /\ r4.last = Top(r) \/ r4.last > n)
  <2>1. CASE Stops(r3)
    BY <1>6, <2>1
  <2>2. CASE /\ Carried(buf, n, r3) /\ r3.headers = <<>>
             /\ (r3.path = r.path /\ r3.last = PathEnd(r)) \/ r3.last > n
    BY <1>6, <1>10, <2>2, VersionCut
  <2>3. QED
    BY <1>12, <2>1, <2>2
<1>14. Stops(r5) \/ CutPassed(buf, n, r, r5)
  <2>1. CASE Stops(r4)
    BY <1>7, <2>1
  <2>2. CASE /\ Carried(buf, n, r4) /\ r4.headers = <<>> /\ r4.path = r.path
             /\ r4.last = Top(r) \/ r4.last > n
    BY <1>7, <1>10, <2>2, HeadersCut
  <2>3. QED
    BY <1>13, <2>1, <2>2
<1>15. \/ Stops(r6)
       \/ /\ Sane(r6) /\ r6.status = "parsing" /\ r6.path = r.path /\ Heading(r, r6.headers) /\ r6.body = <<>>
  <2>1. CASE Stops(r5)
    BY <1>8, <2>1
  <2>2. CASE CutPassed(buf, n, r, r5)
    <3>1. r5.status = "parsing"
      BY <2>2, <1>10 DEF CutPassed
    <3>2. QED
      BY <1>8, <2>2, <3>1, BodyCut
  <2>3. QED
    BY <1>14, <2>1, <2>2
<1>16. CASE Stops(r6)
  BY <1>1, <1>9, <1>16
<1>17. CASE /\ Sane(r6) /\ r6.status = "parsing" /\ r6.path = r.path /\ Heading(r, r6.headers) /\ r6.body = <<>>
  <2>1. Keeps(r, r6)
    BY <1>17 DEF Keeps
  <2>2. QED
    BY <1>1, <1>9, <1>17, <2>1, AcceptKeeps
<1>18. QED
  BY <1>15, <1>16, <1>17

(* All the lines came, and the whole body if as much came as was sent.     *)
Opened(buf, n, r) ==
  /\ Headed(buf, n, r)
  /\ n = Len(Wired[r]) => Has(buf, HeadersEnd(r) + 4, r.body)

LEMMA HeadsHeading ==
  ASSUME NEW r \in Requests
  PROVE  Heading(r, Heads(r, Len(r.fields)))
<1> DEFINE k == Len(r.fields)
<1>1. k \in Nat /\ Len(Heads(r, k)) = k
  BY RequestTyped, HeadsTyped
<1>2. ASSUME NEW j \in 1 .. k
      PROVE  /\ Heads(r, k)[j].key = LowerCase(r.fields[j].key)
             /\ IsPrefix(Heads(r, k)[j].value, r.fields[j].value)
  <2>1. Heads(r, k)[j].key = LowerCase(r.fields[j].key) /\ Heads(r, k)[j].value = r.fields[j].value
    BY DEF Heads
  <2>2. r.fields[j].value \in Seq(Symbols)
    BY PartsTyped, FieldTyped, RequestTyped, ElementOfSeq
  <2>3. IsPrefix(r.fields[j].value, r.fields[j].value)
    <3>1. Len(r.fields[j].value) \in Nat
      BY <2>2, LenProperties
    <3>2. QED
      BY <2>2, <3>1, Prefixed
  <2>4. QED
    BY <2>1, <2>3
<1>3. QED
  BY <1>1, <1>2 DEF Heading

LEMMA BodyOpened ==
  ASSUME NEW r \in Requests, NEW buf, NEW n, Opened(buf, n, r),
         NEW x, Sane(x), x.status = "parsing", Passed(buf, n, r, x, Len(r.fields))
  PROVE  LET y == TakeBody(x) IN Stops(y) \/ (Sane(y) /\ y.status = "parsing" /\ Keeps(r, y))
<1> DEFINE y     == TakeBody(x)
           at    == HeadersEnd(r) + 4
           told  == x.content_length
           b     == Bytes(x.buf, at, at + told)
           none  == told <= 0 /\ Keyed(r, TransferEncoding) = {}
           typed == Keyed(r, ContentType) # {}
           plain == Sensible(r) /\ ~Blanked(r) /\ ~IsChunked(r)
<1>1. Sane(y)
  BY TakeBodySane
<1>2. /\ x.path = r.path /\ x.headers = Heads(r, Len(r.fields)) /\ x.body = <<>>
      /\ x.length = n /\ x.headers_end + 4 = at
      /\ ~Blanked(r) => told = Declared(r)
  BY ToldDeclared DEF Passed
<1>3. told \in Int /\ Heading(r, x.headers)
  BY <1>2, HeadsHeading DEF Sane, Results
<1>4. /\ GetHeader(x, ContentType) = {} <=> ~typed
      /\ GetHeader(x, TransferEncoding) = {} <=> Keyed(r, TransferEncoding) = {}
      /\ GetHeader(x, TransferEncoding) = {Chunked} <=> IsChunked(r)
  BY <1>2, HeaderGot DEF IsChunked
<1>5. y = IF none THEN x ELSE IF ~typed THEN Reject(x) ELSE IF IsChunked(r) THEN TakeChunk(x) ELSE TakeLength(x)
  BY <1>4 DEF TakeBody
<1>6. \A text : LET z == [x EXCEPT !.body = text] IN
                z.status = "parsing" /\ z.path = x.path /\ z.headers = x.headers /\ z.body = text
  BY DEF Sane, Results
<1>7. TakeLength(x) = IF n - at # told THEN Reject(x)
                      ELSE IF told < 0 THEN Undefined(x)
                      ELSE [x EXCEPT !.body = b]
  BY <1>2 DEF TakeLength
<1>8. TakeChunk(x) \in {Undefined(x), Reject(x)} \/ \E text : TakeChunk(x) = [x EXCEPT !.body = text]
  BY DEF TakeChunk
<1> HIDE DEF y, b, none, typed, plain
<1>9. ASSUME NEW text, y = [x EXCEPT !.body = text], plain => text \in {<<>>, r.body}
      PROVE  Sane(y) /\ y.status = "parsing" /\ Keeps(r, y)
  BY <1>1, <1>2, <1>3, <1>6, <1>9 DEF Keeps, plain
<1>10. CASE none
  BY <1>1, <1>2, <1>3, <1>5, <1>10 DEF Keeps, y
<1>11. CASE ~none /\ ~typed
  BY <1>5, <1>11, StopsTyped DEF y
<1>12. CASE ~none /\ typed /\ IsChunked(r)
  <2>1. y = TakeChunk(x)
    BY <1>5, <1>12
  <2>2. CASE y \in {Undefined(x), Reject(x)}
    BY <2>2, StopsTyped DEF y
  <2>3. ASSUME NEW text, y = [x EXCEPT !.body = text]
        PROVE  Sane(y) /\ y.status = "parsing" /\ Keeps(r, y)
    BY <1>9, <1>12, <2>3 DEF plain
  <2>4. QED
    BY <1>8, <2>1, <2>2, <2>3 DEF y
<1>13. CASE ~none /\ typed /\ ~IsChunked(r)
  <2>1. y = TakeLength(x)
    BY <1>5, <1>13
  <2>2. CASE y \in {Undefined(x), Reject(x)}
    BY <2>2, StopsTyped DEF y
  <2>3. CASE y = [x EXCEPT !.body = b] /\ n - at = told
    <3>1. plain => b = r.body
      <4>1. SUFFICES ASSUME plain PROVE b = r.body
        OBVIOUS
      <4>2. told = Declared(r) /\ HasBody(r)
        BY <1>2, <1>3, <1>13, <4>1 DEF HasBody, none, plain
      <4>3. Len(r.body) = told /\ Len(r.body) \in Nat /\ r.body \in Seq(Symbols)
        BY <1>13, <4>1, <4>2, RequestTyped DEF Sensible, plain
      <4>4. n \in Nat /\ HeadersEnd(r) \in Nat /\ Len(Wired[r]) = HeadersEnd(r) + 4 + Len(r.body)
            /\ Size \in Nat /\ n <= Size
        BY Distances, Limits DEF Opened, Headed
      <4> HIDE DEF told
      <4>5. n = Len(Wired[r])
        BY <2>3, <4>3, <4>4
      <4>6. Has(buf, at, r.body)
        BY <4>5 DEF Opened
      <4>7. Occurs(buf, at, r.body, Len(r.body))
        BY <4>6 DEF Has, Occurs
      <4>8. Bytes(buf, at, at + Len(r.body)) = r.body
        <5>1. at \in Nat
          BY <4>4
        <5> HIDE DEF at
        <5>2. QED
          BY <4>3, <4>7, <5>1, OccursBytes
      <4>9. x.buf = buf
        BY DEF Passed
      <4>10. QED
        BY <4>3, <4>8, <4>9 DEF b
    <3>2. plain => b \in {<<>>, r.body}
      BY <3>1
    <3>3. Sane(y) /\ y.status = "parsing" /\ Keeps(r, y)
      BY <1>9, <2>3, <3>2
    <3>4. QED
      BY <3>3 DEF y
  <2>4. QED
    BY <1>7, <2>1, <2>2, <2>3
<1>14. QED
  BY <1>10, <1>11, <1>12, <1>13

LEMMA ParseOpened ==
  ASSUME NEW r \in Requests, NEW buf, NEW n, Opened(buf, n, r)
  PROVE  Stops(Parse(buf, n)) \/ Keeps(r, Parse(buf, n))
<1> DEFINE r0 == Request(buf, n)
           r1 == Then(r0, FindHeadersEnd)
           r2 == Then(r1, TakeMethod)
           r3 == Then(r2, TakePath)
           r4 == Then(r3, TakeVersion)
           r5 == Then(r4, TakeHeaders)
           r6 == Then(r5, TakeBody)
           p  == Then(r6, Accept)
           x1 == Read(buf, n, r, <<>>, 0)
           x2 == Read(buf, n, r, <<>>, Len(r.method))
           x3 == Read(buf, n, r, r.path, PathEnd(r))
           x4 == Read(buf, n, r, r.path, Top(r))
<1>1. Headed(buf, n, r) /\ Parse(buf, n) = p
  BY DEF Opened, Parse
<1>2. x1.status = "parsing" /\ x2.status = "parsing" /\ x3.status = "parsing" /\ x4.status = "parsing"
  BY ReadFields
<1>3. Stops(Undefined(x1)) /\ Stops(Reject(x1)) /\ Stops(Undefined(x3)) /\ Stops(Reject(x3))
  BY DEF Read, Undefined, Reject, Stops
<1>4. r1 = x1
  <2>1. r1 = FindHeadersEnd(r0)
    BY DEF Then, Request
  <2>2. FindHeadersEnd(r0) = x1
    BY <1>1, HeadersEndFound
  <2>3. QED
    BY ONLY <2>1, <2>2
<1> HIDE DEF r0, r1
<1>5. r1.status = "parsing" => r2 = TakeMethod(r1)
  BY DEF Then
<1> HIDE DEF r2
<1>6. (Stops(r2) => r3 = r2) /\ (r2.status = "parsing" => r3 = TakePath(r2))
  BY DEF Then, Stops
<1> HIDE DEF r3
<1>7. (Stops(r3) => r4 = r3) /\ (r3.status = "parsing" => r4 = TakeVersion(r3))
  BY DEF Then, Stops
<1> HIDE DEF r4
<1>8. (Stops(r4) => r5 = r4) /\ (r4.status = "parsing" => r5 = TakeHeaders(r4))
  BY DEF Then, Stops
<1> HIDE DEF r5
<1>9. (Stops(r5) => r6 = r5) /\ (r5.status = "parsing" => r6 = TakeBody(r5))
  BY DEF Then, Stops
<1> HIDE DEF r6
<1>10. (Stops(r6) => p = r6) /\ (r6.status = "parsing" => p = Accept(r6))
  BY DEF Then, Stops
<1> HIDE DEF p
<1>11. TakeMethod(x1) \in {Undefined(x1), Reject(x1), x2}
  BY <1>1, MethodTaken
<1>12. TakePath(x2) = x3
  BY <1>1, PathTaken
<1>13. TakeVersion(x3) \in {Undefined(x3), Reject(x3), x4}
  BY <1>1, VersionTaken
<1>14. LET y == TakeHeaders(x4) IN
       Sane(y) /\ (Stops(y) \/ (y.status = "parsing" /\ Passed(buf, n, r, y, Len(r.fields))))
  BY <1>1, HeadersTaken DEF Stuck, Stops
<1> HIDE DEF x1, x2, x3, x4
<1>15. Stops(r2) \/ r2 = x2
  BY <1>2, <1>3, <1>4, <1>5, <1>11
<1>16. Stops(r3) \/ r3 = x3
  BY <1>2, <1>6, <1>12, <1>15
<1>17. Stops(r4) \/ r4 = x4
  BY <1>2, <1>3, <1>7, <1>13, <1>16
<1>18. Stops(r5) \/ (Sane(r5) /\ r5.status = "parsing" /\ Passed(buf, n, r, r5, Len(r.fields)))
  BY <1>2, <1>8, <1>14, <1>17
<1>19. Stops(r6) \/ (Sane(r6) /\ r6.status = "parsing" /\ Keeps(r, r6))
  BY <1>9, <1>18, BodyOpened
<1>20. QED
  BY <1>1, <1>10, <1>19, AcceptKeeps

-----------------------------------------------------------------------------
(* What recv brings of a request is in payload as it was sent              *)
(* (listen_messages, httpserver.c:113).                                    *)

Kept ==
  /\ Typed /\ last.headers \in Seq(Header)
  /\ \A i \in 1 .. Len(sent) :
       last.status = "accept" /\ Begins(i) /\ ~last.stale => Keeps(sent[i], last)

LEMMA KeptCuts == Kept => CutKeepsRequest
<1> SUFFICES ASSUME Kept, NEW i \in DOMAIN sent, last.status = "accept", Begins(i), ~last.stale
             PROVE  LET r == sent[i] IN
                    /\ last.path = r.path
                    /\ \A j \in DOMAIN last.headers :
                         /\ j \in DOMAIN r.fields
                         /\ last.headers[j].key = LowerCase(r.fields[j].key)
                         /\ IsPrefix(last.headers[j].value, r.fields[j].value)
                    /\ Sensible(r) /\ ~Blanked(r) /\ ~IsChunked(r) => last.body \in {<<>>, r.body}
  BY DEF CutKeepsRequest
<1> DEFINE r == sent[i]
<1>1. sent \in Seq(Requests) /\ i \in 1 .. Len(sent) /\ r \in Requests
  <2>1. sent \in Seq(Requests)
    BY DEF Kept, Typed, TypeOK
  <2>2. QED
    BY <2>1, ElementOfSeq
<1>2. Keeps(r, last)
  BY <1>1 DEF Kept
<1> HIDE DEF r
<1>3. DOMAIN r.fields = 1 .. Len(r.fields)
  BY <1>1, RequestTyped
<1>4. DOMAIN last.headers = 1 .. Len(last.headers)
  BY LenProperties DEF Kept
<1>5. QED
  BY <1>2, <1>3, <1>4 DEF Keeps, Heading, r

LEMMA KeptInit == Init => Kept
<1>1. Init => last.status = "none" /\ last.headers = <<>>
  BY DEF Init
<1>2. <<>> \in Seq(Header)
  BY EmptySeq
<1>3. QED
  BY <1>1, <1>2, TypedInit DEF Kept

(* The lines of a request are where the recv that begins with it put them, *)
(* or would be there if all of them had come.                              *)
LEMMA OpenedOrCut ==
  ASSUME NEW r \in Requests, NEW buf \in Buffers, NEW n \in 1 .. Size, \A h \in 0 .. n - 1 : buf[h] # Nul,
         \A h \in 1 .. n : h <= Len(Wired[r]) => buf[h - 1] = Wired[r][h],
         \A h \in n .. Size - 1 : buf[h] = Nul
  PROVE  Opened(buf, n, r) \/ \E w : Cut(buf, n, r, w)
<1> DEFINE e     == HeadersEnd(r) + 4
           lines == Lines(r) \o Crlf
           all   == Wired[r]
           w     == [i \in 0 .. e - 1 |-> lines[i + 1]]
<1>1. e \in Nat /\ Len(r.body) \in Nat /\ Len(all) = e + Len(r.body) /\ n \in Nat
  BY Distances, RequestTyped, Limits
<1>2. /\ lines \in Seq(Symbols) /\ Len(lines) = e /\ \A h \in 1 .. e : lines[h] = all[h]
      /\ all \in Seq(Symbols)
      /\ \A b : Has(b, 0, lines) => Laid(b, r)
      /\ \A b : Has(b, 0, all) => Has(b, e, r.body)
  BY WiredTyped DEF HeadersEnd
<1>3. \A h \in 1 .. n : h <= Len(all) => buf[h - 1] = all[h]
  OBVIOUS
<1> HIDE DEF lines, all
<1>4. CASE n < e
  <2>1. Laid(w, r)
    <3>1. \A h \in 1 .. e : 0 + h - 1 \in 0 .. e - 1 /\ 0 + h - 1 + 1 = h
      BY <1>1
    <3> HIDE DEF e
    <3>2. \A h \in 1 .. e : w[0 + h - 1] = lines[h]
      BY <3>1
    <3>3. Has(w, 0, lines)
      BY <1>2, <3>2 DEF Has
    <3>4. QED
      BY <1>2, <3>3
  <2>2. ASSUME NEW i \in 0 .. n - 1 PROVE buf[i] = w[i]
    <3> DEFINE h == i + 1
    <3>1. i \in 0 .. e - 1 /\ h \in 1 .. n /\ h \in 1 .. e /\ h <= Len(all) /\ h - 1 = i
      BY <1>1, <1>4
    <3> HIDE DEF e
    <3>2. w[i] = lines[h]
      BY <3>1
    <3> HIDE DEF h, w
    <3>3. buf[h - 1] = all[h] /\ lines[h] = all[h]
      BY <1>2, <1>3, <3>1
    <3>4. QED
      BY <3>1, <3>2, <3>3
  <2>3. Cut(buf, n, r, w)
    BY <1>4, <2>1, <2>2 DEF Cut, Short
  <2>4. QED
    BY <2>3
<1>5. CASE e <= n
  <2>1. Has(buf, 0, lines)
    <3> SUFFICES ASSUME NEW h \in 1 .. Len(lines) PROVE buf[0 + h - 1] = lines[h]
      BY DEF Has
    <3>1. h \in 1 .. n /\ h \in 1 .. e /\ h <= Len(all) /\ 0 + h - 1 = h - 1
      BY <1>1, <1>2, <1>5
    <3> HIDE DEF e
    <3>2. QED
      BY <1>2, <1>3, <3>1
  <2>2. Headed(buf, n, r)
    BY <1>2, <1>5, <2>1 DEF Headed
  <2>3. ASSUME n = Len(all) PROVE Has(buf, e, r.body)
    <3>1. Has(buf, 0, all)
      <4> SUFFICES ASSUME NEW h \in 1 .. Len(all) PROVE buf[0 + h - 1] = all[h]
        BY DEF Has
      <4>1. h \in 1 .. n /\ h <= Len(all) /\ 0 + h - 1 = h - 1
        BY <1>1, <2>3
      <4>2. QED
        BY <1>3, <4>1
    <3>2. QED
      BY <1>2, <3>1
  <2>4. QED
    BY <2>2, <2>3 DEF Opened, all
<1>6. QED
  BY <1>1, <1>4, <1>5

LEMMA KeptNext == Kept /\ [Next]_vars => Kept'
<1> SUFFICES ASSUME Kept, [Next]_vars PROVE Kept'
  OBVIOUS
<1>1. Typed /\ Typed'
  BY TypedNext DEF Kept
<1>2. /\ sent \in Seq(Requests) /\ Len(sent) \in Nat /\ taken \in Nat /\ taken <= Len(Stream(sent))
      /\ Len(Stream(sent)) \in Nat /\ payload \in Buffers
      /\ last.from \in Nat /\ last.length \in Nat /\ last.from + last.length = taken
  BY <1>1, StreamTyped, LenProperties DEF Typed, TypeOK
<1>3. /\ last.headers \in Seq(Header)
      /\ \A i \in 1 .. Len(sent) :
           last.status = "accept" /\ Begins(i) /\ ~last.stale => Keeps(sent[i], last)
  BY DEF Kept
<1>4. ASSUME NEW r \in Requests, Send(r) PROVE Kept'
  <2>1. sent' = Append(sent, r) /\ last' = last
    BY <1>4 DEF Send
  <2>2. /\ \A i \in 1 .. Len(sent) : sent'[i] = sent[i] /\ Before(sent', i) = Before(sent, i)
        /\ Before(sent', Len(sent) + 1) = Len(Stream(sent)) /\ Len(sent') = Len(sent) + 1
    BY <1>2, <2>1, BeforeAppend
  <2>3. ASSUME NEW i \in 1 .. Len(sent'), last'.status = "accept", Begins(i)', ~last'.stale
        PROVE  Keeps(sent'[i], last')
    <3>1. last.length > 0 /\ last.from = Before(sent', i)
      BY <2>1, <2>3 DEF Begins
    <3>2. i # Len(sent) + 1
      <4> DEFINE b == Before(sent', i)
                 l == Len(Stream(sent))
      <4>1. last.from = b /\ (i = Len(sent) + 1 => b = l) /\ l \in Nat /\ taken <= l
        BY <1>2, <2>2, <3>1
      <4> HIDE DEF b, l
      <4>2. QED
        BY <1>2, <3>1, <4>1
    <3>3. i \in 1 .. Len(sent)
      BY <1>2, <2>2, <3>2
    <3>4. Begins(i)
      BY <2>2, <3>1, <3>3 DEF Begins
    <3>5. QED
      BY <1>3, <2>1, <2>2, <2>3, <3>3, <3>4
  <2>4. QED
    BY <1>1, <1>3, <2>1, <2>3 DEF Kept
<1>5. ASSUME NEW n \in 1 .. Size, Receive(n) PROVE Kept'
  <2> DEFINE all  == Stream(sent)
             text == SubSeq(all, taken + 1, taken + n)
             buf  == [i \in 0 .. n - 1 |-> text[i + 1]] @@ payload
             p    == Parse(buf, n)
  <2>1. /\ n <= Len(all) - taken /\ sent' = sent
        /\ last' = [from |-> taken, length |-> n, stale |-> \E i \in n .. Size - 1 : buf[i] # Nul,
                     status |-> p.status, path |-> p.path, headers |-> p.headers, body |-> p.body]
    BY <1>5 DEF Receive
  <2> HIDE DEF p
  <2>2. /\ last'.from = taken /\ last'.length = n /\ last'.status = p.status /\ last'.path = p.path
        /\ last'.headers = p.headers /\ last'.body = p.body
        /\ last'.stale = \E i \in n .. Size - 1 : buf[i] # Nul
    BY <2>1
  <2>3. n \in Nat /\ n >= 1 /\ Size \in Nat /\ n <= Size /\ all \in Seq(Symbols) /\ Len(all) \in Nat
    BY <1>2, Limits, StreamTyped
  <2> HIDE DEF all, buf
  <2>4. text \in Seq(Symbols) /\ Len(text) = n /\ \A h \in 1 .. n : text[h] = all[taken + h]
    BY <1>2, <2>1, <2>3, PartOf
  <2> HIDE DEF text
  <2>5. buf \in Buffers /\ \A i \in 0 .. n - 1 : buf[i] = text[i + 1] /\ buf[i] # Nul
    BY <1>2, <2>4, Filled DEF buf
  <2>6. p.headers \in Seq(Header)
    BY <2>5, ParseSane DEF p, Sane, Results
  <2>7. ASSUME NEW i \in 1 .. Len(sent'), last'.status = "accept", Begins(i)', ~last'.stale
        PROVE  Keeps(sent'[i], last')
    <3> DEFINE r == sent[i]
               w == Wired[r]
    <3>1. i \in 1 .. Len(sent) /\ taken = Before(sent, i) /\ sent'[i] = r
      BY <2>1, <2>2, <2>7 DEF Begins
    <3>2. r \in Requests
      BY <1>2, <3>1, ElementOfSeq
    <3>3. Len(w) \in Nat /\ \A h \in 1 .. Len(w) : all[taken + h] = w[h]
      <4>1. \A h \in 1 .. Len(w) : all[taken + h] = w[h]
        BY <1>2, <3>1, InStream DEF all
      <4>2. w \in Seq(Symbols)
        BY <3>2, WiredTyped
      <4> HIDE DEF w, r
      <4>3. QED
        BY <4>1, <4>2, LenProperties
    <3> HIDE DEF r, w
    <3>4. ASSUME NEW h \in 1 .. n, h <= Len(w) PROVE buf[h - 1] = w[h]
      <4>1. h - 1 \in 0 .. n - 1 /\ h - 1 + 1 = h /\ h \in 1 .. Len(w)
        BY <2>3, <3>3, <3>4
      <4>2. buf[h - 1] = text[h]
        BY <2>5, <4>1
      <4>3. QED
        BY <2>4, <3>3, <4>1, <4>2
    <3>5. \A h \in n .. Size - 1 : buf[h] = Nul
      BY <2>2, <2>7
    <3>6. Opened(buf, n, r) \/ \E x : Cut(buf, n, r, x)
      BY <2>5, <3>2, <3>4, <3>5, OpenedOrCut DEF w
    <3>7. Stops(p) \/ Keeps(r, p)
      BY <3>2, <3>6, ParseOpened, ParseCut DEF p
    <3>8. ~Stops(p)
      BY <2>2, <2>7 DEF Stops
    <3>9. Keeps(r, last')
      BY <2>2, <3>7, <3>8 DEF Keeps
    <3>10. QED
      BY <3>1, <3>9
  <2>8. QED
    BY <1>1, <2>2, <2>6, <2>7 DEF Kept
<1>6. ASSUME UNCHANGED <<sent, last>> PROVE Kept'
  BY <1>1, <1>3, <1>6 DEF Kept, Begins
<1>7. Hangup \/ UNCHANGED vars => UNCHANGED <<sent, last>>
  BY DEF Hangup, vars
<1>8. QED
  BY <1>4, <1>5, <1>6, <1>7 DEF Next

(* A recv that brings the beginning of a request, with nothing older       *)
(* behind it, is refused or handled for the path that was sent, with some  *)
(* of the headers, and with all of the body or none of it if its length    *)
(* was told and not left blank (httpparser_parse_request).                 *)
THEOREM CutShort == Spec => []CutKeepsRequest
<1>1. Spec => []Kept
  BY KeptInit, KeptNext, PTL DEF Spec
<1>2. QED
  BY <1>1, KeptCuts, PTL

=============================================================================
