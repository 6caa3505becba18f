----------------------------- MODULE HeapProofs -----------------------------
(***************************************************************************)
(* Theorems about the array heap of TcbHeap.  HeapUp and HeapDown are      *)
(* recursive over the slots: the first part shows that the recursions have *)
(* a solution, the second what one comparison does, the third what the     *)
(* whole sifting does.                                                     *)
(***************************************************************************)
EXTENDS TcbHeap, FiniteSetTheorems, NaturalsInduction, WellFoundedInduction, TLAPS

-----------------------------------------------------------------------------
\* The recursions.

\* A set of numbers that has every number whose predecessors it has is all of them.
LEMMA AllNumbers ==
  ASSUME NEW S \in SUBSET Nat, \A n \in Nat : (\A m \in 0 .. n - 1 : m \in S) => n \in S
  PROVE  S = Nat
<1> DEFINE T == Nat \ S
<1>1. SUFFICES ASSUME T # {} PROVE FALSE
  OBVIOUS
<1>2. T \subseteq Nat /\ \A n \in Nat : n \in T <=> n \notin S
  OBVIOUS
<1> HIDE DEF T
<1>3. PICK n \in T : \A m \in T : ~(<<m, n>> \in OpToRel(<, Nat))
  BY <1>1, <1>2, WFMin, NatLessThanWellFounded
<1>4. \A m, k \in Nat : <<m, k>> \in OpToRel(<, Nat) <=> m < k
  BY DEF OpToRel
<1>5. ASSUME NEW m \in 0 .. n - 1 PROVE m \in S
  <2>1. m \in Nat /\ m < n /\ n \in Nat
    BY <1>2
  <2> QED
    BY <1>2, <1>3, <1>4, <2>1
<1> QED
  BY <1>2, <1>5

\* One pass of the loop of HeapUp at a slot, as a function of the array; up is what
\* the passes after it do.
ClimbFrom(up, child) ==
  LET parent == child \div 2 IN
    [s \in Stores |->
       IF key'[s[child]] < key'[s[parent]]
         THEN up[parent][Swap(s, child, parent)]
         ELSE s]

Climb(up) == up = [child \in Slots |-> ClimbFrom(up, child)]

LEMMA HeapUpIsClimb ==
  ASSUME NEW s, NEW child
  PROVE  HeapUp(s, child) = (CHOOSE up : Climb(up))[child][s]
BY DEF HeapUp, Climb, ClimbFrom

LEMMA SwapWithItself == ASSUME NEW s \in Stores, NEW i \in Slots PROVE Swap(s, i, i) = s
BY DEF Swap, Stores

LEMMA Halves ==
  /\ 0 \div 2 = 0
  /\ \A n \in Nat : n > 0 => n \div 2 \in Nat /\ n \div 2 < n
OBVIOUS

\* The loop ends, because half an index is less than the index.
LEMMA ClimbExists == \E up : Climb(up)
<1> DEFINE Upto(up, n) == \A child \in Slots : child < n => up[child] = ClimbFrom(up, child)
           S == {n \in Nat : \E up : Upto(up, n)}
<1>1. ASSUME NEW up, NEW g, NEW child \in Slots, up[child \div 2] = g[child \div 2]
      PROVE  ClimbFrom(up, child) = ClimbFrom(g, child)
  BY <1>1 DEF ClimbFrom
<1>2. 0 \in S
  BY DEF Slots
<1>3. ASSUME NEW n \in Nat, n \in S PROVE n + 1 \in S
  <2>1. PICK up : Upto(up, n)
    BY <1>3
  <2>2. CASE n \notin Slots
    <3>1. \A child \in Slots : child < n + 1 => child < n
      BY <2>2 DEF Slots
    <3> QED
      BY <2>1, <3>1
  <2>3. CASE n \in Slots
    <3> DEFINE last == IF n = 0 THEN [s \in Stores |-> s] ELSE ClimbFrom(up, n)
               g == [child \in Slots |-> IF child = n THEN last ELSE up[child]]
    <3>1. \A child \in Slots : child # n => g[child] = up[child]
      OBVIOUS
    <3>2. g[n] = last
      BY <2>3
    <3> HIDE DEF g
    <3>3. ASSUME NEW child \in Slots, child < n PROVE g[child] = ClimbFrom(g, child)
      <4>1. child \div 2 \in Slots /\ child \div 2 # n
        BY <3>3, Halves, QueueAssumption DEF Slots
      <4>2. g[child] = up[child] /\ g[child \div 2] = up[child \div 2]
        BY <3>1, <3>3, <4>1 DEF Slots
      <4>3. up[child] = ClimbFrom(up, child)
        BY <2>1, <3>3
      <4> QED
        BY <1>1, <4>2, <4>3
    <3>4. g[n] = ClimbFrom(g, n)
      <4>1. CASE n = 0
        <5>1. g[0] = [s \in Stores |-> s]
          BY <3>2, <4>1
        <5>2. \A s \in Stores : g[0][Swap(s, 0, 0)] = s
          BY <2>3, <4>1, <5>1, SwapWithItself
        <5>3. ClimbFrom(g, 0) = [s \in Stores |-> IF key'[s[0]] < key'[s[0]] THEN s ELSE s]
          BY <5>2, Halves DEF ClimbFrom
        <5> QED
          BY <4>1, <5>1, <5>3
      <4>2. CASE n # 0
        <5>1. n \div 2 \in Slots /\ n \div 2 # n
          BY <2>3, <4>2, Halves, QueueAssumption DEF Slots
        <5> QED
          BY <1>1, <2>3, <3>1, <3>2, <4>2, <5>1
      <4> QED
        BY <4>1, <4>2
    <3>5. Upto(g, n + 1)
      BY <3>3, <3>4 DEF Slots
    <3> QED
      BY <3>5
  <2> QED
    BY <2>2, <2>3
<1>4. S = Nat
  <2>1. ASSUME NEW n \in Nat, \A m \in 0 .. n - 1 : m \in S PROVE n \in S
    <3> HIDE DEF S
    <3>1. n = 0 \/ (n - 1 \in Nat /\ n - 1 \in S /\ n = (n - 1) + 1)
      BY <2>1
    <3> QED
      BY <1>2, <1>3, <3>1
  <2> HIDE DEF S
  <2>2. S \in SUBSET Nat
    BY DEF S
  <2> QED
    BY <2>1, <2>2, AllNumbers
<1>5. PICK up : Upto(up, QueueSlots)
  BY <1>4, QueueAssumption
<1>6. \A child \in Slots : child \div 2 \in Slots
  BY Halves, QueueAssumption DEF Slots
<1> DEFINE g == [child \in Slots |-> up[child]]
<1>7. \A child \in Slots : g[child] = ClimbFrom(g, child)
  <2>1. \A child \in Slots : up[child] = ClimbFrom(up, child)
    BY <1>5, QueueAssumption DEF Slots
  <2>2. \A child \in Slots : g[child] = up[child]
    OBVIOUS
  <2> HIDE DEF g
  <2> QED
    BY <1>1, <1>6, <2>1, <2>2
<1>8. g = [child \in Slots |-> ClimbFrom(g, child)]
  <2>1. g = [child \in Slots |-> g[child]]
    OBVIOUS
  <2> HIDE DEF g
  <2> QED
    BY <1>7, <2>1
<1> QED
  BY <1>8 DEF Climb

\* HeapUp at a slot is one comparison, and HeapUp at its parent if they are swapped.
LEMMA HeapUpStep ==
  ASSUME NEW s \in Stores, NEW child \in Slots
  PROVE  HeapUp(s, child) =
           IF key'[s[child]] < key'[s[child \div 2]]
             THEN HeapUp(Swap(s, child, child \div 2), child \div 2)
             ELSE s
<1> DEFINE up == CHOOSE up : Climb(up)
<1>1. Climb(up)
  BY ClimbExists, Zenon
<1>2. \A t, c : HeapUp(t, c) = up[c][t]
  BY HeapUpIsClimb, Zenon
<1> HIDE DEF up
<1>3. up[child] = ClimbFrom(up, child)
  BY <1>1, Zenon DEF Climb
<1>4. ClimbFrom(up, child)[s] =
        IF key'[s[child]] < key'[s[child \div 2]]
          THEN up[child \div 2][Swap(s, child, child \div 2)]
          ELSE s
  BY Zenon DEF ClimbFrom
<1> QED
  BY <1>2, <1>3, <1>4, Zenon

\* One pass of the loop of HeapDown at a slot of an array with n slots in use.
SinkFrom(down, n, parent) ==
  [s \in Stores |->
     LET least == LeastOf(s, n, parent) IN
       IF least = parent THEN s ELSE down[least][Swap(s, parent, least)]]

Sink(down, n) == down = [parent \in Slots |-> SinkFrom(down, n, parent)]

LEMMA HeapDownIsSink ==
  ASSUME NEW s, NEW n, NEW parent
  PROVE  HeapDown(s, n, parent) = (CHOOSE down : Sink(down, n))[parent][s]
BY DEF HeapDown, Sink, SinkFrom

\* The slot with the lowest key is the parent or a child in use, further down.
LEMMA LeastIsBelow ==
  ASSUME NEW s, NEW n \in 0 .. QueueSlots, NEW parent \in Slots
  PROVE  LET least == LeastOf(s, n, parent) IN
           least # parent => /\ least \in {2 * parent + 1, 2 * parent + 2}
                             /\ least \in Slots /\ least < n /\ parent < least
<1>1. QueueSlots \in Nat
  BY QueueAssumption
<1> QED
  BY <1>1 DEF LeastOf, Slots

\* The loop ends, because children are further down.
LEMMA SinkExists == ASSUME NEW n \in 0 .. QueueSlots PROVE \E down : Sink(down, n)
<1> DEFINE Last(down, m) == \A parent \in Slots :
                              QueueSlots <= parent + m => down[parent] = SinkFrom(down, n, parent)
           S == {m \in Nat : \E down : Last(down, m)}
<1>0. QueueSlots \in Nat
  BY QueueAssumption
<1>1. ASSUME NEW down, NEW g, NEW parent \in Slots,
             \A child \in Slots : child > parent => down[child] = g[child]
      PROVE  SinkFrom(down, n, parent) = SinkFrom(g, n, parent)
  <2>1. ASSUME NEW s \in Stores
        PROVE  LET least == LeastOf(s, n, parent) IN
                 least # parent => down[least] = g[least]
    BY <1>0, <1>1, LeastIsBelow DEF Slots
  <2> QED
    BY <2>1 DEF SinkFrom
<1>2. 0 \in S
  <2>1. \A parent \in Slots : ~(QueueSlots <= parent + 0)
    BY <1>0 DEF Slots
  <2> QED
    BY <2>1
<1>3. ASSUME NEW m \in Nat, m \in S PROVE m + 1 \in S
  <2>1. PICK down : Last(down, m)
    BY <1>3
  <2> DEFINE first == QueueSlots - (m + 1)
  <2>2. CASE first \notin Slots
    <3>1. \A parent \in Slots : QueueSlots <= parent + (m + 1) => QueueSlots <= parent + m
      BY <1>0, <2>2 DEF Slots
    <3> QED
      BY <2>1, <3>1
  <2>3. CASE first \in Slots
    <3> DEFINE g == [parent \in Slots |-> IF parent = first THEN SinkFrom(down, n, first)
                                                            ELSE down[parent]]
    <3>1. \A parent \in Slots : parent > first => g[parent] = down[parent]
      BY <1>0 DEF Slots
    <3>2. g[first] = SinkFrom(down, n, first)
      BY <2>3
    <3> HIDE DEF g
    <3>3. ASSUME NEW parent \in Slots, QueueSlots <= parent + (m + 1)
          PROVE  g[parent] = SinkFrom(g, n, parent)
      <4>1. parent >= first
        BY <1>0, <3>3 DEF Slots
      <4>2. \A child \in Slots : child > parent => g[child] = down[child]
        BY <1>0, <3>1, <4>1 DEF Slots
      <4>3. SinkFrom(down, n, parent) = SinkFrom(g, n, parent)
        BY <1>1, <4>2
      <4>4. g[parent] = SinkFrom(down, n, parent)
        <5>1. CASE parent = first
          BY <3>2, <5>1
        <5>2. CASE parent > first
          <6>1. QueueSlots <= parent + m
            BY <1>0, <5>2 DEF Slots
          <6> QED
            BY <2>1, <3>1, <5>2, <6>1
        <5> QED
          BY <1>0, <4>1, <5>1, <5>2 DEF Slots
      <4> QED
        BY <4>3, <4>4
    <3> QED
      BY <3>3
  <2> QED
    BY <2>2, <2>3
<1>4. S = Nat
  <2>1. ASSUME NEW m \in Nat, \A k \in 0 .. m - 1 : k \in S PROVE m \in S
    <3> HIDE DEF S
    <3>1. m = 0 \/ (m - 1 \in Nat /\ m - 1 \in S /\ m = (m - 1) + 1)
      BY <2>1
    <3> QED
      BY <1>2, <1>3, <3>1
  <2> HIDE DEF S
  <2>2. S \in SUBSET Nat
    BY DEF S
  <2> QED
    BY <2>1, <2>2, AllNumbers
<1>5. PICK down : Last(down, QueueSlots)
  BY <1>0, <1>4
<1> DEFINE g == [parent \in Slots |-> down[parent]]
<1>6. \A parent \in Slots : g[parent] = SinkFrom(g, n, parent)
  <2>1. \A parent \in Slots : down[parent] = SinkFrom(down, n, parent)
    BY <1>0, <1>5 DEF Slots
  <2>2. \A parent \in Slots : down[parent] = g[parent]
    OBVIOUS
  <2> HIDE DEF g
  <2> QED
    BY <1>1, <2>1, <2>2
<1>7. g = [parent \in Slots |-> SinkFrom(g, n, parent)]
  <2>1. g = [parent \in Slots |-> g[parent]]
    OBVIOUS
  <2> HIDE DEF g
  <2> QED
    BY <1>6, <2>1
<1> QED
  BY <1>7 DEF Sink

\* HeapDown at a slot is HeapDown at its lesser child, if they are swapped.
LEMMA HeapDownStep ==
  ASSUME NEW n \in 0 .. QueueSlots, NEW s \in Stores, NEW parent \in Slots
  PROVE  LET least == LeastOf(s, n, parent) IN
           HeapDown(s, n, parent) =
             IF least = parent THEN s ELSE HeapDown(Swap(s, parent, least), n, least)
<1> DEFINE down == CHOOSE down : Sink(down, n)
<1>1. Sink(down, n)
  BY SinkExists, Zenon
<1>2. \A t, p : HeapDown(t, n, p) = down[p][t]
  BY HeapDownIsSink, Zenon
<1> HIDE DEF down
<1>3. down[parent] = SinkFrom(down, n, parent)
  BY <1>1, Zenon DEF Sink
<1> DEFINE least == LeastOf(s, n, parent)
<1>4. SinkFrom(down, n, parent)[s] =
        IF least = parent THEN s ELSE down[least][Swap(s, parent, least)]
  BY Zenon DEF SinkFrom
<1> QED
  BY <1>2, <1>3, <1>4, Zenon

-----------------------------------------------------------------------------
\* What one swap does.

\* The first n slots hold different tasks, the others none.
Packed(s, n) ==
  /\ s \in Stores
  /\ \A i \in Slots : (s[i] = Nil) <=> (i >= n)
  /\ \A i, j \in 0 .. n - 1 : s[i] = s[j] => i = j

Held(s, n) == {s[i] : i \in 0 .. n - 1}

\* r is s in another order.
Reordered(r, s, n) == Packed(r, n) /\ Held(r, n) = Held(s, n)

\* No task has a lower key than the front.
FrontLeast(k, s, n) == \A i \in 1 .. n - 1 : k[s[0]] <= k[s[i]]

LEMMA PackedTasks ==
  ASSUME NEW n \in 0 .. QueueSlots, NEW s, Packed(s, n), NEW i \in 0 .. n - 1
  PROVE  i \in Slots /\ s[i] \in Tasks
<1>1. i \in Slots
  BY QueueAssumption DEF Slots
<1>2. s[i] # Nil /\ s[i] \in Tasks \cup {Nil}
  BY <1>1 DEF Packed, Stores, Slots
<1> QED
  BY <1>1, <1>2

LEMMA SwapMoves ==
  ASSUME NEW s \in Stores, NEW i \in Slots, NEW j \in Slots
  PROVE  /\ Swap(s, i, j) \in Stores
         /\ Swap(s, i, j)[i] = s[j] /\ Swap(s, i, j)[j] = s[i]
         /\ \A m \in Slots \ {i, j} : Swap(s, i, j)[m] = s[m]
BY DEF Swap, Stores

LEMMA SwapReorders ==
  ASSUME NEW n \in 0 .. QueueSlots, NEW s, Packed(s, n),
         NEW i \in 0 .. n - 1, NEW j \in 0 .. n - 1
  PROVE  Reordered(Swap(s, i, j), s, n)
<1> DEFINE r == Swap(s, i, j)
<1>1. i \in Slots /\ j \in Slots /\ s[i] # Nil /\ s[j] # Nil
  BY PackedTasks, QueueAssumption
<1>2. /\ r \in Stores /\ r[i] = s[j] /\ r[j] = s[i]
      /\ \A m \in Slots \ {i, j} : r[m] = s[m]
  BY <1>1, SwapMoves DEF Packed
<1>3. \A m \in 0 .. n - 1 : m \in Slots
  BY QueueAssumption DEF Slots
<1> HIDE DEF r
<1>4. Packed(r, n)
  BY <1>1, <1>2, <1>3 DEF Packed
<1>5. \A m \in 0 .. n - 1 : \E l \in 0 .. n - 1 : r[l] = s[m]
  BY <1>2, <1>3
<1>6. \A m \in 0 .. n - 1 : \E l \in 0 .. n - 1 : s[l] = r[m]
  BY <1>2, <1>3
<1>7. Held(r, n) = Held(s, n)
  BY <1>5, <1>6 DEF Held
<1> QED
  BY <1>4, <1>7 DEF Reordered, r

-----------------------------------------------------------------------------
\* What HeapUp does.

\* The task that climbs, s[child], and the front are the only ones that can be in
\* front afterwards, and it gets there only if its key is lower.
UpFront(r, s, child) ==
  \/ r[0] = s[0]
  \/ r[0] = s[child] /\ key'[s[child]] < key'[s[0]]

\* It is in front if no other task stops it.
UpLeast(r, s, n, child) ==
  (\A i \in 0 .. n - 1 : i # child => key'[s[0]] <= key'[s[i]]) => FrontLeast(key', r, n)

LEMMA HeapUpSifts ==
  ASSUME NEW n \in 0 .. QueueSlots, key' \in [Tasks -> Nat],
         NEW s, Packed(s, n), NEW child \in 0 .. n - 1
  PROVE  LET r == HeapUp(s, child) IN
           Reordered(r, s, n) /\ UpFront(r, s, child) /\ UpLeast(r, s, n, child)
<1> DEFINE Sifts(t, c) == LET r == HeapUp(t, c) IN
             Reordered(r, t, n) /\ UpFront(r, t, c) /\ UpLeast(r, t, n, c)
           S == {c \in Nat : \A t : Packed(t, n) /\ c < n => Sifts(t, c)}
<1>1. ASSUME NEW c \in Nat, \A m \in 0 .. c - 1 : m \in S PROVE c \in S
  <2> SUFFICES ASSUME NEW t, Packed(t, n), c < n PROVE Sifts(t, c)
    OBVIOUS
  <2> DEFINE parent == c \div 2
  <2>1. c \in 0 .. n - 1 /\ 0 \in 0 .. n - 1 /\ parent \in 0 .. n - 1
    BY Halves
  <2>2. /\ c \in Slots /\ parent \in Slots /\ 0 \in Slots
        /\ t[c] \in Tasks /\ t[parent] \in Tasks /\ t[0] \in Tasks
        /\ \A i \in 0 .. n - 1 : i \in Slots /\ t[i] \in Tasks
    BY <2>1, PackedTasks
  <2>3. t \in Stores
    BY DEF Packed
  <2>4. /\ \A i \in 0 .. n - 1 : key'[t[i]] \in Nat
        /\ n \in Nat /\ QueueSlots \in Nat
    BY <2>2, QueueAssumption
  <2>5. CASE ~(key'[t[c]] < key'[t[parent]])
    <3>1. HeapUp(t, c) = t
      BY <2>2, <2>3, <2>5, HeapUpStep
    <3>2. UpLeast(t, t, n, c)
      <4> SUFFICES ASSUME \A i \in 0 .. n - 1 : i # c => key'[t[0]] <= key'[t[i]],
                          NEW i \in 1 .. n - 1
                   PROVE  key'[t[0]] <= key'[t[i]]
        BY DEF UpLeast, FrontLeast
      <4>1. CASE i # c
        BY <4>1
      <4>2. CASE i = c
        <5>1. parent # c
          BY <4>2, Halves
        <5>2. key'[t[0]] <= key'[t[parent]]
          BY <2>1, <5>1
        <5> QED
          BY <2>1, <2>4, <2>5, <4>2, <5>2
      <4> QED
        BY <4>1, <4>2
    <3> QED
      BY <3>1, <3>2 DEF Reordered, UpFront
  <2>6. CASE key'[t[c]] < key'[t[parent]]
    <3> DEFINE u == Swap(t, c, parent)
    <3>1. c # 0 /\ parent < c
      <4>1. c # 0
        BY <2>1, <2>4, <2>6, Halves
      <4> QED
        BY <4>1, Halves
    <3>2. /\ u[c] = t[parent] /\ u[parent] = t[c]
          /\ \A m \in Slots \ {c, parent} : u[m] = t[m]
      <4> HIDE DEF parent
      <4> QED
        BY <2>2, <2>3, SwapMoves
    <3>3. Reordered(u, t, n)
      BY <2>1, SwapReorders
    <3>4. HeapUp(t, c) = HeapUp(u, parent)
      BY <2>2, <2>3, <2>6, HeapUpStep
    <3> HIDE DEF u
    <3> DEFINE r == HeapUp(u, parent)
    <3>5. Reordered(r, u, n) /\ UpFront(r, u, parent) /\ UpLeast(r, u, n, parent)
      <4>1. parent \in S
        <5> HIDE DEF S
        <5> QED
          BY <1>1, <2>1, <3>1
      <4> QED
        BY <2>1, <3>3, <4>1 DEF Reordered
    <3> HIDE DEF r
    <3>6. Reordered(r, t, n)
      BY <3>3, <3>5 DEF Reordered
    <3>7. UpFront(r, t, c)
      <4>1. CASE parent = 0
        BY <2>6, <3>2, <3>5, <4>1 DEF UpFront
      <4>2. CASE parent # 0
        <5>1. u[0] = t[0] /\ u[parent] = t[c]
          BY <2>2, <3>1, <3>2, <4>2
        <5> QED
          BY <3>5, <5>1 DEF UpFront
      <4> QED
        BY <4>1, <4>2
    <3>8. UpLeast(r, t, n, c)
      <4> SUFFICES ASSUME \A i \in 0 .. n - 1 : i # c => key'[t[0]] <= key'[t[i]]
                   PROVE  FrontLeast(key', r, n)
        BY DEF UpLeast
      <4>1. \A i \in 0 .. n - 1 : i # parent => key'[u[0]] <= key'[u[i]]
        <5> SUFFICES ASSUME NEW i \in 0 .. n - 1, i # parent
                     PROVE  key'[u[0]] <= key'[u[i]]
          OBVIOUS
        <5>1. u[i] = IF i = c THEN t[parent] ELSE t[i]
          BY <2>2, <3>2
        <5>2. key'[t[0]] <= key'[u[i]]
          BY <2>1, <3>1, <5>1
        <5>3. u[0] = IF parent = 0 THEN t[c] ELSE t[0]
          BY <2>2, <3>1, <3>2
        <5>4. key'[u[i]] \in Nat
          BY <2>1, <2>4, <5>1
        <5> QED
          BY <2>1, <2>4, <2>6, <5>2, <5>3, <5>4
      <4> QED
        BY <3>5, <4>1 DEF UpLeast
    <3> QED
      BY <3>4, <3>6, <3>7, <3>8 DEF r
  <2> QED
    BY <2>5, <2>6
<1>2. S = Nat
  <2> HIDE DEF S
  <2>1. S \in SUBSET Nat
    BY DEF S
  <2> QED
    BY <1>1, <2>1, AllNumbers
<1>3. child \in Nat /\ child < n
  OBVIOUS
<1> QED
  BY <1>2, <1>3

-----------------------------------------------------------------------------
\* What HeapDown does.

\* LeastOf names a task with the lowest key of a slot and its children.
LEMMA LeastIsLeast ==
  ASSUME NEW n \in 0 .. QueueSlots, key \in [Tasks -> Nat],
         NEW s, Packed(s, n), NEW parent \in 0 .. n - 1
  PROVE  LET least == LeastOf(s, n, parent) IN
           /\ least \in 0 .. n - 1
           /\ least # parent => parent < least /\ key[s[least]] < key[s[parent]]
           /\ \A i \in {parent, 2 * parent + 1, 2 * parent + 2} :
                i < n => key[s[least]] <= key[s[i]]
<1> DEFINE left == 2 * parent + 1
           right == 2 * parent + 2
<1>1. QueueSlots \in Nat
  BY QueueAssumption
<1>2. \A i \in 0 .. n - 1 : key[s[i]] \in Nat
  BY PackedTasks
<1>3. left < n => left \in 0 .. n - 1
  BY <1>1
<1>4. right < n => right \in 0 .. n - 1
  BY <1>1
<1> DEFINE lesser == IF left < n /\ key[s[left]] < key[s[parent]] THEN left ELSE parent
           least == IF right < n /\ key[s[right]] < key[s[lesser]] THEN right ELSE lesser
<1>5. LeastOf(s, n, parent) = least
  BY DEF LeastOf, ElementValue
<1>6. /\ lesser \in 0 .. n - 1 /\ key[s[lesser]] \in Nat
      /\ lesser # parent => lesser = left /\ key[s[lesser]] < key[s[parent]]
      /\ key[s[lesser]] <= key[s[parent]]
      /\ left < n => key[s[lesser]] <= key[s[left]]
  BY <1>2, <1>3
<1> HIDE DEF lesser
<1>7. /\ least \in 0 .. n - 1
      /\ least # parent => parent < least /\ key[s[least]] < key[s[parent]]
      /\ key[s[least]] <= key[s[parent]]
      /\ left < n => key[s[least]] <= key[s[left]]
      /\ right < n => key[s[least]] <= key[s[right]]
  BY <1>2, <1>3, <1>4, <1>6
<1> HIDE DEF least
<1> QED
  BY <1>5, <1>7

LEMMA LeastBehind ==
  ASSUME NEW n \in 0 .. QueueSlots, NEW s, NEW parent \in Slots, ~(2 * parent + 1 < n)
  PROVE  LeastOf(s, n, parent) = parent
BY QueueAssumption DEF LeastOf, Slots

\* HeapDown keeps the tasks and leaves the slots before the one it starts at alone.
LEMMA HeapDownSifts ==
  ASSUME NEW n \in 0 .. QueueSlots, key \in [Tasks -> Nat],
         NEW s, Packed(s, n), NEW parent \in Slots
  PROVE  LET r == HeapDown(s, n, parent) IN
           Reordered(r, s, n) /\ \A i \in Slots : i < parent => r[i] = s[i]
<1> DEFINE Sifts(t, p) == LET r == HeapDown(t, n, p) IN
             Reordered(r, t, n) /\ \A i \in Slots : i < p => r[i] = t[i]
           S == {m \in Nat : \A p \in Slots : p + m = QueueSlots =>
                               \A t : Packed(t, n) => Sifts(t, p)}
<1>0. QueueSlots \in Nat /\ n \in Nat /\ n <= QueueSlots
  BY QueueAssumption
<1>1. ASSUME NEW m \in Nat, \A l \in 0 .. m - 1 : l \in S PROVE m \in S
  <2> SUFFICES ASSUME NEW p \in Slots, p + m = QueueSlots, NEW t, Packed(t, n)
               PROVE  Sifts(t, p)
    OBVIOUS
  <2> DEFINE least == LeastOf(t, n, p)
  <2>1. t \in Stores
    BY DEF Packed
  <2>2. CASE least = p
    <3>1. HeapDown(t, n, p) = t
      BY <2>1, <2>2, HeapDownStep
    <3> QED
      BY <3>1 DEF Reordered
  <2>3. CASE least # p
    <3> DEFINE u == Swap(t, p, least)
    <3>1. least \in Slots /\ least < n /\ p < least
      BY <2>3, LeastIsBelow
    <3>2. HeapDown(t, n, p) = HeapDown(u, n, least)
      BY <2>1, <2>3, HeapDownStep
    <3> HIDE DEF least
    <3>3. p \in 0 .. n - 1 /\ least \in 0 .. n - 1
      BY <1>0, <3>1 DEF Slots
    <3>4. Reordered(u, t, n)
      BY <3>3, SwapReorders
    <3>5. \A i \in Slots \ {p, least} : u[i] = t[i]
      BY <2>1, <3>1, SwapMoves
    <3> HIDE DEF u
    <3>6. Sifts(u, least)
      <4>1. QueueSlots - least \in 0 .. m - 1
        BY <1>0, <3>1 DEF Slots
      <4>2. QueueSlots - least \in S
        <5> HIDE DEF S
        <5> QED
          BY <1>1, <4>1
      <4>3. least + (QueueSlots - least) = QueueSlots
        BY <1>0, <3>1 DEF Slots
      <4> HIDE DEF Sifts
      <4> QED
        BY <3>1, <3>4, <4>2, <4>3 DEF Reordered
    <3>7. \A i \in Slots : i < p => i < least /\ i \in Slots \ {p, least}
      BY <1>0, <3>1 DEF Slots
    <3> QED
      BY <3>2, <3>4, <3>5, <3>6, <3>7 DEF Reordered
  <2> QED
    BY <2>2, <2>3
<1>2. S = Nat
  <2> HIDE DEF S
  <2>1. S \in SUBSET Nat
    BY DEF S
  <2> QED
    BY <1>1, <2>1, AllNumbers
<1>3. QueueSlots - parent \in Nat /\ parent + (QueueSlots - parent) = QueueSlots
  BY <1>0 DEF Slots
<1> HIDE DEF Sifts
<1>4. Sifts(s, parent)
  BY <1>2, <1>3
<1> QED
  BY <1>4 DEF Sifts

\* From the root it brings the least of the first three slots to the front.
LEMMA HeapDownFront ==
  ASSUME NEW n \in 0 .. QueueSlots, key \in [Tasks -> Nat], NEW s, Packed(s, n), n > 0
  PROVE  HeapDown(s, n, 0)[0] = s[LeastOf(s, n, 0)]
<1> DEFINE least == LeastOf(s, n, 0)
<1>1. 0 \in Slots /\ s \in Stores
  BY QueueAssumption DEF Slots, Packed
<1>2. CASE least = 0
  BY <1>1, <1>2, HeapDownStep
<1>3. CASE least # 0
  <2> DEFINE u == Swap(s, 0, least)
  <2>1. least \in Slots /\ least < n /\ 0 < least
    BY <1>1, <1>3, LeastIsBelow
  <2>2. HeapDown(s, n, 0) = HeapDown(u, n, least)
    BY <1>1, <1>3, HeapDownStep
  <2> HIDE DEF least
  <2>3. u[0] = s[least]
    BY <1>1, <2>1, SwapMoves
  <2>4. Packed(u, n)
    BY <2>1, SwapReorders, QueueAssumption DEF Reordered, Slots
  <2> HIDE DEF u
  <2>5. HeapDown(u, n, least)[0] = u[0]
    BY <1>1, <2>1, <2>4, HeapDownSifts
  <2> QED
    BY <2>2, <2>3, <2>5 DEF least
<1> QED
  BY <1>2, <1>3

\* The order of the front in a reordered array.
LEMMA LeastOfHeld ==
  ASSUME NEW n \in 0 .. QueueSlots, n > 0, NEW k \in [Tasks -> Nat],
         NEW r, NEW s, Packed(s, n), Reordered(r, s, n)
  PROVE  FrontLeast(k, r, n) <=> \A i \in 0 .. n - 1 : k[r[0]] <= k[s[i]]
<1>1. /\ \A i \in 0 .. n - 1 : s[i] \in Held(r, n)
      /\ \A i \in 0 .. n - 1 : r[i] \in Held(s, n)
  BY DEF Reordered, Held
<1>2. r[0] \in Tasks
  BY PackedTasks DEF Reordered
<1>3. FrontLeast(k, r, n) <=> \A i \in 0 .. n - 1 : k[r[0]] <= k[r[i]]
  <2>1. \A i \in 0 .. n - 1 : i = 0 \/ i \in 1 .. n - 1
    OBVIOUS
  <2>2. k[r[0]] <= k[r[0]]
    BY <1>2
  <2>3. \A i \in 1 .. n - 1 : i \in 0 .. n - 1
    OBVIOUS
  <2> QED
    BY <2>1, <2>2, <2>3 DEF FrontLeast
<1> QED
  BY <1>1, <1>3 DEF Held

\* An array whose front is least stays as it is.
LEMMA HeapDownOfLeast ==
  ASSUME NEW n \in 0 .. QueueSlots, key \in [Tasks -> Nat],
         NEW s, Packed(s, n), FrontLeast(key, s, n)
  PROVE  HeapDown(s, n, 0) = s
<1>1. 0 \in Slots /\ s \in Stores
  BY QueueAssumption DEF Slots, Packed
<1>2. LeastOf(s, n, 0) = 0
  <2>1. CASE n = 0
    BY <1>1, <2>1, LeastBehind
  <2>2. CASE n > 0
    <3> DEFINE least == LeastOf(s, n, 0)
    <3> SUFFICES ASSUME least # 0 PROVE FALSE
      OBVIOUS
    <3>1. least \in 1 .. n - 1 /\ key[s[least]] < key[s[0]]
      BY <2>2, LeastIsLeast
    <3>2. key[s[least]] \in Nat /\ key[s[0]] \in Nat
      BY <3>1, <2>2, PackedTasks
    <3> HIDE DEF least
    <3> QED
      BY <3>1, <3>2 DEF FrontLeast
  <2> QED
    BY <2>1, <2>2
<1> QED
  BY <1>1, <1>2, HeapDownStep

-----------------------------------------------------------------------------
\* The slots 1 and 3, of which HeapUp takes the former as the parent of the latter, and
\* HeapDown too.

LEMMA SmallHalves == 1 \div 2 = 0 /\ 2 \div 2 = 1 /\ 3 \div 2 = 1 /\ 4 \div 2 = 2
OBVIOUS

\* The loop of HeapUp leaves a branch in order if it enters it with a lesser task.
LEMMA UpFromOne ==
  ASSUME NEW n \in 4 .. QueueSlots, key' \in [Tasks -> Nat], NEW s, Packed(s, n),
         key'[s[1]] <= key'[s[3]], key'[s[0]] <= key'[s[3]]
  PROVE  key'[HeapUp(s, 1)[1]] <= key'[HeapUp(s, 1)[3]]
<1> DEFINE u == Swap(s, 1, 0)
<1>1. /\ 0 \in Slots /\ 1 \in Slots /\ 3 \in Slots /\ s \in Stores
      /\ n \in 0 .. QueueSlots /\ 0 \in 0 .. n - 1 /\ 1 \in 0 .. n - 1
  BY QueueAssumption DEF Packed, Slots
<1>2. HeapUp(s, 1) = IF key'[s[1]] < key'[s[0]] THEN HeapUp(u, 0) ELSE s
  BY <1>1, SmallHalves, HeapUpStep
<1>3. u \in Stores /\ u[0] = s[1] /\ u[1] = s[0] /\ u[3] = s[3]
  BY <1>1 DEF Swap, Stores
<1>4. key'[s[1]] \in Nat
  BY <1>1, PackedTasks
<1> HIDE DEF u
<1>5. HeapUp(u, 0) = u
  BY <1>1, <1>3, <1>4, Halves, HeapUpStep
<1> QED
  BY <1>2, <1>3, <1>5

LEMMA UpFromTwo ==
  ASSUME NEW n \in 4 .. QueueSlots, key' \in [Tasks -> Nat], NEW s, Packed(s, n),
         key'[s[1]] <= key'[s[3]], key'[s[0]] <= key'[s[3]]
  PROVE  key'[HeapUp(s, 2)[1]] <= key'[HeapUp(s, 2)[3]]
<1> DEFINE u == Swap(s, 2, 1)
<1>1. /\ {0, 1, 2, 3} \subseteq Slots /\ s \in Stores
      /\ n \in 0 .. QueueSlots /\ {0, 1, 2, 3} \subseteq 0 .. n - 1
  BY QueueAssumption DEF Packed, Slots
<1>2. HeapUp(s, 2) = IF key'[s[2]] < key'[s[1]] THEN HeapUp(u, 1) ELSE s
  BY <1>1, SmallHalves, HeapUpStep
<1>3. CASE key'[s[2]] < key'[s[1]]
  <2>1. u[0] = s[0] /\ u[1] = s[2] /\ u[3] = s[3]
    BY <1>1 DEF Swap, Stores
  <2>2. Packed(u, n)
    BY <1>1, SwapReorders DEF Reordered
  <2>3. key'[s[1]] \in Nat /\ key'[s[2]] \in Nat /\ key'[s[3]] \in Nat
    BY <1>1, PackedTasks
  <2> HIDE DEF u
  <2> QED
    BY <1>2, <1>3, <2>1, <2>2, <2>3, UpFromOne
<1> QED
  BY <1>2, <1>3

\* Inserting at slot 3 or 4 keeps the branch in order.
LEMMA BranchUp ==
  ASSUME NEW n \in 4 .. QueueSlots, n <= 5, key' \in [Tasks -> Nat],
         NEW s, Packed(s, n),
         \A i \in 0 .. n - 1 : i # n - 1 => key'[s[0]] <= key'[s[i]],
         n = 5 => key'[s[1]] <= key'[s[3]]
  PROVE  key'[HeapUp(s, n - 1)[1]] <= key'[HeapUp(s, n - 1)[3]]
<1>1. /\ {0, 1, 2, 3} \subseteq Slots /\ s \in Stores
      /\ n \in 0 .. QueueSlots /\ {0, 1, 2, 3} \subseteq 0 .. n - 1
  BY QueueAssumption DEF Packed, Slots
<1>2. \A i \in {0, 1, 2, 3} : key'[s[i]] \in Nat
  BY <1>1, PackedTasks
<1>3. CASE n = 4
  <2> DEFINE u == Swap(s, 3, 1)
  <2>1. HeapUp(s, 3) = IF key'[s[3]] < key'[s[1]] THEN HeapUp(u, 1) ELSE s
    BY <1>1, SmallHalves, HeapUpStep
  <2>2. key'[s[0]] <= key'[s[1]]
    BY <1>1, <1>3
  <2>3. CASE key'[s[3]] < key'[s[1]]
    <3>1. u[0] = s[0] /\ u[1] = s[3] /\ u[3] = s[1]
      BY <1>1 DEF Swap, Stores
    <3>2. Packed(u, n)
      BY <1>1, SwapReorders DEF Reordered
    <3> HIDE DEF u
    <3> QED
      BY <1>2, <1>3, <2>1, <2>2, <2>3, <3>1, <3>2, UpFromOne
  <2> QED
    BY <1>2, <1>3, <2>1, <2>3
<1>4. CASE n = 5
  <2> DEFINE u == Swap(s, 4, 2)
  <2>0. 4 \in Slots /\ 4 \in 0 .. n - 1
    BY <1>4, QueueAssumption DEF Slots
  <2>1. HeapUp(s, 4) = IF key'[s[4]] < key'[s[2]] THEN HeapUp(u, 2) ELSE s
    BY <1>1, <2>0, SmallHalves, HeapUpStep
  <2>2. key'[s[0]] <= key'[s[3]] /\ key'[s[1]] <= key'[s[3]]
    BY <1>1, <1>4
  <2>3. CASE key'[s[4]] < key'[s[2]]
    <3>1. u[0] = s[0] /\ u[1] = s[1] /\ u[3] = s[3]
      BY <1>1, <2>0 DEF Swap, Stores
    <3>2. Packed(u, n)
      BY <1>1, <2>0, SwapReorders DEF Reordered
    <3> HIDE DEF u
    <3> QED
      BY <1>4, <2>1, <2>2, <2>3, <3>1, <3>2, UpFromTwo
  <2> QED
    BY <1>4, <2>1, <2>2, <2>3
<1> QED
  BY <1>3, <1>4

\* Sinking from the front of four slots keeps the branch in order.
LEMMA BranchDown ==
  ASSUME 4 <= QueueSlots, key \in [Tasks -> Nat], NEW s, Packed(s, 4),
         key[s[1]] <= key[s[3]]
  PROVE  key[HeapDown(s, 4, 0)[1]] <= key[HeapDown(s, 4, 0)[3]]
<1> DEFINE first == LeastOf(s, 4, 0)
           u == Swap(s, 0, first)
<1>1. /\ {0, 1, 2, 3} \subseteq Slots /\ s \in Stores
      /\ 4 \in 0 .. QueueSlots /\ {0, 1, 2, 3} \subseteq 0 .. 4 - 1
  BY QueueAssumption DEF Packed, Slots
<1>2. \A i \in {0, 1, 2, 3} : key[s[i]] \in Nat
  BY <1>1, PackedTasks
<1>3. /\ first \in {0, 1, 2}
      /\ HeapDown(s, 4, 0) = IF first = 0 THEN s ELSE HeapDown(u, 4, first)
  BY <1>1, LeastIsBelow, HeapDownStep
<1> HIDE DEF first
<1>4. CASE first = 1
  <2> DEFINE second == LeastOf(u, 4, 1)
             v == Swap(u, 1, second)
  <2>1. u \in Stores /\ u[1] = s[0] /\ u[3] = s[3] /\ Packed(u, 4)
    <3>1. u \in Stores /\ u[1] = s[0] /\ u[3] = s[3]
      BY <1>1, <1>4 DEF Swap, Stores
    <3>2. Packed(u, 4)
      BY <1>1, <1>4, SwapReorders DEF Reordered
    <3> QED
      BY <3>1, <3>2
  <2> HIDE DEF u
  <2>2. /\ second \in {1, 3}
        /\ HeapDown(u, 4, 1) = IF second = 1 THEN u ELSE HeapDown(v, 4, second)
    BY <1>1, <2>1, LeastIsBelow, HeapDownStep
  <2>3. /\ second = 1 => key[u[1]] <= key[u[3]]
        /\ second = 3 => key[u[3]] < key[u[1]]
    BY <1>1, <2>1, LeastIsLeast
  <2> HIDE DEF second
  <2>4. CASE second = 3
    <3>1. v \in Stores /\ v[1] = u[3] /\ v[3] = u[1]
      BY <1>1, <2>1, <2>4 DEF Swap, Stores
    <3> HIDE DEF v
    <3>2. HeapDown(v, 4, 3) = v
      BY <1>1, <3>1, LeastBehind, HeapDownStep
    <3> QED
      BY <1>2, <1>3, <1>4, <2>1, <2>2, <2>3, <2>4, <3>1, <3>2
  <2> QED
    BY <1>2, <1>3, <1>4, <2>1, <2>2, <2>3, <2>4
<1>5. CASE first = 2
  <2>1. u \in Stores /\ u[1] = s[1] /\ u[3] = s[3]
    BY <1>1, <1>5 DEF Swap, Stores
  <2> HIDE DEF u
  <2>2. HeapDown(u, 4, 2) = u
    BY <1>1, <2>1, LeastBehind, HeapDownStep
  <2> QED
    BY <1>3, <1>5, <2>1, <2>2
<1> QED
  BY <1>3, <1>4, <1>5

-----------------------------------------------------------------------------
\* The operations.

\* The history variables and the keys.
HeapTyped ==
  /\ key \in [Tasks -> Nat]
  /\ peak \in Nat /\ length <= peak
  /\ cut \in BOOLEAN

HeapInv == StoreOK /\ HeapTyped

LEMMA StorePacked == StoreOK <=> length \in 0 .. QueueSlots /\ Packed(store, length)
BY DEF StoreOK, Packed

\* An insertion into a queue that is not full puts the task behind the others and lets
\* it climb.
LEMMA InsertStep ==
  ASSUME HeapInv, NEW t \in Tasks, NEW k \in Keys, OS_TCBPriorityQueueInsert(t, k),
         ~OS_TCBPriorityQueueFull
  PROVE  LET s == [store EXCEPT ![length] = t] IN
           /\ length \in Nat /\ length < QueueSlots
           /\ key' \in [Tasks -> Nat]
           /\ \A i \in 0 .. length - 1 : s[i] = store[i] /\ key'[s[i]] = key[store[i]]
           /\ s[length] = t /\ key'[t] = k
           /\ Packed(s, length + 1) /\ Held(s, length + 1) = Held(store, length) \cup {t}
           /\ store' = HeapUp(s, length) /\ length' = length + 1
<1> DEFINE s == [store EXCEPT ![length] = t]
<1>1. /\ QueueSlots \in Nat /\ length \in Nat /\ length < QueueSlots /\ length \in Slots
      /\ store \in Stores
  BY QueueAssumption, StorePacked DEF OS_TCBPriorityQueueFull, HeapInv, Packed, Slots
<1>2. t \notin {store[i] : i \in Slots} /\ \A i \in 0 .. length - 1 : i \in Slots
  BY <1>1 DEF OS_TCBPriorityQueueInsert, Slots
<1>3. key' \in [Tasks -> Nat] /\ key'[t] = k /\ \A u \in Tasks \ {t} : key'[u] = key[u]
  BY HeapAssumption DEF OS_TCBPriorityQueueInsert, HeapInv, HeapTyped
<1>4. s \in Stores /\ s[length] = t /\ \A i \in Slots \ {length} : s[i] = store[i]
  BY <1>1 DEF Stores
<1>5. store' = HeapUp(s, length) /\ length' = length + 1
  BY DEF OS_TCBPriorityQueueInsert
<1> HIDE DEF s
<1>6. \A i \in 0 .. length - 1 : s[i] = store[i] /\ key'[s[i]] = key[store[i]]
  <2>1. \A i \in 0 .. length - 1 : store[i] \in Tasks \ {t}
    BY <1>1, <1>2, StorePacked, PackedTasks DEF HeapInv
  <2>2. \A i \in 0 .. length - 1 : i \in Slots \ {length}
    BY <1>1, <1>2
  <2> QED
    BY <1>3, <1>4, <2>1, <2>2
<1>7. Packed(s, length + 1)
  <2>1. \A i \in Slots : (s[i] = Nil) <=> (i >= length + 1)
    <3> SUFFICES ASSUME NEW i \in Slots PROVE (s[i] = Nil) <=> (i >= length + 1)
      OBVIOUS
    <3>1. (store[i] = Nil) <=> (i >= length)
      BY StorePacked DEF HeapInv, Packed
    <3> QED
      BY <1>1, <1>4, <3>1, QueueAssumption DEF Slots
  <2>2. ASSUME NEW i \in 0 .. length, NEW j \in 0 .. length, s[i] = s[j] PROVE i = j
    <3>1. \A l \in 0 .. length : l = length \/ l \in 0 .. length - 1
      BY <1>1
    <3>2. \A l \in 0 .. length - 1 : s[l] = store[l] /\ s[l] # t
      BY <1>2, <1>6
    <3>3. \A l, m \in 0 .. length - 1 : store[l] = store[m] => l = m
      BY StorePacked DEF HeapInv, Packed
    <3> QED
      BY <1>4, <2>2, <3>1, <3>2, <3>3
  <2>3. (length + 1) - 1 = length
    BY <1>1
  <2> QED
    BY <1>4, <2>1, <2>2, <2>3 DEF Packed
<1>8. Held(s, length + 1) = Held(store, length) \cup {t}
  <2>1. 0 .. (length + 1) - 1 = (0 .. length - 1) \cup {length}
    BY <1>1
  <2> QED
    BY <1>4, <1>6, <2>1 DEF Held
<1> QED
  BY <1>1, <1>3, <1>4, <1>5, <1>6, <1>7, <1>8 DEF s

\* A removal puts the last task into the slot and lets it sink.
LEMMA VacateStep ==
  ASSUME HeapInv, NEW i \in 0 .. length - 1, Vacate(i)
  PROVE  LET last == length - 1
             s == [[store EXCEPT ![i] = store[last]] EXCEPT ![last] = Nil]
         IN  /\ last \in 0 .. QueueSlots /\ last < QueueSlots /\ i \in Slots
             /\ \A j \in 0 .. last - 1 : s[j] = IF j = i THEN store[last] ELSE store[j]
             /\ Packed(s, last) /\ Held(s, last) = Held(store, length) \ {store[i]}
             /\ store' = HeapDown(s, last, i) /\ length' = last
<1> DEFINE last == length - 1
           s == [[store EXCEPT ![i] = store[last]] EXCEPT ![last] = Nil]
<1>1. /\ QueueSlots \in Nat /\ length \in Nat /\ 0 < length /\ length <= QueueSlots
      /\ last \in Nat /\ last < length /\ i <= last
      /\ i \in Slots /\ last \in Slots /\ store \in Stores
  BY QueueAssumption, StorePacked DEF HeapInv, Packed, Slots
<1>2. store' = HeapDown(s, last, i) /\ length' = last
  BY DEF Vacate
<1>3. /\ \A j \in Slots : (store[j] = Nil) <=> (j >= length)
      /\ \A j, l \in 0 .. length - 1 : store[j] = store[l] => j = l
  BY StorePacked DEF HeapInv, Packed
<1>4. s \in Stores /\ \A j \in Slots :
        s[j] = IF j = last THEN Nil ELSE IF j = i THEN store[last] ELSE store[j]
  BY <1>1 DEF Stores
<1> HIDE DEF s
<1>5. \A j \in 0 .. last - 1 :
        /\ j \in Slots /\ j \in 0 .. length - 1 /\ j # last
        /\ s[j] = IF j = i THEN store[last] ELSE store[j]
  <2>1. \A j \in 0 .. last - 1 : j \in Slots /\ j \in 0 .. length - 1 /\ j # last
    BY <1>1 DEF Slots
  <2> QED
    BY <1>4, <2>1
<1>6. Packed(s, last)
  <2>1. ASSUME NEW j \in Slots PROVE (s[j] = Nil) <=> (j >= last)
    <3>1. j \in Nat /\ store[last] # Nil
      BY <1>1, <1>3 DEF Slots
    <3> QED
      BY <1>1, <1>3, <1>4, <3>1
  <2>2. ASSUME NEW j \in 0 .. last - 1, NEW l \in 0 .. last - 1, s[j] = s[l] PROVE j = l
    <3>1. last \in 0 .. length - 1
      BY <1>1
    <3> QED
      BY <1>3, <1>5, <2>2, <3>1
  <2> QED
    BY <1>4, <2>1, <2>2 DEF Packed
<1>7. Held(s, last) = Held(store, length) \ {store[i]}
  <2>1. last \in 0 .. length - 1 /\ i \in 0 .. length - 1
    BY <1>1
  <2>2. ASSUME NEW j \in 0 .. last - 1
        PROVE  s[j] \in Held(store, length) /\ s[j] # store[i]
    BY <1>3, <1>5, <2>1 DEF Held
  <2>3. ASSUME NEW j \in 0 .. length - 1, store[j] # store[i]
        PROVE  \E l \in 0 .. last - 1 : s[l] = store[j]
    <3>1. CASE j = last
      <4>1. i \in 0 .. last - 1
        BY <1>1, <2>3, <3>1
      <4> QED
        BY <1>5, <3>1, <4>1
    <3>2. CASE j # last
      <4>1. j \in 0 .. last - 1
        BY <1>1, <3>2
      <4> QED
        BY <1>5, <2>3, <4>1
    <3> QED
      BY <3>1, <3>2
  <2> QED
    BY <2>2, <2>3 DEF Held
<1> QED
  <2> HIDE DEF last
  <2>1. last \in 0 .. QueueSlots /\ last < QueueSlots
    BY <1>1
  <2> QED
    BY <1>1, <1>2, <1>5, <1>6, <1>7, <2>1 DEF s, last

\* Every operation keeps the array packed.
LEMMA NextHeapInv == HeapInv /\ [Next]_vars => HeapInv'
<1> SUFFICES ASSUME HeapInv, [Next]_vars PROVE HeapInv'
  OBVIOUS
<1>0. /\ length \in Nat /\ length \in 0 .. QueueSlots /\ QueueSlots \in Nat
      /\ Packed(store, length)
  BY QueueAssumption, StorePacked DEF HeapInv
<1>1. ASSUME NEW t \in Tasks, NEW k \in Keys, OS_TCBPriorityQueueInsert(t, k)
      PROVE  HeapInv'
  <2>1. CASE OS_TCBPriorityQueueFull
    BY <1>0, <1>1, <2>1, HeapAssumption
    DEF OS_TCBPriorityQueueInsert, OS_TCBPriorityQueueFull, HeapInv, HeapTyped, StoreOK
  <2>2. CASE ~OS_TCBPriorityQueueFull
    <3> DEFINE s == [store EXCEPT ![length] = t]
    <3>1. /\ length < QueueSlots /\ key' \in [Tasks -> Nat]
          /\ Packed(s, length + 1)
          /\ store' = HeapUp(s, length) /\ length' = length + 1
      BY <1>1, <2>2, InsertStep
    <3> HIDE DEF s
    <3>2. length + 1 \in 0 .. QueueSlots /\ length \in 0 .. (length + 1) - 1
      BY <1>0, <3>1
    <3>3. Packed(HeapUp(s, length), length + 1)
      BY <3>1, <3>2, HeapUpSifts DEF Reordered
    <3>4. StoreOK'
      BY <3>1, <3>2, <3>3 DEF StoreOK, Packed
    <3>5. peak' \in Nat /\ length' <= peak' /\ cut' \in BOOLEAN
      BY <1>0, <1>1, <2>2 DEF OS_TCBPriorityQueueInsert, HeapInv, HeapTyped
    <3> QED
      BY <3>1, <3>4, <3>5 DEF HeapInv, HeapTyped
  <2> QED
    BY <2>1, <2>2
<1>2. ASSUME NEW i \in 0 .. length - 1, Vacate(i) PROVE HeapInv'
  <2> DEFINE last == length - 1
             s == [[store EXCEPT ![i] = store[last]] EXCEPT ![last] = Nil]
  <2>1. /\ last \in 0 .. QueueSlots /\ i \in Slots /\ Packed(s, last)
        /\ store' = HeapDown(s, last, i) /\ length' = last
    BY <1>2, VacateStep
  <2>2. key' = key /\ peak' = (IF last = 0 THEN 0 ELSE peak) /\ cut' \in BOOLEAN
    BY <1>2 DEF Vacate, HeapInv, HeapTyped
  <2>3. last \in Nat /\ last < length
    BY <1>0
  <2> HIDE DEF s, last
  <2>4. Packed(HeapDown(s, last, i), last)
    BY <2>1, HeapDownSifts DEF Reordered, HeapInv, HeapTyped
  <2>5. StoreOK'
    BY <2>1, <2>4 DEF StoreOK, Packed
  <2>6. HeapTyped'
    BY <1>0, <2>1, <2>2, <2>3 DEF HeapInv, HeapTyped
  <2> QED
    BY <2>5, <2>6 DEF HeapInv
<1>3. CASE OS_TCBPriorityQueueExtract
  <2>1. 0 \in 0 .. length - 1
    BY <1>0, <1>3 DEF OS_TCBPriorityQueueExtract
  <2> QED
    BY <1>2, <1>3, <2>1 DEF OS_TCBPriorityQueueExtract
<1>4. ASSUME NEW t \in Tasks, OS_TCBPriorityQueueRemove(t) PROVE HeapInv'
  BY <1>2, <1>4 DEF OS_TCBPriorityQueueRemove, Search
<1>5. CASE OS_TCB_PriorityQueueReSort
  <2>1. 0 \in Slots
    BY QueueAssumption DEF Slots
  <2>2. Packed(store', length)
    BY <1>0, <1>5, <2>1, HeapDownSifts
    DEF OS_TCB_PriorityQueueReSort, Reordered, HeapInv, HeapTyped
  <2> QED
    BY <1>0, <1>5, <2>2 DEF OS_TCB_PriorityQueueReSort, HeapInv, HeapTyped, StoreOK, Packed
<1>6. CASE UNCHANGED vars
  BY <1>6 DEF vars, HeapInv, HeapTyped, StoreOK
<1> QED
  BY <1>1, <1>3, <1>4, <1>5, <1>6 DEF Next

LEMMA InitHeapInv == Init => HeapInv
<1> SUFFICES ASSUME Init PROVE HeapInv
  OBVIOUS
<1>1. StoreOK
  BY QueueAssumption DEF Init, StoreOK, Stores, Slots
<1>2. HeapTyped
  <2>1. key \in [Tasks -> Keys] /\ length = 0 /\ peak = 0
    BY DEF Init
  <2>2. key \in [Tasks -> Nat]
    BY <2>1, HeapAssumption
  <2>3. cut \in BOOLEAN
    BY DEF Init
  <2> QED
    BY <2>1, <2>2, <2>3 DEF HeapTyped
<1> QED
  BY <1>1, <1>2 DEF HeapInv

LEMMA HeapInvariant == Spec => []HeapInv
BY InitHeapInv, NextHeapInv, PTL DEF Spec

\* No operation of the array loses a task, doubles it, leaves a hole before length or
\* reaches behind the array (OS/tcb_priority_queue.c).
THEOREM ArrayStaysWhole == Spec => []StoreOK
<1>1. HeapInv => StoreOK
  BY DEF HeapInv
<1> QED
  BY <1>1, HeapInvariant, PTL

-----------------------------------------------------------------------------
\* The order of short queues.

\* HeapUp takes slot 1 as the parent of slot 3, HeapDown too: the one branch of five
\* slots on which they agree, and the one that a removal at the root does not look at.
BranchInOrder == peak <= 5 /\ ~cut /\ length >= 4 => key[store[1]] <= key[store[3]]

\* An insertion keeps the front least, however long the queue is.
LEMMA InsertInOrder ==
  ASSUME HeapInv, FrontIsMin, NEW t \in Tasks, NEW k \in Keys, OS_TCBPriorityQueueInsert(t, k)
  PROVE  FrontIsMin'
<1>0. length \in Nat /\ Packed(store, length) /\ length \in 0 .. QueueSlots
  BY StorePacked, QueueAssumption DEF HeapInv
<1>1. CASE OS_TCBPriorityQueueFull
  <2>1. \A i \in 0 .. length - 1 : i \in Slots /\ store[i] \in Tasks
    BY <1>0, PackedTasks
  <2>2. \A i \in 0 .. length - 1 : key'[store[i]] = key[store[i]]
    BY <1>1, <2>1 DEF OS_TCBPriorityQueueInsert, HeapInv, HeapTyped
  <2>3. store' = store /\ length' = length
    BY <1>1 DEF OS_TCBPriorityQueueInsert, OS_TCBPriorityQueueFull
  <2>4. \A i \in 1 .. length - 1 : i \in 0 .. length - 1 /\ 0 \in 0 .. length - 1
    BY <1>0
  <2> QED
    BY <2>2, <2>3, <2>4 DEF FrontIsMin
<1>2. CASE ~OS_TCBPriorityQueueFull
  <2> DEFINE s == [store EXCEPT ![length] = t]
             n == length + 1
  <2>1. /\ length < QueueSlots /\ key' \in [Tasks -> Nat] /\ Packed(s, n)
        /\ \A i \in 0 .. length - 1 : s[i] = store[i] /\ key'[s[i]] = key[store[i]]
        /\ store' = HeapUp(s, length) /\ length' = n
    BY <1>2, InsertStep
  <2>2. n \in 0 .. QueueSlots /\ length \in 0 .. n - 1
    BY <1>0, <2>1, QueueAssumption
  <2>3. ASSUME NEW i \in 0 .. n - 1, i # length PROVE key'[s[0]] <= key'[s[i]]
    <3>1. i \in 0 .. length - 1 /\ 0 \in 0 .. length - 1
      BY <1>0, <2>3
    <3>2. key[store[0]] <= key[store[i]]
      <4>1. CASE i = 0
        BY <1>0, <3>1, <4>1, PackedTasks DEF HeapInv, HeapTyped
      <4>2. CASE i \in 1 .. length - 1
        BY <4>2 DEF FrontIsMin
      <4> QED
        BY <3>1, <4>1, <4>2
    <3> QED
      BY <2>1, <3>1, <3>2
  <2> HIDE DEF s, n
  <2>4. UpLeast(HeapUp(s, length), s, n, length)
    BY <2>1, <2>2, HeapUpSifts
  <2> QED
    BY <2>1, <2>3, <2>4 DEF UpLeast, FrontLeast, FrontIsMin
<1> QED
  BY <1>1, <1>2

LEMMA InsertBranchInOrder ==
  ASSUME HeapInv, FrontIsMin, length >= 4 => key[store[1]] <= key[store[3]],
         NEW t \in Tasks, NEW k \in Keys, OS_TCBPriorityQueueInsert(t, k),
         ~OS_TCBPriorityQueueFull, length' >= 4, length' <= 5
  PROVE  key'[store'[1]] <= key'[store'[3]]
<1> DEFINE s == [store EXCEPT ![length] = t]
           n == length + 1
<1>1. /\ length \in Nat /\ length < QueueSlots /\ key' \in [Tasks -> Nat] /\ Packed(s, n)
      /\ \A i \in 0 .. length - 1 : s[i] = store[i] /\ key'[s[i]] = key[store[i]]
      /\ store' = HeapUp(s, length) /\ length' = n
  BY InsertStep
<1>2. n \in 4 .. QueueSlots /\ n <= 5 /\ length = n - 1
  BY <1>1, QueueAssumption
<1>3. ASSUME NEW i \in 0 .. n - 1, i # n - 1 PROVE key'[s[0]] <= key'[s[i]]
  <2>1. i \in 0 .. length - 1 /\ 0 \in 0 .. length - 1
    BY <1>1, <1>2, <1>3
  <2>2. key[store[0]] <= key[store[i]]
    <3>1. CASE i = 0
      BY <1>1, <2>1, <3>1, PackedTasks, StorePacked DEF HeapInv, HeapTyped
    <3>2. CASE i \in 1 .. length - 1
      BY <3>2 DEF FrontIsMin
    <3> QED
      BY <2>1, <3>1, <3>2
  <2> QED
    BY <1>1, <2>1, <2>2
<1>4. n = 5 => key'[s[1]] <= key'[s[3]]
  <2> SUFFICES ASSUME n = 5 PROVE key'[s[1]] <= key'[s[3]]
    OBVIOUS
  <2>1. length = 4 /\ 1 \in 0 .. length - 1 /\ 3 \in 0 .. length - 1
    BY <1>2
  <2> QED
    BY <1>1, <2>1
<1> HIDE DEF s, n
<1> QED
  BY <1>1, <1>2, <1>3, <1>4, BranchUp

\* A removal behind the front leaves the front least.
LEMMA RemoveInOrder ==
  ASSUME HeapInv, FrontIsMin, NEW i \in 0 .. length - 1, i # 0, Vacate(i)
  PROVE  FrontIsMin'
<1> DEFINE last == length - 1
           s == [[store EXCEPT ![i] = store[last]] EXCEPT ![last] = Nil]
           r == HeapDown(s, last, i)
<1>0. length \in Nat /\ Packed(store, length) /\ length \in 0 .. QueueSlots /\ key' = key
  BY StorePacked, QueueAssumption DEF HeapInv, Vacate
<1>1. /\ last \in 0 .. QueueSlots /\ i \in Slots
      /\ \A j \in 0 .. last - 1 : s[j] = IF j = i THEN store[last] ELSE store[j]
      /\ Packed(s, last) /\ Held(s, last) = Held(store, length) \ {store[i]}
      /\ store' = r /\ length' = last
  BY VacateStep
<1>2. last > 0 /\ 0 \in 0 .. last - 1 /\ 0 \in Slots /\ 0 < i /\ 0 \in 0 .. length - 1
  BY <1>0, QueueAssumption DEF Slots
<1> HIDE DEF s, last
<1>3. Reordered(r, s, last) /\ r[0] = s[0]
  BY <1>1, <1>2, HeapDownSifts DEF HeapInv, HeapTyped
<1>4. s[0] = store[0]
  BY <1>1, <1>2
<1> HIDE DEF r
<1>5. ASSUME NEW j \in 0 .. last - 1 PROVE key[r[0]] <= key[s[j]]
  <2>1. s[j] \in Held(store, length)
    BY <1>1 DEF Held
  <2>2. PICK l \in 0 .. length - 1 : s[j] = store[l]
    BY <2>1 DEF Held
  <2>3. key[store[0]] <= key[store[l]]
    <3>1. CASE l = 0
      BY <1>0, <1>2, <3>1, PackedTasks DEF HeapInv, HeapTyped
    <3>2. CASE l \in 1 .. length - 1
      BY <3>2 DEF FrontIsMin
    <3> QED
      BY <3>1, <3>2
  <2> QED
    BY <1>3, <1>4, <2>2, <2>3
<1>6. FrontLeast(key, r, last)
  BY <1>1, <1>2, <1>3, <1>5, LeastOfHeld DEF HeapInv, HeapTyped
<1> QED
  BY <1>0, <1>1, <1>6 DEF FrontLeast, FrontIsMin

\* An extraction does so if no more than three tasks are left, or if the fourth is in
\* order with its parent; and then it stays so.
LEMMA ExtractInOrder ==
  ASSUME HeapInv, FrontIsMin, 0 < length, Vacate(0),
         length <= 4 \/ (length = 5 /\ key[store[1]] <= key[store[3]])
  PROVE  FrontIsMin' /\ (length' >= 4 => key'[store'[1]] <= key'[store'[3]])
<1> DEFINE last == length - 1
           s == [[store EXCEPT ![0] = store[last]] EXCEPT ![last] = Nil]
           r == HeapDown(s, last, 0)
           least == LeastOf(s, last, 0)
<1>0. length \in Nat /\ 0 \in 0 .. length - 1 /\ key' = key /\ key \in [Tasks -> Nat]
  BY StorePacked, QueueAssumption DEF HeapInv, HeapTyped, Vacate
<1>1. /\ last \in 0 .. QueueSlots /\ 0 \in Slots
      /\ \A j \in 0 .. last - 1 : s[j] = IF j = 0 THEN store[last] ELSE store[j]
      /\ Packed(s, last)
      /\ store' = r /\ length' = last
  BY <1>0, VacateStep
<1>2. last \in Nat /\ last <= 4
  BY <1>0
<1>3. last = 4 => key[s[1]] <= key[s[3]]
  <2> SUFFICES ASSUME last = 4 PROVE key[s[1]] <= key[s[3]]
    OBVIOUS
  <2>1. length = 5 /\ 1 \in 0 .. last - 1 /\ 3 \in 0 .. last - 1
    BY <1>0
  <2>2. s[1] = store[1] /\ s[3] = store[3]
    BY <1>1, <2>1
  <2> QED
    BY <2>1, <2>2
<1> HIDE DEF s, last
<1>4. Reordered(r, s, last)
  BY <1>0, <1>1, HeapDownSifts
<1>5. FrontLeast(key, r, last)
  <2>1. CASE last = 0
    BY <2>1 DEF FrontLeast
  <2>2. CASE last > 0
    <3>1. /\ r[0] = s[least] /\ least \in 0 .. last - 1
          /\ \A i \in {0, 1, 2} : i < last => key[s[least]] <= key[s[i]]
      <4>1. 0 \in 0 .. last - 1
        BY <1>2, <2>2
      <4>2. r[0] = s[least]
        BY <1>0, <1>1, <2>2, HeapDownFront
      <4>3. /\ least \in 0 .. last - 1
            /\ \A i \in {0, 2 * 0 + 1, 2 * 0 + 2} : i < last => key[s[least]] <= key[s[i]]
        BY <1>0, <1>1, <4>1, LeastIsLeast
      <4> QED
        BY <4>2, <4>3
    <3> HIDE DEF least, r
    <3>2. ASSUME NEW i \in 0 .. last - 1 PROVE key[r[0]] <= key[s[i]]
      <4>1. i \in {0, 1, 2} \/ (i = 3 /\ last = 4)
        BY <1>2
      <4>2. \A j \in 0 .. last - 1 : key[s[j]] \in Nat
        BY <1>0, <1>1, PackedTasks
      <4>3. CASE i \in {0, 1, 2}
        BY <3>1, <4>3, <1>2
      <4>4. CASE i = 3 /\ last = 4
        <5>1. key[s[least]] <= key[s[1]] /\ key[s[1]] \in Nat /\ key[s[3]] \in Nat
          BY <3>1, <4>2, <4>4
        <5> QED
          BY <1>3, <3>1, <4>2, <4>4, <5>1
      <4> QED
        BY <4>1, <4>3, <4>4
    <3> QED
      BY <1>0, <1>1, <1>4, <2>2, <3>2, LeastOfHeld
  <2> QED
    BY <1>2, <2>1, <2>2
<1>6. last >= 4 => key[r[1]] <= key[r[3]]
  <2> SUFFICES ASSUME last = 4 PROVE key[r[1]] <= key[r[3]]
    BY <1>2
  <2>1. 4 <= QueueSlots
    BY <1>1, QueueAssumption
  <2> QED
    BY <1>0, <1>1, <1>3, <2>1, BranchDown
<1> QED
  BY <1>0, <1>1, <1>5, <1>6 DEF FrontLeast, FrontIsMin

ShortInv == ShortQueueInOrder /\ BranchInOrder

LEMMA NextShortInv ==
  ASSUME HeapInv, ShortInv, [Next]_vars PROVE ShortInv'
<1> USE DEF ShortInv, ShortQueueInOrder, BranchInOrder
<1>0. /\ length \in Nat /\ peak \in Nat /\ length <= peak /\ QueueSlots \in Nat
      /\ key \in [Tasks -> Nat] /\ Packed(store, length) /\ length \in 0 .. QueueSlots
  BY StorePacked, QueueAssumption DEF HeapInv, HeapTyped
<1>1. ASSUME NEW t \in Tasks, NEW k \in Keys, OS_TCBPriorityQueueInsert(t, k)
      PROVE  ShortInv'
  <2>1. CASE OS_TCBPriorityQueueFull
    <3>1. UNCHANGED <<store, length, peak, cut>>
      BY <2>1, <1>1 DEF OS_TCBPriorityQueueInsert
    <3>2. length >= 4 => key'[store[1]] = key[store[1]] /\ key'[store[3]] = key[store[3]]
      <4> SUFFICES ASSUME length >= 4, NEW i \in {1, 3} PROVE key'[store[i]] = key[store[i]]
        OBVIOUS
      <4>1. i \in 0 .. length - 1
        BY <1>0
      <4>2. i \in Slots /\ store[i] \in Tasks
        BY <1>0, <4>1, PackedTasks
      <4> QED
        BY <1>1, <4>2 DEF OS_TCBPriorityQueueInsert, HeapInv, HeapTyped
    <3>3. FrontIsMin => FrontIsMin'
      BY <1>1, InsertInOrder
    <3> HIDE DEF FrontIsMin
    <3> QED
      BY <3>1, <3>2, <3>3
  <2>2. CASE ~OS_TCBPriorityQueueFull
    <3>1. /\ peak' = IF length' > peak THEN length' ELSE peak
          /\ length' = length + 1 /\ cut' = cut
      BY <1>1, <2>2 DEF OS_TCBPriorityQueueInsert
    <3>2. peak' \in Nat /\ peak <= peak' /\ length' <= peak'
      BY <1>0, <3>1
    <3>3. FrontIsMin => FrontIsMin'
      BY <1>1, InsertInOrder
    <3>4. CASE peak' <= 4 \/ (peak' <= 5 /\ ~cut)
      <4>1. FrontIsMin
        BY <1>0, <3>2, <3>4
      <4>2. BranchInOrder'
        <5> SUFFICES ASSUME peak' <= 5, ~cut, length' >= 4
                     PROVE  key'[store'[1]] <= key'[store'[3]]
          BY <3>1
        <5>1. length >= 4 => key[store[1]] <= key[store[3]]
          BY <1>0, <3>2
        <5>2. length' <= 5
          BY <1>0, <3>1, <3>2
        <5> QED
          BY <1>1, <2>2, <4>1, <5>1, <5>2, InsertBranchInOrder
      <4> HIDE DEF BranchInOrder, FrontIsMin
      <4> QED
        BY <3>3, <4>1, <4>2
    <3>5. CASE ~(peak' <= 4 \/ (peak' <= 5 /\ ~cut))
      BY <3>1, <3>5
    <3> QED
      BY <3>4, <3>5
  <2> QED
    BY <2>1, <2>2
<1>2. ASSUME 0 < length, Vacate(0) PROVE ShortInv'
  <2> DEFINE last == length - 1
  <2>1. /\ length' = last /\ peak' = (IF last = 0 THEN 0 ELSE peak)
        /\ last # 0 => (cut' <=> cut)
    BY <1>2 DEF Vacate, HeapInv, HeapTyped
  <2>2. CASE last = 0
    BY <2>1, <2>2 DEF FrontIsMin
  <2>3. CASE last # 0
    <3> SUFFICES ASSUME peak <= 4 \/ (peak <= 5 /\ ~cut) PROVE ShortInv'
      BY <2>1, <2>3
    <3>1. FrontIsMin
      OBVIOUS
    <3>2. length <= 4 \/ (length = 5 /\ key[store[1]] <= key[store[3]])
      BY <1>0
    <3>3. FrontIsMin' /\ (length' >= 4 => key'[store'[1]] <= key'[store'[3]])
      BY <1>2, <3>1, <3>2, ExtractInOrder
    <3> HIDE DEF FrontIsMin
    <3> QED
      BY <3>3
  <2> QED
    BY <2>2, <2>3
<1>3. ASSUME NEW i \in 0 .. length - 1, i # 0, Vacate(i) PROVE ShortInv'
  <2>0. length - 1 # 0
    BY <1>0, <1>3
  <2>1. length' = length - 1 /\ peak' = peak
    BY <1>3, <2>0 DEF Vacate
  <2>3. cut'
    BY <1>3, <2>0, Zenon DEF Vacate
  <2>2. FrontIsMin => FrontIsMin'
    BY <1>3, RemoveInOrder
  <2> HIDE DEF FrontIsMin
  <2> QED
    BY <2>1, <2>2, <2>3
<1>4. ASSUME NEW i \in 0 .. length - 1, Vacate(i) PROVE ShortInv'
  BY <1>0, <1>2, <1>3, <1>4
<1>5. CASE OS_TCBPriorityQueueExtract
  BY <1>2, <1>5 DEF OS_TCBPriorityQueueExtract
<1>6. ASSUME NEW t \in Tasks, OS_TCBPriorityQueueRemove(t) PROVE ShortInv'
  BY <1>4, <1>6 DEF OS_TCBPriorityQueueRemove, Search
<1>7. CASE OS_TCB_PriorityQueueReSort
  <2>1. UNCHANGED <<length, key, peak, cut>> /\ store' = HeapDown(store, length, 0)
    BY <1>7 DEF OS_TCB_PriorityQueueReSort
  <2>2. FrontIsMin => store' = store
    BY <1>0, <2>1, HeapDownOfLeast DEF FrontIsMin, FrontLeast
  <2>3. FrontIsMin => FrontIsMin'
    BY <2>1, <2>2 DEF FrontIsMin
  <2> HIDE DEF FrontIsMin
  <2> QED
    BY <2>1, <2>2, <2>3
<1>8. CASE UNCHANGED vars
  BY <1>8 DEF vars, FrontIsMin
<1> QED
  BY <1>1, <1>5, <1>6, <1>7, <1>8 DEF Next

LEMMA ShortInvariant == Spec => [](HeapInv /\ ShortInv)
<1>1. Init => ShortInv
  BY DEF Init, ShortInv, ShortQueueInOrder, BranchInOrder, FrontIsMin
<1> QED
  BY <1>1, InitHeapInv, NextHeapInv, NextShortInv, PTL DEF Spec

\* The front of a queue has the lowest key as long as the queue has not held more than
\* four tasks since it was empty, or five if only fronts were taken (the comment on
\* "element 0" in OS/tcb_priority_queue.c).
THEOREM ShortQueuesOrdered == Spec => []ShortQueueInOrder
<1>1. ShortInv => ShortQueueInOrder
  BY DEF ShortInv
<1> QED
  BY <1>1, ShortInvariant, PTL

-----------------------------------------------------------------------------
\* The refinement.

\* At most four tasks can be in the queue.
Few == QueueSlots <= 4 \/ (IsFiniteSet(Tasks) /\ Cardinality(Tasks) <= 4)

LEMMA HeldSize ==
  ASSUME NEW n \in 0 .. QueueSlots, NEW s, Packed(s, n)
  PROVE  IsFiniteSet(Held(s, n)) /\ Cardinality(Held(s, n)) = n
<1> DEFINE f == [i \in 0 .. n - 1 |-> s[i]]
<1>1. n \in Nat
  BY QueueAssumption
<1>2. IsFiniteSet(0 .. n - 1) /\ Cardinality(0 .. n - 1) = n
  BY <1>1, FS_Interval
<1>3. f \in [0 .. n - 1 -> Held(s, n)]
  BY DEF Held
<1>4. f \in Surjection(0 .. n - 1, Held(s, n))
  BY <1>3 DEF Surjection, Held
<1>5. \A i, j \in 0 .. n - 1 : f[i] = f[j] => i = j
  BY DEF Packed
<1>6. f \in Injection(0 .. n - 1, Held(s, n))
  BY <1>3, <1>5 DEF Injection, IsInjective
<1> QED
  BY <1>2, <1>4, <1>6, FS_Surjection

\* Few tasks are never more than four, so the queue stays short.
StaysShort == Few => peak <= 4

LEMMA FewHeld == HeapInv /\ Few => length <= 4
<1> SUFFICES ASSUME HeapInv, Few PROVE length <= 4
  OBVIOUS
<1>1. length \in 0 .. QueueSlots /\ Packed(store, length) /\ length \in Nat
  BY StorePacked, QueueAssumption DEF HeapInv
<1>2. CASE QueueSlots <= 4
  BY <1>1, <1>2, QueueAssumption
<1>3. CASE IsFiniteSet(Tasks) /\ Cardinality(Tasks) <= 4
  <2>1. Held(store, length) \in SUBSET Tasks
    BY <1>1, PackedTasks DEF Held
  <2>2. Cardinality(Held(store, length)) <= Cardinality(Tasks)
    BY <1>3, <2>1, FS_Subset
  <2>3. Cardinality(Held(store, length)) = length
    BY <1>1, HeldSize
  <2>4. Cardinality(Tasks) \in Nat
    BY <1>3, FS_CardinalityType
  <2> QED
    BY <1>1, <1>3, <2>2, <2>3, <2>4
<1> QED
  BY <1>2, <1>3 DEF Few

LEMMA NextStaysShort ==
  ASSUME HeapInv, HeapInv', StaysShort, [Next]_vars PROVE StaysShort'
<1> SUFFICES ASSUME Few PROVE peak' <= 4
  BY DEF StaysShort, Few
<1>0. (HeapInv /\ Few => length <= 4)'
  BY FewHeld, PTL
<1>1. length' <= 4
  BY <1>0 DEF Few
<1>2. peak' \in {peak, length', 0}
  BY DEF Next, vars, OS_TCBPriorityQueueInsert, OS_TCBPriorityQueueExtract,
    OS_TCBPriorityQueueRemove, Vacate, OS_TCB_PriorityQueueReSort
<1> QED
  BY <1>1, <1>2 DEF StaysShort

LEMMA QueueOfArray ==
  ASSUME HeapInv
  PROVE  /\ AbstractQueue.tasks = Held(store, length)
         /\ AbstractQueue.front = IF length = 0 THEN Nil ELSE store[0]
         /\ length > 0 => store[0] \in Held(store, length)
         /\ Held(store, length) = {} <=> length = 0
         /\ Q!Full(AbstractQueue) <=> OS_TCBPriorityQueueFull
<1>1. length \in Nat /\ QueueSlots \in Nat /\ length \in 0 .. QueueSlots /\ Packed(store, length)
  BY StorePacked, QueueAssumption DEF HeapInv
<1>2. Cardinality(Held(store, length)) = length
  BY <1>1, HeldSize
<1>3. /\ AbstractQueue.tasks = Held(store, length)
      /\ AbstractQueue.front = IF length = 0 THEN Nil ELSE store[0]
  BY DEF AbstractQueue, Held
<1>4. Q!Full(AbstractQueue) <=> OS_TCBPriorityQueueFull
  <2>1. Q!Cardinality(AbstractQueue.tasks) = Cardinality(AbstractQueue.tasks)
    BY Zenon DEF Q!Cardinality, Cardinality, Q!IsFiniteSet, IsFiniteSet
  <2> QED
    BY <1>1, <1>2, <1>3, <2>1 DEF Q!Full, OS_TCBPriorityQueueFull
<1>5. length > 0 => store[0] \in Held(store, length)
  BY <1>1 DEF Held
<1>6. Held(store, length) = {} <=> length = 0
  BY <1>1, <1>5 DEF Held
<1> QED
  BY <1>3, <1>4, <1>5, <1>6

LEMMA QueueAfter ==
  AbstractQueue' = [tasks |-> Held(store', length'),
                    front |-> IF length' = 0 THEN Nil ELSE store'[0]]
BY DEF AbstractQueue, Held

LEMMA InsertImplements ==
  ASSUME HeapInv, HeapOrdered => FrontIsMin, NEW t \in Tasks, NEW k \in Keys,
         OS_TCBPriorityQueueInsert(t, k)
  PROVE  Q!Insert(t, k)
<1>1. /\ AbstractQueue.tasks = Held(store, length)
      /\ AbstractQueue.front = IF length = 0 THEN Nil ELSE store[0]
      /\ Held(store, length) = {} <=> length = 0
      /\ Q!Full(AbstractQueue) <=> OS_TCBPriorityQueueFull
  BY QueueOfArray
<1>2. length \in Nat /\ length \in 0 .. QueueSlots /\ Packed(store, length)
  BY StorePacked, QueueAssumption DEF HeapInv
<1>3. t \notin AbstractQueue.tasks
  BY <1>1, <1>2, PackedTasks DEF OS_TCBPriorityQueueInsert, Held
<1>4. key' = [key EXCEPT ![t] = k]
  BY DEF OS_TCBPriorityQueueInsert
<1>5. CASE OS_TCBPriorityQueueFull
  <2>1. AbstractQueue' = AbstractQueue
    BY <1>5 DEF OS_TCBPriorityQueueInsert, OS_TCBPriorityQueueFull, AbstractQueue
  <2>2. AbstractQueue' \in Q!Inserted(AbstractQueue, t, key')
    BY <1>1, <1>5, <2>1 DEF Q!Inserted
  <2> QED
    BY <1>3, <1>4, <2>2 DEF Q!Insert
<1>6. CASE ~OS_TCBPriorityQueueFull
  <2> DEFINE s == [store EXCEPT ![length] = t]
             n == length + 1
             old == AbstractQueue
             f == store'[0]
  <2>1. /\ length < QueueSlots /\ key' \in [Tasks -> Nat] /\ Packed(s, n)
        /\ \A i \in 0 .. length - 1 : s[i] = store[i]
        /\ s[length] = t /\ Held(s, n) = Held(store, length) \cup {t}
        /\ store' = HeapUp(s, length) /\ length' = n
    <3>1. /\ length < QueueSlots /\ key' \in [Tasks -> Nat] /\ Packed(s, n)
          /\ \A i \in 0 .. length - 1 : s[i] = store[i] /\ key'[s[i]] = key[store[i]]
      BY <1>6, InsertStep
    <3>2. /\ s[length] = t /\ Held(s, n) = Held(store, length) \cup {t}
          /\ store' = HeapUp(s, length) /\ length' = n
      BY <1>6, InsertStep
    <3> HIDE DEF s, n
    <3> QED
      BY <3>1, <3>2
  <2>2. n \in 0 .. QueueSlots /\ length \in 0 .. n - 1 /\ length' # 0
    BY <1>2, <2>1, QueueAssumption
  <2> HIDE DEF s, n
  <2>3. Reordered(store', s, n) /\ UpFront(store', s, length)
    BY <2>1, <2>2, HeapUpSifts
  <2>4. AbstractQueue' = [tasks |-> old.tasks \cup {t}, front |-> f]
    BY <1>1, <2>1, <2>2, <2>3, QueueAfter DEF Reordered
  <2>5. f \in Q!FrontsWith(old, t, key')
    <3>1. CASE length = 0
      <4>1. f = t
        BY <2>1, <2>3, <3>1 DEF UpFront
      <4> QED
        BY <1>1, <3>1, <4>1 DEF Q!FrontsWith
    <3>2. CASE length > 0
      <4>1. old.front = store[0] /\ s[0] = store[0] /\ old.tasks # {} /\ store[0] \in Tasks
        BY <1>1, <1>2, <2>1, <3>2, PackedTasks
      <4>2. f = old.front \/ (f = t /\ key'[t] < key'[old.front])
        BY <2>1, <2>3, <4>1 DEF UpFront
      <4>3. HeapOrdered => key'[f] <= key'[t]
        <5> SUFFICES ASSUME HeapOrdered PROVE key'[f] <= key'[t]
          OBVIOUS
        <5>1. FrontIsMin'
          BY InsertInOrder
        <5>2. t \in Held(store', n)
          BY <2>1, <2>3 DEF Reordered
        <5>3. PICK i \in 0 .. n - 1 : store'[i] = t
          BY <5>2 DEF Held
        <5>4. CASE i = 0
          BY <2>1, <5>3, <5>4
        <5>5. CASE i \in 1 .. n - 1
          BY <2>1, <5>1, <5>3, <5>5 DEF FrontIsMin
        <5> QED
          BY <5>4, <5>5
      <4>4. key'[t] \in Nat /\ key'[old.front] \in Nat
        BY <2>1, <4>1
      <4> HIDE DEF f, old
      <4>5. CASE key'[t] >= key'[old.front]
        BY <4>1, <4>2, <4>4, <4>5 DEF Q!FrontsWith
      <4>6. CASE ~(key'[t] >= key'[old.front])
        <5>1. HeapOrdered => f = t
          BY <4>2, <4>3, <4>4, <4>6
        <5>2. f \in {t, old.front}
          BY <4>2
        <5> QED
          BY <4>1, <4>6, <5>1, <5>2 DEF Q!FrontsWith
      <4> QED
        BY <4>5, <4>6
    <3> QED
      BY <1>2, <3>1, <3>2
  <2> HIDE DEF f
  <2>6. AbstractQueue' \in Q!Inserted(AbstractQueue, t, key')
    BY <1>1, <1>6, <2>4, <2>5 DEF Q!Inserted
  <2> QED
    BY <1>3, <1>4, <2>6 DEF Q!Insert
<1> QED
  BY <1>5, <1>6

LEMMA VacateImplements ==
  ASSUME HeapInv, HeapOrdered => FrontIsMin', NEW i \in 0 .. length - 1, Vacate(i)
  PROVE  store[i] \in Tasks /\ Q!Take(store[i])
<1> DEFINE last == length - 1
           s == [[store EXCEPT ![i] = store[last]] EXCEPT ![last] = Nil]
           old == AbstractQueue
           rest == Held(store, length) \ {store[i]}
<1>1. /\ last \in 0 .. QueueSlots /\ i \in Slots
      /\ \A j \in 0 .. last - 1 : s[j] = IF j = i THEN store[last] ELSE store[j]
      /\ Packed(s, last) /\ Held(s, last) = rest
      /\ store' = HeapDown(s, last, i) /\ length' = last
  BY VacateStep
<1>2. /\ length \in Nat /\ length \in 0 .. QueueSlots /\ Packed(store, length) /\ length > 0
      /\ key \in [Tasks -> Nat] /\ 0 \in 0 .. length - 1
  BY StorePacked, QueueAssumption DEF HeapInv, HeapTyped
<1>3. old.tasks = Held(store, length) /\ old.front = store[0]
  BY <1>2, QueueOfArray
<1>4. store[i] \in Tasks /\ store[i] \in old.tasks
  BY <1>2, <1>3, PackedTasks DEF Held
<1>5. key' = key
  BY DEF Vacate
<1>6. store[i] = old.front <=> i = 0
  BY <1>2, <1>3 DEF Packed
<1> HIDE DEF s
<1>7. Reordered(store', s, last) /\ \A j \in Slots : j < i => store'[j] = s[j]
  BY <1>1, <1>2, HeapDownSifts
<1> DEFINE f == IF length' = 0 THEN Nil ELSE store'[0]
<1>8. AbstractQueue' = [tasks |-> old.tasks \ {store[i]}, front |-> f]
  BY <1>1, <1>3, <1>7, QueueAfter DEF Reordered
<1>9. CASE i = 0
  <2>1. CASE last = 0
    <3>1. rest = {} /\ f = Nil
      BY <1>1, <2>1 DEF Held
    <3> QED
      BY <1>3, <1>4, <1>5, <1>6, <1>8, <1>9, <3>1 DEF Q!Take, Q!Removed, Q!Fronts
  <2>2. CASE last > 0
    <3>1. f = store'[0] /\ f \in rest
      <4>1. 0 \in 0 .. last - 1 /\ length' # 0
        BY <1>1, <2>2
      <4> QED
        BY <1>1, <1>7, <4>1 DEF Reordered, Held
    <3>2. ASSUME HeapOrdered, NEW u \in rest PROVE key[f] <= key[u]
      <4>1. FrontIsMin'
        BY <3>2
      <4>2. u \in Held(store', last)
        BY <1>1, <1>7 DEF Reordered
      <4>3. PICK j \in 0 .. last - 1 : store'[j] = u
        BY <4>2 DEF Held
      <4>4. u \in Tasks
        BY <1>2, PackedTasks DEF Held
      <4>5. CASE j = 0
        BY <1>2, <3>1, <4>3, <4>4, <4>5
      <4>6. CASE j \in 1 .. last - 1
        BY <1>1, <1>5, <3>1, <4>1, <4>3, <4>6 DEF FrontIsMin
      <4> QED
        BY <4>5, <4>6
    <3> HIDE DEF f, rest
    <3>3. f \in Q!Fronts(rest, key)
      BY <3>1, <3>2 DEF Q!Fronts
    <3> QED
      BY <1>3, <1>4, <1>5, <1>6, <1>8, <1>9, <3>3 DEF Q!Take, Q!Removed, rest
  <2>3. last = 0 \/ last > 0
    BY <1>2
  <2> HIDE DEF last
  <2> QED
    BY <2>1, <2>2, <2>3
<1>10. CASE i # 0
  <2>1. 0 \in 0 .. last - 1 /\ 0 \in Slots /\ 0 < i /\ length' # 0
    BY <1>1, <1>2, <1>10, QueueAssumption DEF Slots
  <2>2. f = old.front
    BY <1>1, <1>3, <1>7, <1>10, <2>1
  <2> HIDE DEF f
  <2> QED
    BY <1>4, <1>5, <1>6, <1>8, <1>10, <2>2 DEF Q!Take, Q!Removed
<1> QED
  BY <1>9, <1>10

LEMMA ReSortImplements ==
  ASSUME HeapInv, HeapOrdered => FrontIsMin, OS_TCB_PriorityQueueReSort
  PROVE  Q!ReSort \/ UNCHANGED <<AbstractQueue, key>>
<1> DEFINE least == LeastOf(store, length, 0)
<1>1. store' = HeapDown(store, length, 0) /\ length' = length /\ key' = key
  BY DEF OS_TCB_PriorityQueueReSort
<1>2. /\ length \in Nat /\ length \in 0 .. QueueSlots /\ Packed(store, length)
      /\ key \in [Tasks -> Nat] /\ 0 \in Slots
  BY StorePacked, QueueAssumption DEF HeapInv, HeapTyped, Slots
<1>3. CASE FrontLeast(key, store, length)
  <2>1. store' = store
    BY <1>1, <1>2, <1>3, HeapDownOfLeast
  <2> QED
    BY <1>1, <2>1 DEF AbstractQueue
<1>4. CASE ~FrontLeast(key, store, length)
  <2>1. ~HeapOrdered
    BY <1>4 DEF FrontIsMin, FrontLeast
  <2>2. length > 0
    BY <1>2, <1>4 DEF FrontLeast
  <2>3. AbstractQueue = [tasks |-> Held(store, length), front |-> store[0]]
    BY <2>2 DEF AbstractQueue, Held
  <2>4. Reordered(store', store, length)
    BY <1>1, <1>2, HeapDownSifts
  <2>5. store'[0] = store[least]
    BY <1>1, <1>2, <2>2, HeapDownFront
  <2>6. /\ least \in 0 .. length - 1
        /\ least # 0 => key[store[least]] < key[store[0]]
    BY <1>2, <2>2, LeastIsLeast
  <2>7. AbstractQueue' = [tasks |-> Held(store, length), front |-> store[least]]
    BY <1>1, <2>2, <2>4, <2>5, QueueAfter DEF Reordered
  <2>8. store[least] \in Held(store, length)
    BY <2>6 DEF Held
  <2> HIDE DEF least
  <2>9. CASE least = 0
    BY <1>1, <2>3, <2>7, <2>9
  <2>10. CASE least # 0
    BY <1>1, <2>1, <2>3, <2>6, <2>7, <2>8, <2>10 DEF Q!ReSort
  <2> QED
    BY <2>9, <2>10
<1> QED
  BY <1>3, <1>4

LEMMA NextImplements ==
  ASSUME HeapInv, HeapOrdered => FrontIsMin, HeapOrdered => FrontIsMin', [Next]_vars
  PROVE  [Q!Next]_<<AbstractQueue, key>>
<1>1. ASSUME NEW t \in Tasks, NEW k \in Keys, OS_TCBPriorityQueueInsert(t, k)
      PROVE  Q!Next
  BY <1>1, InsertImplements DEF Q!Next
<1>2. ASSUME NEW i \in 0 .. length - 1, Vacate(i) PROVE Q!Next
  BY <1>2, VacateImplements DEF Q!Next
<1>3. CASE OS_TCBPriorityQueueExtract
  <2>1. 0 \in 0 .. length - 1
    BY <1>3, StorePacked, QueueAssumption DEF OS_TCBPriorityQueueExtract, HeapInv
  <2> QED
    BY <1>2, <1>3, <2>1 DEF OS_TCBPriorityQueueExtract
<1>4. ASSUME NEW t \in Tasks, OS_TCBPriorityQueueRemove(t) PROVE Q!Next
  BY <1>2, <1>4 DEF OS_TCBPriorityQueueRemove, Search
<1>5. CASE OS_TCB_PriorityQueueReSort
  BY <1>5, ReSortImplements DEF Q!Next
<1>6. CASE UNCHANGED vars
  BY <1>6 DEF vars, AbstractQueue
<1> QED
  BY <1>1, <1>3, <1>4, <1>5, <1>6 DEF Next

\* The array implements the queue that the kernel relies on: every operation moves the
\* task it should and brings to the front a task TcbQueueSpec allows there
\* (OS/tcb_priority_queue.c).  In particular the front of a queue of at most four tasks
\* always has the lowest key.
THEOREM HeapImplementsQueue ==
  ASSUME HeapOrdered => Few PROVE Spec => QueueSpec
<1> DEFINE Inv == HeapInv /\ ShortInv /\ StaysShort
           Ordered == HeapOrdered => FrontIsMin
<1>1. Init => StaysShort
  BY DEF Init, StaysShort
<1>2. Spec => []Inv
  BY <1>1, ShortInvariant, NextStaysShort, PTL DEF Spec
<1>3. Inv => Ordered
  BY DEF ShortInv, ShortQueueInOrder, StaysShort
<1>4. Init => Q!Init
  BY QueueAssumption DEF Init, Q!Init, Q!EmptyQueue, AbstractQueue
<1>5. Inv /\ Ordered /\ Ordered' /\ [Next]_vars => [Q!Next]_<<AbstractQueue, key>>
  BY NextImplements
<1> HIDE DEF Inv, Ordered
<1> QED
  BY <1>2, <1>3, <1>4, <1>5, PTL DEF Spec, QueueSpec, Q!Spec

=============================================================================
