-------------------------- MODULE TimeEventsProofs --------------------------
(***************************************************************************)
(* Proofs about Heap and TimeEvents: what the operators of Heap do, for    *)
(* every heap and every order (the two recursive functions are defined,    *)
(* they only exchange elements, and they restore the order that one        *)
(* element breaks), and the timers, for any delays, any size of the heap   *)
(* and any number of timers.                                               *)
(***************************************************************************)
EXTENDS TimeEvents, Recursion, SequenceTheorems, FiniteSetTheorems

-------------------------------------------------------------------------------
(* The two functions of Heap. *)

Points == Heaps \X Nat

First == [p \in Points |-> p[1]]

UpStop(key) ==
    {p \in Points : p[2] \notin 2 .. Len(p[1])
                       \/ key[p[1][p[2] \div 2]] <= key[p[1][p[2]]]}

UpNext == [p \in Points |-> <<Swap(p[1], p[2], p[2] \div 2), p[2] \div 2>>]

DownStop(key) ==
    {p \in Points : 2 * p[2] \notin 2 .. Len(p[1])
                       \/ key[p[1][p[2]]] <= key[p[1][Child(p[1], key, p[2])]]}

DownNext(key) ==
    [p \in Points |-> <<Swap(p[1], p[2], Child(p[1], key, p[2])), Child(p[1], key, p[2])>>]

(* An exchange of two elements. *)
LEMMA SwapElements ==
    ASSUME NEW h \in Heaps, NEW i \in 1 .. Len(h), NEW j \in 1 .. Len(h)
    PROVE  /\ Swap(h, i, j) \in Heaps
           /\ Len(Swap(h, i, j)) = Len(h)
           /\ \A k \in 1 .. Len(h) :
                  Swap(h, i, j)[k] = IF k = j THEN h[i] ELSE IF k = i THEN h[j] ELSE h[k]
  BY DEF Swap, Heaps

LEMMA Half ==
    ASSUME NEW i \in Nat, i >= 2
    PROVE  i \div 2 \in Nat /\ 1 <= i \div 2 /\ i \div 2 < i
  OBVIOUS

LEMMA ChildIndex ==
    ASSUME NEW h \in Heaps, NEW key, NEW i \in Nat, 2 * i \in 2 .. Len(h)
    PROVE  /\ Child(h, key, i) \in {2 * i, 2 * i + 1}
           /\ Child(h, key, i) \in 2 .. Len(h)
           /\ i \in 1 .. Len(h)
  BY DEF Child, Heaps

(* adjustUp is the function its recursive definition says it is. *)
LEMMA UpFunction ==
    ASSUME NEW key
    PROVE  \E f : /\ TailRecursive(f, Points, UpStop(key), UpNext, First)
                  /\ \A h \in Heaps, i \in Nat : AdjustUp(h, key, i) = f[<<h, i>>]
  <1> DEFINE body(g) ==
                 [p \in Points |->
                     IF p[2] \notin 2 .. Len(p[1])
                          \/ key[p[1][p[2] \div 2]] <= key[p[1][p[2]]] THEN p[1]
                     ELSE g[<<Swap(p[1], p[2], p[2] \div 2), p[2] \div 2>>]]
             up == CHOOSE g : g = body(g)
  <1>1. \A q \in Points \ UpStop(key) : UpNext[q] \in Points
    <2> SUFFICES ASSUME NEW q \in Points \ UpStop(key)
                 PROVE  UpNext[q] \in Points
      OBVIOUS
    <2>1. q[1] \in Heaps /\ q[2] \in Nat /\ q[2] \in 2 .. Len(q[1])
      BY DEF Points, UpStop
    <2>2. q[2] \div 2 \in 1 .. Len(q[1]) /\ q[2] \div 2 \in Nat
      BY <2>1, Half DEF Heaps
    <2>3. Swap(q[1], q[2], q[2] \div 2) \in Heaps
      BY <2>1, <2>2, SwapElements
    <2> QED
      BY <2>2, <2>3 DEF UpNext, Points
  <1>2. PICK f : TailRecursive(f, Points, UpStop(key), UpNext, First)
    <2>1. UpStop(key) \in SUBSET Points
      BY DEF UpStop
    <2> QED
      BY <1>1, <2>1, TailRecursion
  <1>3. ASSUME NEW g
        PROVE  body(g) = [p \in Points |-> IF p \in UpStop(key) THEN First[p]
                                           ELSE g[UpNext[p]]]
    BY DEF UpStop, UpNext, First
  <1>4. f = body(f)
    BY <1>2, <1>3 DEF TailRecursive
  <1>5. up = body(up)
    <2> HIDE DEF body
    <2> QED
      BY <1>4
  <1>6. \A h \in Heaps, i \in Nat : AdjustUp(h, key, i) = up[<<h, i>>]
    BY DEF AdjustUp, Points
  <1>7. TailRecursive(up, Points, UpStop(key), UpNext, First)
    <2> HIDE DEF body, up
    <2> QED
      BY <1>3, <1>5 DEF TailRecursive
  <1> HIDE DEF up
  <1> QED
    BY <1>6, <1>7

(* So is adjustDown. *)
LEMMA DownFunction ==
    ASSUME NEW key
    PROVE  \E f : /\ TailRecursive(f, Points, DownStop(key), DownNext(key), First)
                  /\ \A h \in Heaps, i \in Nat : AdjustDown(h, key, i) = f[<<h, i>>]
  <1> DEFINE body(g) ==
                 [p \in Points |->
                     IF 2 * p[2] \notin 2 .. Len(p[1])
                          \/ key[p[1][p[2]]] <= key[p[1][Child(p[1], key, p[2])]] THEN p[1]
                     ELSE g[<<Swap(p[1], p[2], Child(p[1], key, p[2])),
                              Child(p[1], key, p[2])>>]]
             down == CHOOSE g : g = body(g)
  <1>1. \A q \in Points \ DownStop(key) : DownNext(key)[q] \in Points
    <2> SUFFICES ASSUME NEW q \in Points \ DownStop(key)
                 PROVE  DownNext(key)[q] \in Points
      OBVIOUS
    <2>1. q[1] \in Heaps /\ q[2] \in Nat /\ 2 * q[2] \in 2 .. Len(q[1])
      BY DEF Points, DownStop
    <2>2. Child(q[1], key, q[2]) \in 2 .. Len(q[1]) /\ q[2] \in 1 .. Len(q[1])
      BY <2>1, ChildIndex
    <2>3. Child(q[1], key, q[2]) \in 1 .. Len(q[1]) /\ Child(q[1], key, q[2]) \in Nat
      BY <2>1, <2>2 DEF Heaps
    <2>4. Swap(q[1], q[2], Child(q[1], key, q[2])) \in Heaps
      BY <2>1, <2>2, <2>3, SwapElements
    <2> QED
      BY <2>3, <2>4 DEF DownNext, Points
  <1>2. PICK f : TailRecursive(f, Points, DownStop(key), DownNext(key), First)
    <2>1. DownStop(key) \in SUBSET Points
      BY DEF DownStop
    <2> QED
      BY <1>1, <2>1, TailRecursion
  <1>3. ASSUME NEW g
        PROVE  body(g) = [p \in Points |-> IF p \in DownStop(key) THEN First[p]
                                           ELSE g[DownNext(key)[p]]]
    BY DEF DownStop, DownNext, First
  <1>4. f = body(f)
    BY <1>2, <1>3 DEF TailRecursive
  <1>5. down = body(down)
    <2> HIDE DEF body
    <2> QED
      BY <1>4
  <1>6. \A h \in Heaps, i \in Nat : AdjustDown(h, key, i) = down[<<h, i>>]
    BY DEF AdjustDown, Points
  <1>7. TailRecursive(down, Points, DownStop(key), DownNext(key), First)
    <2> HIDE DEF body, down
    <2> QED
      BY <1>3, <1>5 DEF TailRecursive
  <1> HIDE DEF down
  <1> QED
    BY <1>6, <1>7

-------------------------------------------------------------------------------
(* Exchanges keep the elements. *)

Distinct(h) == \A i, j \in 1 .. Len(h) : h[i] = h[j] => i = j

Rearranged(h, g) ==
    /\ Len(g) = Len(h)
    /\ ToSet(g) = ToSet(h)
    /\ Distinct(h) => Distinct(g)

(* Heaps of elements that the order compares. *)
Over(S) == {h \in Heaps : ToSet(h) \subseteq S}

LEMMA Elements ==
    ASSUME NEW S, NEW h \in Over(S), NEW i \in 1 .. Len(h)
    PROVE  h[i] \in S /\ h[i] \in ToSet(h)
  BY DEF Over, Heaps, ToSet

LEMMA SwapRearranges ==
    ASSUME NEW h \in Heaps, NEW i \in 1 .. Len(h), NEW j \in 1 .. Len(h)
    PROVE  Rearranged(h, Swap(h, i, j))
  <1> DEFINE g == Swap(h, i, j)
  <1>1. /\ g \in Heaps
        /\ Len(g) = Len(h)
        /\ \A k \in 1 .. Len(h) :
               g[k] = IF k = j THEN h[i] ELSE IF k = i THEN h[j] ELSE h[k]
    BY SwapElements
  <1> HIDE DEF g
  <1>2. DOMAIN g = 1 .. Len(h) /\ DOMAIN h = 1 .. Len(h)
    BY <1>1 DEF Heaps
  <1>3. ToSet(g) \subseteq ToSet(h)
    BY <1>1, <1>2 DEF ToSet
  <1>4. ToSet(h) \subseteq ToSet(g)
    <2> SUFFICES ASSUME NEW k \in 1 .. Len(h)
                 PROVE  h[k] \in ToSet(g)
      BY <1>2 DEF ToSet
    <2>1. h[k] \in {g[i], g[j], g[k]}
      BY <1>1
    <2> QED
      BY <1>2, <2>1 DEF ToSet
  <1>5. Distinct(h) => Distinct(g)
    BY <1>1 DEF Distinct
  <1> QED
    BY <1>1, <1>3, <1>4, <1>5 DEF Rearranged, g

LEMMA RearrangedTwice ==
    ASSUME NEW f, NEW g, NEW h, Rearranged(f, g), Rearranged(g, h)
    PROVE  Rearranged(f, h)
  BY DEF Rearranged

-------------------------------------------------------------------------------
(* The heap is in order but for the i-th element, which may be smaller     *)
(* than its parent.                                                        *)

Placed(h, key, j) == key[h[j \div 2]] <= key[h[j]]

UpOrder(h, key, i) ==
    /\ \A j \in 2 .. Len(h) : j # i => Placed(h, key, j)
    /\ \A j \in 2 .. Len(h) : i >= 2 /\ j \div 2 = i => key[h[i \div 2]] <= key[h[j]]

(* The exchange of adjustUp leaves the parent so. *)
LEMMA UpStep ==
    ASSUME NEW S, NEW key \in [S -> Nat], NEW h \in Over(S), NEW i \in 2 .. Len(h),
           UpOrder(h, key, i), ~Placed(h, key, i)
    PROVE  UpOrder(Swap(h, i, i \div 2), key, i \div 2)
  <1> DEFINE p == i \div 2
             g == Swap(h, i, p)
  <1>1. p \in 1 .. Len(h) /\ p < i /\ p \in Nat /\ i \in 1 .. Len(h)
    BY Half DEF Over, Heaps
  <1>2. /\ Len(g) = Len(h)
        /\ g[p] = h[i]
        /\ g[i] = h[p]
        /\ \A k \in 1 .. Len(h) : k # i /\ k # p => g[k] = h[k]
    <2>1. h \in Heaps
      BY DEF Over
    <2>2. /\ Len(g) = Len(h)
          /\ \A k \in 1 .. Len(h) :
                 g[k] = IF k = p THEN h[i] ELSE IF k = i THEN h[p] ELSE h[k]
      BY <1>1, <2>1, SwapElements
    <2> HIDE DEF g, p
    <2> QED
      BY <1>1, <2>2
  <1>3. \A j \in 1 .. Len(h) : key[h[j]] \in Nat
    BY Elements
  <1>4. key[h[i]] < key[h[p]]
    BY <1>1, <1>3 DEF Placed
  <1>5. \A j \in 2 .. Len(h) : j \div 2 \in 1 .. Len(h) /\ j \in 1 .. Len(h) /\ j \div 2 < j
    BY Half DEF Over, Heaps
  <1> HIDE DEF g
  <1>6. ASSUME NEW j \in 2 .. Len(h), j # p
        PROVE  Placed(g, key, j)
    <2>1. CASE j = i
      BY <1>1, <1>2, <1>3, <1>4, <2>1 DEF Placed
    <2>2. CASE j # i /\ j \div 2 = p
      <3>1. key[h[p]] <= key[h[j]]
        BY <2>2 DEF UpOrder, Placed
      <3>2. g[j \div 2] = h[i] /\ g[j] = h[j]
        BY <1>2, <1>5, <1>6, <2>2
      <3>3. key[h[i]] <= key[h[j]]
        BY <1>1, <1>3, <1>4, <1>5, <3>1
      <3> QED
        BY <3>2, <3>3 DEF Placed
    <2>3. CASE j # i /\ j \div 2 = i
      <3>1. key[h[p]] <= key[h[j]]
        BY <2>3 DEF UpOrder
      <3>2. g[j \div 2] = h[p] /\ g[j] = h[j]
        BY <1>2, <1>5, <1>6, <2>3
      <3> QED
        BY <3>1, <3>2 DEF Placed
    <2>4. CASE j # i /\ j \div 2 # i /\ j \div 2 # p
      <3>1. g[j \div 2] = h[j \div 2] /\ g[j] = h[j]
        BY <1>2, <1>5, <1>6, <2>4
      <3> QED
        BY <2>4, <3>1 DEF Placed, UpOrder
    <2> QED
      BY <2>1, <2>2, <2>3, <2>4
  <1>7. ASSUME NEW j \in 2 .. Len(h), p >= 2, j \div 2 = p
        PROVE  key[g[p \div 2]] <= key[g[j]]
    <2>1. /\ p \in 2 .. Len(h) /\ p # i
          /\ p \div 2 \in 1 .. Len(h) /\ p \div 2 # p /\ p \div 2 # i
      BY <1>1, <1>5, <1>7
    <2>2. g[p \div 2] = h[p \div 2]
      BY <1>2, <2>1
    <2>3. key[h[p \div 2]] <= key[h[p]]
      BY <2>1 DEF UpOrder, Placed
    <2>4. CASE j = i
      BY <1>2, <2>2, <2>3, <2>4
    <2>5. CASE j # i
      <3>1. key[h[p]] <= key[h[j]]
        BY <1>7, <2>5 DEF UpOrder, Placed
      <3>2. g[j] = h[j]
        BY <1>2, <1>5, <1>7, <2>5
      <3>3. key[h[p \div 2]] <= key[h[j]]
        BY <1>1, <1>3, <1>5, <2>1, <2>3, <3>1
      <3> QED
        BY <2>2, <3>2, <3>3
    <2> QED
      BY <2>4, <2>5
  <1>8. UpOrder(g, key, p)
    <2> HIDE DEF p
    <2> QED
      BY <1>2, <1>6, <1>7 DEF UpOrder
  <1> QED
    BY <1>8 DEF g

(* adjustUp keeps the elements, puts the heap in order when only the       *)
(* element it starts at may be too small, and leaves a root alone that is  *)
(* no larger than that element.                                            *)
AdjustedUp(h, g, key, at) ==
    /\ Rearranged(h, g)
    /\ UpOrder(h, key, at) => IsMinHeap(g, key)
    /\ at # 1 /\ key[h[1]] <= key[h[at]] => g[1] = h[1]

LEMMA AdjustUpCorrect ==
    ASSUME NEW S, NEW key \in [S -> Nat], NEW h \in Over(S), NEW at \in 1 .. Len(h)
    PROVE  /\ AdjustUp(h, key, at) \in Over(S)
           /\ AdjustedUp(h, AdjustUp(h, key, at), key, at)
  <1> DEFINE low == at # 1 /\ key[h[1]] <= key[h[at]]
             R == {p \in Points :
                      /\ p[1] \in Over(S)
                      /\ p[2] \in 1 .. Len(h)
                      /\ Rearranged(h, p[1])
                      /\ UpOrder(h, key, at) => UpOrder(p[1], key, p[2])
                      /\ low => /\ p[2] # 1 /\ p[1][1] = h[1]
                                /\ key[h[1]] <= key[p[1][p[2]]]}
             V == {g \in Over(S) : AdjustedUp(h, g, key, at)}
             m == [p \in R |-> p[2]]
  <1>1. PICK f : /\ TailRecursive(f, Points, UpStop(key), UpNext, First)
                 /\ \A hh \in Heaps, i \in Nat : AdjustUp(hh, key, i) = f[<<hh, i>>]
    BY UpFunction
  <1>2. ASSUME NEW p \in R \cap UpStop(key)
        PROVE  First[p] \in V
    <2> DEFINE g == p[1]
               i == p[2]
    <2>1. First[p] = g /\ g \in Over(S) /\ i \in 1 .. Len(g) /\ Rearranged(h, g)
      BY DEF First, Rearranged
    <2>2. UpOrder(h, key, at) => IsMinHeap(g, key)
      <3> SUFFICES ASSUME UpOrder(g, key, i), NEW j \in 2 .. Len(g)
                   PROVE  Placed(g, key, j)
        BY DEF IsMinHeap, Placed
      <3>1. CASE j # i
        BY <3>1 DEF UpOrder
      <3>2. CASE j = i
        BY <3>2 DEF UpStop, Placed
      <3> QED
        BY <3>1, <3>2
    <2>3. low => g[1] = h[1]
      OBVIOUS
    <2> QED
      BY <2>1, <2>2, <2>3 DEF AdjustedUp
  <1>3. ASSUME NEW p \in R \ UpStop(key)
        PROVE  UpNext[p] \in R /\ m[UpNext[p]] < m[p]
    <2> DEFINE g == p[1]
               i == p[2]
               n == Swap(g, i, i \div 2)
    <2>1. /\ p \in Points /\ g \in Over(S) /\ g \in Heaps /\ i \in Nat
          /\ i \in 2 .. Len(g) /\ ~Placed(g, key, i)
      BY DEF UpStop, Placed, Over, Points
    <2>2. i \div 2 \in 1 .. Len(g) /\ i \in 1 .. Len(g) /\ i \div 2 < i /\ i \div 2 \in Nat
      BY <2>1, Half DEF Heaps
    <2>3. UpNext[p] = <<n, i \div 2>>
      BY <2>1 DEF UpNext
    <2>4. n \in Heaps /\ Rearranged(g, n)
      BY <2>1, <2>2, SwapElements, SwapRearranges
    <2>5. Rearranged(h, g) /\ Len(g) = Len(h)
      BY DEF Rearranged
    <2>6. Rearranged(h, n) /\ n \in Over(S)
      BY <2>4, <2>5, RearrangedTwice DEF Rearranged, Over
    <2>7. UpOrder(h, key, at) => UpOrder(n, key, i \div 2)
      BY <2>1, UpStep
    <2>8. ASSUME low
          PROVE  i \div 2 # 1 /\ n[1] = h[1] /\ key[h[1]] <= key[n[i \div 2]]
      <3>1. i # 1 /\ g[1] = h[1] /\ key[h[1]] <= key[g[i]]
        BY <2>8
      <3>2. i \div 2 # 1
        BY <2>1, <3>1 DEF Placed
      <3>3. n[i \div 2] = g[i] /\ n[1] = g[1]
        <4>1. 1 \in 1 .. Len(g)
          BY <2>1, <2>2 DEF Heaps
        <4>2. \A k \in 1 .. Len(g) :
                  n[k] = IF k = i \div 2 THEN g[i] ELSE IF k = i THEN g[i \div 2] ELSE g[k]
          <5>1. g \in Heaps /\ i \in 1 .. Len(g) /\ i \div 2 \in 1 .. Len(g)
            BY <2>1, <2>2
          <5> HIDE DEF R, V, m, low, g, i
          <5> QED
            BY ONLY <5>1, SwapElements DEF n
        <4> HIDE DEF n, g, i
        <4> QED
          BY <2>1, <2>2, <3>1, <3>2, <4>1, <4>2
      <3> QED
        BY <3>1, <3>2, <3>3
    <2> HIDE DEF n
    <2>9. UpNext[p] \in R
      BY <2>2, <2>3, <2>4, <2>5, <2>6, <2>7, <2>8 DEF Points
    <2>10. m[UpNext[p]] = i \div 2 /\ m[p] = i
      BY <2>3, <2>9
    <2> QED
      BY <2>2, <2>9, <2>10
  <1>4. <<h, at>> \in R
    <2>1. h \in Heaps /\ at \in Nat /\ Rearranged(h, h)
      BY DEF Over, Heaps, Rearranged
    <2> QED
      BY <2>1 DEF Points
  <1>5. \A p \in R : f[p] \in V
    <2>1. R \in SUBSET Points /\ m \in [R -> Nat]
      BY DEF Points
    <2> HIDE DEF R, V, m
    <2>2. Descends(Points, UpStop(key), UpNext, First, R, V, m)
      BY <1>2, <1>3, <2>1 DEF Descends
    <2> QED
      BY <1>1, <2>2, TailInvariant DEF UpStop
  <1>6. AdjustUp(h, key, at) = f[<<h, at>>]
    BY <1>1 DEF Over, Heaps
  <1> QED
    BY <1>4, <1>5, <1>6

-------------------------------------------------------------------------------
(* The heap is in order but for the i-th element, which may be larger than *)
(* its children.                                                           *)

DownOrder(h, key, i) ==
    /\ \A j \in 2 .. Len(h) : j \div 2 # i => Placed(h, key, j)
    /\ \A j \in 2 .. Len(h) : i >= 2 /\ j \div 2 = i => key[h[i \div 2]] <= key[h[j]]

(* No child is smaller than the one that adjustDown compares. *)
LEMMA SmallestChild ==
    ASSUME NEW S, NEW key \in [S -> Nat], NEW h \in Over(S), NEW i \in Nat \ {0},
           2 * i \in 2 .. Len(h), NEW j \in 2 .. Len(h), j \div 2 = i
    PROVE  key[h[Child(h, key, i)]] <= key[h[j]]
  <1>1. j = 2 * i \/ j = 2 * i + 1
    BY DEF Over, Heaps
  <1>2. /\ 2 * i \in 1 .. Len(h)
        /\ 2 * i + 1 <= Len(h) => 2 * i + 1 \in 1 .. Len(h)
    BY DEF Over, Heaps
  <1>3. /\ key[h[2 * i]] \in Nat
        /\ 2 * i + 1 <= Len(h) => key[h[2 * i + 1]] \in Nat
    BY <1>2, Elements
  <1>4. CASE 2 * i + 1 <= Len(h)
    BY <1>1, <1>3, <1>4 DEF Child
  <1>5. CASE ~(2 * i + 1 <= Len(h))
    <2>1. j = 2 * i
      BY <1>1, <1>5 DEF Over, Heaps
    <2> QED
      BY <1>3, <1>5, <2>1 DEF Child
  <1> QED
    BY <1>4, <1>5

(* The exchange of adjustDown leaves the child so. *)
LEMMA DownStep ==
    ASSUME NEW S, NEW key \in [S -> Nat], NEW h \in Over(S), NEW i \in Nat \ {0},
           2 * i \in 2 .. Len(h), DownOrder(h, key, i),
           ~(key[h[i]] <= key[h[Child(h, key, i)]])
    PROVE  DownOrder(Swap(h, i, Child(h, key, i)), key, Child(h, key, i))
  <1> DEFINE c == Child(h, key, i)
             g == Swap(h, i, c)
  <1>1. /\ c \in 2 .. Len(h) /\ i \in 1 .. Len(h) /\ c \in 1 .. Len(h) /\ c \in Nat
        /\ c \div 2 = i /\ i < c
    <2>1. h \in Heaps /\ Len(h) \in Nat /\ i \in Nat
      BY DEF Over, Heaps
    <2>2. c \in {2 * i, 2 * i + 1} /\ c \in 2 .. Len(h) /\ i \in 1 .. Len(h)
      BY <2>1, ChildIndex
    <2> HIDE DEF c, g
    <2> QED
      BY <2>1, <2>2
  <1>2. /\ Len(g) = Len(h)
        /\ \A k \in 1 .. Len(h) :
               g[k] = IF k = c THEN h[i] ELSE IF k = i THEN h[c] ELSE h[k]
    <2>1. h \in Heaps /\ i \in 1 .. Len(h) /\ c \in 1 .. Len(h)
      BY <1>1 DEF Over
    <2> HIDE DEF c
    <2> QED
      BY ONLY <2>1, SwapElements DEF g
  <1>3. \A j \in 1 .. Len(h) : key[h[j]] \in Nat
    BY Elements
  <1>4. key[h[c]] < key[h[i]]
    BY <1>1, <1>3
  <1>5. \A j \in 2 .. Len(h) : j \div 2 \in 1 .. Len(h) /\ j \in 1 .. Len(h) /\ j \div 2 < j
    BY Half DEF Over, Heaps
  <1>6. \A j \in 2 .. Len(h) : j \div 2 = i => key[h[c]] <= key[h[j]]
    BY SmallestChild
  <1> HIDE DEF c, g
  <1>7. ASSUME NEW j \in 2 .. Len(h), j \div 2 # c
        PROVE  Placed(g, key, j)
    <2>1. CASE j = i
      <3>1. key[h[i \div 2]] <= key[h[c]]
        BY <1>1, <2>1 DEF DownOrder
      <3>2. g[j] = h[c] /\ g[j \div 2] = h[i \div 2]
        BY <1>1, <1>2, <1>5, <1>7, <2>1
      <3> QED
        BY <2>1, <3>1, <3>2 DEF Placed
    <2>2. CASE j = c
      <3>1. g[j] = h[i] /\ g[j \div 2] = h[c]
        BY <1>1, <1>2, <2>2
      <3> QED
        BY <1>1, <1>3, <1>4, <3>1 DEF Placed
    <2>3. CASE j # c /\ j # i /\ j \div 2 = i
      <3>1. g[j] = h[j] /\ g[j \div 2] = h[c]
        BY <1>1, <1>2, <1>5, <2>3
      <3> QED
        BY <1>6, <2>3, <3>1 DEF Placed
    <2>4. CASE j # c /\ j # i /\ j \div 2 # i
      <3>1. g[j] = h[j] /\ g[j \div 2] = h[j \div 2]
        BY <1>1, <1>2, <1>5, <1>7, <2>4
      <3> QED
        BY <2>4, <3>1 DEF Placed, DownOrder
    <2> QED
      BY <2>1, <2>2, <2>3, <2>4
  <1>8. ASSUME NEW j \in 2 .. Len(h), j \div 2 = c
        PROVE  key[g[c \div 2]] <= key[g[j]]
    <2>1. j # c /\ j # i
      BY <1>1, <1>5, <1>8
    <2>2. g[j] = h[j] /\ g[c \div 2] = h[c]
      BY <1>1, <1>2, <1>5, <2>1
    <2>3. key[h[c]] <= key[h[j]]
      BY <1>1, <1>8 DEF DownOrder, Placed
    <2> QED
      BY <2>2, <2>3
  <1>9. DownOrder(g, key, c)
    BY <1>2, <1>7, <1>8 DEF DownOrder
  <1> QED
    BY <1>9 DEF g, c

(* adjustDown keeps the elements, puts the heap in order when only the     *)
(* element it starts at may be too large, and does nothing when that one   *)
(* is smallest.                                                            *)
AdjustedDown(h, g, key, at) ==
    /\ Rearranged(h, g)
    /\ DownOrder(h, key, at) => IsMinHeap(g, key)

LEMMA AdjustDownCorrect ==
    ASSUME NEW S, NEW key \in [S -> Nat], NEW h \in Over(S), NEW at \in Nat \ {0}
    PROVE  /\ AdjustDown(h, key, at) \in Over(S)
           /\ AdjustedDown(h, AdjustDown(h, key, at), key, at)
           /\ (\A j \in 1 .. Len(h) : key[h[at]] <= key[h[j]])
                  => AdjustDown(h, key, at) = h
  <1> DEFINE R == {p \in Points :
                      /\ p[1] \in Over(S)
                      /\ p[2] # 0
                      /\ Rearranged(h, p[1])
                      /\ DownOrder(h, key, at) => DownOrder(p[1], key, p[2])}
             V == {g \in Over(S) : AdjustedDown(h, g, key, at)}
             m == [p \in R |-> IF p[2] <= Len(h) THEN Len(h) - p[2] ELSE 0]
  <1>1. PICK f : /\ TailRecursive(f, Points, DownStop(key), DownNext(key), First)
                 /\ \A hh \in Heaps, i \in Nat : AdjustDown(hh, key, i) = f[<<hh, i>>]
    BY DownFunction
  <1>2. ASSUME NEW p \in R \cap DownStop(key)
        PROVE  First[p] \in V
    <2> DEFINE g == p[1]
               i == p[2]
    <2>1. First[p] = g /\ g \in Over(S) /\ i \in Nat \ {0} /\ Rearranged(h, g)
      BY DEF First, Rearranged, Points
    <2>2. 2 * i \notin 2 .. Len(g) \/ key[g[i]] <= key[g[Child(g, key, i)]]
      BY DEF DownStop
    <2> HIDE DEF g, i
    <2>3. DownOrder(g, key, i) => IsMinHeap(g, key)
      <3> SUFFICES ASSUME DownOrder(g, key, i), NEW j \in 2 .. Len(g)
                   PROVE  Placed(g, key, j)
        BY DEF IsMinHeap, Placed
      <3>1. CASE j \div 2 # i
        BY <3>1 DEF DownOrder
      <3>2. CASE j \div 2 = i
        <4>1. 2 * i \in 2 .. Len(g) /\ i \in 1 .. Len(g) /\ j \in 1 .. Len(g)
          BY <2>1, <3>2 DEF Over, Heaps
        <4>2. key[g[Child(g, key, i)]] <= key[g[j]]
          BY <2>1, <3>2, <4>1, SmallestChild
        <4>3. Child(g, key, i) \in 1 .. Len(g)
          BY <2>1, <4>1, ChildIndex DEF Over, Heaps
        <4>4. key[g[Child(g, key, i)]] \in Nat /\ key[g[j]] \in Nat /\ key[g[i]] \in Nat
          BY <2>1, <4>1, <4>3, Elements
        <4>5. key[g[i]] <= key[g[j]]
          BY <2>2, <4>1, <4>2, <4>4
        <4> QED
          BY <3>2, <4>5 DEF Placed
      <3> QED
        BY <3>1, <3>2
    <2>4. DownOrder(h, key, at) => DownOrder(g, key, i)
      BY DEF g, i
    <2> QED
      BY <2>1, <2>3, <2>4 DEF AdjustedDown
  <1>3. ASSUME NEW p \in R \ DownStop(key)
        PROVE  DownNext(key)[p] \in R /\ m[DownNext(key)[p]] < m[p]
    <2> DEFINE g == p[1]
               i == p[2]
               c == Child(g, key, i)
               n == Swap(g, i, c)
    <2>1. /\ p \in Points /\ g \in Over(S) /\ g \in Heaps /\ i \in Nat /\ i \in Nat \ {0}
          /\ 2 * i \in 2 .. Len(g) /\ ~(key[g[i]] <= key[g[c]])
      BY DEF DownStop, Over, Points
    <2>2. DownNext(key)[p] = <<n, c>>
      BY <2>1 DEF DownNext
    <2>3. Rearranged(h, g) /\ Len(g) = Len(h)
      BY DEF Rearranged
    <2>4. DownOrder(h, key, at) => DownOrder(g, key, i)
      OBVIOUS
    <2> HIDE DEF g, i, R, V, m
    <2>5. c \in 1 .. Len(g) /\ i \in 1 .. Len(g) /\ i < c /\ c \in Nat /\ c # 0
      <3>1. Len(g) \in Nat
        BY <2>1 DEF Heaps
      <3>2. c \in {2 * i, 2 * i + 1} /\ c \in 2 .. Len(g) /\ i \in 1 .. Len(g)
        BY <2>1, ChildIndex
      <3> HIDE DEF c
      <3> QED
        BY <2>1, <3>1, <3>2
    <2>6. DownOrder(h, key, at) => DownOrder(n, key, c)
      BY <2>1, <2>4, DownStep
    <2> HIDE DEF c
    <2>7. n \in Heaps /\ Rearranged(g, n)
      BY <2>1, <2>5, SwapElements, SwapRearranges
    <2>8. Rearranged(h, n) /\ n \in Over(S)
      BY <2>1, <2>3, <2>7, RearrangedTwice DEF Rearranged, Over
    <2> HIDE DEF n
    <2>9. DownNext(key)[p] \in R
      BY <2>2, <2>5, <2>6, <2>7, <2>8 DEF Points, R
    <2>10. m[DownNext(key)[p]] = Len(h) - c /\ m[p] = Len(h) - i
      <3>1. m[DownNext(key)[p]] = IF c <= Len(h) THEN Len(h) - c ELSE 0
        BY <2>2, <2>9 DEF m
      <3>2. m[p] = IF i <= Len(h) THEN Len(h) - i ELSE 0
        BY DEF m, i
      <3> QED
        BY <2>3, <2>5, <3>1, <3>2
    <2>11. Len(h) \in Nat /\ i \in Nat
      BY <2>1 DEF Over, Heaps
    <2> QED
      BY <2>5, <2>9, <2>10, <2>11
  <1>4. <<h, at>> \in R
    <2>1. h \in Heaps /\ at \in Nat /\ Rearranged(h, h)
      BY DEF Over, Heaps, Rearranged
    <2> QED
      BY <2>1 DEF Points
  <1>5. \A p \in R : f[p] \in V
    <2>1. R \in SUBSET Points /\ m \in [R -> Nat]
      BY DEF Points, Over, Heaps
    <2> HIDE DEF R, V, m
    <2>2. Descends(Points, DownStop(key), DownNext(key), First, R, V, m)
      BY <1>2, <1>3, <2>1 DEF Descends
    <2> QED
      BY <1>1, <2>2, TailInvariant DEF DownStop
  <1>6. AdjustDown(h, key, at) = f[<<h, at>>]
    BY <1>1 DEF Over, Heaps
  <1>7. ASSUME \A j \in 1 .. Len(h) : key[h[at]] <= key[h[j]]
        PROVE  AdjustDown(h, key, at) = h
    <2>1. <<h, at>> \in DownStop(key)
      <3>1. h \in Heaps
        BY DEF Over
      <3>2. 2 * at \in 2 .. Len(h) => Child(h, key, at) \in 1 .. Len(h)
        BY <3>1, ChildIndex DEF Heaps
      <3> QED
        BY <1>7, <3>1, <3>2 DEF DownStop, Points
    <2>2. <<h, at>> \in Points
      BY <2>1 DEF DownStop
    <2> QED
      BY <1>1, <1>6, <2>1, <2>2 DEF TailRecursive, First
  <1> QED
    BY <1>4, <1>5, <1>6, <1>7

-------------------------------------------------------------------------------
(* The operations. *)

(* No element is smaller than the root of a heap in order. *)
LEMMA MinRoot ==
    ASSUME NEW S, NEW key \in [S -> Nat], NEW h \in Over(S), IsMinHeap(h, key)
    PROVE  \A j \in 1 .. Len(h) : key[h[1]] <= key[h[j]]
  <1> DEFINE Bad == {j \in 1 .. Len(h) : ~(key[h[1]] <= key[h[j]])}
             Less == {p \in Nat \X Nat : p[1] < p[2]}
  <1> SUFFICES ASSUME Bad # {}
               PROVE  FALSE
    OBVIOUS
  <1>1. IsWellFoundedOn(Less, Nat)
    BY NatLessThanWellFounded DEF OpToRel
  <1>2. Bad \subseteq Nat
    OBVIOUS
  <1>3. PICK x \in Bad : \A y \in Bad : ~ <<y, x>> \in Less
    BY <1>1, <1>2, WFMin
  <1>4. /\ Len(h) \in Nat
        /\ \A j \in 1 .. Len(h) : key[h[j]] \in Nat
    BY Elements DEF Over, Heaps
  <1>5. x \in 2 .. Len(h)
    <2>1. x \in 1 .. Len(h) /\ ~(key[h[1]] <= key[h[x]])
      OBVIOUS
    <2>2. x # 1
      BY <1>4, <2>1
    <2> QED
      BY <1>4, <2>1, <2>2
  <1>6. x \div 2 \in 1 .. Len(h) /\ x \div 2 < x /\ x \div 2 \in Nat /\ x \in Nat
    BY <1>4, <1>5, Half
  <1>7. key[h[x \div 2]] <= key[h[x]]
    BY <1>5 DEF IsMinHeap
  <1>8. x \div 2 \notin Bad
    <2>1. <<x \div 2, x>> \in Less
      BY <1>6
    <2> QED
      BY <1>3, <2>1
  <1>9. key[h[1]] <= key[h[x \div 2]]
    BY <1>6, <1>8
  <1>10. 1 \in 1 .. Len(h) /\ x \in 1 .. Len(h)
    BY <1>4, <1>5
  <1>11. key[h[1]] <= key[h[x]]
    BY <1>4, <1>6, <1>7, <1>9, <1>10
  <1> QED
    BY <1>11

(* A heap without a repetition has as many elements as it is long. *)
LEMMA ElementsCounted ==
    ASSUME NEW h \in Heaps, Distinct(h)
    PROVE  IsFiniteSet(ToSet(h)) /\ Cardinality(ToSet(h)) = Len(h)
  <1> DEFINE f == [i \in 1 .. Len(h) |-> h[i]]
  <1>1. Len(h) \in Nat /\ DOMAIN h = 1 .. Len(h)
    BY DEF Heaps
  <1>2. f \in Surjection(1 .. Len(h), ToSet(h))
    BY <1>1 DEF Surjection, ToSet
  <1>3. f \in Injection(1 .. Len(h), ToSet(h))
    <2>1. f \in [1 .. Len(h) -> ToSet(h)]
      BY <1>2 DEF Surjection
    <2>2. IsInjective(f)
      BY DEF IsInjective, Distinct
    <2> QED
      BY <2>1, <2>2 DEF Injection
  <1>4. IsFiniteSet(1 .. Len(h)) /\ Cardinality(1 .. Len(h)) = Len(h)
    <2>1. 1 \in Int /\ Len(h) \in Int
      BY <1>1
    <2>2. /\ IsFiniteSet(1 .. Len(h))
          /\ Cardinality(1 .. Len(h)) = IF 1 > Len(h) THEN 0 ELSE Len(h) - 1 + 1
      BY <2>1, FS_Interval
    <2> QED
      BY <1>1, <2>2
  <1> HIDE DEF f
  <1> QED
    BY <1>2, <1>3, <1>4, FS_Surjection

(* The heap g is h with x. *)
Added(h, g, key, x) ==
    /\ Len(g) = Len(h) + 1
    /\ ToSet(g) = ToSet(h) \cup {x}
    /\ Distinct(h) /\ x \notin ToSet(h) => Distinct(g)
    /\ IsMinHeap(h, key) => IsMinHeap(g, key)
    /\ h # <<>> /\ key[h[1]] <= key[x] => g[1] = h[1]

(* addHeapVal adds one element and keeps the order; a root that is no      *)
(* larger stays the root.                                                  *)
THEOREM AddCorrect ==
    ASSUME NEW S \in SUBSET Nat, NEW key \in [S -> Nat], NEW h \in Over(S), NEW x \in S
    PROVE  /\ AddHeapVal(h, key, x) \in Over(S)
           /\ Added(h, AddHeapVal(h, key, x), key, x)
  <1> DEFINE n == Len(h) + 1
             a == Append(h, x)
             g == AddHeapVal(h, key, x)
  <1>1. h \in Seq(Nat) /\ Len(h) \in Nat /\ DOMAIN h = 1 .. Len(h) /\ x \in Nat
    BY DEF Over, Heaps
  <1>2. /\ a \in Seq(Nat)
        /\ Len(a) = n
        /\ \A i \in 1 .. Len(h) : a[i] = h[i]
        /\ a[n] = x
    BY <1>1, AppendProperties
  <1> HIDE DEF a
  <1>3. DOMAIN a = 1 .. n /\ n \in 1 .. n /\ n \in Nat
    BY <1>1, <1>2
  <1>4. ToSet(a) = ToSet(h) \cup {x}
    <2>1. \A i \in 1 .. n : i = n \/ i \in 1 .. Len(h)
      BY <1>1
    <2>2. \A i \in 1 .. Len(h) : i \in 1 .. n
      BY <1>1
    <2> HIDE DEF n
    <2> QED
      BY <1>1, <1>2, <1>3, <2>1, <2>2 DEF ToSet
  <1>5. a \in Over(S)
    BY <1>2, <1>4 DEF Over, Heaps
  <1>6. Distinct(h) /\ x \notin ToSet(h) => Distinct(a)
    <2>1. \A i \in 1 .. n : i = n \/ i \in 1 .. Len(h)
      BY <1>1
    <2>2. \A i \in 1 .. Len(h) : h[i] \in ToSet(h)
      BY <1>1 DEF ToSet
    <2> HIDE DEF n
    <2> QED
      BY <1>2, <2>1, <2>2 DEF Distinct
  <1>7. IsMinHeap(h, key) => UpOrder(a, key, n)
    <2> SUFFICES ASSUME IsMinHeap(h, key)
                 PROVE  UpOrder(a, key, n)
      OBVIOUS
    <2>1. ASSUME NEW j \in 2 .. n, j # n
          PROVE  Placed(a, key, j)
      <3>1. j \in 2 .. Len(h) /\ j \in 1 .. Len(h) /\ j \div 2 \in 1 .. Len(h)
        BY <1>1, <2>1, Half
      <3>2. a[j] = h[j] /\ a[j \div 2] = h[j \div 2]
        BY <1>2, <3>1
      <3> QED
        BY <3>1, <3>2 DEF IsMinHeap, Placed
    <2>2. \A j \in 2 .. n : j \div 2 # n
      BY <1>1, Half
    <2> QED
      BY <1>2, <2>1, <2>2 DEF UpOrder
  <1>8. g = AdjustUp(a, key, n)
    BY DEF AddHeapVal, a
  <1>9. /\ g \in Over(S)
        /\ AdjustedUp(a, g, key, n)
    BY <1>2, <1>3, <1>5, <1>8, AdjustUpCorrect
  <1>10. h # <<>> /\ key[h[1]] <= key[x] => g[1] = h[1]
    <2> SUFFICES ASSUME h # <<>>, key[h[1]] <= key[x]
                 PROVE  g[1] = h[1]
      OBVIOUS
    <2>1. 1 \in 1 .. Len(h) /\ n # 1
      BY <1>1
    <2>2. a[1] = h[1]
      BY <1>2, <2>1
    <2> HIDE DEF n, g
    <2> QED
      BY <1>2, <1>9, <2>1, <2>2 DEF AdjustedUp
  <1> HIDE DEF g
  <1>11. Added(h, g, key, x)
    BY <1>2, <1>4, <1>6, <1>7, <1>9, <1>10 DEF Added, AdjustedUp, Rearranged
  <1> QED
    BY <1>9, <1>11 DEF g

(* The heap g is h without its i-th element. *)
Without(h, g, key, i) ==
    /\ Len(g) = Len(h) - 1
    /\ ToSet(g) \subseteq ToSet(h)
    /\ Distinct(h) => Distinct(g) /\ ToSet(g) = ToSet(h) \ {h[i]}
    /\ i = 1 /\ IsMinHeap(h, key) => IsMinHeap(g, key)
    /\ i # 1 /\ IsMinHeap(h, key) => g # <<>> /\ g[1] = h[1]

(* popHead, delHead and the last part of delMatch take one element.  The   *)
(* order is kept when that is the root; when it is not, the root stays,    *)
(* but the order may be broken.                                            *)
THEOREM CutCorrect ==
    ASSUME NEW S, NEW key \in [S -> Nat], NEW h \in Over(S), NEW i \in 1 .. Len(h)
    PROVE  /\ Cut(h, key, i) \in Over(S)
           /\ Without(h, Cut(h, key, i), key, i)
  <1> DEFINE n == Len(h)
             t == Swap(h, i, n)
             c == Front(t)
             g == AdjustDown(c, key, 1)
  <1>0. n \in Nat
    BY DEF Over, Heaps
  <1>1. /\ h \in Heaps /\ DOMAIN h = 1 .. n /\ n = Len(h)
        /\ n \in 1 .. n /\ i \in 1 .. n
        /\ i \in Nat
    BY DEF Over, Heaps
  <1> HIDE DEF n
  <1>2. /\ t \in Heaps
        /\ Len(t) = n
        /\ \A k \in 1 .. n : t[k] = IF k = n THEN h[i] ELSE IF k = i THEN h[n] ELSE h[k]
    <2>1. h \in Heaps /\ Len(h) \in 1 .. Len(h) /\ i \in 1 .. Len(h)
      BY <1>1
    <2>2. t = Swap(h, i, Len(h))
      BY <1>1
    <2>3. /\ t \in Heaps
          /\ Len(t) = Len(h)
          /\ \A k \in 1 .. Len(h) :
                 t[k] = IF k = Len(h) THEN h[i] ELSE IF k = i THEN h[Len(h)] ELSE h[k]
      BY ONLY <2>1, <2>2, SwapElements
    <2> HIDE DEF t
    <2> QED
      BY <1>1, <2>3
  <1>3. Rearranged(h, t)
    BY <1>1, SwapRearranges
  <1> HIDE DEF t
  <1>4. DOMAIN t = 1 .. n /\ \A k \in 1 .. n : t[k] \in Nat
    BY <1>2 DEF Heaps
  <1>5. /\ c \in Seq(Nat)
        /\ Len(c) = n - 1
        /\ \A k \in 1 .. n - 1 : c[k] = t[k]
    <2>1. c = SubSeq(t, 1, n - 1)
      BY <1>2 DEF Front
    <2>2. 1 \in Int /\ n - 1 \in Int /\ \A k \in 1 .. n - 1 : t[k] \in Nat
      BY <1>1, <1>4
    <2>3. /\ c \in Seq(Nat)
          /\ Len(c) = IF 1 <= n - 1 THEN (n - 1) - 1 + 1 ELSE 0
          /\ \A k \in 1 .. (n - 1) - 1 + 1 : c[k] = t[1 + k - 1]
      BY <2>1, <2>2, SubSeqProperties
    <2>4. (n - 1) - 1 + 1 = n - 1 /\ (IF 1 <= n - 1 THEN (n - 1) - 1 + 1 ELSE 0) = n - 1
      BY <1>1
    <2>5. \A k \in 1 .. n - 1 : 1 + k - 1 = k
      BY <1>1
    <2> HIDE DEF c
    <2> QED
      BY <2>3, <2>4, <2>5
  <1> HIDE DEF c
  <1>6. DOMAIN c = 1 .. n - 1 /\ \A k \in 1 .. n : k = n \/ k \in 1 .. n - 1
    <2>1. DOMAIN c = 1 .. n - 1
      BY <1>5
    <2>2. \A k \in 1 .. n : k = n \/ k \in 1 .. n - 1
      BY <1>0
    <2> QED
      BY <2>1, <2>2
  <1>7. \A k \in 1 .. n - 1 : k \in 1 .. n /\ k # n
    BY <1>0
  <1>8. ToSet(c) \subseteq ToSet(h)
    <2>1. ToSet(t) = ToSet(h)
      BY <1>3 DEF Rearranged
    <2>2. ToSet(c) \subseteq ToSet(t)
      BY <1>4, <1>5, <1>6, <1>7 DEF ToSet
    <2> QED
      BY <2>1, <2>2
  <1>9. c \in Over(S)
    BY <1>5, <1>8 DEF Over, Heaps
  <1>10. ASSUME Distinct(h)
         PROVE  Distinct(c) /\ ToSet(c) = ToSet(h) \ {h[i]}
    <2>1. \A j, k \in 1 .. n : t[j] = t[k] => j = k
      BY <1>1, <1>2, <1>3, <1>10 DEF Rearranged, Distinct
    <2>2. Distinct(c)
      BY <1>5, <1>7, <2>1 DEF Distinct
    <2>3. t[n] = h[i]
      BY <1>1, <1>2
    <2>4. ToSet(c) = ToSet(t) \ {t[n]}
      <3>1. ToSet(t) = {t[k] : k \in 1 .. n} /\ ToSet(c) = {t[k] : k \in 1 .. n - 1}
        BY <1>4, <1>5, <1>6 DEF ToSet
      <3>2. ToSet(c) \subseteq ToSet(t) \ {t[n]}
        BY <1>1, <1>7, <2>1, <3>1
      <3>3. ToSet(t) \ {t[n]} \subseteq ToSet(c)
        BY <1>6, <3>1
      <3> QED
        BY <3>2, <3>3
    <2> QED
      BY <1>3, <2>2, <2>3, <2>4 DEF Rearranged
  <1>11. i = 1 /\ IsMinHeap(h, key) => DownOrder(c, key, 1)
    <2> SUFFICES ASSUME i = 1, IsMinHeap(h, key), NEW j \in 2 .. n - 1, j \div 2 # 1
                 PROVE  Placed(c, key, j)
      BY <1>1, <1>5 DEF DownOrder
    <2>1. /\ j \in 2 .. n /\ j \in 1 .. n - 1 /\ j # 1
          /\ j \div 2 \in 1 .. n - 1 /\ j \div 2 # 1
      BY <1>1, Half
    <2>2. c[j] = h[j] /\ c[j \div 2] = h[j \div 2]
      BY <1>2, <1>5, <1>7, <2>1
    <2>3. key[h[j \div 2]] <= key[h[j]]
      BY <1>1, <2>1 DEF IsMinHeap
    <2> QED
      BY <2>2, <2>3 DEF Placed
  <1>12. ASSUME i # 1, IsMinHeap(h, key)
         PROVE  g # <<>> /\ g[1] = h[1]
    <2>1. 1 \in 1 .. n - 1 /\ 1 # i
      BY <1>1, <1>12
    <2>2. c[1] = h[1]
      BY <1>2, <1>5, <1>7, <2>1
    <2>3. \A j \in 1 .. n - 1 : c[j] \in ToSet(h)
      BY <1>5, <1>6, <1>8 DEF ToSet
    <2>4. \A y \in ToSet(h) : key[h[1]] <= key[y]
      <3>1. \A j \in 1 .. n : key[h[1]] <= key[h[j]]
        BY <1>1, <1>12, MinRoot
      <3> QED
        BY <1>1, <3>1 DEF ToSet
    <2>5. \A j \in 1 .. Len(c) : key[c[1]] <= key[c[j]]
      BY <1>5, <2>2, <2>3, <2>4
    <2>6. 1 \in Nat \ {0}
      OBVIOUS
    <2>7. g = c
      BY <1>9, <2>5, <2>6, AdjustDownCorrect
    <2> HIDE DEF g
    <2>8. c # <<>>
      <3>1. 1 \in DOMAIN c
        BY <1>6, <2>1
      <3> QED
        BY <3>1
    <2> QED
      BY <2>2, <2>7, <2>8
  <1>13. g = Cut(h, key, i)
    BY DEF Cut, g, c, t, n
  <1>14. g \in Over(S) /\ AdjustedDown(c, g, key, 1)
    <2>1. 1 \in Nat \ {0}
      OBVIOUS
    <2> QED
      BY <1>9, <2>1, AdjustDownCorrect
  <1> HIDE DEF g
  <1>15. Without(h, g, key, i)
    BY <1>1, <1>5, <1>8, <1>10, <1>11, <1>12, <1>14 DEF Without, AdjustedDown, Rearranged
  <1> QED
    BY <1>13, <1>14, <1>15

(* delMatch takes one of the elements that match. *)
LEMMA DelMatchCuts ==
    ASSUME NEW h \in Heaps, NEW key, NEW x \in ToSet(h)
    PROVE  \E i \in 1 .. Len(h) : h[i] = x /\ DelMatch(h, key, x) = Cut(h, key, i)
  <1> DEFINE I == {i \in 1 .. Len(h) : h[i] = x}
             i == Max(I)
             Less == {p \in Nat \X Nat : p[1] < p[2]}
             Back == {Len(h) - j : j \in I}
  <1>1. I # {} /\ Len(h) \in Nat
    BY DEF ToSet, Heaps
  <1>2. i \in I
    <2>1. IsWellFoundedOn(Less, Nat)
      BY NatLessThanWellFounded DEF OpToRel
    <2>2. Back \subseteq Nat /\ Back # {}
      BY <1>1
    <2>3. PICK b \in Back : \A y \in Back : ~ <<y, b>> \in Less
      BY <2>1, <2>2, WFMin
    <2>4. PICK j \in I : b = Len(h) - j
      OBVIOUS
    <2>5. ASSUME NEW k \in I
          PROVE  j >= k
      <3>1. ~ <<Len(h) - k, b>> \in Less
        BY <2>3
      <3>2. Len(h) - k \in Nat /\ b \in Nat
        BY <1>1
      <3>3. ~(Len(h) - k < b)
        BY <3>1, <3>2
      <3> QED
        BY <1>1, <2>4, <3>3
    <2> HIDE DEF I
    <2> QED
      BY <2>5 DEF Max
  <1>3. i # 0 /\ i \in 1 .. Len(h) /\ h[i] = x
    BY <1>1, <1>2
  <1>4. SelectLastInSeq(h, LAMBDA y : y = x) = i
    BY <1>1 DEF SelectLastInSeq
  <1> HIDE DEF i
  <1> QED
    BY <1>3, <1>4 DEF DelMatch

-------------------------------------------------------------------------------
(* The timers. *)

Pairs == [sec : Nat, usec : 0 .. 2 * Sec - 1]

Timer == [when : Pairs, delay : Nat, interval : BOOLEAN]

States == [timers : Seq(Timer), heap : Heaps, live : SUBSET Nat, ordered : BOOLEAN]

(* A heap and the timers in it. *)
Typed(s) ==
    /\ s \in States
    /\ s.heap \in Over(DOMAIN s.timers)
    /\ Len(s.heap) <= MaxNodes
    /\ s.live \subseteq DOMAIN s.timers

(* As long as the heap is in order, it has each live timer once. *)
Sound(s) ==
    s.ordered =>
        /\ Distinct(s.heap)
        /\ ToSet(s.heap) = s.live
        /\ IsMinHeap(s.heap, Keys(s.timers))

Good(s) == Typed(s) /\ Sound(s)

(* The inductive invariant. *)
Invariant ==
    /\ Good(State)
    /\ now \in Nat
    /\ tvl \in Pairs
    /\ phase \in {"handlers", "poll", "run", "undefined"}
    /\ phase = "run" => tvl = Pair(now)

-------------------------------------------------------------------------------
(* Times. *)

LEMMA SecIsPositive == Sec \in Nat \ {0} /\ UsPerMs <= Sec
  BY TimeAssumption DEF Sec

LEMMA DivMod ==
    ASSUME NEW a \in Nat, NEW b \in Nat \ {0}
    PROVE  /\ a \div b \in Nat /\ a % b \in 0 .. b - 1
           /\ a % b = a - b * (a \div b)
  <1>1. a \div b \in Nat
    OBVIOUS
  <1>2. a % b \in Nat /\ a % b < b
    OBVIOUS
  <1>3. a % b = a - b * (a \div b)
    BY SMTT(30)
  <1> QED
    BY <1>1, <1>2, <1>3

LEMMA DivBelow ==
    ASSUME NEW a \in Nat, NEW b \in Nat \ {0}
    PROVE  a \div b \in Nat /\ (a \div b) * b <= a
  OBVIOUS

LEMMA DivMonotone ==
    ASSUME NEW a \in Nat, NEW c \in Nat, NEW b \in Nat \ {0}, a <= c
    PROVE  a \div b <= c \div b
  <1> DEFINE q == a \div b
             r == c \div b
  <1>1. q \in Nat /\ b * q <= a
    OBVIOUS
  <1>2. r \in Nat /\ c < b * (r + 1)
    OBVIOUS
  <1> HIDE DEF q, r
  <1>3. b * q < b * (r + 1)
    BY <1>1, <1>2
  <1>4. q < r + 1
    BY <1>1, <1>2, <1>3
  <1>5. q <= r
    BY <1>1, <1>2, <1>4
  <1> QED
    BY <1>5 DEF q, r

(* A reading of the clock. *)
Reading(tv) == tv \in Pairs /\ tv.usec < Sec

LEMMA PairIsReading ==
    ASSUME NEW t \in Nat
    PROVE  /\ Reading(Pair(t))
           /\ Us(Pair(t)) = t
  <1> DEFINE q == t \div Sec
             r == t % Sec
             tv == Pair(t)
  <1>1. q \in Nat /\ r \in 0 .. Sec - 1 /\ r = t - Sec * q
    BY SecIsPositive, DivMod
  <1>2. tv = [sec |-> q, usec |-> r]
    BY DEF Pair
  <1> HIDE DEF q, r, tv
  <1>3. Sec \in Nat
    BY SecIsPositive
  <1>4. r \in 0 .. 2 * Sec - 1 /\ r < Sec
    BY <1>1, <1>3
  <1>5. tv.sec = q /\ tv.usec = r /\ tv \in Pairs
    BY <1>1, <1>2, <1>4 DEF Pairs
  <1>6. Us(tv) = t
    <2>1. tv.sec * Sec + tv.usec = t
      BY <1>1, <1>3, <1>4, <1>5
    <2> QED
      BY <2>1 DEF Us
  <1> QED
    BY <1>4, <1>5, <1>6 DEF Reading, tv

(* The microseconds of a deadline are less than two seconds, and the       *)
(* deadline is not before the time it is set at.                           *)
LEMMA LaterIsPair ==
    ASSUME NEW tv, Reading(tv), NEW ms \in Nat
    PROVE  Later(tv, ms) \in Pairs /\ Ms(tv) <= Ms(Later(tv, ms))
  <1> DEFINE d == ms \div MsPerSec
             r == ms % MsPerSec
             l == Later(tv, ms)
  <1>1. MsPerSec \in Nat \ {0} /\ UsPerMs \in Nat \ {0}
    BY TimeAssumption
  <1>2. d \in Nat /\ r \in 0 .. MsPerSec - 1
    BY <1>1, DivMod
  <1>3. tv.sec \in Nat /\ tv.usec \in Nat /\ tv.usec < Sec
    BY SecIsPositive DEF Reading, Pairs
  <1> HIDE DEF d, r
  <1>4. l = [sec |-> tv.sec + d, usec |-> tv.usec + r * UsPerMs]
    BY DEF Later, d, r
  <1> HIDE DEF l
  <1>5. r * UsPerMs \in Nat /\ r * UsPerMs <= Sec
    <2>1. r \in Nat /\ r <= MsPerSec
      BY <1>1, <1>2
    <2>2. r * UsPerMs <= MsPerSec * UsPerMs
      BY <1>1, <2>1
    <2> QED
      BY <1>1, <2>1, <2>2 DEF Sec
  <1> DEFINE u == r * UsPerMs
  <1> HIDE DEF u
  <1>6. u \in Nat /\ u <= Sec /\ l = [sec |-> tv.sec + d, usec |-> tv.usec + u]
    BY <1>4, <1>5 DEF u
  <1>7. l \in Pairs
    <2>1. tv.sec + d \in Nat /\ tv.usec + u \in 0 .. 2 * Sec - 1
      BY <1>2, <1>3, <1>6, SecIsPositive
    <2> QED
      BY <1>6, <2>1 DEF Pairs
  <1>8. Ms(tv) <= Ms(l)
    <2>1. l.sec = tv.sec + d /\ l.usec = tv.usec + u /\ l.usec \in Nat
      BY <1>3, <1>6
    <2>2. tv.usec \div UsPerMs <= l.usec \div UsPerMs
      BY <1>1, <1>3, <1>6, <2>1, DivMonotone
    <2>3. tv.sec * MsPerSec <= l.sec * MsPerSec
      BY <1>1, <1>2, <1>3, <2>1
    <2>4. /\ tv.sec * MsPerSec \in Nat /\ l.sec * MsPerSec \in Nat
          /\ tv.usec \div UsPerMs \in Nat /\ l.usec \div UsPerMs \in Nat
      BY <1>1, <1>2, <1>3, <2>1, DivBelow
    <2> QED
      BY <2>2, <2>3, <2>4 DEF Ms
  <1> QED
    BY <1>7, <1>8 DEF l

LEMMA MsIsNat ==
    ASSUME NEW tv \in Pairs
    PROVE  Ms(tv) \in Nat
  <1>1. tv.sec \in Nat /\ tv.usec \in Nat
    BY SecIsPositive DEF Pairs
  <1>2. tv.usec \div UsPerMs \in Nat /\ tv.sec * MsPerSec \in Nat
    BY <1>1, TimeAssumption, DivBelow
  <1> QED
    BY <1>2 DEF Ms

LEMMA KeysType ==
    ASSUME NEW ts \in Seq(Timer)
    PROVE  /\ Keys(ts) \in [DOMAIN ts -> Nat]
           /\ \A id \in DOMAIN ts : Keys(ts)[id] = Ms(ts[id].when)
           /\ DOMAIN ts \in SUBSET Nat
  <1>1. ASSUME NEW id \in DOMAIN ts
        PROVE  Ms(ts[id].when) \in Nat
    <2>1. ts[id] \in Timer
      BY ElementOfSeq
    <2>2. ts[id].when \in Pairs
      BY <2>1 DEF Timer
    <2> QED
      BY <2>2, MsIsNat
  <1> QED
    BY <1>1 DEF Keys

(* Two orders that agree on the elements of a heap. *)
LEMMA SameOrder ==
    ASSUME NEW h \in Heaps, NEW k, NEW l, \A x \in ToSet(h) : k[x] = l[x], IsMinHeap(h, k)
    PROVE  IsMinHeap(h, l)
  <1> SUFFICES ASSUME NEW j \in 2 .. Len(h)
               PROVE  l[h[j \div 2]] <= l[h[j]]
    BY DEF IsMinHeap
  <1>1. /\ j \in 1 .. Len(h) /\ j \div 2 \in 1 .. Len(h)
        /\ DOMAIN h = 1 .. Len(h)
    BY Half DEF Heaps
  <1>2. h[j] \in ToSet(h) /\ h[j \div 2] \in ToSet(h)
    BY <1>1 DEF ToSet
  <1> QED
    BY <1>2 DEF IsMinHeap

-------------------------------------------------------------------------------
(* The interface. *)

LEMMA TypedParts ==
    ASSUME NEW s, Typed(s)
    PROVE  /\ s.timers \in Seq(Timer)
           /\ Len(s.timers) \in Nat /\ DOMAIN s.timers = 1 .. Len(s.timers)
           /\ s.heap \in Heaps /\ s.heap \in Over(DOMAIN s.timers)
           /\ ToSet(s.heap) \subseteq DOMAIN s.timers
           /\ Len(s.heap) \in Nat
           /\ s.live \subseteq DOMAIN s.timers
           /\ s.ordered \in BOOLEAN
  <1>1. s.timers \in Seq(Timer) /\ s.heap \in Heaps /\ s.ordered \in BOOLEAN
    BY DEF Typed, States
  <1>2. Len(s.timers) \in Nat /\ DOMAIN s.timers = 1 .. Len(s.timers) /\ Len(s.heap) \in Nat
    BY <1>1 DEF Heaps
  <1> QED
    BY <1>1, <1>2 DEF Typed, Over

(* The parts of a state are enough for it to be Typed. *)
LEMMA Assembled ==
    ASSUME NEW ts \in Seq(Timer), NEW h \in Over(DOMAIN ts), NEW l \in SUBSET DOMAIN ts,
           NEW o \in BOOLEAN, Len(h) <= MaxNodes, NEW s,
           s = [timers |-> ts, heap |-> h, live |-> l, ordered |-> o]
    PROVE  Typed(s)
  <1>1. DOMAIN ts \subseteq Nat
    BY KeysType
  <1>2. s \in States
    BY <1>1 DEF States, Over
  <1> QED
    BY <1>2 DEF Typed

(* A timer that is created goes to the heap, below a root that is not due  *)
(* after now, when there is room for it.                                   *)
LEMMA CreateCorrect ==
    ASSUME NEW s, Good(s), NEW delay \in Delays, NEW interval \in BOOLEAN, now \in Nat
    PROVE  /\ Good(Create(s, delay, interval))
           /\ s.heap # <<>> /\ Ms(s.timers[s.heap[1]].when) <= Ms(Pair(now))
                  => Create(s, delay, interval).heap[1] = s.heap[1]
           /\ \A id \in DOMAIN s.timers :
                  /\ id \in DOMAIN Create(s, delay, interval).timers
                  /\ Create(s, delay, interval).timers[id] = s.timers[id]
  <1> DEFINE id == Len(s.timers) + 1
             timer == [when |-> Later(Pair(now), delay), delay |-> delay, interval |-> interval]
             added == Append(s.timers, timer)
             h == AddHeapVal(s.heap, Keys(added), id)
             t == Create(s, delay, interval)
  <1>1. /\ s.timers \in Seq(Timer)
        /\ Len(s.timers) \in Nat /\ DOMAIN s.timers = 1 .. Len(s.timers)
        /\ s.heap \in Heaps /\ s.heap \in Over(DOMAIN s.timers)
        /\ ToSet(s.heap) \subseteq DOMAIN s.timers
        /\ Len(s.heap) \in Nat
        /\ s.live \subseteq DOMAIN s.timers
        /\ s.ordered \in BOOLEAN
    BY TypedParts DEF Good
  <1>2. timer \in Timer /\ Ms(Pair(now)) <= Ms(timer.when) /\ timer.when \in Pairs
    <2>1. delay \in Nat
      BY TimeAssumption
    <2>2. Later(Pair(now), delay) \in Pairs /\ Ms(Pair(now)) <= Ms(Later(Pair(now), delay))
      BY <2>1, PairIsReading, LaterIsPair
    <2> QED
      BY <2>1, <2>2 DEF Timer
  <1> HIDE DEF timer
  <1>3. /\ added \in Seq(Timer)
        /\ Len(added) = id
        /\ \A i \in 1 .. Len(s.timers) : added[i] = s.timers[i]
        /\ added[id] = timer
    BY <1>1, <1>2, AppendProperties
  <1> HIDE DEF added
  <1>4. /\ DOMAIN added = 1 .. id /\ id \in DOMAIN added /\ id \notin DOMAIN s.timers
        /\ DOMAIN s.timers \subseteq DOMAIN added
    BY <1>1, <1>3
  <1> HIDE DEF id
  <1>5. /\ Keys(added) \in [DOMAIN added -> Nat]
        /\ \A i \in DOMAIN added : Keys(added)[i] = Ms(added[i].when)
        /\ DOMAIN added \in SUBSET Nat
    BY <1>3, KeysType
  <1>6. \A i \in DOMAIN s.timers : Keys(added)[i] = Keys(s.timers)[i]
    BY <1>1, <1>3, <1>4, <1>5, KeysType
  <1>7. s.heap \in Over(DOMAIN added)
    BY <1>1, <1>4 DEF Over
  <1>8. h \in Over(DOMAIN added) /\ Added(s.heap, h, Keys(added), id)
    BY <1>4, <1>5, <1>7, AddCorrect
  <1> HIDE DEF h
  <1>9. CASE HasRoom(s.heap)
    <2>1. t = [timers |-> added, heap |-> h, live |-> s.live \cup {id}, ordered |-> s.ordered]
      <3>1. t = [s EXCEPT !.timers = added, !.heap = h, !.live = @ \cup {id}]
        BY <1>9 DEF Create, added, timer, id, h
      <3> HIDE DEF t
      <3> QED
        BY <3>1 DEF Good, Typed, States
    <2> HIDE DEF t
    <2>2. Len(h) <= MaxNodes
      BY <1>1, <1>8, <1>9, TimeAssumption DEF Added, HasRoom
    <2>3. Typed(t)
      <3>1. s.live \cup {id} \in SUBSET DOMAIN added
        BY <1>1, <1>4
      <3> QED
        BY <1>1, <1>3, <1>8, <2>1, <2>2, <3>1, Assembled
    <2>4. Sound(t)
      <3> SUFFICES ASSUME s.ordered
                   PROVE  /\ Distinct(h)
                          /\ ToSet(h) = s.live \cup {id}
                          /\ IsMinHeap(h, Keys(added))
        BY <2>1 DEF Sound
      <3>1. /\ Distinct(s.heap) /\ ToSet(s.heap) = s.live
            /\ IsMinHeap(s.heap, Keys(s.timers))
        BY DEF Good, Sound
      <3>2. IsMinHeap(s.heap, Keys(added))
        BY <1>1, <1>6, <3>1, SameOrder
      <3>3. id \notin ToSet(s.heap)
        BY <1>1, <1>4
      <3> QED
        BY <1>8, <3>1, <3>2, <3>3 DEF Added
    <2>5. s.heap # <<>> /\ Ms(s.timers[s.heap[1]].when) <= Ms(Pair(now))
              => t.heap[1] = s.heap[1]
      <3> SUFFICES ASSUME s.heap # <<>>, Ms(s.timers[s.heap[1]].when) <= Ms(Pair(now))
                   PROVE  h[1] = s.heap[1]
        BY <2>1
      <3>1. s.heap[1] \in DOMAIN s.timers
        <4>1. 1 \in 1 .. Len(s.heap)
          BY <1>1 DEF Heaps
        <4> QED
          BY <1>1, <4>1, Elements
      <3>2. added[s.heap[1]] = s.timers[s.heap[1]] /\ s.heap[1] \in DOMAIN added
        BY <1>1, <1>3, <1>4, <3>1
      <3>3. /\ Keys(added)[s.heap[1]] = Ms(s.timers[s.heap[1]].when)
            /\ Keys(added)[id] = Ms(timer.when)
        BY <1>3, <1>4, <1>5, <3>2
      <3>4. /\ Keys(added)[s.heap[1]] \in Nat /\ Keys(added)[id] \in Nat
            /\ Ms(Pair(now)) \in Nat
        BY <1>4, <1>5, <3>2, PairIsReading, MsIsNat DEF Reading
      <3>5. Keys(added)[s.heap[1]] <= Keys(added)[id]
        BY <1>2, <3>3, <3>4
      <3> QED
        BY <1>8, <3>5 DEF Added
    <2>6. \A i \in DOMAIN s.timers : i \in DOMAIN t.timers /\ t.timers[i] = s.timers[i]
      BY <1>1, <1>3, <1>4, <2>1
    <2> QED
      BY <2>3, <2>4, <2>5, <2>6 DEF Good, t
  <1>10. CASE ~HasRoom(s.heap)
    <2>1. t = [timers |-> added, heap |-> s.heap, live |-> s.live, ordered |-> s.ordered]
      <3>1. t = [s EXCEPT !.timers = added]
        BY <1>10 DEF Create, added, timer, id, h
      <3> HIDE DEF t
      <3> QED
        BY <3>1 DEF Good, Typed, States
    <2> HIDE DEF t
    <2>2. Typed(t)
      <3>1. s.live \in SUBSET DOMAIN added /\ Len(s.heap) <= MaxNodes
        BY <1>1, <1>4 DEF Good, Typed
      <3> QED
        BY <1>1, <1>3, <1>7, <2>1, <3>1, Assembled
    <2>3. Sound(t)
      <3> SUFFICES ASSUME s.ordered
                   PROVE  /\ Distinct(s.heap)
                          /\ ToSet(s.heap) = s.live
                          /\ IsMinHeap(s.heap, Keys(added))
        BY <2>1 DEF Sound
      <3>1. /\ Distinct(s.heap) /\ ToSet(s.heap) = s.live
            /\ IsMinHeap(s.heap, Keys(s.timers))
        BY DEF Good, Sound
      <3>2. IsMinHeap(s.heap, Keys(added))
        BY <1>1, <1>6, <3>1, SameOrder
      <3> QED
        BY <3>1, <3>2
    <2>4. \A i \in DOMAIN s.timers : i \in DOMAIN t.timers /\ t.timers[i] = s.timers[i]
      BY <1>1, <1>3, <1>4, <2>1
    <2> QED
      BY <2>1, <2>2, <2>3, <2>4 DEF Good, t
  <1> QED
    BY <1>9, <1>10

(* A timer that is deleted leaves the heap; whether the heap is still in   *)
(* order is remembered.                                                    *)
LEMMA DeleteCorrect ==
    ASSUME NEW s, Good(s), NEW id \in ToSet(s.heap)
    PROVE  /\ Good(Delete(s, id))
           /\ Delete(s, id).timers = s.timers
           /\ \A x \in ToSet(Delete(s, id).heap) : s.ordered => x # id
           /\ s.ordered /\ s.heap[1] # id =>
                  /\ Delete(s, id).heap # <<>>
                  /\ Delete(s, id).heap[1] = s.heap[1]
           /\ Delete(s, id).ordered => s.ordered
  <1> DEFINE key == Keys(s.timers)
             g == DelMatch(s.heap, key, id)
             o == s.ordered /\ IsMinHeap(g, key)
             t == Delete(s, id)
  <1>1. /\ s.timers \in Seq(Timer)
        /\ s.heap \in Heaps /\ s.heap \in Over(DOMAIN s.timers)
        /\ Len(s.heap) \in Nat
        /\ s.live \subseteq DOMAIN s.timers
        /\ s.ordered \in BOOLEAN
    BY TypedParts DEF Good
  <1>2. key \in [DOMAIN s.timers -> Nat]
    BY <1>1, KeysType
  <1> HIDE DEF key
  <1>3. PICK i \in 1 .. Len(s.heap) : s.heap[i] = id /\ g = Cut(s.heap, key, i)
    BY <1>1, DelMatchCuts
  <1> HIDE DEF g
  <1>4. g \in Over(DOMAIN s.timers) /\ Without(s.heap, g, key, i)
    BY <1>1, <1>2, <1>3, CutCorrect
  <1>5. o \in BOOLEAN /\ (o => s.ordered /\ IsMinHeap(g, key))
    BY <1>1
  <1>6. t = [timers |-> s.timers, heap |-> g, live |-> s.live \ {id}, ordered |-> o]
    <2>1. t = [s EXCEPT !.heap = g, !.live = @ \ {id}, !.ordered = o]
      BY DEF Delete, g, key
    <2> HIDE DEF t, o
    <2> QED
      BY <2>1 DEF Good, Typed, States
  <1> HIDE DEF t, o
  <1>7. Typed(t)
    <2>1. Len(g) <= MaxNodes
      BY <1>1, <1>4, TimeAssumption DEF Without, Good, Typed
    <2>2. s.live \ {id} \in SUBSET DOMAIN s.timers
      BY <1>1
    <2> QED
      BY <1>1, <1>4, <1>5, <1>6, <2>1, <2>2, Assembled
  <1>8. s.ordered => /\ Distinct(s.heap) /\ ToSet(s.heap) = s.live
                     /\ IsMinHeap(s.heap, key)
    BY DEF Good, Sound, key
  <1>9. Sound(t)
    <2> SUFFICES ASSUME o
                 PROVE  Distinct(g) /\ ToSet(g) = s.live \ {id} /\ IsMinHeap(g, key)
      BY <1>6 DEF Sound, key
    <2> QED
      BY <1>3, <1>4, <1>5, <1>8 DEF Without
  <1>10. s.ordered => id \notin ToSet(g)
    BY <1>3, <1>4, <1>8 DEF Without
  <1>11. s.ordered /\ s.heap[1] # id => g # <<>> /\ g[1] = s.heap[1]
    BY <1>3, <1>4, <1>8 DEF Without
  <1> QED
    BY <1>5, <1>6, <1>7, <1>9, <1>10, <1>11 DEF Good, t

(* What a handler or a callback does leaves the state good, and a heap     *)
(* that is in order, from a root that is due and not deleted, keeps it.    *)
LEMMA UsesCorrect ==
    ASSUME NEW s, Good(s), now \in Nat, NEW t \in Uses(s)
    PROVE  /\ Good(t)
           /\ \A id \in DOMAIN s.timers :
                  id \in DOMAIN t.timers /\ t.timers[id] = s.timers[id]
           /\ /\ t.ordered /\ s.heap # <<>> /\ s.heap[1] \in ToSet(t.heap)
              /\ Ms(s.timers[s.heap[1]].when) <= Ms(Pair(now))
              => t.heap[1] = s.heap[1]
  <1>1. CASE t = s
    BY <1>1
  <1>2. ASSUME NEW c \in Creations, t = Create(s, c.delay, c.interval)
        PROVE  /\ Good(t)
               /\ \A id \in DOMAIN s.timers :
                      id \in DOMAIN t.timers /\ t.timers[id] = s.timers[id]
               /\ s.heap # <<>> /\ Ms(s.timers[s.heap[1]].when) <= Ms(Pair(now))
                      => t.heap[1] = s.heap[1]
    <2>1. c.delay \in Delays /\ c.interval \in BOOLEAN
      BY DEF Creations
    <2> QED
      BY <1>2, <2>1, CreateCorrect
  <1>3. ASSUME NEW id \in ToSet(s.heap), t = Delete(s, id)
        PROVE  /\ Good(t) /\ t.timers = s.timers
               /\ t.ordered /\ s.heap[1] \in ToSet(t.heap) => t.heap[1] = s.heap[1]
    BY <1>3, DeleteCorrect
  <1>4. \/ t = s
        \/ \E c \in Creations : t = Create(s, c.delay, c.interval)
        \/ \E id \in ToSet(s.heap) : t = Delete(s, id)
    BY DEF Uses
  <1> QED
    BY <1>1, <1>2, <1>3, <1>4

(* Forgetting the timers that are gone leaves the state good. *)
LEMMA BecomesCorrect ==
    ASSUME NEW s, Good(s), Becomes(s)
    PROVE  Good(State)'
  <1> DEFINE ts == [id \in DOMAIN s.timers |->
                        IF id \in s.live THEN s.timers[id] ELSE Gone]
  <1>1. timers' = ts /\ heap' = s.heap /\ live' = s.live /\ ordered' = s.ordered
    BY DEF Becomes
  <1>2. /\ s.timers \in Seq(Timer)
        /\ Len(s.timers) \in Nat /\ DOMAIN s.timers = 1 .. Len(s.timers)
        /\ s.heap \in Heaps /\ s.heap \in Over(DOMAIN s.timers)
        /\ s.live \subseteq DOMAIN s.timers
        /\ s.ordered \in BOOLEAN
    BY TypedParts DEF Good
  <1>3. Gone \in Timer
    <2>1. Pair(0) \in Pairs
      BY PairIsReading DEF Reading
    <2> QED
      BY <2>1 DEF Gone, Timer
  <1>4. ts \in Seq(Timer) /\ DOMAIN ts = DOMAIN s.timers
    <2>1. \A id \in DOMAIN s.timers : s.timers[id] \in Timer
      BY <1>2, ElementOfSeq
    <2>2. ts \in [1 .. Len(s.timers) -> Timer]
      BY <1>2, <1>3, <2>1
    <2>3. \A m \in Nat : [1 .. m -> Timer] \subseteq Seq(Timer)
      BY SeqDef
    <2> QED
      BY <1>2, <2>2, <2>3
  <1>5. \A id \in s.live : Keys(ts)[id] = Keys(s.timers)[id]
    <2> SUFFICES ASSUME NEW id \in s.live
                 PROVE  Keys(ts)[id] = Keys(s.timers)[id]
      OBVIOUS
    <2>1. ts[id] = s.timers[id] /\ id \in DOMAIN ts /\ id \in DOMAIN s.timers
      BY <1>2
    <2> HIDE DEF ts
    <2>2. Keys(ts)[id] = Ms(ts[id].when)
      BY <1>4, <2>1, KeysType
    <2>3. Keys(s.timers)[id] = Ms(s.timers[id].when)
      BY <1>2, <2>1, KeysType
    <2> QED
      BY <2>1, <2>2, <2>3
  <1> HIDE DEF ts
  <1>6. State' = [timers |-> ts, heap |-> s.heap, live |-> s.live, ordered |-> s.ordered]
    BY <1>1 DEF State
  <1> DEFINE t == State'
  <1>7. t = [timers |-> ts, heap |-> s.heap, live |-> s.live, ordered |-> s.ordered]
    BY <1>6
  <1> HIDE DEF t
  <1>8. Typed(t)
    <2>1. Len(s.heap) <= MaxNodes
      BY DEF Good, Typed
    <2> QED
      BY <1>2, <1>4, <1>7, <2>1, Assembled
  <1>9. Sound(t)
    <2> SUFFICES ASSUME s.ordered
                 PROVE  Distinct(s.heap) /\ ToSet(s.heap) = s.live /\ IsMinHeap(s.heap, Keys(ts))
      BY <1>7 DEF Sound
    <2>1. /\ Distinct(s.heap) /\ ToSet(s.heap) = s.live
          /\ IsMinHeap(s.heap, Keys(s.timers))
      BY DEF Good, Sound
    <2> QED
      BY <1>2, <1>5, <2>1, SameOrder
  <1>10. Good(t)
    BY <1>8, <1>9 DEF Good
  <1>11. Good(State') <=> Good(State)'
    BY DEF Good, Typed, Sound, State, Keys, Over, Heaps, ToSet, States, Timer, Pairs, Distinct, IsMinHeap, Ms
  <1> QED
    BY <1>10, <1>11 DEF t

(* The head that ran and is set again. *)
LEMMA RequeuedCorrect ==
    ASSUME NEW s, Good(s), Reading(tvl), NEW id \in ToSet(s.heap),
           s.ordered => s.heap[1] = id
    PROVE  Good(Requeued(s, id))
  <1> DEFINE set == Again(s.timers, id)
             key == Keys(s.timers)
             new == Keys(set)
             g == DelHead(s.heap, key)
             h == AddHeapVal(g, new, id)
             t == Requeued(s, id)
  <1>1. /\ s.timers \in Seq(Timer)
        /\ Len(s.timers) \in Nat /\ DOMAIN s.timers = 1 .. Len(s.timers)
        /\ s.heap \in Heaps /\ s.heap \in Over(DOMAIN s.timers)
        /\ ToSet(s.heap) \subseteq DOMAIN s.timers
        /\ Len(s.heap) \in Nat
        /\ s.live \subseteq DOMAIN s.timers
        /\ s.ordered \in BOOLEAN
    BY TypedParts DEF Good
  <1>2. id \in DOMAIN s.timers /\ 1 \in 1 .. Len(s.heap)
    <2>1. id \in DOMAIN s.timers
      BY <1>1
    <2>2. PICK i \in 1 .. Len(s.heap) : s.heap[i] = id
      BY <1>1 DEF ToSet, Heaps
    <2>3. 1 \in 1 .. Len(s.heap)
      BY <1>1
    <2> QED
      BY <2>1, <2>3
  <1>3. /\ set \in Seq(Timer) /\ DOMAIN set = DOMAIN s.timers
        /\ \A x \in DOMAIN s.timers : x # id => set[x] = s.timers[x]
    <2> DEFINE w == Later(tvl, s.timers[id].delay)
               r == [s.timers[id] EXCEPT !.when = w]
    <2>1. \A x \in DOMAIN s.timers : s.timers[x] \in Timer
      BY <1>1, ElementOfSeq
    <2>2. s.timers[id].delay \in Nat
      BY <1>2, <2>1 DEF Timer
    <2>3. w \in Pairs
      BY <2>2, LaterIsPair
    <2> HIDE DEF w
    <2>4. r \in Timer
      BY <1>2, <2>1, <2>3 DEF Timer
    <2>5. set = [s.timers EXCEPT ![id] = r]
      BY <1>1, <1>2 DEF Again, w
    <2> HIDE DEF r, set
    <2>6. set \in [1 .. Len(s.timers) -> Timer]
      BY <1>1, <1>2, <2>1, <2>4, <2>5
    <2>7. \A m \in Nat : [1 .. m -> Timer] \subseteq Seq(Timer)
      BY SeqDef
    <2> QED
      BY <1>1, <1>2, <2>5, <2>6, <2>7
  <1> HIDE DEF set
  <1>4. /\ key \in [DOMAIN s.timers -> Nat] /\ new \in [DOMAIN s.timers -> Nat]
        /\ DOMAIN s.timers \in SUBSET Nat
    BY <1>1, <1>3, KeysType
  <1>5. \A x \in DOMAIN s.timers : x # id => key[x] = new[x]
    <2> SUFFICES ASSUME NEW x \in DOMAIN s.timers, x # id
                 PROVE  key[x] = new[x]
      OBVIOUS
    <2>1. set[x] = s.timers[x]
      BY <1>3
    <2>2. key[x] = Ms(s.timers[x].when)
      BY <1>1, KeysType
    <2>3. new[x] = Ms(set[x].when)
      BY <1>3, KeysType
    <2> QED
      BY <2>1, <2>2, <2>3
  <1> HIDE DEF key, new
  <1>6. g \in Over(DOMAIN s.timers) /\ Without(s.heap, g, key, 1)
    BY <1>1, <1>2, <1>4, CutCorrect DEF DelHead
  <1> HIDE DEF g
  <1>7. h \in Over(DOMAIN s.timers) /\ Added(g, h, new, id)
    BY <1>2, <1>4, <1>6, AddCorrect
  <1> HIDE DEF h
  <1>8. t = [timers |-> set, heap |-> h, live |-> s.live, ordered |-> s.ordered]
    <2>1. t = [s EXCEPT !.timers = set, !.heap = h]
      BY DEF Requeued, set, h, g, new, key
    <2> HIDE DEF t
    <2> QED
      BY <2>1 DEF Good, Typed, States
  <1> HIDE DEF t
  <1>9. Typed(t)
    <2>1. Len(h) <= MaxNodes
      BY <1>1, <1>6, <1>7, TimeAssumption DEF Without, Added, Good, Typed
    <2> QED
      BY <1>1, <1>3, <1>7, <1>8, <2>1, Assembled
  <1>10. Sound(t)
    <2> SUFFICES ASSUME s.ordered
                 PROVE  Distinct(h) /\ ToSet(h) = s.live /\ IsMinHeap(h, new)
      BY <1>8 DEF Sound, new
    <2>1. /\ Distinct(s.heap) /\ ToSet(s.heap) = s.live
          /\ IsMinHeap(s.heap, key) /\ s.heap[1] = id
      BY DEF Good, Sound, key
    <2>2. Distinct(g) /\ ToSet(g) = s.live \ {id} /\ IsMinHeap(g, key)
      BY <1>6, <2>1 DEF Without
    <2>3. IsMinHeap(g, new)
      <3>1. \A x \in ToSet(g) : key[x] = new[x]
        BY <1>1, <1>5, <2>2
      <3>2. g \in Heaps
        BY <1>6 DEF Over
      <3> QED
        BY <2>2, <3>1, <3>2, SameOrder
    <2>4. id \in s.live /\ id \notin ToSet(g)
      BY <2>1, <2>2
    <2>5. Distinct(h) /\ ToSet(h) = ToSet(g) \cup {id} /\ IsMinHeap(h, new)
      BY <1>7, <2>2, <2>3, <2>4 DEF Added
    <2> QED
      BY <2>2, <2>4, <2>5
  <1> QED
    BY <1>9, <1>10 DEF Good, t

(* The head that ran and is for once. *)
LEMMA HeadDeletedCorrect ==
    ASSUME NEW s, Good(s), NEW id \in ToSet(s.heap), s.ordered => s.heap[1] = id
    PROVE  Good([s EXCEPT !.heap = DelHead(@, Keys(s.timers)), !.live = @ \ {id}])
  <1> DEFINE key == Keys(s.timers)
             g == DelHead(s.heap, key)
             t == [s EXCEPT !.heap = DelHead(@, Keys(s.timers)), !.live = @ \ {id}]
  <1>1. /\ s.timers \in Seq(Timer)
        /\ s.heap \in Heaps /\ s.heap \in Over(DOMAIN s.timers)
        /\ ToSet(s.heap) \subseteq DOMAIN s.timers
        /\ Len(s.heap) \in Nat
        /\ s.live \subseteq DOMAIN s.timers
        /\ s.ordered \in BOOLEAN
    BY TypedParts DEF Good
  <1>2. 1 \in 1 .. Len(s.heap)
    <2>1. PICK i \in 1 .. Len(s.heap) : s.heap[i] = id
      BY <1>1 DEF ToSet, Heaps
    <2> QED
      BY <1>1
  <1>3. key \in [DOMAIN s.timers -> Nat]
    BY <1>1, KeysType
  <1> HIDE DEF key
  <1>4. g \in Over(DOMAIN s.timers) /\ Without(s.heap, g, key, 1)
    BY <1>1, <1>2, <1>3, CutCorrect DEF DelHead
  <1> HIDE DEF g
  <1>5. t = [timers |-> s.timers, heap |-> g, live |-> s.live \ {id}, ordered |-> s.ordered]
    <2>1. t = [s EXCEPT !.heap = g, !.live = @ \ {id}]
      BY DEF g, key
    <2> HIDE DEF t
    <2> QED
      BY <2>1 DEF Good, Typed, States
  <1> HIDE DEF t
  <1>6. Typed(t)
    <2>1. Len(g) <= MaxNodes
      BY <1>1, <1>4, TimeAssumption DEF Without, Good, Typed
    <2>2. s.live \ {id} \in SUBSET DOMAIN s.timers
      BY <1>1
    <2> QED
      BY <1>1, <1>4, <1>5, <2>1, <2>2, Assembled
  <1>7. Sound(t)
    <2> SUFFICES ASSUME s.ordered
                 PROVE  Distinct(g) /\ ToSet(g) = s.live \ {id} /\ IsMinHeap(g, key)
      BY <1>5 DEF Sound, key
    <2>1. /\ Distinct(s.heap) /\ ToSet(s.heap) = s.live
          /\ IsMinHeap(s.heap, key) /\ s.heap[1] = id
      BY DEF Good, Sound, key
    <2> QED
      BY <1>4, <2>1 DEF Without
  <1> QED
    BY <1>6, <1>7 DEF Good, t

-------------------------------------------------------------------------------
(* The invariant holds initially and under every action. *)

LEMMA StateParts ==
    /\ State.timers = timers /\ State.heap = heap /\ State.live = live
    /\ State.ordered = ordered
  BY DEF State

(* What is unchanged stays good. *)
LEMMA GoodUnchanged ==
    ASSUME Good(State), UNCHANGED <<timers, heap, live, ordered>>
    PROVE  Good(State)'
  <1>1. State' = State
    BY DEF State
  <1>2. Good(State') <=> Good(State)'
    BY DEF Good, Typed, Sound, State, Keys, Over, Heaps, ToSet, States, Timer, Pairs, Distinct, IsMinHeap, Ms
  <1> QED
    BY <1>1, <1>2

LEMMA InitInvariant ==
    ASSUME Init
    PROVE  Invariant
  <1>1. tvl \in Pairs
    BY PairIsReading DEF Init, Reading
  <1>2. State = [timers |-> <<>>, heap |-> <<>>, live |-> {}, ordered |-> TRUE]
    BY DEF Init, State
  <1>3. <<>> \in Seq(Timer) /\ <<>> \in Heaps /\ Len(<<>>) = 0 /\ DOMAIN <<>> = {}
    BY DEF Heaps
  <1>4. ToSet(<<>>) = {}
    BY <1>3 DEF ToSet
  <1>5. Typed(State)
    <2>1. /\ <<>> \in Over(DOMAIN <<>>)
          /\ {} \in SUBSET DOMAIN <<>>
          /\ Len(<<>>) <= MaxNodes
      BY <1>3, <1>4, TimeAssumption DEF Over
    <2> QED
      BY <1>2, <1>3, <2>1, Assembled
  <1>6. Sound(State)
    <2> DEFINE t == State
    <2>1. t.heap = <<>> /\ t.live = {}
      BY <1>2
    <2>2. Distinct(<<>>) /\ \A key : IsMinHeap(<<>>, key)
      BY <1>3 DEF Distinct, IsMinHeap
    <2> HIDE DEF t
    <2>3. Sound(t)
      BY <1>4, <2>1, <2>2 DEF Sound
    <2> QED
      BY <2>3 DEF t
  <1> QED
    BY <1>1, <1>5, <1>6 DEF Init, Invariant, Good

LEMMA RunHeadInvariant ==
    ASSUME Invariant, RunHead
    PROVE  Invariant'
  <1> DEFINE id == heap[1]
  <1>1. /\ phase = "run" /\ tvl = Pair(now) /\ now \in Nat /\ tvl \in Pairs
        /\ Good(State)
        /\ heap # <<>> /\ Ms(timers[id].when) <= Ms(Pair(now))
        /\ now' = now /\ tvl' = tvl
    <2>1. /\ Ms(tvl) >= Ms(timers[heap[1]].when) /\ heap # <<>> /\ phase = "run"
          /\ now' = now /\ tvl' = tvl
      BY DEF RunHead, HeadDue
    <2>2. tvl = Pair(now) /\ tvl \in Pairs /\ now \in Nat /\ Good(State)
      BY <2>1 DEF Invariant
    <2>3. timers[heap[1]].when \in Pairs
      <3>1. timers \in Seq(Timer) /\ heap \in Over(DOMAIN timers) /\ heap \in Heaps
        BY <2>2, StateParts, TypedParts DEF Good
      <3>2. 1 \in 1 .. Len(heap)
        BY <2>1, <3>1 DEF Heaps
      <3>3. heap[1] \in DOMAIN timers
        BY <3>1, <3>2, Elements
      <3>4. timers[heap[1]] \in Timer
        BY <3>1, <3>3, ElementOfSeq
      <3> QED
        BY <3>4 DEF Timer
    <2>4. Ms(tvl) \in Nat /\ Ms(timers[heap[1]].when) \in Nat
      BY <2>2, <2>3, MsIsNat
    <2> QED
      BY <2>1, <2>2, <2>4
  <1>2. PICK s \in Uses(State) :
            IF id \notin ToSet(s.heap)
            THEN phase' = "undefined" /\ UNCHANGED <<timers, heap, live, ordered>>
            ELSE /\ phase' = phase
                 /\ IF timers[id].interval
                    THEN Becomes(Requeued(s, id))
                    ELSE Becomes([s EXCEPT !.heap = DelHead(@, Keys(s.timers)),
                                           !.live = @ \ {id}])
    BY DEF RunHead
  <1> DEFINE Once == [s EXCEPT !.heap = DelHead(@, Keys(s.timers)), !.live = @ \ {id}]
  <1>3. /\ Good(s)
        /\ s.ordered /\ id \in ToSet(s.heap) => s.heap[1] = id
    <2>1. /\ Good(s)
          /\ /\ s.ordered /\ State.heap # <<>> /\ State.heap[1] \in ToSet(s.heap)
             /\ Ms(State.timers[State.heap[1]].when) <= Ms(Pair(now))
             => s.heap[1] = State.heap[1]
      BY <1>1, UsesCorrect
    <2> QED
      BY <1>1, <2>1, StateParts
  <1>4. Reading(tvl)
    BY <1>1, PairIsReading
  <1> HIDE DEF id
  <1>5. Good(State)' /\ phase' \in {"run", "undefined"}
    <2>1. CASE id \notin ToSet(s.heap)
      BY <1>1, <1>2, <2>1, GoodUnchanged
    <2>2. CASE id \in ToSet(s.heap) /\ timers[id].interval
      <3>1. Becomes(Requeued(s, id)) /\ phase' = phase
        BY <1>2, <2>2
      <3>2. Good(Requeued(s, id))
        BY <1>3, <1>4, <2>2, RequeuedCorrect
      <3> QED
        BY <1>1, <3>1, <3>2, BecomesCorrect
    <2>3. CASE id \in ToSet(s.heap) /\ ~timers[id].interval
      <3>1. Becomes(Once) /\ phase' = phase
        BY <1>2, <2>3
      <3>2. Good(Once)
        BY <1>3, <2>3, HeadDeletedCorrect
      <3> HIDE DEF Once
      <3> QED
        BY <1>1, <3>1, <3>2, BecomesCorrect
    <2> QED
      BY <2>1, <2>2, <2>3
  <1>6. Good(State)' /\ now' \in Nat /\ tvl' = Pair(now') /\ tvl' \in Pairs
    BY <1>1, <1>5
  <1>7. (tvl \in Pairs)'
    BY <1>6 DEF Pairs, Sec
  <1>8. (tvl = Pair(now))'
    BY <1>6 DEF Pair, Sec
  <1> QED
    BY <1>5, <1>6, <1>7, <1>8 DEF Invariant

LEMMA NextInvariant ==
    ASSUME Invariant, [Next]_vars
    PROVE  Invariant'
  <1>0. /\ Good(State) /\ now \in Nat /\ tvl \in Pairs
        /\ phase \in {"handlers", "poll", "run", "undefined"}
        /\ phase = "run" => tvl = Pair(now)
    BY DEF Invariant
  <1>1. CASE Handler
    <2>1. /\ phase = "handlers" /\ now' = now /\ tvl' = tvl /\ phase' = phase
          /\ \E s \in Uses(State) : Becomes(s)
      BY <1>1 DEF Handler
    <2>2. Good(State)'
      BY <1>0, <2>1, UsesCorrect, BecomesCorrect
    <2> QED
      BY <1>0, <2>1, <2>2 DEF Invariant
  <1>2. CASE HandlersEnd
    <2>1. /\ tvl' = Pair(now) /\ phase' = "run" /\ now' = now
          /\ UNCHANGED <<timers, heap, live, ordered>>
      BY <1>2 DEF HandlersEnd
    <2>2. Good(State)'
      BY <1>0, <2>1, GoodUnchanged
    <2>3. tvl' \in Pairs
      BY <1>0, <2>1, PairIsReading DEF Reading
    <2>4. tvl' = Pair(now')
      BY <2>1
    <2> QED
      BY <1>0, <2>1, <2>2, <2>3, <2>4 DEF Invariant
  <1>3. CASE Poll
    <2>1. /\ phase = "poll" /\ phase' = "handlers" /\ tvl' = tvl
          /\ UNCHANGED <<timers, heap, live, ordered>>
          /\ now' \in IF heap = <<>> THEN {now, now + 1}
                      ELSE now .. now + Timeout(timers[heap[1]].when) * UsPerMs
      BY <1>3 DEF Poll
    <2>2. Good(State)'
      BY <1>0, <2>1, GoodUnchanged
    <2>3. now' \in Nat
      <3>1. now' \in {now, now + 1}
            \/ now' \in now .. now + Timeout(timers[heap[1]].when) * UsPerMs
        BY <2>1
      <3> QED
        BY <1>0, <3>1
    <2> QED
      BY <1>0, <2>1, <2>2, <2>3 DEF Invariant
  <1>4. CASE RunHead
    BY <1>4, RunHeadInvariant
  <1>5. CASE RunEnd
    <2>1. /\ phase' = "poll" /\ tvl' = Pair(0) /\ now' = now
          /\ UNCHANGED <<timers, heap, live, ordered>>
      BY <1>5 DEF RunEnd
    <2>2. Good(State)'
      BY <1>0, <2>1, GoodUnchanged
    <2>3. tvl' \in Pairs
      BY <2>1, PairIsReading DEF Reading
    <2> QED
      BY <1>0, <2>1, <2>2, <2>3 DEF Invariant
  <1>6. CASE UNCHANGED vars
    <2>1. /\ phase' = phase /\ tvl' = tvl /\ now' = now
          /\ UNCHANGED <<timers, heap, live, ordered>>
      BY <1>6 DEF vars
    <2>2. Good(State)'
      BY <1>0, <2>1, GoodUnchanged
    <2> QED
      BY <1>0, <2>1, <2>2 DEF Invariant
  <1> QED
    BY <1>1, <1>2, <1>3, <1>4, <1>5, <1>6 DEF Next

THEOREM InvariantHolds == Spec => []Invariant
  <1>1. Init => Invariant
    BY InitInvariant
  <1>2. Invariant /\ [Next]_vars => Invariant'
    BY NextInvariant
  <1> QED
    BY <1>1, <1>2, PTL DEF Spec

-------------------------------------------------------------------------------
(* The properties. *)

(* The heap never holds more than MAX_NODE_NUM timers, and only timers     *)
(* that were created.                                                      *)
THEOREM TypeCorrect == Spec => []TypeOK
  <1>1. Invariant => TypeOK
    <2> SUFFICES ASSUME Invariant
                 PROVE  TypeOK
      OBVIOUS
    <2>1. /\ ToSet(State.heap) \subseteq DOMAIN State.timers
          /\ State.live \subseteq DOMAIN State.timers
          /\ Len(State.heap) <= MaxNodes
      BY TypedParts DEF Invariant, Good, Typed
    <2> QED
      BY <2>1, StateParts DEF Invariant, TypeOK
  <1> QED
    BY <1>1, InvariantHolds, PTL

(* No timer is lost and none is in the heap twice, whatever the callbacks  *)
(* of RunNowReadyTimeEvent create and delete, until a deletion leaves the  *)
(* heap out of order.                                                      *)
THEOREM NoTimerIsLost == Spec => []NoTimerLost
  <1>1. Invariant => NoTimerLost
    <2> SUFFICES ASSUME Invariant, ordered
                 PROVE  ToSet(heap) = live /\ Len(heap) = Cardinality(live)
      BY DEF NoTimerLost
    <2>1. Distinct(heap) /\ ToSet(heap) = live
      BY StateParts DEF Invariant, Good, Sound
    <2>2. heap \in Heaps
      BY StateParts, TypedParts DEF Invariant, Good
    <2> QED
      BY <2>1, <2>2, ElementsCounted
  <1> QED
    BY <1>1, InvariantHolds, PTL

(* Until then the timer at the head of the heap, which the loop sleeps for *)
(* and runs next, is one that is due first.                                *)
THEOREM HeadIsDueFirst == Spec => []DueOrder
  <1>1. Invariant => DueOrder
    <2> SUFFICES ASSUME Invariant, ordered, heap # <<>>, NEW id \in live
                 PROVE  Ms(timers[heap[1]].when) <= Ms(timers[id].when)
      BY DEF DueOrder
    <2>1. /\ timers \in Seq(Timer) /\ heap \in Heaps /\ heap \in Over(DOMAIN timers)
          /\ ToSet(heap) = live /\ IsMinHeap(heap, Keys(timers))
      BY StateParts, TypedParts DEF Invariant, Good, Sound
    <2>2. PICK j \in 1 .. Len(heap) : heap[j] = id
      BY <2>1 DEF ToSet, Heaps
    <2>3. 1 \in 1 .. Len(heap)
      BY <2>1, <2>2 DEF Heaps
    <2>4. heap[1] \in DOMAIN timers /\ id \in DOMAIN timers
      BY <2>1, <2>2, <2>3, Elements
    <2>5. Keys(timers)[heap[1]] <= Keys(timers)[heap[j]]
      BY <2>1, KeysType, MinRoot
    <2>6. /\ Keys(timers)[heap[1]] = Ms(timers[heap[1]].when)
          /\ Keys(timers)[id] = Ms(timers[id].when)
      BY <2>1, <2>4, KeysType
    <2> QED
      BY <2>2, <2>5, <2>6
  <1> QED
    BY <1>1, InvariantHolds, PTL

(* How far the sleep of a timer goes. *)
LEMMA TimeoutBounded ==
    ASSUME now \in Nat, NEW when \in Pairs
    PROVE  /\ Timeout(when) * UsPerMs \in Nat
           /\ now + Timeout(when) * UsPerMs
                  < (IF Us(when) > now THEN Us(when) ELSE now) + 2 * Sec
  <1> DEFINE ns == Pair(now).sec
             nu == Pair(now).usec
             ws == when.sec
             wu == when.usec
             a == Positive(ws - ns)
             b == Positive(wu - nu)
             c == b \div UsPerMs
  <1>1. /\ ns \in Nat /\ nu \in Nat /\ nu < Sec /\ ns * Sec + nu = now
        /\ Sec \in Nat /\ Sec > 0
    <2>1. Reading(Pair(now)) /\ Us(Pair(now)) = now
      BY PairIsReading
    <2> QED
      BY <2>1, SecIsPositive DEF Reading, Pairs, Us
  <1>2. ws \in Nat /\ wu \in Nat /\ wu < 2 * Sec
    BY SecIsPositive DEF Pairs
  <1>3. Timeout(when) = a * MsPerSec + c /\ Us(when) = ws * Sec + wu
    BY DEF Timeout, Us
  <1> HIDE DEF ns, nu, ws, wu
  <1>4. a \in Nat /\ b \in Nat
    BY <1>1, <1>2 DEF Positive
  <1>5. /\ ws >= ns => a = ws - ns
        /\ ws < ns => a = 0
        /\ wu >= nu => b = wu - nu
        /\ wu < nu => b = 0
    BY <1>1, <1>2 DEF Positive
  <1> HIDE DEF a, b
  <1>6. c \in Nat /\ c * UsPerMs <= b
    BY <1>4, TimeAssumption, DivBelow
  <1> HIDE DEF c
  <1>7. MsPerSec \in Nat /\ UsPerMs \in Nat /\ Sec = MsPerSec * UsPerMs
    BY TimeAssumption DEF Sec
  <1>8. (a * MsPerSec + c) * UsPerMs = a * Sec + c * UsPerMs
    BY <1>4, <1>6, <1>7
  <1> DEFINE x == a * Sec
             y == c * UsPerMs
             n == ns * Sec
             w == ws * Sec
  <1>9. /\ x \in Nat /\ y \in Nat /\ n \in Nat /\ w \in Nat
        /\ ws >= ns => x = w - n
        /\ ws < ns => x = 0
    <2>1. /\ a * Sec \in Nat /\ c * UsPerMs \in Nat /\ ns * Sec \in Nat /\ ws * Sec \in Nat
      BY <1>1, <1>2, <1>4, <1>6, <1>7
    <2>2. ws >= ns => a * Sec = ws * Sec - ns * Sec
      BY <1>1, <1>2, <1>5
    <2>3. ws < ns => a * Sec = 0
      BY <1>1, <1>5
    <2> QED
      BY <2>1, <2>2, <2>3
  <1>10. /\ Timeout(when) * UsPerMs = x + y
         /\ y <= b
         /\ now = n + nu
         /\ Us(when) = w + wu
    BY <1>1, <1>3, <1>6, <1>8
  <1> HIDE DEF x, y, n, w
  <1>11. now + (x + y) < (IF w + wu > now THEN w + wu ELSE now) + 2 * Sec
    <2>1. CASE ws >= ns /\ wu >= nu
      BY <1>1, <1>2, <1>4, <1>5, <1>9, <1>10, <2>1
    <2>2. CASE ws >= ns /\ wu < nu
      BY <1>1, <1>2, <1>4, <1>5, <1>9, <1>10, <2>2
    <2>3. CASE ws < ns /\ wu >= nu
      BY <1>1, <1>2, <1>4, <1>5, <1>9, <1>10, <2>3
    <2>4. CASE ws < ns /\ wu < nu
      BY <1>1, <1>2, <1>4, <1>5, <1>9, <1>10, <2>4
    <2> QED
      BY <1>1, <1>2, <2>1, <2>2, <2>3, <2>4
  <1> QED
    BY <1>9, <1>10, <1>11

(* The loop never sleeps past a deadline by two seconds or more. *)
THEOREM SleepIsBounded == Spec => SleepBounded
  <1> DEFINE Bounded ==
                 now' > now /\ heap # <<>> =>
                     LET due == Us(timers[heap[1]].when)
                     IN  now' < (IF due > now THEN due ELSE now) + 2 * Sec
  <1>1. ASSUME Invariant, [Next]_vars
        PROVE  [Bounded]_vars
    <2> SUFFICES ASSUME now' > now, heap # <<>>
                 PROVE  LET due == Us(timers[heap[1]].when)
                        IN  now' < (IF due > now THEN due ELSE now) + 2 * Sec
      OBVIOUS
    <2>1. now \in Nat
      BY <1>1 DEF Invariant
    <2>2. Poll
      <3>1. Handler => now' = now
        BY DEF Handler
      <3>2. HandlersEnd => now' = now
        BY DEF HandlersEnd
      <3>3. RunHead => now' = now
        BY DEF RunHead
      <3>4. RunEnd => now' = now
        BY DEF RunEnd
      <3>5. UNCHANGED vars => now' = now
        BY DEF vars
      <3>6. now' # now
        BY <2>1
      <3> QED
        BY <1>1, <3>1, <3>2, <3>3, <3>4, <3>5, <3>6 DEF Next
    <2> DEFINE when == timers[heap[1]].when
    <2>3. when \in Pairs
      <3>1. timers \in Seq(Timer) /\ heap \in Heaps /\ heap \in Over(DOMAIN timers)
        BY <1>1, StateParts, TypedParts DEF Invariant, Good
      <3>2. 1 \in 1 .. Len(heap)
        BY <3>1 DEF Heaps
      <3>3. heap[1] \in DOMAIN timers
        BY <3>1, <3>2, Elements
      <3>4. timers[heap[1]] \in Timer
        BY <3>1, <3>3, ElementOfSeq
      <3> QED
        BY <3>4 DEF Timer
    <2>4. now' \in now .. now + Timeout(when) * UsPerMs
      BY <2>2 DEF Poll
    <2> HIDE DEF when
    <2>5. /\ Timeout(when) * UsPerMs \in Nat
          /\ now + Timeout(when) * UsPerMs
                 < (IF Us(when) > now THEN Us(when) ELSE now) + 2 * Sec
      BY <2>1, <2>3, TimeoutBounded
    <2>6. Us(when) \in Int /\ Sec \in Nat
      BY <2>3, SecIsPositive DEF Us, Pairs
    <2>7. now' < (IF Us(when) > now THEN Us(when) ELSE now) + 2 * Sec
      <3> DEFINE u == Us(when)
                 d == Timeout(when) * UsPerMs
      <3>1. /\ u \in Int /\ d \in Nat /\ now' \in now .. now + d
            /\ now + d < (IF u > now THEN u ELSE now) + 2 * Sec
        BY <2>4, <2>5, <2>6
      <3> HIDE DEF u, d
      <3>2. now' < (IF u > now THEN u ELSE now) + 2 * Sec
        BY <2>1, <2>6, <3>1
      <3> QED
        BY <3>2 DEF u
    <2> QED
      BY <2>7 DEF when
  <1>2. Invariant /\ [Next]_vars => [Bounded]_vars
    BY <1>1
  <1> QED
    BY <1>2, InvariantHolds, PTL DEF Spec, SleepBounded
=============================================================================
