------------------------------ MODULE Recursion ------------------------------
(***************************************************************************)
(* What the proofs of several components need: least and greatest members  *)
(* of sets of numbers, which stand in for induction, and functions that    *)
(* are defined by tail recursion.                                          *)
(***************************************************************************)
EXTENDS Integers, WellFoundedInduction, TLAPS

-------------------------------------------------------------------------------
(* Numbers. *)

(* A set of naturals that is not empty has a least member, and a greatest  *)
(* one when it is bounded.                                                 *)
LEMMA LeastNumber ==
    ASSUME NEW S \in SUBSET Nat, S # {}
    PROVE  \E n \in S : \A m \in S : n <= m
  <1> DEFINE Less == {p \in Nat \X Nat : p[1] < p[2]}
  <1>1. IsWellFoundedOn(Less, Nat)
    BY NatLessThanWellFounded DEF OpToRel
  <1>2. PICK n \in S : \A m \in S : ~ <<m, n>> \in Less
    BY <1>1, WFMin
  <1>3. ASSUME NEW m \in S, ~ n <= m
        PROVE  FALSE
    <2>1. m \in Nat /\ n \in Nat
      OBVIOUS
    <2>2. <<m, n>> \in Less
      BY <2>1, <1>3
    <2> QED
      BY <1>2, <2>2
  <1> QED
    BY <1>2, <1>3

LEMMA GreatestNumber ==
    ASSUME NEW S \in SUBSET Nat, S # {}, NEW n \in Nat, \A x \in S : x <= n
    PROVE  \E x \in S : \A y \in S : x >= y
  <1> DEFINE T == {n - x : x \in S}
  <1>1. T \in SUBSET Nat /\ T # {}
    <2>1. \A x \in S : x \in Nat /\ n - x \in Nat
      OBVIOUS
    <2>2. PICK x \in S : TRUE
      OBVIOUS
    <2>3. n - x \in T
      OBVIOUS
    <2> QED
      BY <2>1, <2>3
  <1>2. PICK t \in T : \A u \in T : t <= u
    BY <1>1, LeastNumber
  <1>3. PICK x \in S : t = n - x
    OBVIOUS
  <1>4. ASSUME NEW y \in S
        PROVE  x >= y
    <2>1. n - y \in T
      OBVIOUS
    <2> QED
      BY <1>2, <1>3, <2>1
  <1> QED
    BY <1>4

-------------------------------------------------------------------------------
(* Tail recursion. *)

(* The sets that contain p and, with a point that is no stop, the next. *)
Orbits(D, Stop, next, p) ==
    {O \in SUBSET D : p \in O /\ \A q \in O \ Stop : next[q] \in O}

Orbit(D, Stop, next, p) ==
    {q \in D : \A O \in Orbits(D, Stop, next, p) : q \in O}

(* The orbit of a stop has one stop, and that of any other point has the   *)
(* stops of the next one's.                                                *)
LEMMA OrbitStops ==
    ASSUME NEW D, NEW Stop \in SUBSET D, NEW next, \A q \in D \ Stop : next[q] \in D,
           NEW p \in D
    PROVE  /\ p \in Stop => Orbit(D, Stop, next, p) \cap Stop = {p}
           /\ p \notin Stop =>
                  Orbit(D, Stop, next, p) \cap Stop
                      = Orbit(D, Stop, next, next[p]) \cap Stop
  <1>1. ASSUME p \in Stop
        PROVE  Orbit(D, Stop, next, p) \cap Stop = {p}
    <2>1. {p} \in Orbits(D, Stop, next, p)
      BY <1>1 DEF Orbits
    <2>2. p \in Orbit(D, Stop, next, p)
      BY DEF Orbit, Orbits
    <2> QED
      BY <1>1, <2>1, <2>2 DEF Orbit
  <1>2. ASSUME p \notin Stop
        PROVE  Orbit(D, Stop, next, p) \cap Stop
                   = Orbit(D, Stop, next, next[p]) \cap Stop
    <2>1. next[p] \in D
      BY <1>2
    <2>2. \A O \in Orbits(D, Stop, next, p) : O \in Orbits(D, Stop, next, next[p])
      BY <1>2 DEF Orbits
    <2>3. Orbit(D, Stop, next, next[p]) \subseteq Orbit(D, Stop, next, p)
      BY <2>2 DEF Orbit
    <2>4. \A O \in Orbits(D, Stop, next, next[p]) :
              O \cup {p} \in Orbits(D, Stop, next, p)
      BY DEF Orbits
    <2>5. \A q \in Orbit(D, Stop, next, p) :
              q # p => q \in Orbit(D, Stop, next, next[p])
      <3> SUFFICES ASSUME NEW q \in Orbit(D, Stop, next, p), q # p,
                          NEW O \in Orbits(D, Stop, next, next[p])
                   PROVE  q \in O
        BY DEF Orbit
      <3>1. q \in O \cup {p}
        BY <2>4 DEF Orbit
      <3> QED
        BY <3>1
    <2> QED
      BY <1>2, <2>3, <2>5
  <1> QED
    BY <1>1, <1>2

TailRecursive(f, D, Stop, next, val) ==
    f = [p \in D |-> IF p \in Stop THEN val[p] ELSE f[next[p]]]

(* A function that is defined by tail recursion exists, whether or not the *)
(* recursion ends.                                                         *)
LEMMA TailRecursion ==
    ASSUME NEW D, NEW Stop \in SUBSET D, NEW next, NEW val,
           \A q \in D \ Stop : next[q] \in D
    PROVE  \E f : TailRecursive(f, D, Stop, next, val)
  <1> DEFINE Reached(p) == CHOOSE q : q \in Orbit(D, Stop, next, p) \cap Stop
             f == [p \in D |-> val[Reached(p)]]
  <1>1. ASSUME NEW p \in Stop
        PROVE  Reached(p) = p
    <2>1. Orbit(D, Stop, next, p) \cap Stop = {p}
      BY OrbitStops
    <2> QED
      BY <2>1
  <1>2. ASSUME NEW p \in D \ Stop
        PROVE  Reached(p) = Reached(next[p])
    <2>1. Orbit(D, Stop, next, p) \cap Stop
              = Orbit(D, Stop, next, next[p]) \cap Stop
      BY OrbitStops
    <2> QED
      BY <2>1
  <1> HIDE DEF Reached
  <1>3. \A p \in D : f[p] = IF p \in Stop THEN val[p] ELSE f[next[p]]
    BY <1>1, <1>2
  <1>4. f = [p \in D |-> IF p \in Stop THEN val[p] ELSE f[next[p]]]
    BY <1>3
  <1> HIDE DEF f
  <1>5. TailRecursive(f, D, Stop, next, val)
    BY <1>4 DEF TailRecursive
  <1> QED
    BY <1>5

(* From the points R the recursion ends, m decreasing, with a value in V.  *)
Descends(D, Stop, next, val, R, V, m) ==
    /\ R \subseteq D
    /\ m \in [R -> Nat]
    /\ \A p \in R \cap Stop : val[p] \in V
    /\ \A p \in R \ Stop : next[p] \in R /\ m[next[p]] < m[p]

LEMMA TailInvariant ==
    ASSUME NEW D, NEW Stop \in SUBSET D, NEW next, NEW val, NEW f,
           TailRecursive(f, D, Stop, next, val),
           NEW R, NEW V, NEW m, Descends(D, Stop, next, val, R, V, m)
    PROVE  \A p \in R : f[p] \in V
  <1> DEFINE Bad == {p \in R : f[p] \notin V}
             Measures == {m[p] : p \in Bad}
             Less == {p \in Nat \X Nat : p[1] < p[2]}
  <1> SUFFICES ASSUME Bad # {}
               PROVE  FALSE
    OBVIOUS
  <1>0. /\ \A p \in D : f[p] = IF p \in Stop THEN val[p] ELSE f[next[p]]
        /\ R \subseteq D
        /\ \A p \in R : m[p] \in Nat
        /\ \A p \in R \cap Stop : val[p] \in V
        /\ \A p \in R \ Stop : next[p] \in R /\ m[next[p]] < m[p]
    BY DEF TailRecursive, Descends
  <1>1. IsWellFoundedOn(Less, Nat)
    BY NatLessThanWellFounded DEF OpToRel
  <1>2. Measures \subseteq Nat /\ Measures # {}
    <2>1. \A p \in R : m[p] \in Nat
      BY <1>0
    <2>2. Bad \subseteq R
      OBVIOUS
    <2> HIDE DEF Bad
    <2> QED
      BY <2>1, <2>2
  <1>3. PICK x \in Measures : \A y \in Measures : ~ <<y, x>> \in Less
    BY <1>1, <1>2, WFMin
  <1>4. PICK p \in Bad : x = m[p]
    OBVIOUS
  <1>5. p \notin Stop
    BY <1>0
  <1>6. next[p] \in Bad /\ m[next[p]] < m[p]
    BY <1>0, <1>5
  <1>7. <<m[next[p]], m[p]>> \in Less
    BY <1>2, <1>4, <1>6
  <1> QED
    BY <1>3, <1>4, <1>6, <1>7
===============================================================================
