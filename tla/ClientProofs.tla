---------------------------- MODULE ClientProofs ----------------------------
(***************************************************************************)
(* Proofs about Client: the types of its state, and that the replies are   *)
(* sent as they were made.                                                 *)
(***************************************************************************)
EXTENDS Client, Recursion, SequenceTheorems

-------------------------------------------------------------------------------
(* Folds.  SequencesExt folds a sequence by a function over the sets of    *)
(* its positions, the greatest position last.                              *)

LEMMA MaxOfLast ==
    ASSUME NEW n \in Nat, NEW s \in SUBSET (1 .. n), n \in s
    PROVE  Max(s) = n
  <1>1. \A x \in s : x \in Int /\ x <= n
    OBVIOUS
  <1>2. \A x \in s : (\A y \in s : x >= y) => x = n
    BY <1>1
  <1>3. \A y \in s : n >= y
    BY <1>1
  <1> QED
    BY <1>2, <1>3 DEF Max

Folding(g, n, base, step) ==
    g = [s \in SUBSET (1 .. n) |->
            IF s = {} THEN base ELSE step[<<Max(s), g[s \ {Max(s)}]>>]]

LEMMA FoldExists ==
    ASSUME NEW V, NEW base \in V, NEW N \in Nat, NEW step \in [(1 .. N) \X V -> V]
    PROVE  \E g \in [SUBSET (1 .. N) -> V] : Folding(g, N, base, step)
  <1> DEFINE Good(n) == \E g \in [SUBSET (1 .. n) -> V] : Folding(g, n, base, step)
             Bad == {n \in 0 .. N : ~Good(n)}
  <1> SUFFICES ASSUME Bad # {}
               PROVE  FALSE
    <2>1. N \in 0 .. N
      OBVIOUS
    <2>2. Good(N)
      BY <2>1
    <2> QED
      BY <2>2
  <1>0. Bad \in SUBSET Nat
    OBVIOUS
  <1>1. PICK n \in Bad : \A m \in Bad : n <= m
    <2> HIDE DEF Bad
    <2> QED
      BY <1>0, LeastNumber
  <1>2. n \in Nat /\ n <= N /\ ~Good(n)
    <2> HIDE DEF Good
    <2> QED
      OBVIOUS
  <1>3. CASE n = 0
    <2> DEFINE g == [s \in SUBSET (1 .. 0) |-> base]
    <2>1. \A s \in SUBSET (1 .. 0) : s = {}
      OBVIOUS
    <2>2. g \in [SUBSET (1 .. 0) -> V] /\ Folding(g, 0, base, step)
      BY <2>1 DEF Folding
    <2>3. Good(0)
      BY <2>2
    <2> QED
      BY <2>3, <1>3
  <1>4. CASE n # 0
    <2>1. n - 1 \in 0 .. N
      BY <1>2, <1>4
    <2>0. Good(n - 1)
      <3>1. n - 1 \notin Bad
        <4> HIDE DEF Bad
        <4> QED
          BY <1>1, <1>2
      <3> QED
        BY <2>1, <3>1
    <2>2. PICK g \in [SUBSET (1 .. n - 1) -> V] : Folding(g, n - 1, base, step)
      BY <2>0
    <2> DEFINE h == [s \in SUBSET (1 .. n) |->
                        IF n \in s THEN step[<<n, g[s \ {n}]>>] ELSE g[s]]
    <2>3. ASSUME NEW s \in SUBSET (1 .. n)
          PROVE  /\ s \ {n} \in SUBSET (1 .. n - 1)
                 /\ h[s \ {n}] = g[s \ {n}]
                 /\ g[s \ {n}] \in V
      BY <1>2, <1>4
    <2>4. ASSUME NEW s \in SUBSET (1 .. n), n \in s
          PROVE  /\ h[s] \in V
                 /\ h[s] = IF s = {} THEN base ELSE step[<<Max(s), h[s \ {Max(s)}]>>]
      <3>1. Max(s) = n
        BY <2>4, <1>2, MaxOfLast
      <3>2. n \in 1 .. N
        BY <1>2, <1>4
      <3>3. step[<<n, g[s \ {n}]>>] \in V
        BY <2>3, <3>2
      <3>4. h[s] = step[<<n, g[s \ {n}]>>]
        BY <2>4
      <3> HIDE DEF h
      <3> QED
        BY <2>3, <2>4, <3>1, <3>3, <3>4
    <2>5. ASSUME NEW s \in SUBSET (1 .. n), n \notin s
          PROVE  /\ h[s] \in V
                 /\ h[s] = IF s = {} THEN base ELSE step[<<Max(s), h[s \ {Max(s)}]>>]
      <3>0. n \in Nat /\ 1 .. n = (1 .. n - 1) \cup {n}
        BY <1>2, <1>4
      <3>1. s \in SUBSET (1 .. n - 1) /\ s \ {Max(s)} \in SUBSET (1 .. n - 1)
        <4> HIDE DEF h
        <4> QED
          BY <2>5, <3>0
      <3>2. g[s] = IF s = {} THEN base ELSE step[<<Max(s), g[s \ {Max(s)}]>>]
        BY <2>2, <3>1 DEF Folding
      <3>3. h[s] = g[s] /\ h[s \ {Max(s)}] = g[s \ {Max(s)}]
        BY <2>5
      <3>4. g[s] \in V
        BY <3>1
      <3> HIDE DEF h
      <3> QED
        BY <3>2, <3>3, <3>4
    <2>6. h \in [SUBSET (1 .. n) -> V]
      <3>1. \A s \in SUBSET (1 .. n) : h[s] \in V
        BY <2>4, <2>5
      <3> QED
        BY <3>1
    <2>7. Folding(h, n, base, step)
      <3>1. \A s \in SUBSET (1 .. n) :
                h[s] = IF s = {} THEN base ELSE step[<<Max(s), h[s \ {Max(s)}]>>]
        BY <2>4, <2>5
      <3> HIDE DEF h
      <3> QED
        BY <2>6, <3>1 DEF Folding
    <2> HIDE DEF h
    <2>8. Good(n)
      BY <2>6, <2>7
    <2> QED
      BY <2>8
  <1> QED
    BY <1>3, <1>4

(* What is kept from a set to the set with a greater position is kept.     *)
LEMMA FoldClosed ==
    ASSUME NEW V, NEW N \in Nat, NEW g, g[{}] \in V,
           \A s \in SUBSET (1 .. N) : s # {} /\ g[s \ {Max(s)}] \in V => g[s] \in V
    PROVE  \A s \in SUBSET (1 .. N) : g[s] \in V
  <1> DEFINE Bad == {n \in 0 .. N : \E s \in SUBSET (1 .. n) : g[s] \notin V}
  <1> SUFFICES ASSUME Bad # {}
               PROVE  FALSE
    <2>1. N \in 0 .. N
      OBVIOUS
    <2> QED
      BY <2>1
  <1>0. Bad \in SUBSET Nat
    OBVIOUS
  <1>1. PICK n \in Bad : \A m \in Bad : n <= m
    <2> HIDE DEF Bad
    <2> QED
      BY <1>0, LeastNumber
  <1>2. PICK s \in SUBSET (1 .. n) : g[s] \notin V
    OBVIOUS
  <1>3. n \in Nat /\ n <= N
    OBVIOUS
  <1>10. s \in SUBSET (1 .. N) /\ s # {}
    <2>1. 1 .. n \subseteq 1 .. N
      BY <1>3
    <2> QED
      BY <1>2, <2>1
  <1>4. n # 0
    <2> SUFFICES ASSUME n = 0
                 PROVE  FALSE
      OBVIOUS
    <2>1. \A i \in 1 .. n : FALSE
      BY <1>3
    <2> HIDE DEF Bad
    <2> QED
      BY <1>10, <2>1
  <1>11. n - 1 \in 0 .. N
    BY <1>3, <1>4
  <1>5. \A t \in SUBSET (1 .. n - 1) : g[t] \in V
    <2>1. n - 1 \notin Bad
      <3> HIDE DEF Bad
      <3> QED
        BY <1>1, <1>3
    <2> QED
      BY <2>1, <1>11
  <1>12. 1 .. n = (1 .. n - 1) \cup {n}
    BY <1>3, <1>4
  <1>6. n \in s
    <2> SUFFICES ASSUME n \notin s
                 PROVE  FALSE
      OBVIOUS
    <2>1. s \in SUBSET (1 .. n - 1)
      BY <1>12
    <2> QED
      BY <1>2, <1>5, <2>1
  <1>7. s \ {n} \in SUBSET (1 .. n - 1)
    BY <1>12
  <1>8. g[s \ {n}] \in V
    BY <1>5, <1>7
  <1>9. Max(s) = n
    BY <1>3, <1>6, MaxOfLast
  <1> QED
    BY <1>2, <1>10, <1>8, <1>9

-------------------------------------------------------------------------------
(* The replies of a command: at most three additions.                      *)

(* Whatever can be a byte of the stream. *)
Wording == {"+OK", "-ERR", "message", "exists", "$", "\r\n"}
Asked   == UNION {ToSet(r.bytes) : r \in Requests}
Stored  == UNION {ToSet(v) : v \in Values}
Tokens  == Asked \cup Stored \cup Wording

LEMMA SequencesOfTokens ==
    /\ \A r \in Requests : r.bytes \in Seq(Tokens) /\ r.bytes # <<>>
    /\ \A v \in Values : v \in Seq(Tokens)
  <1>1. ASSUME NEW r \in Requests
        PROVE  r.bytes \in Seq(Tokens) /\ r.bytes # <<>>
    <2>1. ToSet(r.bytes) \subseteq Tokens
      BY DEF Tokens, Asked
    <2>2. r.bytes \in Seq(ToSet(r.bytes)) /\ r.bytes # <<>>
      BY ClientAssumption
    <2> QED
      BY <2>1, <2>2, SeqMonotonic
  <1>2. ASSUME NEW v \in Values
        PROVE  v \in Seq(Tokens)
    <2>1. ToSet(v) \subseteq Tokens
      BY DEF Tokens, Stored
    <2>2. v \in Seq(ToSet(v))
      BY ClientAssumption
    <2> QED
      BY <2>1, <2>2, SeqMonotonic
  <1> QED
    BY <1>1, <1>2

Additions == [kind : {"string", "object", "CRobj", "raw"}, bytes : Seq(Tokens)]

Outs == [buf : Seq(Tokens), list : Seq(Additions), sent : Nat, armed : BOOLEAN,
         dangling : BOOLEAN, CRobj : {"live", "freed"}, undefined : BOOLEAN]

LEMMA AddedFields ==
    ASSUME NEW o \in Outs, NEW a \in Additions
    PROVE  /\ Added(o, a) \in Outs
           /\ Added(o, a).sent = o.sent
           /\ Added(o, a).buf = IF Fits(o, a) THEN o.buf \o a.bytes ELSE o.buf
           /\ Added(o, a).list = IF Fits(o, a) \/ a.kind = "raw" THEN o.list
                                 ELSE Append(o.list, a)
  <1> DEFINE dead == o.undefined \/ (a.kind = "CRobj" /\ o.CRobj = "freed")
             used == [o EXCEPT !.armed = TRUE, !.undefined = dead]
             lost == dead \/ o.dangling
  <1>1. Added(o, a) = IF Fits(o, a) THEN [used EXCEPT !.buf = o.buf \o a.bytes]
                      ELSE IF a.kind = "raw" THEN used
                      ELSE [used EXCEPT !.list = Append(o.list, a), !.undefined = lost]
    BY DEF Added, Armed, Outs
  <1>2. /\ o.buf \in Seq(Tokens) /\ o.list \in Seq(Additions) /\ o.sent \in Nat
        /\ o.dangling \in BOOLEAN /\ o.CRobj \in {"live", "freed"}
        /\ a.bytes \in Seq(Tokens)
    BY DEF Outs, Additions
  <1>3. dead \in BOOLEAN /\ lost \in BOOLEAN
    BY DEF Outs
  <1> HIDE DEF dead, lost
  <1>4. used = [buf |-> o.buf, list |-> o.list, sent |-> o.sent, armed |-> TRUE,
                dangling |-> o.dangling, CRobj |-> o.CRobj, undefined |-> dead]
    <2>1. o = [buf |-> o.buf, list |-> o.list, sent |-> o.sent, armed |-> o.armed,
               dangling |-> o.dangling, CRobj |-> o.CRobj, undefined |-> o.undefined]
      BY DEF Outs
    <2>2. DOMAIN o = {"buf", "list", "sent", "armed", "dangling", "CRobj", "undefined"}
      BY <2>1
    <2>3. used = [f \in DOMAIN o |-> IF f = "undefined" THEN dead
                                     ELSE IF f = "armed" THEN TRUE ELSE o[f]]
      OBVIOUS
    <2> HIDE DEF used
    <2> QED
      BY <2>2, <2>3
  <1> HIDE DEF used
  <1>5. o.buf \o a.bytes \in Seq(Tokens) /\ Append(o.list, a) \in Seq(Additions)
    BY <1>2
  <1>6. CASE Fits(o, a)
    <2>1. Added(o, a) = [buf |-> o.buf \o a.bytes, list |-> o.list, sent |-> o.sent,
                         armed |-> TRUE, dangling |-> o.dangling, CRobj |-> o.CRobj,
                         undefined |-> dead]
      BY <1>1, <1>4, <1>6
    <2> QED
      BY <1>2, <1>3, <1>5, <1>6, <2>1 DEF Outs
  <1>7. CASE ~Fits(o, a) /\ a.kind = "raw"
    <2>1. Added(o, a) = used
      BY <1>1, <1>7
    <2> QED
      BY <1>2, <1>3, <1>4, <1>7, <2>1 DEF Outs
  <1>8. CASE ~Fits(o, a) /\ a.kind # "raw"
    <2>1. Added(o, a) = [buf |-> o.buf, list |-> Append(o.list, a), sent |-> o.sent,
                         armed |-> TRUE, dangling |-> o.dangling, CRobj |-> o.CRobj,
                         undefined |-> lost]
      BY <1>1, <1>4, <1>8
    <2> QED
      BY <1>2, <1>3, <1>5, <1>8, <2>1 DEF Outs
  <1> QED
    BY <1>6, <1>7, <1>8

(* The fold of the additions, step by step. *)
LEMMA FoldUnrolled ==
    ASSUME NEW o \in Outs, NEW adds \in Seq(Additions), Len(adds) <= 3
    PROVE  FoldLeft(Added, o, adds) =
               CASE Len(adds) = 0 -> o
                 [] Len(adds) = 1 -> Added(o, adds[1])
                 [] Len(adds) = 2 -> Added(Added(o, adds[1]), adds[2])
                 [] Len(adds) = 3 -> Added(Added(Added(o, adds[1]), adds[2]), adds[3])
  <1> DEFINE N == Len(adds)
             Body(g) == [s \in SUBSET (1 .. N) |->
                            IF s = {} THEN o ELSE Added(g[s \ {Max(s)}], adds[Max(s)])]
             iter == CHOOSE g : g = Body(g)
             step == [p \in (1 .. N) \X Outs |-> Added(p[2], adds[p[1]])]
  <1>0. N \in 0 .. 3 /\ DOMAIN adds = 1 .. N /\ \A i \in 1 .. N : adds[i] \in Additions
    <2>1. /\ Len(adds) \in Nat /\ DOMAIN adds = 1 .. Len(adds)
          /\ \A i \in 1 .. Len(adds) : adds[i] \in Additions
      OBVIOUS
    <2> QED
      BY <2>1
  <1>1. FoldLeft(Added, o, adds) = iter[1 .. N]
    BY <1>0 DEF FoldLeft, MapThenFoldSet
  <1>2. step \in [(1 .. N) \X Outs -> Outs]
    BY <1>0, AddedFields
  <1>3. PICK g \in [SUBSET (1 .. N) -> Outs] : Folding(g, N, o, step)
    <2> HIDE DEF step
    <2>1. N \in Nat
      BY <1>0
    <2> HIDE DEF N
    <2> QED
      BY <1>2, <2>1, FoldExists
  <1>4. \A s \in SUBSET (1 .. N) : s # {} => Max(s) \in 1 .. N
    <2> SUFFICES ASSUME NEW s \in SUBSET (1 .. N), s # {}
                 PROVE  Max(s) \in 1 .. N
      OBVIOUS
    <2>2. \A x \in s : x \in {1, 2, 3}
      BY <1>0
    <2>1. \E x \in s : \A y \in s : x >= y
      <3>1. CASE 3 \in s
        BY <3>1, <2>2
      <3>2. CASE 3 \notin s /\ 2 \in s
        BY <3>2, <2>2
      <3>3. CASE 3 \notin s /\ 2 \notin s
        <4>1. \A x \in s : x = 1
          BY <3>3, <2>2
        <4>2. PICK x \in s : TRUE
          OBVIOUS
        <4>3. \A y \in s : x >= y
          BY <4>1
        <4> QED
          BY <4>3
      <3> QED
        BY <3>1, <3>2, <3>3
    <2> QED
      BY <2>1 DEF Max
  <1>5. g = Body(g)
    <2>1. \A s \in SUBSET (1 .. N) :
              g[s] = IF s = {} THEN o ELSE Added(g[s \ {Max(s)}], adds[Max(s)])
      <3> SUFFICES ASSUME NEW s \in SUBSET (1 .. N), s # {}
                   PROVE  g[s] = Added(g[s \ {Max(s)}], adds[Max(s)])
        BY <1>3 DEF Folding
      <3>1. Max(s) \in 1 .. N /\ g[s \ {Max(s)}] \in Outs
        BY <1>4
      <3>2. g[s] = step[<<Max(s), g[s \ {Max(s)}]>>]
        BY <1>3 DEF Folding
      <3> QED
        BY <3>1, <3>2
    <2> QED
      BY <2>1
  <1> HIDE DEF Body
  <1>6. iter = Body(iter)
    BY <1>5
  <1> HIDE DEF iter
  <1>7. \A s \in SUBSET (1 .. N) :
            iter[s] = IF s = {} THEN o ELSE Added(iter[s \ {Max(s)}], adds[Max(s)])
    BY <1>6 DEF Body
  <1>8. \A n \in 1 .. N :
            iter[1 .. n] = Added(iter[1 .. n - 1], adds[n])
    <2> SUFFICES ASSUME NEW n \in 1 .. N
                 PROVE  iter[1 .. n] = Added(iter[1 .. n - 1], adds[n])
      OBVIOUS
    <2>1. n \in Nat /\ n >= 1 /\ 1 .. n \in SUBSET (1 .. N)
      BY <1>0
    <2>2. n \in 1 .. n /\ (1 .. n) \ {n} = 1 .. n - 1
      BY <2>1
    <2>3. Max(1 .. n) = n
      BY <2>1, <2>2, MaxOfLast
    <2> QED
      BY <1>7, <2>1, <2>2, <2>3
  <1>9. iter[1 .. 0] = o
    <2>1. {} \in SUBSET (1 .. N) /\ 1 .. 0 = {}
      OBVIOUS
    <2>2. iter[{}] = o
      BY <1>7, <2>1
    <2> QED
      BY <2>1, <2>2
  <1> DEFINE first  == Added(o, adds[1])
             second == Added(first, adds[2])
             third  == Added(second, adds[3])
  <1>10. N >= 1 => iter[1 .. 1] = first
    <2> SUFFICES ASSUME N >= 1
                 PROVE  iter[1 .. 1] = first
      OBVIOUS
    <2>1. 1 \in 1 .. N /\ 1 - 1 = 0
      BY <1>0
    <2> QED
      BY <1>8, <1>9, <2>1
  <1>11. N >= 2 => iter[1 .. 2] = second
    <2> SUFFICES ASSUME N >= 2
                 PROVE  iter[1 .. 2] = second
      OBVIOUS
    <2>1. 2 \in 1 .. N /\ 2 - 1 = 1 /\ N >= 1
      BY <1>0
    <2> HIDE DEF first
    <2> QED
      BY <1>8, <1>10, <2>1
  <1>12. N >= 3 => iter[1 .. 3] = third
    <2> SUFFICES ASSUME N >= 3
                 PROVE  iter[1 .. 3] = third
      OBVIOUS
    <2>1. 3 \in 1 .. N /\ 3 - 1 = 2 /\ N >= 2
      BY <1>0
    <2> HIDE DEF second
    <2> QED
      BY <1>8, <1>11, <2>1
  <1> HIDE DEF iter
  <1>13. N = 0 => iter[1 .. N] = o
    BY <1>9
  <1>14. N = 1 => iter[1 .. N] = Added(o, adds[1])
    BY <1>10
  <1>15. N = 2 => iter[1 .. N] = Added(Added(o, adds[1]), adds[2])
    BY <1>11
  <1>16. N = 3 => iter[1 .. N] = Added(Added(Added(o, adds[1]), adds[2]), adds[3])
    BY <1>12
  <1> HIDE DEF N
  <1>17. N = 0 \/ N = 1 \/ N = 2 \/ N = 3
    BY <1>0
  <1>18. CASE N = 0
    BY <1>1, <1>13, <1>18 DEF N
  <1>19. CASE N = 1
    BY <1>1, <1>14, <1>19 DEF N
  <1>20. CASE N = 2
    BY <1>1, <1>15, <1>20 DEF N
  <1>21. CASE N = 3
    BY <1>1, <1>16, <1>21 DEF N
  <1> QED
    BY <1>17, <1>18, <1>19, <1>20, <1>21

-------------------------------------------------------------------------------
(* Concatenation of a sequence of sequences. *)

Flattening(f, ss) ==
    f = [i \in 1 .. Len(ss) |-> IF i = 1 THEN ss[i] ELSE f[i - 1] \o ss[i]]

LEMMA FlattenExists ==
    ASSUME NEW T, NEW ss \in Seq(Seq(T))
    PROVE  \E f \in [1 .. Len(ss) -> Seq(T)] : Flattening(f, ss)
  <1> DEFINE N == Len(ss)
             Part(f, n) == f = [i \in 1 .. n |-> IF i = 1 THEN ss[i] ELSE f[i - 1] \o ss[i]]
             Good(n) == \E f \in [1 .. n -> Seq(T)] : Part(f, n)
             Bad == {n \in 0 .. N : ~Good(n)}
  <1>0. N \in Nat /\ \A i \in 1 .. N : ss[i] \in Seq(T)
    OBVIOUS
  <1> SUFFICES ASSUME Bad # {}
               PROVE  FALSE
    <2>1. N \in 0 .. N
      BY <1>0
    <2>2. Good(N)
      BY <2>1
    <2> QED
      BY <2>2 DEF Flattening
  <1> HIDE DEF N
  <1>1. Bad \in SUBSET Nat
    <2> HIDE DEF Good
    <2> QED
      BY <1>0
  <1>2. PICK n \in Bad : \A m \in Bad : n <= m
    <2> HIDE DEF Bad
    <2> QED
      BY <1>1, LeastNumber
  <1>3. n \in Nat /\ n <= N /\ ~Good(n)
    <2> HIDE DEF Good
    <2> QED
      BY <1>0
  <1>4. CASE n = 0
    <2> DEFINE f == [i \in 1 .. 0 |-> <<>>]
    <2>1. f \in [1 .. 0 -> Seq(T)]
      OBVIOUS
    <2>2. Part(f, 0)
      OBVIOUS
    <2>3. Good(0)
      BY <2>1, <2>2
    <2> QED
      BY <2>3, <1>3, <1>4
  <1>5. CASE n # 0
    <2>1. n - 1 \in 0 .. N
      BY <1>0, <1>3, <1>5
    <2>2. Good(n - 1)
      <3>1. n - 1 \notin Bad
        <4> HIDE DEF Bad
        <4> QED
          BY <1>2, <1>3
      <3> QED
        BY <2>1, <3>1
    <2>3. PICK f \in [1 .. n - 1 -> Seq(T)] : Part(f, n - 1)
      BY <2>2
    <2> DEFINE g == [i \in 1 .. n |-> IF i = n THEN IF n = 1 THEN ss[n] ELSE f[n - 1] \o ss[n]
                                      ELSE f[i]]
    <2>4. ss[n] \in Seq(T)
      BY <1>0, <1>3, <1>5
    <2>5. n # 1 => f[n - 1] \in Seq(T)
      BY <1>3, <1>5
    <2>6. \A i \in 1 .. n : g[i] \in Seq(T)
      BY <2>4, <2>5
    <2>7. \A i \in 1 .. n - 1 : g[i] = f[i]
      <3>1. n \in Nat
        BY <1>3
      <3>2. \A i \in 1 .. n - 1 : i \in 1 .. n /\ i # n
        BY <3>1
      <3> QED
        BY <3>2
    <2>8. \A i \in 1 .. n - 1 : f[i] = IF i = 1 THEN ss[i] ELSE f[i - 1] \o ss[i]
      BY <2>3
    <2>9. g[n] = IF n = 1 THEN ss[n] ELSE f[n - 1] \o ss[n]
      BY <1>3, <1>5
    <2>10. \A i \in 1 .. n : g[i] = IF i = 1 THEN ss[i] ELSE g[i - 1] \o ss[i]
      <3> SUFFICES ASSUME NEW i \in 1 .. n
                   PROVE  g[i] = IF i = 1 THEN ss[i] ELSE g[i - 1] \o ss[i]
        OBVIOUS
      <3>1. i # 1 => g[i - 1] = f[i - 1]
        BY <2>7, <1>3
      <3> HIDE DEF g
      <3>2. CASE i = n
        BY <2>9, <3>1, <3>2
      <3>3. CASE i # n
        <4>1. i \in 1 .. n - 1
          BY <1>3, <3>3
        <4> QED
          BY <2>7, <2>8, <3>1, <4>1
      <3> QED
        BY <3>2, <3>3
    <2>11. DOMAIN g = 1 .. n /\ g = [i \in 1 .. n |-> g[i]]
      OBVIOUS
    <2> HIDE DEF g
    <2>12. g \in [1 .. n -> Seq(T)]
      BY <2>6, <2>11
    <2>13. Part(g, n)
      BY <2>10, <2>11
    <2> HIDE DEF Part
    <2>14. Good(n)
      BY <2>12, <2>13
    <2> QED
      BY <2>14, <1>3
  <1> QED
    BY <1>4, <1>5

(* FlattenSeq is the last value of a function that concatenates the        *)
(* sequences one by one.                                                   *)
Concatenates(f, T, ss) ==
    /\ FlattenSeq(ss) = f[Len(ss)]
    /\ \A i \in 1 .. Len(ss) :
           /\ f[i] \in Seq(T)
           /\ f[i] = IF i = 1 THEN ss[i] ELSE f[i - 1] \o ss[i]

LEMMA FlattenLast ==
    ASSUME NEW T, NEW ss \in Seq(Seq(T)), ss # <<>>
    PROVE  \E f : Concatenates(f, T, ss)
  <1> DEFINE Body(g) == [i \in 1 .. Len(ss) |-> IF i = 1 THEN ss[i] ELSE g[i - 1] \o ss[i]]
             f == CHOOSE g : g = Body(g)
             Bad == {n \in 1 .. Len(ss) : f[n] \notin Seq(T)}
  <1>0. /\ Len(ss) \in Nat /\ Len(ss) # 0
        /\ \A i \in 1 .. Len(ss) : ss[i] \in Seq(T)
    OBVIOUS
  <1>1. FlattenSeq(ss) = f[Len(ss)]
    BY <1>0 DEF FlattenSeq
  <1>2. \E g : g = Body(g)
    <2>1. PICK g : Flattening(g, ss)
      BY FlattenExists
    <2>2. g = Body(g)
      BY <2>1 DEF Flattening
    <2> QED
      BY <2>2
  <1> HIDE DEF Body
  <1>3. f = Body(f)
    BY <1>2
  <1> HIDE DEF f
  <1>4. \A i \in 1 .. Len(ss) : f[i] = IF i = 1 THEN ss[i] ELSE f[i - 1] \o ss[i]
    BY <1>3 DEF Body
  <1>5. \A i \in 1 .. Len(ss) : f[i] \in Seq(T)
    <2> SUFFICES ASSUME Bad # {}
                 PROVE  FALSE
      OBVIOUS
    <2>1. Bad \in SUBSET Nat
      BY <1>0
    <2>2. PICK n \in Bad : \A m \in Bad : n <= m
      <3> HIDE DEF Bad
      <3> QED
        BY <2>1, LeastNumber
    <2>3. n \in 1 .. Len(ss) /\ f[n] \notin Seq(T)
      OBVIOUS
    <2>4. n # 1
      BY <1>0, <1>4, <2>3
    <2>5. n - 1 \in 1 .. Len(ss)
      BY <1>0, <2>3, <2>4
    <2>6. f[n - 1] \in Seq(T)
      <3>1. n - 1 \notin Bad
        <4> HIDE DEF Bad
        <4> QED
          BY <2>1, <2>2
      <3> QED
        BY <2>5, <3>1
    <2>7. f[n] = f[n - 1] \o ss[n]
      BY <1>4, <2>3, <2>4
    <2>8. ss[n] \in Seq(T)
      BY <1>0, <2>3
    <2> QED
      BY <2>3, <2>6, <2>7, <2>8
  <1>6. Concatenates(f, T, ss)
    BY <1>1, <1>4, <1>5 DEF Concatenates
  <1> QED
    BY <1>6

LEMMA FlattenEmpty == FlattenSeq(<<>>) = <<>>
  BY DEF FlattenSeq

LEMMA FlattenAppend ==
    ASSUME NEW T, NEW ss \in Seq(Seq(T)), NEW s \in Seq(T)
    PROVE  FlattenSeq(Append(ss, s)) = FlattenSeq(ss) \o s
  <1> DEFINE e == Append(ss, s)
             n == Len(ss)
  <1>1. /\ e \in Seq(Seq(T)) /\ e # <<>> /\ Len(e) = n + 1 /\ e[n + 1] = s
        /\ \A i \in 1 .. n : e[i] = ss[i]
        /\ n \in Nat
    BY AppendProperties, LenProperties
  <1> HIDE DEF e
  <1>20. PICK f : Concatenates(f, T, e)
    BY <1>1, FlattenLast
  <1>2. /\ FlattenSeq(e) = f[Len(e)]
        /\ \A i \in 1 .. Len(e) :
               /\ f[i] \in Seq(T)
               /\ f[i] = IF i = 1 THEN e[i] ELSE f[i - 1] \o e[i]
    BY <1>20 DEF Concatenates
  <1>3. CASE ss = <<>>
    <2>1. n = 0 /\ FlattenSeq(e) = s
      BY <1>1, <1>2, <1>3
    <2> QED
      BY <1>3, <2>1, FlattenEmpty DEF e
  <1>4. CASE ss # <<>>
    <2>20. PICK g : Concatenates(g, T, ss)
      BY <1>4, FlattenLast
    <2>1. /\ FlattenSeq(ss) = g[n]
          /\ \A i \in 1 .. n :
                 /\ g[i] \in Seq(T)
                 /\ g[i] = IF i = 1 THEN ss[i] ELSE g[i - 1] \o ss[i]
      BY <2>20 DEF Concatenates
    <2> DEFINE Bad == {i \in 1 .. n : f[i] # g[i]}
    <2>2. Bad = {}
      <3> SUFFICES ASSUME Bad # {}
                   PROVE  FALSE
        OBVIOUS
      <3>1. Bad \in SUBSET Nat
        BY <1>1
      <3>2. PICK i \in Bad : \A m \in Bad : i <= m
        <4> HIDE DEF Bad
        <4> QED
          BY <3>1, LeastNumber
      <3>3. i \in 1 .. n /\ f[i] # g[i]
        OBVIOUS
      <3>4. i \in 1 .. Len(e)
        BY <1>1, <3>3
      <3>5. i = 1 => f[i] = g[i]
        BY <1>1, <1>2, <2>1, <3>3, <3>4
      <3>6. i # 1 => i - 1 \in 1 .. n /\ i - 1 \notin Bad
        <4>1. i # 1 => i - 1 \in 1 .. n
          BY <1>1, <3>3
        <4> HIDE DEF Bad
        <4> QED
          BY <3>1, <3>2, <4>1
      <3>7. i # 1 => f[i - 1] = g[i - 1]
        BY <3>6
      <3>8. i # 1 => f[i] = g[i]
        BY <1>1, <1>2, <2>1, <3>3, <3>4, <3>7
      <3> QED
        BY <3>3, <3>5, <3>8
    <2>3. n \in 1 .. n
      BY <1>1, <1>4
    <2>4. f[n] = g[n]
      BY <2>2, <2>3
    <2>5. n + 1 \in 1 .. Len(e) /\ n + 1 # 1 /\ (n + 1) - 1 = n
      BY <1>1, <2>3
    <2>6. f[n + 1] = f[n] \o e[n + 1]
      BY <1>2, <2>5
    <2> QED
      BY <1>1, <1>2, <2>1, <2>4, <2>6 DEF e
  <1> QED
    BY <1>3, <1>4

LEMMA FlattenType ==
    ASSUME NEW T, NEW ss \in Seq(Seq(T))
    PROVE  FlattenSeq(ss) \in Seq(T)
  <1>1. CASE ss = <<>>
    <2>1. FlattenSeq(ss) = <<>>
      BY <1>1, FlattenEmpty
    <2> QED
      BY <2>1
  <1>2. CASE ss # <<>>
    <2>1. Len(ss) \in 1 .. Len(ss)
      BY <1>2
    <2>2. PICK f : Concatenates(f, T, ss)
      BY <1>2, FlattenLast
    <2> QED
      BY <2>1, <2>2 DEF Concatenates
  <1> QED
    BY <1>1, <1>2

-------------------------------------------------------------------------------
(* The parser's two tools: the position of a byte, and numbers. *)

LEMMA IndexType ==
    ASSUME NEW s \in Seq(Tokens), NEW c
    PROVE  /\ Index(s, c) \in 0 .. Len(s)
           /\ Index(s, c) # 0 => s[Index(s, c)] = c
  <1> DEFINE I == {i \in 1 .. Len(s) : s[i] = c}
  <1>1. Index(s, c) = IF I # {} THEN Min(I) ELSE 0
    BY DEF Index, SelectInSeq
  <1>2. I \in SUBSET Nat /\ Len(s) \in Nat
    OBVIOUS
  <1>3. CASE I = {}
    BY <1>1, <1>2, <1>3
  <1>4. CASE I # {}
    <2>1. \E n \in I : \A m \in I : n <= m
      <3> HIDE DEF I
      <3> QED
        BY <1>2, <1>4, LeastNumber
    <2>2. Min(I) \in I
      BY <2>1 DEF Min
    <2> QED
      BY <1>1, <1>2, <1>4, <2>2
  <1> QED
    BY <1>3, <1>4

LEMMA MaxNum == \A S : Num!Max(S) = Max(S)
  BY DEF Max, Num!Max

LEMMA DigitType ==
    ASSUME NEW c, Num!IsDigit(c)
    PROVE  Num!DigitValue(c) \in 0 .. 9
  <1>1. \E d \in 1 .. 10 : Num!Digits[d] = c
    BY DEF Num!IsDigit, Num!Contains, Num!Digits
  <1> QED
    BY <1>1 DEF Num!DigitValue

LEMMA NextValueType ==
    ASSUME NEW c, Num!IsDigit(c), NEW v \in Int
    PROVE  Num!NextValue(v, c) \in Int
  <1>1. Num!DigitValue(c) \in Int
    BY DigitType
  <1> QED
    BY <1>1 DEF Num!NextValue, Num!Overflow

LEMMA DigitsFolded ==
    ASSUME NEW s \in Seq(Tokens), \A i \in 1 .. Len(s) : Num!IsDigit(s[i])
    PROVE  Num!FoldLeft(Num!NextValue, 0, s) \in Int
  <1> DEFINE N == Len(s)
             Body(g) == [u \in SUBSET (1 .. N) |->
                            IF u = {} THEN 0 ELSE Num!NextValue(g[u \ {Num!Max(u)}], s[Num!Max(u)])]
             iter == CHOOSE g : g = Body(g)
             step == [p \in (1 .. N) \X Int |-> Num!NextValue(p[2], s[p[1]])]
  <1>0. N \in Nat /\ DOMAIN s = 1 .. N
    OBVIOUS
  <1>1. Num!FoldLeft(Num!NextValue, 0, s) = iter[1 .. N]
    BY <1>0 DEF Num!FoldLeft, Num!MapThenFoldSet
  <1>2. step \in [(1 .. N) \X Int -> Int]
    <2>1. \A p \in (1 .. N) \X Int : Num!NextValue(p[2], s[p[1]]) \in Int
      BY NextValueType
    <2> QED
      BY <2>1
  <1>3. PICK g \in [SUBSET (1 .. N) -> Int] : Folding(g, N, 0, step)
    <2>1. N \in Nat /\ 0 \in Int
      BY <1>0
    <2> HIDE DEF step, N
    <2> QED
      BY <1>2, <2>1, FoldExists
  <1>4. \A u \in SUBSET (1 .. N) : u # {} => Num!Max(u) \in u
    <2> SUFFICES ASSUME NEW u \in SUBSET (1 .. N), u # {}
                 PROVE  Num!Max(u) \in u
      OBVIOUS
    <2>0. N \in Nat /\ u \in SUBSET Nat /\ \A x \in u : x <= N
      BY <1>0
    <2> HIDE DEF N
    <2>1. \E x \in u : \A y \in u : x >= y
      BY <2>0, GreatestNumber
    <2> QED
      BY <2>1, MaxNum DEF Max
  <1>5. g = Body(g)
    <2>1. \A u \in SUBSET (1 .. N) :
              g[u] = IF u = {} THEN 0 ELSE Num!NextValue(g[u \ {Num!Max(u)}], s[Num!Max(u)])
      <3> SUFFICES ASSUME NEW u \in SUBSET (1 .. N), u # {}
                   PROVE  g[u] = Num!NextValue(g[u \ {Num!Max(u)}], s[Num!Max(u)])
        BY <1>3 DEF Folding
      <3>1. Num!Max(u) \in 1 .. N /\ g[u \ {Num!Max(u)}] \in Int
        BY <1>4
      <3>2. g[u] = step[<<Num!Max(u), g[u \ {Num!Max(u)}]>>]
        BY <1>3, MaxNum DEF Folding
      <3> QED
        BY <3>1, <3>2
    <2> QED
      BY <2>1
  <1> HIDE DEF Body
  <1>6. iter = Body(iter)
    BY <1>5
  <1> HIDE DEF iter
  <1>7. \A u \in SUBSET (1 .. N) :
            iter[u] = IF u = {} THEN 0
                      ELSE Num!NextValue(iter[u \ {Num!Max(u)}], s[Num!Max(u)])
    BY <1>6 DEF Body
  <1>8. iter[{}] \in Int
    <2>1. {} \in SUBSET (1 .. N)
      OBVIOUS
    <2>2. iter[{}] = 0
      <3> HIDE DEF N
      <3> QED
        BY <1>7, <2>1
    <2> QED
      BY <2>2
  <1>9. ASSUME NEW u \in SUBSET (1 .. N), u # {}, iter[u \ {Max(u)}] \in Int
        PROVE  iter[u] \in Int
    <2>1. Max(u) \in 1 .. N
      BY <1>4, <1>9, MaxNum
    <2>2. Num!NextValue(iter[u \ {Max(u)}], s[Max(u)]) \in Int
      BY <1>9, <2>1, NextValueType
    <2> QED
      BY <1>7, <1>9, <2>2, MaxNum
  <1>10. \A u \in SUBSET (1 .. N) : iter[u] \in Int
    <2> HIDE DEF N
    <2> QED
      BY <1>0, <1>8, <1>9, FoldClosed
  <1> QED
    BY <1>1, <1>10

LEMMA NumberType ==
    ASSUME NEW s \in Seq(Tokens)
    PROVE  Num!String2ll(s).value \in Int
  <1> DEFINE negative == s # <<>> /\ s[1] = "-"
             digits   == IF negative THEN Tail(s) ELSE s
             v        == Num!FoldLeft(Num!NextValue, 0, digits)
             bad      == digits = <<>> \/ \E i \in DOMAIN digits : ~Num!IsDigit(digits[i])
  <1>1. digits \in Seq(Tokens)
    <2>1. s # <<>> => Tail(s) \in Seq(Tokens)
      OBVIOUS
    <2> QED
      BY <2>1
  <1>2. ~bad => v \in Int
    <2> HIDE DEF digits
    <2> QED
      BY <1>1, DigitsFolded
  <1>3. \/ Num!String2ll(s).value = 0
        \/ ~bad /\ Num!String2ll(s).value \in {v, -v}
    <2> HIDE DEF digits
    <2> QED
      BY DEF Num!String2ll, Num!NoNumber, digits
  <1> HIDE DEF v, bad
  <1>4. v \in Int => -v \in Int
    OBVIOUS
  <1> QED
    BY <1>2, <1>3, <1>4

-------------------------------------------------------------------------------
(* The invariant. *)

IsQuery(x) ==
    x \in [buf : Seq(Tokens), type : {"unknown", "inline", "multibulk"},
           multibulklen : Nat, bulklen : Nat, argv : {x.argv}]

Types ==
    /\ pc \in PCs /\ peer \in {"open", "closed"} /\ errno \in {"none", "EAGAIN"}
    /\ wire \in Seq(Tokens) /\ inflight \in Seq(Tokens)
    /\ received \in Seq(Tokens) /\ expected \in Seq(Tokens)
    /\ IsQuery(q)
    /\ pos \in Nat
    /\ eager \in BOOLEAN /\ jumped \in BOOLEAN

(* The reply buffer is not overrun, and nothing empty is on the list. *)
GoodOut(o) ==
    /\ o \in Outs
    /\ Len(o.buf) <= BufSize
    /\ \A i \in DOMAIN o.list : o.list[i].bytes # <<>>

(* Only between two writes does sendlen point into what is being sent. *)
Sending ==
    /\ out.sent = 0 \/ out.sent < Len(Source)
    /\ pc \notin Gone \cup {"send"} => out.sent = 0

(* In the loop of processMultibulkBuffer there are arguments to come. *)
Counting == pc \in {"length", "argument"} => q.multibulklen # 0

Invariant == Types /\ Counting /\ GoodOut(out) /\ Sending /\ RepliesInOrder

Listed(o) == [i \in DOMAIN o.list |-> o.list[i].bytes]

Queued(o) == o.buf \o FlattenSeq(Listed(o))

LEMMA ListedType ==
    ASSUME NEW o \in Outs
    PROVE  /\ Listed(o) \in Seq(Seq(Tokens)) /\ Len(Listed(o)) = Len(o.list)
           /\ FlattenSeq(Listed(o)) \in Seq(Tokens) /\ Queued(o) \in Seq(Tokens)
  <1>1. o.list \in Seq(Additions) /\ o.buf \in Seq(Tokens)
    BY DEF Outs
  <1>2. \A i \in 1 .. Len(o.list) : o.list[i].bytes \in Seq(Tokens)
    <2>1. \A i \in 1 .. Len(o.list) : o.list[i] \in Additions
      BY <1>1
    <2> QED
      BY <2>1 DEF Additions
  <1>3. Listed(o) \in Seq(Seq(Tokens)) /\ Len(Listed(o)) = Len(o.list)
    <2>1. DOMAIN o.list = 1 .. Len(o.list) /\ Len(o.list) \in Nat
      BY <1>1
    <2>2. Listed(o) = [i \in 1 .. Len(o.list) |-> o.list[i].bytes]
      BY <2>1 DEF Listed
    <2> QED
      BY <1>2, <2>1, <2>2
  <1>4. FlattenSeq(Listed(o)) \in Seq(Tokens)
    BY <1>3, FlattenType
  <1> QED
    BY <1>1, <1>3, <1>4 DEF Queued

(* RepliesInOrder, for any values. *)
InOrder(r, i, o, e) == (r \o i) \o SubSeq(Queued(o), o.sent + 1, Len(Queued(o))) = e

LEMMA OrderUnfolded ==
    /\ RepliesInOrder <=>
           (peer = "open" /\ pc \notin Gone /\ ~jumped
                => InOrder(received, inflight, out, expected))
    /\ RepliesInOrder' <=>
           (peer' = "open" /\ pc' \notin Gone /\ ~jumped'
                => InOrder(received', inflight', out', expected'))
  BY DEF RepliesInOrder, InOrder, Queued, Listed

(* An addition that does not jump comes behind all the others. *)
LEMMA AddedQueued ==
    ASSUME NEW o, GoodOut(o), NEW a \in Additions
    PROVE  /\ GoodOut(Added(o, a))
           /\ Added(o, a).sent = o.sent
           /\ ~Jumps(o, a) => Queued(Added(o, a)) = Queued(o) \o a.bytes
  <1> DEFINE r == Added(o, a)
  <1>1. /\ o \in Outs /\ a.bytes \in Seq(Tokens)
        /\ o.buf \in Seq(Tokens) /\ o.list \in Seq(Additions)
    BY DEF GoodOut, Outs, Additions
  <1>2. /\ r \in Outs /\ r.sent = o.sent
        /\ r.buf = IF Fits(o, a) THEN o.buf \o a.bytes ELSE o.buf
        /\ r.list = IF Fits(o, a) \/ a.kind = "raw" THEN o.list ELSE Append(o.list, a)
    BY <1>1, AddedFields
  <1> HIDE DEF r
  <1>0. BufSize \in Nat
    BY ClientAssumption
  <1>10. /\ Len(o.buf) \in Nat /\ Len(a.bytes) \in Nat /\ Len(o.buf) <= BufSize
         /\ Len(o.buf \o a.bytes) = Len(o.buf) + Len(a.bytes)
    BY <1>1 DEF GoodOut
  <1>3. Len(r.buf) <= BufSize
    BY <1>0, <1>2, <1>10 DEF Fits
  <1>4. \A i \in DOMAIN r.list : r.list[i].bytes # <<>>
    <2>1. CASE Fits(o, a) \/ a.kind = "raw"
      BY <1>2, <2>1 DEF GoodOut
    <2>2. CASE ~Fits(o, a) /\ a.kind # "raw"
      <3>1. a.bytes # <<>>
        <4> DEFINE l == Len(o.buf)
                   m == Len(a.bytes)
        <4>1. ~ l + m <= BufSize
          BY <2>2 DEF Fits
        <4>2. l \in Nat /\ m \in Nat /\ l <= BufSize
          BY <1>10
        <4>3. m = 0 => l + m = l
          BY <4>2
        <4>4. a.bytes = <<>> => m = 0
          OBVIOUS
        <4> HIDE DEF l, m
        <4> QED
          BY <4>1, <4>2, <4>3, <4>4
      <3>2. r.list = Append(o.list, a)
        BY <1>2, <2>2
      <3>3. \A i \in 1 .. Len(o.list) : o.list[i].bytes # <<>>
        BY <1>1 DEF GoodOut
      <3> QED
        BY <1>1, <3>1, <3>2, <3>3
    <2> QED
      BY <2>1, <2>2
  <1>5. ASSUME ~Jumps(o, a)
        PROVE  Queued(r) = Queued(o) \o a.bytes
    <2>1. CASE Fits(o, a)
      <3>1. o.list = <<>> /\ r.list = <<>> /\ r.buf = o.buf \o a.bytes
        BY <1>2, <1>5, <2>1 DEF Jumps
      <3>2. Listed(o) = <<>> /\ Listed(r) = <<>>
        BY <3>1 DEF Listed
      <3>3. Queued(o) = o.buf \o <<>> /\ Queued(r) = (o.buf \o a.bytes) \o <<>>
        BY <3>1, <3>2, FlattenEmpty DEF Queued
      <3>4. o.buf \o a.bytes \in Seq(Tokens)
        BY <1>1
      <3> QED
        BY <1>1, <3>3, <3>4, ConcatEmptySeq
    <2>2. CASE ~Fits(o, a)
      <3>1. r.list = Append(o.list, a) /\ r.buf = o.buf
        BY <1>2, <1>5, <2>2 DEF Jumps
      <3>2. Listed(o) \in Seq(Seq(Tokens)) /\ FlattenSeq(Listed(o)) \in Seq(Tokens)
        BY <1>1, ListedType
      <3>3. Listed(r) = Append(Listed(o), a.bytes)
        <4>1. Len(o.list) \in Nat /\ DOMAIN o.list = 1 .. Len(o.list)
          BY <1>1
        <4>2. Listed(r) = [i \in 1 .. Len(o.list) + 1 |-> Append(o.list, a)[i].bytes]
          BY <1>1, <3>1 DEF Listed
        <4> QED
          BY <1>1, <4>1, <4>2 DEF Listed
      <3>4. FlattenSeq(Listed(r)) = FlattenSeq(Listed(o)) \o a.bytes
        BY <1>1, <3>2, <3>3, FlattenAppend
      <3>5. (o.buf \o FlattenSeq(Listed(o))) \o a.bytes
                = o.buf \o (FlattenSeq(Listed(o)) \o a.bytes)
        <4> DEFINE f == FlattenSeq(Listed(o))
                   b == o.buf
                   c == a.bytes
        <4>1. f \in Seq(Tokens) /\ b \in Seq(Tokens) /\ c \in Seq(Tokens)
          BY <1>1, <3>2
        <4> HIDE DEF f, b, c
        <4>2. (b \o f) \o c = b \o (f \o c)
          BY <4>1, ConcatAssociative
        <4> QED
          BY <4>2 DEF f, b, c
      <3> QED
        BY <3>1, <3>4, <3>5 DEF Queued
    <2> QED
      BY <2>1, <2>2
  <1> QED
    BY <1>2, <1>3, <1>4, <1>5 DEF GoodOut, r

LEMMA FoldStep ==
    ASSUME NEW o \in Outs, NEW adds \in Seq(Additions), Len(adds) <= 3,
           NEW k \in 0 .. Len(adds) - 1
    PROVE  /\ FoldLeft(Added, o, SubSeq(adds, 1, 0)) = o
           /\ FoldLeft(Added, o, SubSeq(adds, 1, k + 1))
                  = Added(FoldLeft(Added, o, SubSeq(adds, 1, k)), adds[k + 1])
  <1>1. ASSUME NEW m \in 0 .. Len(adds)
        PROVE  /\ SubSeq(adds, 1, m) \in Seq(Additions)
               /\ Len(SubSeq(adds, 1, m)) = m
               /\ m <= 3
               /\ \A i \in 1 .. m : SubSeq(adds, 1, m)[i] = adds[i]
    OBVIOUS
  <1> DEFINE F(m) == FoldLeft(Added, o, SubSeq(adds, 1, m))
  <1>2. ASSUME NEW m \in 0 .. Len(adds)
        PROVE  /\ m = 0 => F(m) = o
               /\ m = 1 => F(m) = Added(o, adds[1])
               /\ m = 2 => F(m) = Added(Added(o, adds[1]), adds[2])
               /\ m = 3 => F(m) = Added(Added(Added(o, adds[1]), adds[2]), adds[3])
    <2> DEFINE s == SubSeq(adds, 1, m)
    <2>1. s \in Seq(Additions) /\ Len(s) = m /\ m <= 3 /\ \A i \in 1 .. m : s[i] = adds[i]
      BY <1>1
    <2> HIDE DEF s
    <2>2. FoldLeft(Added, o, s) =
              CASE Len(s) = 0 -> o
                [] Len(s) = 1 -> Added(o, s[1])
                [] Len(s) = 2 -> Added(Added(o, s[1]), s[2])
                [] Len(s) = 3 -> Added(Added(Added(o, s[1]), s[2]), s[3])
      BY <2>1, FoldUnrolled
    <2>3. F(m) = FoldLeft(Added, o, s)
      BY DEF s
    <2> HIDE DEF F
    <2>4. m = 0 => F(m) = o
      BY <2>1, <2>2, <2>3
    <2>5. m = 1 => F(m) = Added(o, adds[1])
      BY <2>1, <2>2, <2>3
    <2>6. m = 2 => F(m) = Added(Added(o, adds[1]), adds[2])
      BY <2>1, <2>2, <2>3
    <2>7. m = 3 => F(m) = Added(Added(Added(o, adds[1]), adds[2]), adds[3])
      BY <2>1, <2>2, <2>3
    <2> QED
      BY <2>4, <2>5, <2>6, <2>7
  <1>3. /\ Len(adds) \in Nat /\ k \in 0 .. Len(adds) /\ k + 1 \in 0 .. Len(adds)
        /\ 0 \in 0 .. Len(adds) /\ k \in {0, 1, 2}
    OBVIOUS
  <1> HIDE DEF F
  <1>4. F(0) = o
    BY <1>2, <1>3
  <1>5. F(k + 1) = Added(F(k), adds[k + 1])
    <2>1. CASE k = 0
      BY <1>2, <1>3, <2>1
    <2>2. CASE k = 1
      BY <1>2, <1>3, <2>2
    <2>3. CASE k = 2
      BY <1>2, <1>3, <2>3
    <2> QED
      BY <1>3, <2>1, <2>2, <2>3
  <1> QED
    BY <1>4, <1>5 DEF F

(* What Reply does to the queue, for replies of one to three additions.    *)
LEMMA ReplyQueued ==
    ASSUME GoodOut(out), NEW adds \in Seq(Additions), adds # <<>>, Len(adds) <= 3,
           expected \in Seq(Tokens), jumped \in BOOLEAN, Reply(adds)
    PROVE  /\ GoodOut(out') /\ out'.sent = out.sent
           /\ jumped' \in BOOLEAN /\ expected' \in Seq(Tokens)
           /\ ~jumped' =>
                  /\ ~jumped
                  /\ \E t \in Seq(Tokens) : expected' = expected \o t
                                            /\ Queued(out') = Queued(out) \o t
  <1> DEFINE n == Len(adds)
             bs == [i \in DOMAIN adds |-> adds[i].bytes]
             F(m) == FoldLeft(Added, out, SubSeq(adds, 1, m))
  <1>1. /\ n \in 1 .. 3 /\ DOMAIN adds = 1 .. n /\ \A i \in 1 .. n : adds[i] \in Additions
        /\ SubSeq(adds, 1, n) = adds
    <2>1. n \in Nat /\ n # 0 /\ n <= 3
      OBVIOUS
    <2>2. SubSeq(adds, 1, Len(adds)) = adds
      BY SubSeqFull
    <2>3. DOMAIN adds = 1 .. n /\ \A i \in 1 .. n : adds[i] \in Additions
      OBVIOUS
    <2> QED
      BY <2>1, <2>2, <2>3
  <1>2. out \in Outs
    BY DEF GoodOut
  <1>3. bs \in Seq(Seq(Tokens)) /\ Len(bs) = n /\ bs # <<>>
    <2>1. \A i \in 1 .. n : adds[i].bytes \in Seq(Tokens)
      BY <1>1 DEF Additions
    <2>2. bs = [i \in 1 .. n |-> adds[i].bytes]
      BY <1>1
    <2>3. n \in Nat /\ n # 0
      BY <1>1
    <2> HIDE DEF bs
    <2>4. bs \in Seq(Seq(Tokens)) /\ Len(bs) = n
      BY <2>1, <2>2, <2>3
    <2> QED
      BY <2>3, <2>4
  <1>4. PICK f : Concatenates(f, Tokens, bs)
    <2> HIDE DEF bs
    <2> QED
      BY <1>3, FlattenLast
  <1>5. /\ FlattenSeq(bs) = f[n]
        /\ \A i \in 1 .. n :
               /\ f[i] \in Seq(Tokens)
               /\ f[i] = IF i = 1 THEN adds[i].bytes ELSE f[i - 1] \o adds[i].bytes
    BY <1>1, <1>3, <1>4 DEF Concatenates
  <1>6. /\ out' = F(n)
        /\ jumped' = (jumped \/ \E i \in 1 .. n : Jumps(F(i - 1), adds[i]))
        /\ expected' = expected \o f[n]
    <2>1. out' = FoldLeft(Added, out, adds) /\ expected' = expected \o FlattenSeq(bs)
      BY DEF Reply
    <2>2. F(n) = FoldLeft(Added, out, adds)
      BY <1>1
    <2>3. jumped' = (jumped \/ \E i \in 1 .. n : Jumps(F(i - 1), adds[i]))
      BY <1>1 DEF Reply
    <2> QED
      BY <1>5, <2>1, <2>2, <2>3
  <1> DEFINE G(m) == IF m = 0 THEN <<>> ELSE f[m]
             P(m) == /\ GoodOut(F(m)) /\ F(m).sent = out.sent
                     /\ ~jumped' => Queued(F(m)) = Queued(out) \o G(m)
  <1>7. /\ F(0) = out
        /\ \A k \in 0 .. n - 1 : F(k + 1) = Added(F(k), adds[k + 1])
    <2>1. 0 \in 0 .. n - 1
      BY <1>1
    <2> QED
      BY <1>2, <2>1, FoldStep
  <1> HIDE DEF F, n, bs
  <1>8. \A k \in 0 .. n - 1 :
            /\ k + 1 \in 1 .. n /\ (k + 1) - 1 = k
            /\ G(k) \in Seq(Tokens) /\ adds[k + 1].bytes \in Seq(Tokens)
            /\ G(k + 1) = G(k) \o adds[k + 1].bytes
    <2> SUFFICES ASSUME NEW k \in 0 .. n - 1
                 PROVE  /\ k + 1 \in 1 .. n /\ (k + 1) - 1 = k
                        /\ G(k) \in Seq(Tokens) /\ adds[k + 1].bytes \in Seq(Tokens)
                        /\ G(k + 1) = G(k) \o adds[k + 1].bytes
      OBVIOUS
    <2>1. k + 1 \in 1 .. n /\ (k + 1) - 1 = k /\ k + 1 # 0
      BY <1>1
    <2>2. adds[k + 1].bytes \in Seq(Tokens)
      BY <1>1, <2>1 DEF Additions
    <2>3. CASE k = 0
      BY <1>5, <2>1, <2>2, <2>3
    <2>4. CASE k # 0
      <3>1. k \in 1 .. n /\ k + 1 # 1
        BY <1>1, <2>4
      <3> QED
        BY <1>5, <2>1, <2>2, <2>4, <3>1
    <2> QED
      BY <2>1, <2>2, <2>3, <2>4
  <1> HIDE DEF G
  <1>9. P(0)
    <2>1. G(0) = <<>>
      BY DEF G
    <2>2. Queued(out) \in Seq(Tokens)
      BY <1>2, ListedType
    <2> QED
      BY <1>7, <2>1, <2>2, ConcatEmptySeq
  <1>10. ASSUME NEW k \in 0 .. n - 1, P(k)
         PROVE  P(k + 1)
    <2>1. k + 1 \in 1 .. n /\ adds[k + 1] \in Additions
      BY <1>1, <1>8
    <2>2. F(k + 1) = Added(F(k), adds[k + 1])
      BY <1>7
    <2>3. /\ GoodOut(F(k + 1)) /\ F(k + 1).sent = F(k).sent
          /\ ~Jumps(F(k), adds[k + 1]) =>
                 Queued(F(k + 1)) = Queued(F(k)) \o adds[k + 1].bytes
      BY <1>10, <2>1, <2>2, AddedQueued
    <2>4. ASSUME ~jumped'
          PROVE  Queued(F(k + 1)) = Queued(out) \o G(k + 1)
      <3>1. ~Jumps(F(k), adds[k + 1])
        BY <1>6, <1>8, <2>4
      <3>2. Queued(F(k + 1)) = (Queued(out) \o G(k)) \o adds[k + 1].bytes
        BY <1>10, <2>3, <2>4, <3>1
      <3> DEFINE a == Queued(out)
                 b == G(k)
                 c == adds[k + 1].bytes
      <3>3. a \in Seq(Tokens) /\ b \in Seq(Tokens) /\ c \in Seq(Tokens)
        BY <1>2, <1>8, ListedType
      <3> HIDE DEF a, b, c
      <3>4. (a \o b) \o c = a \o (b \o c)
        BY <3>3, ConcatAssociative
      <3> QED
        BY <1>8, <3>2, <3>4 DEF a, b, c
    <2> QED
      BY <1>10, <2>3, <2>4
  <1>11. P(n)
    <2> HIDE DEF P
    <2>1. CASE n = 1
      <3>1. 0 \in 0 .. n - 1 /\ 0 + 1 = n
        BY <2>1
      <3> QED
        BY <1>9, <1>10, <3>1
    <2>2. CASE n = 2
      <3>1. 0 \in 0 .. n - 1 /\ 1 \in 0 .. n - 1 /\ 0 + 1 = 1 /\ 1 + 1 = n
        BY <2>2
      <3> QED
        BY <1>9, <1>10, <3>1
    <2>3. CASE n = 3
      <3>1. /\ 0 \in 0 .. n - 1 /\ 1 \in 0 .. n - 1 /\ 2 \in 0 .. n - 1
            /\ 0 + 1 = 1 /\ 1 + 1 = 2 /\ 2 + 1 = n
        BY <2>3
      <3> QED
        BY <1>9, <1>10, <3>1
    <2> QED
      BY <1>1, <2>1, <2>2, <2>3
  <1>12. f[n] \in Seq(Tokens) /\ G(n) = f[n]
    BY <1>1, <1>5 DEF G
  <1>13. jumped' \in BOOLEAN /\ (~jumped' => ~jumped)
    BY <1>6
  <1>14. expected' \in Seq(Tokens)
    BY <1>6, <1>12, ConcatProperties
  <1> QED
    BY <1>6, <1>11, <1>12, <1>13, <1>14

LEMMA ShortSeq ==
    ASSUME NEW S, NEW a \in S, NEW b \in S, NEW c \in S
    PROVE  /\ <<a>> \in Seq(S) /\ <<a>> # <<>> /\ Len(<<a>>) = 1
           /\ <<a, b>> \in Seq(S) /\ <<a, b>> # <<>> /\ Len(<<a, b>>) = 2
           /\ <<a, b, c>> \in Seq(S) /\ <<a, b, c>> # <<>> /\ Len(<<a, b, c>>) = 3
  OBVIOUS

(* Every reply is one to three additions. *)
LEMMA RepliesTyped ==
    ASSUME NEW argv, NEW adds \in RepliesTo(argv) \cup {Error}
    PROVE  adds \in Seq(Additions) /\ adds # <<>> /\ Len(adds) <= 3
  <1>0. {"+OK", "-ERR", "message", "exists", "$", "\r\n"} \subseteq Tokens
    <2>1. Wording \subseteq Tokens
      BY DEF Tokens
    <2> QED
      BY <2>1 DEF Wording
  <1>1. ASSUME NEW t \in Tokens
        PROVE  Text(t) \in Additions /\ Raw(t) \in Additions
    BY DEF Text, Raw, Additions
  <1>2. CRobj \in Additions
    <2>1. <<"\r\n">> \in Seq(Tokens)
      BY <1>0
    <2> QED
      BY <2>1 DEF CRobj, Additions
  <1>3. ASSUME NEW v \in Values
        PROVE  Object(v) \in Additions
    BY SequencesOfTokens DEF Object, Additions
  <1>4. RepliesTo(argv) \subseteq {OK, Error, <<Raw("exists")>>} \cup {Found(v) : v \in Values}
    <2> DEFINE All == {OK, Error, <<Raw("exists")>>} \cup {Found(v) : v \in Values}
               name == argv[1][1]
               argc == Len(argv)
               quit == argv[1] = <<"quit">>
               known == Len(argv[1]) = 1 /\ name \in DOMAIN Arity
               inner == IF ~ArityRight(Arity[name], argc) THEN {Error}
                        ELSE CASE name = "set" -> {OK}
                               [] name = "get" -> IF argc # 2 THEN {Error}
                                                  ELSE {Found(v) : v \in Values} \cup {Error}
                               [] name = "exists" -> IF argc # 2 THEN {Error} ELSE {<<Raw("exists")>>}
                               [] name = "del" -> IF argc # 2 THEN {Error} ELSE {OK, Error}
                               [] OTHER -> {Error}
    <2>1. inner \subseteq All
      <3>1. {OK, Error} \subseteq All /\ {<<Raw("exists")>>} \subseteq All
            /\ {Found(v) : v \in Values} \cup {Error} \subseteq All
        OBVIOUS
      <3> HIDE DEF All
      <3> QED
        BY <3>1
    <2>2. {OK} \subseteq All /\ {Error} \subseteq All
      OBVIOUS
    <2>3. RepliesTo(argv) = CASE quit -> {OK}
                              [] ~quit /\ ~known -> {Error}
                              [] known -> inner
      BY DEF RepliesTo
    <2> HIDE DEF All, inner, quit, known
    <2>4. RepliesTo(argv) \subseteq All
      BY <2>1, <2>2, <2>3
    <2> QED
      BY <2>4 DEF All
  <1>5. CASE adds = OK
    <2>1. Text("+OK") \in Additions /\ Text("\r\n") \in Additions
      BY <1>0, <1>1
    <2> QED
      BY <1>5, <2>1, ShortSeq DEF OK
  <1>6. CASE adds = Error
    <2>1. Text("-ERR") \in Additions /\ Text("message") \in Additions /\ Text("\r\n") \in Additions
      BY <1>0, <1>1
    <2> QED
      BY <1>6, <2>1, ShortSeq DEF Error
  <1>7. CASE adds = <<Raw("exists")>>
    <2>1. Raw("exists") \in Additions
      BY <1>0, <1>1
    <2> QED
      BY <1>7, <2>1, ShortSeq
  <1>8. ASSUME NEW v \in Values, adds = Found(v)
        PROVE  adds \in Seq(Additions) /\ adds # <<>> /\ Len(adds) <= 3
    <2>1. Raw("$") \in Additions /\ Object(v) \in Additions
      BY <1>0, <1>1, <1>3
    <2> QED
      BY <1>2, <1>8, <2>1, ShortSeq DEF Found
  <1> QED
    BY <1>4, <1>5, <1>6, <1>7, <1>8

LEMMA FlattenTail ==
    ASSUME NEW T, NEW ss \in Seq(Seq(T)), ss # <<>>
    PROVE  FlattenSeq(ss) = Head(ss) \o FlattenSeq(Tail(ss))
  <1> DEFINE t == Tail(ss)
             n == Len(t)
  <1>1. /\ t \in Seq(Seq(T)) /\ Len(ss) = n + 1 /\ n \in Nat /\ Head(ss) = ss[1]
        /\ ss[1] \in Seq(T)
        /\ \A i \in 1 .. n : t[i] = ss[i + 1] /\ t[i] \in Seq(T)
    <2>1. t \in Seq(Seq(T)) /\ Len(t) = Len(ss) - 1 /\ \A i \in 1 .. Len(t) : t[i] = ss[i + 1]
      BY HeadTailProperties
    <2>2. Len(ss) \in Nat /\ Len(ss) # 0 /\ Head(ss) = ss[1] /\ ss[1] \in Seq(T)
      OBVIOUS
    <2>3. \A i \in 1 .. n : t[i] \in Seq(T)
      BY <2>1, ElementOfSeq
    <2> HIDE DEF t
    <2> QED
      BY <2>1, <2>2, <2>3
  <1> HIDE DEF t
  <1>2. PICK f : Concatenates(f, T, ss)
    BY FlattenLast
  <1>3. /\ FlattenSeq(ss) = f[n + 1]
        /\ \A i \in 1 .. n + 1 : f[i] = IF i = 1 THEN ss[i] ELSE f[i - 1] \o ss[i]
    BY <1>1, <1>2 DEF Concatenates
  <1>4. CASE n = 0
    <2>1. t = <<>>
      BY <1>1, <1>4
    <2>2. FlattenSeq(ss) = ss[1]
      BY <1>3, <1>4
    <2>3. FlattenSeq(t) = <<>>
      BY <2>1, FlattenEmpty
    <2> QED
      BY <1>1, <2>2, <2>3, ConcatEmptySeq DEF t
  <1>5. CASE n # 0
    <2>0. t # <<>>
      BY <1>5
    <2>1. PICK g : Concatenates(g, T, t)
      BY <1>1, <2>0, FlattenLast
    <2>2. /\ FlattenSeq(t) = g[n]
          /\ \A i \in 1 .. n : g[i] \in Seq(T)
                               /\ g[i] = IF i = 1 THEN t[i] ELSE g[i - 1] \o t[i]
      BY <2>1 DEF Concatenates
    <2> HIDE DEF n
    <2> DEFINE Bad == {i \in 1 .. n : f[i + 1] # ss[1] \o g[i]}
    <2>3. Bad = {}
      <3> SUFFICES ASSUME Bad # {}
                   PROVE  FALSE
        OBVIOUS
      <3>1. Bad \in SUBSET Nat
        <4>1. \A i \in 1 .. n : i \in Nat
          BY <1>1
        <4>2. Bad \subseteq 1 .. n
          OBVIOUS
        <4> HIDE DEF Bad
        <4> QED
          BY <4>1, <4>2
      <3>2. PICK i \in Bad : \A m \in Bad : i <= m
        <4> HIDE DEF Bad
        <4> QED
          BY <3>1, LeastNumber
      <3>3. i \in 1 .. n /\ f[i + 1] # ss[1] \o g[i]
        OBVIOUS
      <3>4. i \in Nat /\ i >= 1 /\ i <= n
        BY <1>1, <3>3
      <3>5. i + 1 \in 1 .. n + 1 /\ i + 1 # 1 /\ (i + 1) - 1 = i
        BY <1>1, <3>4
      <3>6. f[i + 1] = f[i] \o ss[i + 1] /\ t[i] = ss[i + 1] /\ t[i] \in Seq(T)
        BY <1>1, <1>3, <3>3, <3>5
      <3>7. CASE i = 1
        <4>1. f[1] = ss[1] /\ g[1] = t[1]
          BY <1>1, <1>3, <2>2, <3>3, <3>5, <3>7
        <4> QED
          BY <3>3, <3>6, <3>7, <4>1
      <3>8. CASE i # 1
        <4>1. i - 1 \in 1 .. n /\ (i - 1) + 1 = i
          BY <1>1, <3>4, <3>8
        <4>2. i - 1 \notin Bad
          <5> HIDE DEF Bad
          <5> QED
            BY <3>2, <3>4
        <4>3. f[i] = ss[1] \o g[i - 1]
          <5>1. f[(i - 1) + 1] = ss[1] \o g[i - 1]
            BY <4>1, <4>2
          <5> QED
            BY <4>1, <5>1
        <4>4. g[i] = g[i - 1] \o t[i] /\ g[i - 1] \in Seq(T)
          BY <2>2, <3>3, <3>8, <4>1
        <4> DEFINE a == ss[1]
                   b == g[i - 1]
                   c == t[i]
        <4>5. a \in Seq(T) /\ b \in Seq(T) /\ c \in Seq(T)
          BY <1>1, <3>6, <4>4
        <4>6. f[i + 1] = (a \o b) \o c /\ ss[1] \o g[i] = a \o (b \o c)
          BY <3>6, <4>3, <4>4
        <4> HIDE DEF a, b, c, Bad
        <4>7. (a \o b) \o c = a \o (b \o c)
          BY ONLY <4>5, ConcatAssociative
        <4> QED
          BY <3>3, <4>6, <4>7
      <3> QED
        BY <3>7, <3>8
    <2>4. n \in 1 .. n
      BY <1>1, <1>5
    <2>5. f[n + 1] = ss[1] \o g[n]
      BY <2>3, <2>4
    <2> QED
      BY <1>1, <1>3, <2>2, <2>5 DEF t
  <1> QED
    BY <1>4, <1>5

(* What is queued is the source of the next write and what comes behind.   *)
Behind(o) ==
    IF o.buf # <<>> THEN FlattenSeq(Listed(o))
    ELSE IF o.list # <<>> THEN FlattenSeq(Listed([o EXCEPT !.list = Tail(@)])) ELSE <<>>

LEMMA SourceFirst ==
    ASSUME GoodOut(out)
    PROVE  /\ Source \in Seq(Tokens) /\ Behind(out) \in Seq(Tokens)
           /\ Queued(out) = Source \o Behind(out)
  <1>1. out \in Outs /\ out.buf \in Seq(Tokens) /\ out.list \in Seq(Additions)
    BY DEF GoodOut, Outs
  <1>2. /\ Listed(out) \in Seq(Seq(Tokens)) /\ Len(Listed(out)) = Len(out.list)
        /\ FlattenSeq(Listed(out)) \in Seq(Tokens)
    BY <1>1, ListedType
  <1>3. CASE out.buf # <<>>
    BY <1>1, <1>2, <1>3 DEF Source, Behind, Queued
  <1>4. CASE out.buf = <<>> /\ out.list = <<>>
    <2>1. Listed(out) = <<>>
      BY <1>4 DEF Listed
    <2>2. Queued(out) = <<>> \o <<>> /\ Source = <<>> /\ Behind(out) = <<>>
      BY <1>4, <2>1, FlattenEmpty DEF Queued, Source, Behind
    <2> QED
      BY <2>2
  <1>5. CASE out.buf = <<>> /\ out.list # <<>>
    <2> DEFINE o == [out EXCEPT !.list = Tail(@)]
    <2>1. o \in Outs /\ o.list = Tail(out.list)
      <3>1. Tail(out.list) \in Seq(Additions)
        BY <1>1, <1>5
      <3> QED
        BY <1>1, <3>1 DEF Outs
    <2>2. Listed(out) # <<>>
      BY <1>1, <1>2, <1>5
    <2>3. Head(Listed(out)) = Head(out.list).bytes
      BY <1>1, <1>5 DEF Listed
    <2>4. Listed(o) = Tail(Listed(out))
      <3>1. Len(out.list) \in Nat /\ Len(out.list) # 0 /\ DOMAIN out.list = 1 .. Len(out.list)
        BY <1>1, <1>5
      <3>2. /\ Len(Tail(out.list)) = Len(out.list) - 1
            /\ DOMAIN Tail(out.list) = 1 .. Len(out.list) - 1
            /\ \A i \in 1 .. Len(out.list) - 1 : Tail(out.list)[i] = out.list[i + 1]
        BY <1>1, <1>5
      <3>3. Listed(o) = [i \in 1 .. Len(out.list) - 1 |-> out.list[i + 1].bytes]
        BY <2>1, <3>2 DEF Listed
      <3>4. Listed(out) = [i \in 1 .. Len(out.list) |-> out.list[i].bytes]
        BY <3>1 DEF Listed
      <3> DEFINE s == Listed(out)
      <3>5. /\ Tail(s) \in Seq(Seq(Tokens)) /\ Len(Tail(s)) = Len(s) - 1
            /\ \A i \in 1 .. Len(Tail(s)) : Tail(s)[i] = s[i + 1]
        BY <1>2, <2>2, HeadTailProperties
      <3>6. Listed(o) \in Seq(Seq(Tokens)) /\ Len(Listed(o)) = Len(out.list) - 1
        BY <2>1, <3>2, ListedType
      <3>7. \A i \in 1 .. Len(out.list) - 1 : Tail(s)[i] = Listed(o)[i]
        BY <1>2, <3>1, <3>3, <3>4, <3>5
      <3> HIDE DEF s, o
      <3> QED
        BY <1>2, <3>5, <3>6, <3>7, SeqEqual DEF s
    <2>5. FlattenSeq(Listed(out)) = Head(Listed(out)) \o FlattenSeq(Tail(Listed(out)))
      BY <1>2, <2>2, FlattenTail
    <2>6. FlattenSeq(Listed(o)) \in Seq(Tokens)
      BY <2>1, ListedType
    <2>7. Head(Listed(out)) \in Seq(Tokens)
      BY <1>2, <2>2
    <2>8. /\ Source = Head(Listed(out))
          /\ Behind(out) = FlattenSeq(Listed(o))
          /\ Queued(out) = <<>> \o FlattenSeq(Listed(out))
      BY <1>5, <2>3 DEF Source, Behind, Queued
    <2>9. Queued(out) = FlattenSeq(Listed(out))
      BY <1>2, <2>8, ConcatEmptySeq
    <2> HIDE DEF o
    <2> QED
      BY <2>4, <2>5, <2>6, <2>7, <2>8, <2>9
  <1> QED
    BY <1>3, <1>4, <1>5

-------------------------------------------------------------------------------
(* Steps that neither make a reply nor move its bytes. *)

Quiet == UNCHANGED <<peer, inflight, out, expected, received, jumped>>

LEMMA QuietInvariant ==
    ASSUME Invariant, Quiet, Types', Counting', pc \notin Gone,
           pc = "send" => pc' \in Gone \cup {"send"}
    PROVE  Invariant'
  <1>1. GoodOut(out)'
    BY DEF Invariant, Quiet, GoodOut
  <1>2. Sending'
    <2>1. Source' = Source
      BY DEF Quiet, Source
    <2> QED
      BY <2>1 DEF Invariant, Quiet, Sending
  <1>3. RepliesInOrder'
    BY DEF Invariant, Quiet, RepliesInOrder
  <1> QED
    BY <1>1, <1>2, <1>3 DEF Invariant

(* Steps that make a reply. *)
LEMMA ReplyInvariant ==
    ASSUME Invariant, NEW argv, NEW adds \in RepliesTo(argv) \cup {Error}, Reply(adds),
           UNCHANGED <<wire, peer, inflight, errno, pos, eager, received>>,
           IsQuery(q'), pc \notin Gone \cup {"send"}, pc' \in {"undefined", "ready", "parse"}
    PROVE  Invariant'
  <1>1. adds \in Seq(Additions) /\ adds # <<>> /\ Len(adds) <= 3
    BY RepliesTyped
  <1>2. /\ GoodOut(out) /\ expected \in Seq(Tokens) /\ jumped \in BOOLEAN
        /\ out.sent = 0 /\ received \in Seq(Tokens) /\ inflight \in Seq(Tokens)
    BY DEF Invariant, Types, Sending
  <1>3. /\ GoodOut(out') /\ out'.sent = out.sent
        /\ jumped' \in BOOLEAN /\ expected' \in Seq(Tokens)
        /\ ~jumped' =>
               /\ ~jumped
               /\ \E t \in Seq(Tokens) : expected' = expected \o t
                                         /\ Queued(out') = Queued(out) \o t
    BY <1>1, <1>2, ReplyQueued
  <1>4. Types'
    BY <1>3 DEF Invariant, Types, PCs, Gone, IsQuery
  <1>5. Sending'
    BY <1>2, <1>3 DEF Sending
  <1>6. GoodOut(out)'
    BY <1>3 DEF GoodOut
  <1>7. RepliesInOrder'
    <2> SUFFICES ASSUME peer' = "open", ~jumped'
                 PROVE  InOrder(received, inflight, out', expected')
      BY OrderUnfolded
    <2>0. 0 + 1 = 1 /\ out'.sent = 0
      BY <1>2, <1>3
    <2>1. PICK t \in Seq(Tokens) : expected' = expected \o t
                                   /\ Queued(out') = Queued(out) \o t
      BY <1>3
    <2> DEFINE a == received \o inflight
               b == Queued(out)
    <2>2. a \in Seq(Tokens) /\ b \in Seq(Tokens) /\ Queued(out') \in Seq(Tokens)
      BY <1>2, <1>3, ListedType DEF GoodOut
    <2>3. a \o SubSeq(b, 1, Len(b)) = expected
      <3>1. InOrder(received, inflight, out, expected)
        BY <1>3, OrderUnfolded DEF Invariant
      <3> QED
        BY <1>2, <2>0, <3>1 DEF InOrder
    <2>4. SubSeq(Queued(out'), 1, Len(Queued(out'))) = b \o t /\ SubSeq(b, 1, Len(b)) = b
      BY <2>1, <2>2, SubSeqFull
    <2> HIDE DEF a, b
    <2>5. (a \o b) \o t = a \o (b \o t)
      BY <2>2, ConcatAssociative
    <2>6. a \o SubSeq(Queued(out'), 1, Len(Queued(out'))) = expected'
      BY <2>1, <2>3, <2>4, <2>5
    <2> QED
      BY <2>0, <2>6 DEF InOrder, a
  <1>8. Counting'
    BY DEF Counting
  <1> QED
    BY <1>4, <1>5, <1>6, <1>7, <1>8 DEF Invariant

-------------------------------------------------------------------------------
(* Sending and receiving. *)

LEMMA SuffixBehind ==
    ASSUME NEW T, NEW a \in Seq(T), NEW b \in Seq(T)
    PROVE  SubSeq(a \o b, Len(a) + 1, Len(a \o b)) = SubSeq(b, 1, Len(b))
  <1>1. SubSeq(b, 1, Len(b)) = b
    BY SubSeqFull
  <1>2. /\ Len(a \o b) = Len(a) + Len(b) /\ Len(a) \in Nat /\ Len(b) \in Nat
        /\ \A i \in 1 .. Len(b) : (a \o b)[Len(a) + i] = b[i]
    BY ConcatProperties
  <1> DEFINE s == SubSeq(a \o b, Len(a) + 1, Len(a \o b))
  <1>3. s \in Seq(T) /\ Len(s) = Len(b) /\ \A i \in 1 .. Len(b) : s[i] = (a \o b)[Len(a) + i]
    BY <1>2
  <1> HIDE DEF s
  <1>4. s = b
    BY <1>2, <1>3, SeqEqual
  <1> QED
    BY <1>1, <1>4 DEF s

LEMMA SendInvariant ==
    ASSUME Invariant, NEW r \in Requests, Send(r)
    PROVE  Invariant'
  <1>1. r.bytes \in Seq(Tokens) /\ wire \in Seq(Tokens)
    BY SequencesOfTokens DEF Invariant, Types
  <1>2. wire' \in Seq(Tokens)
    BY <1>1 DEF Send
  <1>3. eager' \in BOOLEAN
    BY DEF Send
  <1>4. Types'
    BY <1>2, <1>3 DEF Invariant, Types, IsQuery, Send
  <1>5. Quiet /\ pc \notin Gone /\ pc' = pc
    BY DEF Send, Quiet, PeerMoves, Gone
  <1>6. Counting'
    BY DEF Counting, Invariant, Send
  <1> QED
    BY <1>4, <1>5, <1>6, QuietInvariant

LEMMA ReceiveInvariant ==
    ASSUME Invariant, Receive
    PROVE  Invariant'
  <1>1. received \in Seq(Tokens) /\ inflight \in Seq(Tokens)
    BY DEF Invariant, Types
  <1>2. received' \in Seq(Tokens) /\ inflight' = <<>>
    BY <1>1 DEF Receive
  <1>3. Types'
    BY <1>2 DEF Invariant, Types, IsQuery, Receive
  <1>4. out' = out /\ pc' = pc /\ peer' = peer /\ jumped' = jumped /\ expected' = expected
    BY DEF Receive
  <1>5. GoodOut(out)' /\ Sending'
    <2>1. Source' = Source
      BY <1>4 DEF Source
    <2> QED
      BY <1>4, <2>1 DEF Invariant, GoodOut, Sending
  <1>6. received' \o inflight' = received \o inflight
    <2>1. received \o inflight \in Seq(Tokens)
      BY <1>1
    <2>2. received' \o inflight' = (received \o inflight) \o <<>>
      BY DEF Receive
    <2> QED
      BY <2>1, <2>2, ConcatEmptySeq
  <1>7. InOrder(received, inflight, out, expected)
            => InOrder(received', inflight', out', expected')
    BY <1>4, <1>6 DEF InOrder
  <1>8. RepliesInOrder'
    BY <1>4, <1>7, OrderUnfolded DEF Invariant
  <1>9. Counting'
    BY DEF Counting, Invariant, Receive
  <1> QED
    BY <1>3, <1>5, <1>8, <1>9 DEF Invariant

LEMMA CloseInvariant ==
    ASSUME Invariant, Close
    PROVE  Invariant'
  <1>1. Types'
    <2>1. <<>> \in Seq(Tokens)
      OBVIOUS
    <2> QED
      BY <2>1 DEF Invariant, Types, IsQuery, Close, history
  <1>2. GoodOut(out)' /\ Sending'
    <2>1. Source' = Source
      BY DEF Source, Close
    <2> QED
      BY <2>1 DEF Invariant, GoodOut, Sending, Close
  <1>3. peer' # "open"
    BY DEF Close
  <1>4. RepliesInOrder'
    BY <1>3, OrderUnfolded
  <1>5. Counting'
    BY DEF Counting, Invariant, Close
  <1> QED
    BY <1>1, <1>2, <1>4, <1>5 DEF Invariant

LEMMA WriteInvariant ==
    ASSUME Invariant, NEW n \in 1 .. Len(Source), Write(n)
    PROVE  Invariant'
  <1> DEFINE src == Source
             k   == out.sent
             b   == Behind(out)
  <1>1. /\ src \in Seq(Tokens) /\ b \in Seq(Tokens) /\ Queued(out) = src \o b /\ src # <<>>
    BY SourceFirst DEF Invariant, Write
  <1>2. GoodOut(out) /\ out \in Outs /\ out.buf \in Seq(Tokens) /\ out.list \in Seq(Additions)
    BY DEF Invariant, GoodOut, Outs
  <1>3. k \in Nat /\ k < Len(src) /\ Len(src) \in Nat
    BY <1>1, <1>2 DEF Invariant, Sending, Outs
  <1>4. n \in 1 .. Len(src) - k /\ n \in Nat /\ n >= 1 /\ k + n <= Len(src)
    BY <1>3 DEF Write
  <1> DEFINE part == SubSeq(src, k + 1, k + n)
  <1>5. /\ part \in Seq(Tokens) /\ received \in Seq(Tokens) /\ inflight \in Seq(Tokens)
    BY <1>1, <1>3, <1>4 DEF Invariant, Types
  <1>6. /\ pc = "send" /\ pc' = pc /\ peer' = peer /\ jumped' = jumped
        /\ expected' = expected /\ received' = received
        /\ wire' = wire /\ q' = q /\ pos' = pos /\ errno' = errno /\ eager' = eager
        /\ inflight' = IF peer = "open" THEN inflight \o part ELSE inflight
        /\ out' = IF k + n = Len(src) THEN Sent(out) ELSE Advanced(out, n)
    BY DEF Write, history
  <1>7. Types'
    <2>1. inflight' \in Seq(Tokens)
      BY <1>5, <1>6, ConcatProperties
    <2> HIDE DEF part, src, k
    <2> QED
      BY <1>6, <2>1 DEF Invariant, Types, IsQuery
  <1> HIDE DEF src, k, b
  <1>11. k + n = Len(src) =>
             SubSeq(b, 0 + 1, Len(b)) = SubSeq(src \o b, k + n + 1, Len(src \o b))
    <2>1. 0 + 1 = 1
      OBVIOUS
    <2> QED
      BY <1>1, <2>1, SuffixBehind
  <1>8. GoodOut(out') /\ Sending'
        /\ SubSeq(Queued(out'), out'.sent + 1, Len(Queued(out')))
               = SubSeq(src \o b, k + n + 1, Len(src \o b))
    <2>1. CASE k + n # Len(src)
      <3>1. out' = [out EXCEPT !.sent = k + n]
        BY <1>6, <2>1 DEF Advanced, k
      <3>2. /\ out' \in Outs /\ out'.sent = k + n /\ out'.buf = out.buf /\ out'.list = out.list
        <4>1. k + n \in Nat
          BY <1>3, <1>4
        <4> QED
          BY <1>2, <3>1, <4>1 DEF Outs
      <3>3. GoodOut(out')
        BY <1>2, <3>2 DEF GoodOut
      <3>4. Source' = src
        BY <3>2 DEF Source, src
      <3>5. Sending'
        BY <1>3, <1>4, <1>6, <2>1, <3>2, <3>4 DEF Sending
      <3>6. Queued(out') = src \o b
        BY <1>1, <3>2 DEF Queued, Listed
      <3> QED
        BY <3>2, <3>3, <3>5, <3>6
    <2>2. CASE k + n = Len(src) /\ out.buf # <<>>
      <3>1. out' = [out EXCEPT !.sent = 0, !.buf = <<>>]
        BY <1>6, <2>2 DEF Sent, AtStart
      <3>2. /\ out' \in Outs /\ out'.sent = 0 /\ out'.buf = <<>> /\ out'.list = out.list
        <4>1. /\ out' = [[out EXCEPT !.sent = 0] EXCEPT !.buf = <<>>]
              /\ <<>> \in Seq(Tokens)
          BY <3>1
        <4> DEFINE o == [out EXCEPT !.sent = 0]
        <4>2. o \in Outs /\ o.sent = 0 /\ o.list = out.list
          BY <1>2 DEF Outs
        <4> HIDE DEF o
        <4>3. out' = [o EXCEPT !.buf = <<>>]
          BY <4>1 DEF o
        <4> QED
          BY <4>1, <4>2, <4>3 DEF Outs
      <3>3. GoodOut(out') /\ Sending'
        BY <1>2, <3>2, ClientAssumption DEF GoodOut, Sending
      <3>4. Queued(out') = <<>> \o b /\ <<>> \o b = b
        BY <1>1, <2>2, <3>2, ConcatEmptySeq DEF Queued, Listed, b, Behind
      <3> QED
        BY <1>11, <2>2, <3>2, <3>3, <3>4
    <2>3. CASE k + n = Len(src) /\ out.buf = <<>>
      <3>1. out.list # <<>>
        BY <1>1, <2>3 DEF src, Source
      <3>2. /\ out' \in Outs /\ out'.sent = 0 /\ out'.buf = <<>> /\ out'.list = Tail(out.list)
        <4>1. Tail(out.list) \in Seq(Additions)
          BY <1>2, <3>1
        <4>2. out' = [out EXCEPT !.sent = 0, !.list = Tail(out.list),
                                 !.dangling = Len(out.list) = 1,
                                 !.CRobj = IF Head(out.list).kind = "CRobj" THEN "freed"
                                           ELSE out.CRobj]
          BY <1>2, <1>6, <2>3 DEF Sent, AtStart, Outs
        <4> QED
          BY <1>2, <2>3, <4>1, <4>2 DEF Outs
      <3>3. GoodOut(out') /\ Sending'
        <4>1. \A i \in 1 .. Len(out.list) : out.list[i].bytes # <<>>
          BY <1>2 DEF GoodOut
        <4>2. /\ DOMAIN Tail(out.list) = 1 .. Len(out.list) - 1 /\ Len(out.list) \in Nat
              /\ \A i \in 1 .. Len(out.list) - 1 : Tail(out.list)[i] = out.list[i + 1]
          BY <1>2, <3>1
        <4>3. \A i \in 1 .. Len(out.list) - 1 : Tail(out.list)[i].bytes # <<>>
          BY <4>1, <4>2
        <4> QED
          BY <3>2, <4>2, <4>3, ClientAssumption DEF GoodOut, Sending
      <3>4. Listed(out') = Listed([out EXCEPT !.list = Tail(@)])
        BY <1>2, <3>2 DEF Listed, Outs
      <3>5. Queued(out') = <<>> \o b /\ <<>> \o b = b
        BY <1>1, <2>3, <3>1, <3>2, <3>4, ConcatEmptySeq DEF Queued, b, Behind
      <3> QED
        BY <1>11, <2>3, <3>2, <3>3, <3>5
    <2> QED
      BY <2>1, <2>2, <2>3
  <1>9. ASSUME peer = "open", InOrder(received, inflight, out, expected)
        PROVE  InOrder(received', inflight', out', expected')
    <2> DEFINE s == src \o b
               rest == SubSeq(s, k + n + 1, Len(s))
    <2>1. /\ s \in Seq(Tokens) /\ Len(s) \in Nat /\ k + n <= Len(s)
          /\ SubSeq(s, k + 1, k + n) = part
      BY <1>1, <1>3, <1>4 DEF part
    <2>2. SubSeq(s, k + 1, Len(s)) = part \o rest /\ rest \in Seq(Tokens)
      <3>1. /\ k + 1 \in 1 .. Len(s) + 1 /\ k + n \in (k + 1) - 1 .. Len(s)
            /\ Len(s) \in k + n .. Len(s)
        BY <1>3, <1>4, <2>1
      <3> HIDE DEF s
      <3>2. SubSeq(s, k + 1, k + n) \o SubSeq(s, k + n + 1, Len(s)) = SubSeq(s, k + 1, Len(s))
        BY <2>1, <3>1, ConcatAdjacentSubSeq
      <3>3. rest \in Seq(Tokens)
        BY <1>3, <1>4, <2>1
      <3> QED
        BY <2>1, <3>2, <3>3
    <2>3. (received \o inflight) \o (part \o rest) = expected
      BY <1>1, <1>9, <2>2 DEF InOrder, k
    <2> HIDE DEF part, rest
    <2>4. (received \o (inflight \o part)) \o rest = (received \o inflight) \o (part \o rest)
      <3>1. received \o (inflight \o part) = (received \o inflight) \o part
        BY <1>5, ConcatAssociative
      <3>2. received \o inflight \in Seq(Tokens)
        BY <1>5
      <3> DEFINE a == received \o inflight
      <3>4. a \in Seq(Tokens) /\ part \in Seq(Tokens) /\ rest \in Seq(Tokens)
        BY <1>5, <2>2, <3>2
      <3> HIDE DEF a
      <3>3. (a \o part) \o rest = a \o (part \o rest)
        BY <3>4, ConcatAssociative
      <3> QED
        BY <3>1, <3>3 DEF a
    <2>5. (received' \o inflight') \o rest = expected'
      BY <1>6, <1>9, <2>3, <2>4
    <2> QED
      BY <1>8, <2>5 DEF InOrder, rest
  <1>10. RepliesInOrder'
    <2>1. pc \notin Gone
      BY <1>6 DEF Gone
    <2> QED
      BY <1>6, <1>9, <2>1, OrderUnfolded DEF Invariant
  <1>12. GoodOut(out)'
    BY <1>8 DEF GoodOut
  <1>13. Counting'
    BY <1>6 DEF Counting
  <1> QED
    BY <1>7, <1>8, <1>10, <1>12, <1>13 DEF Invariant

LEMMA SendEndInvariant ==
    ASSUME Invariant, SendEnd
    PROVE  Invariant'
  <1>1. out' = [out EXCEPT !.armed = FALSE] /\ out \in Outs /\ Source = <<>>
    BY DEF Invariant, GoodOut, SendEnd
  <1>2. out' \in Outs /\ out'.sent = out.sent /\ out'.buf = out.buf /\ out'.list = out.list
    BY <1>1 DEF Outs
  <1>3. GoodOut(out)'
    BY <1>2 DEF Invariant, GoodOut
  <1>4. out.sent = 0
    <2>1. Len(Source) = 0 /\ out.sent \in Nat
      BY <1>1 DEF Outs
    <2> QED
      BY <2>1 DEF Invariant, Sending
  <1>5. Sending'
    BY <1>2, <1>4 DEF Sending
  <1>6. Types'
    BY DEF Invariant, Types, IsQuery, SendEnd, conn, history, PCs
  <1>7. Queued(out') = Queued(out)
    BY <1>2 DEF Queued, Listed
  <1>8. RepliesInOrder'
    BY <1>2, <1>7, OrderUnfolded DEF Invariant, InOrder, SendEnd, conn, history, Gone
  <1>9. Counting'
    BY DEF Counting, SendEnd
  <1> QED
    BY <1>3, <1>5, <1>6, <1>8, <1>9 DEF Invariant

-------------------------------------------------------------------------------
(* Reading and parsing. *)

LEMMA TrimmedType ==
    ASSUME IsQuery(q), NEW n \in Int, n >= 0
    PROVE  Trimmed(n) \in Seq(Tokens)
  <1>1. q.buf \in Seq(Tokens)
    BY DEF IsQuery
  <1> QED
    BY <1>1 DEF Trimmed

(* A change of some fields of the client is a client again. *)
LEMMA QueryType ==
    ASSUME NEW b \in Seq(Tokens), NEW t \in {"unknown", "inline", "multibulk"},
           NEW m \in Nat, NEW l \in Nat, NEW a
    PROVE  IsQuery([buf |-> b, type |-> t, multibulklen |-> m, bulklen |-> l, argv |-> a])
  BY DEF IsQuery

LEMMA QueryFields ==
    ASSUME NEW x, IsQuery(x)
    PROVE  /\ x.buf \in Seq(Tokens) /\ x.type \in {"unknown", "inline", "multibulk"}
           /\ x.multibulklen \in Nat /\ x.bulklen \in Nat
           /\ x = [buf |-> x.buf, type |-> x.type, multibulklen |-> x.multibulklen,
                   bulklen |-> x.bulklen, argv |-> x.argv]
  BY DEF IsQuery

LEMMA EmptyQueryType == IsQuery(EmptyQuery) /\ IsQuery(Reset)
  <1>1. <<>> \in Seq(Tokens) /\ 0 \in Nat
    OBVIOUS
  <1> QED
    BY <1>1, QueryType DEF EmptyQuery, Reset

LEMMA WaitInvariant ==
    ASSUME Invariant, pc \notin Gone \cup {"send"}, NEW x, IsQuery(x), Wait(x)
    PROVE  Invariant'
  <1>1. Types'
    BY DEF Invariant, Types, Wait, conn, history, PCs
  <1>2. Quiet
    BY DEF Quiet, Wait, conn, history
  <1>3. Counting'
    BY DEF Counting, Wait
  <1> QED
    BY <1>1, <1>2, <1>3, QuietInvariant

LEMMA RefuseInvariant ==
    ASSUME Invariant, pc \notin Gone \cup {"send"}, Refuse
    PROVE  Invariant'
  <1>1. IsQuery(q')
    BY EmptyQueryType DEF Refuse
  <1>2. pc' \in {"undefined", "ready", "parse"}
    BY DEF Refuse, Continue
  <1>3. Reply(Error) /\ UNCHANGED <<wire, peer, inflight, errno, pos, eager, received>>
    BY DEF Refuse, conn
  <1>4. Error \in RepliesTo(<<>>) \cup {Error}
    OBVIOUS
  <1> QED
    BY <1>1, <1>2, <1>3, <1>4, ReplyInvariant

LEMMA ReadInvariant ==
    ASSUME Invariant, NEW n \in 1 .. Len(wire), Read(n)
    PROVE  Invariant'
  <1>1. wire \in Seq(Tokens) /\ IsQuery(q)
    BY DEF Invariant, Types
  <1>2. SubSeq(wire, 1, n) \in Seq(Tokens) /\ SubSeq(wire, n + 1, Len(wire)) \in Seq(Tokens)
    BY <1>1
  <1>3. IsQuery(q')
    <2>1. q.buf \o SubSeq(wire, 1, n) \in Seq(Tokens)
      BY <1>1, <1>2, QueryFields, ConcatProperties
    <2> DEFINE b == q.buf \o SubSeq(wire, 1, n)
    <2>2. q' = [q EXCEPT !.buf = b]
      BY DEF Read
    <2> HIDE DEF b
    <2>3. q' = [buf |-> b, type |-> q.type, multibulklen |-> q.multibulklen,
                bulklen |-> q.bulklen, argv |-> q.argv]
      BY <1>1, <2>2, QueryFields
    <2> QED
      BY <1>1, <2>1, <2>3, QueryFields, QueryType DEF b
  <1>4. Types'
    BY <1>2, <1>3 DEF Invariant, Types, Read, history, PCs
  <1>5. Quiet /\ pc \notin Gone \cup {"send"}
    BY DEF Quiet, Read, history, Gone
  <1>6. Counting'
    BY DEF Counting, Read
  <1> QED
    BY <1>4, <1>5, <1>6, QuietInvariant

LEMMA InlineInvariant ==
    ASSUME Invariant, Inline
    PROVE  Invariant'
  <1> DEFINE newline == Index(q.buf, "\n")
             line    == Line(q.buf, newline)
             typed   == [q EXCEPT !.type = "inline"]
  <1>1. pc = "parse" /\ IsQuery(q) /\ q.buf \in Seq(Tokens)
    BY QueryFields DEF Inline, Invariant, Types
  <1>2. pc \notin Gone \cup {"send"}
    BY <1>1 DEF Gone
  <1>3. newline \in 0 .. Len(q.buf) /\ Len(q.buf) \in Nat
    BY <1>1, IndexType
  <1>4. Len(line) \in Nat
    <2>1. newline \in Int
      BY <1>3
    <2> HIDE DEF newline
    <2> QED
      BY <2>1 DEF Line
  <1>5. IsQuery(typed)
    BY <1>1, QueryFields, QueryType
  <1>6. ASSUME RefuseInline
        PROVE  Invariant'
    <2>1. IsQuery(q')
      BY <1>5, <1>6 DEF RefuseInline
    <2>2. pc' \in {"undefined", "ready", "parse"}
      BY <1>6 DEF RefuseInline, Continue
    <2>3. Reply(Error) /\ UNCHANGED <<wire, peer, inflight, errno, pos, eager, received>>
      BY <1>6 DEF RefuseInline, conn
    <2>4. Error \in RepliesTo(<<>>) \cup {Error}
      OBVIOUS
    <2> QED
      BY <1>2, <2>1, <2>2, <2>3, <2>4, ReplyInvariant
  <1>7. ASSUME NEW words,
               q' = [q EXCEPT !.type = "inline", !.buf = Trimmed(Len(line) + 2),
                              !.argv = Words(words.args)],
               pc' = "execute", UNCHANGED <<conn, pos, out, errno, history>>
        PROVE  Invariant'
    <2> DEFINE t == Trimmed(Len(line) + 2)
               a == Words(words.args)
    <2>1. t \in Seq(Tokens)
      <3>1. Len(line) + 2 \in Int /\ Len(line) + 2 >= 0
        <4> HIDE DEF line
        <4> QED
          BY <1>4
      <3> HIDE DEF line
      <3> QED
        BY <1>1, <3>1, TrimmedType
    <2>2. q' = [q EXCEPT !.type = "inline", !.buf = t, !.argv = a]
      BY <1>7
    <2> HIDE DEF t, a
    <2>3. q' = [buf |-> t, type |-> "inline", multibulklen |-> q.multibulklen,
                bulklen |-> q.bulklen, argv |-> a]
      <3>1. q = [buf |-> q.buf, type |-> q.type, multibulklen |-> q.multibulklen,
                 bulklen |-> q.bulklen, argv |-> q.argv]
        BY <1>1, QueryFields
      <3> QED
        BY <2>2, <3>1
    <2>4. IsQuery(q')
      BY <1>1, <2>1, <2>3, QueryFields, QueryType
    <2>5. Types'
      BY <1>7, <2>4 DEF Invariant, Types, conn, history, PCs
    <2>6. Quiet /\ Counting'
      BY <1>7 DEF Quiet, conn, history, Counting
    <2> QED
      BY <1>2, <2>5, <2>6, QuietInvariant
  <1>8. \/ RefuseInline
        \/ Wait(typed)
        \/ \E words : /\ q' = [q EXCEPT !.type = "inline", !.buf = Trimmed(Len(line) + 2),
                                        !.argv = Words(words.args)]
                      /\ pc' = "execute" /\ UNCHANGED <<conn, pos, out, errno, history>>
    <2> HIDE DEF newline
    <2> QED
      BY DEF Inline, newline
  <1> HIDE DEF typed
  <1>9. Wait(typed) => Invariant'
    BY <1>2, <1>5, WaitInvariant
  <1> QED
    BY <1>6, <1>7, <1>8, <1>9

(* The parser of multibulk requests moves on. *)
LEMMA ParsedInvariant ==
    ASSUME Invariant, pc \notin Gone \cup {"send"}, IsQuery(q'), pos' \in Nat, Counting',
           pc' \in {"ready", "parse", "length", "argument", "execute"},
           UNCHANGED <<conn, out, errno, history>>
    PROVE  Invariant'
  <1>1. Types'
    BY DEF Invariant, Types, conn, history, PCs
  <1>2. Quiet
    BY DEF Quiet, conn, history
  <1> QED
    BY <1>1, <1>2, QuietInvariant

LEMMA BreakInvariant ==
    ASSUME Invariant, pc \notin Gone \cup {"send"}, Break(q, pos)
    PROVE  Invariant'
  <1>1. IsQuery(q) /\ pos \in Nat
    BY DEF Invariant, Types
  <1> DEFINE t == Trimmed(pos)
  <1>2. t \in Seq(Tokens)
    BY <1>1, TrimmedType
  <1>3. q' = [q EXCEPT !.buf = t]
    BY DEF Break
  <1> HIDE DEF t
  <1>4. IsQuery(q')
    BY <1>1, <1>2, <1>3, QueryFields, QueryType
  <1>5. Counting'
    BY DEF Counting, Break
  <1> QED
    BY <1>1, <1>4, <1>5, ParsedInvariant DEF Break

LEMMA MultibulkLengthInvariant ==
    ASSUME Invariant, MultibulkLength
    PROVE  Invariant'
  <1> DEFINE newline == Index(q.buf, "\r")
             count   == Num!String2ll(SubSeq(q.buf, 2, newline - 1))
  <1>1. pc = "parse" /\ IsQuery(q) /\ q.buf \in Seq(Tokens) /\ pos \in Nat
    BY QueryFields DEF MultibulkLength, Invariant, Types
  <1>2. pc \notin Gone \cup {"send"}
    BY <1>1 DEF Gone
  <1>3. newline \in 0 .. Len(q.buf) /\ Len(q.buf) \in Nat
    BY <1>1, IndexType
  <1>4. count.value \in Int
    <2> DEFINE s == SubSeq(q.buf, 2, newline - 1)
    <2>1. s \in Seq(Tokens)
      <3> HIDE DEF newline
      <3> QED
        BY <1>1, <1>3
    <2> HIDE DEF s, newline
    <2> QED
      BY <2>1, NumberType DEF s
  <1>5. IsQuery(Typed)
    BY <1>1, QueryFields, QueryType DEF Typed
  <1>6. IsQuery(Reset)
    BY EmptyQueryType
  <1> HIDE DEF newline, count
  <1>7. \/ pos' = 0 /\ q' = q /\ pc' \in {"length", "argument"} /\ q.multibulklen # 0
           /\ UNCHANGED <<conn, out, errno, history>>
        \/ Refuse
        \/ Wait(Typed)
        \/ q' = Reset /\ pc' = "parse" /\ pos' = 0 /\ UNCHANGED <<conn, out, errno, history>>
        \/ /\ newline \in 1 .. Len(q.buf) - 1 /\ ~ count.value <= 0
           /\ q' = [Typed EXCEPT !.multibulklen = count.value]
           /\ pc' = "length" /\ pos' = newline + 1
           /\ UNCHANGED <<conn, out, errno, history>>
    BY DEF MultibulkLength, newline, count
  <1>8. CASE pos' = 0 /\ q' = q /\ pc' \in {"length", "argument"} /\ q.multibulklen # 0
             /\ UNCHANGED <<conn, out, errno, history>>
    <2>1. Counting'
      BY <1>8 DEF Counting
    <2> QED
      BY <1>1, <1>2, <1>8, <2>1, ParsedInvariant
  <1>9. CASE Refuse
    BY <1>2, <1>9, RefuseInvariant
  <1>10. CASE Wait(Typed)
    BY <1>2, <1>5, <1>10, WaitInvariant
  <1>11. CASE q' = Reset /\ pc' = "parse" /\ pos' = 0 /\ UNCHANGED <<conn, out, errno, history>>
    <2>1. Counting'
      BY <1>11 DEF Counting
    <2> QED
      BY <1>2, <1>6, <1>11, <2>1, ParsedInvariant
  <1>12. CASE /\ newline \in 1 .. Len(q.buf) - 1 /\ ~ count.value <= 0
              /\ q' = [Typed EXCEPT !.multibulklen = count.value]
              /\ pc' = "length" /\ pos' = newline + 1
              /\ UNCHANGED <<conn, out, errno, history>>
    <2>1. count.value \in Nat
      BY <1>4, <1>12
    <2>2. IsQuery(q')
      <3> DEFINE x == Typed
      <3> HIDE DEF x
      <3>1. x = [buf |-> x.buf, type |-> x.type, multibulklen |-> x.multibulklen,
                 bulklen |-> x.bulklen, argv |-> x.argv]
        BY <1>5, QueryFields DEF x
      <3>2. q' = [x EXCEPT !.multibulklen = count.value]
        BY <1>12 DEF x
      <3>3. q' = [buf |-> x.buf, type |-> x.type, multibulklen |-> count.value,
                  bulklen |-> x.bulklen, argv |-> x.argv]
        BY <3>1, <3>2
      <3> QED
        BY <1>5, <2>1, <3>3, QueryFields, QueryType DEF x
    <2>3. pos' \in Nat
      BY <1>3, <1>12
    <2>4. Counting'
      <3>1. q'.multibulklen = count.value
        BY <1>5, <1>12 DEF IsQuery
      <3>2. count.value # 0
        BY <1>12
      <3> QED
        BY <3>1, <3>2 DEF Counting
    <2> QED
      BY <1>2, <1>12, <2>2, <2>3, <2>4, ParsedInvariant
  <1> QED
    BY <1>7, <1>8, <1>9, <1>10, <1>11, <1>12

LEMMA BulkLengthInvariant ==
    ASSUME Invariant, BulkLength
    PROVE  Invariant'
  <1> DEFINE rest    == Trimmed(pos)
             newline == Index(rest, "\r")
             length  == Num!String2ll(SubSeq(rest, 2, newline - 1))
  <1>1. pc = "length" /\ IsQuery(q) /\ pos \in Nat
    BY DEF BulkLength, Invariant, Types
  <1>2. pc \notin Gone \cup {"send"}
    BY <1>1 DEF Gone
  <1>3. rest \in Seq(Tokens)
    BY <1>1, TrimmedType
  <1> HIDE DEF rest
  <1>4. newline \in 0 .. Len(rest) /\ Len(rest) \in Nat
    BY <1>3, IndexType
  <1> HIDE DEF newline
  <1>5. length.value \in Int
    <2> DEFINE s == SubSeq(rest, 2, newline - 1)
    <2>1. s \in Seq(Tokens)
      BY <1>3, <1>4
    <2> HIDE DEF s
    <2> QED
      BY <2>1, NumberType DEF s
  <1> HIDE DEF length
  <1>6. \/ Refuse
        \/ Break(q, pos)
        \/ /\ newline \in 1 .. Len(rest) - 1 /\ length.value >= 0
           /\ \/ pos' = pos + newline + 1 /\ q' = [q EXCEPT !.bulklen = length.value]
              \/ /\ pos' = 0
                 /\ q' = [q EXCEPT !.bulklen = length.value,
                                   !.buf = Trimmed(pos + newline + 1)]
           /\ pc' = "argument"
           /\ UNCHANGED <<conn, out, errno, history>>
    BY DEF BulkLength, GoodLength, rest, newline, length
  <1>7. CASE Refuse
    BY <1>2, <1>7, RefuseInvariant
  <1>8. CASE Break(q, pos)
    BY <1>2, <1>8, BreakInvariant
  <1>9. CASE /\ newline \in 1 .. Len(rest) - 1 /\ length.value >= 0
             /\ \/ pos' = pos + newline + 1 /\ q' = [q EXCEPT !.bulklen = length.value]
                \/ /\ pos' = 0
                   /\ q' = [q EXCEPT !.bulklen = length.value,
                                     !.buf = Trimmed(pos + newline + 1)]
             /\ pc' = "argument"
             /\ UNCHANGED <<conn, out, errno, history>>
    <2> DEFINE t == Trimmed(pos + newline + 1)
    <2>1. length.value \in Nat
      BY <1>5, <1>9
    <2>2. pos' \in Nat
      BY <1>1, <1>4, <1>9
    <2>3. t \in Seq(Tokens)
      <3>1. pos + newline + 1 \in Int /\ pos + newline + 1 >= 0
        BY <1>1, <1>4
      <3> QED
        BY <1>1, <3>1, TrimmedType
    <2> DEFINE With(b) == [buf |-> b, type |-> q.type, multibulklen |-> q.multibulklen,
                           bulklen |-> length.value, argv |-> q.argv]
    <2>4. q' = With(q.buf) \/ q' = With(t)
      <3>1. q' = [q EXCEPT !.bulklen = length.value]
            \/ q' = [q EXCEPT !.bulklen = length.value, !.buf = t]
        BY <1>9
      <3> HIDE DEF t
      <3>2. q = [buf |-> q.buf, type |-> q.type, multibulklen |-> q.multibulklen,
                 bulklen |-> q.bulklen, argv |-> q.argv]
        BY <1>1, QueryFields
      <3> QED
        BY ONLY <3>1, <3>2
    <2> HIDE DEF t
    <2>5. IsQuery(q')
      <3>1. IsQuery(With(q.buf)) /\ IsQuery(With(t))
        BY <1>1, <2>1, <2>3, QueryFields, QueryType
      <3> HIDE DEF With
      <3> QED
        BY <2>4, <3>1
    <2>6. Counting'
      <3>1. q'.multibulklen = q.multibulklen
        BY <2>4
      <3> QED
        BY <1>1, <3>1 DEF Counting, Invariant
    <2> QED
      BY <1>2, <1>9, <2>2, <2>5, <2>6, ParsedInvariant
  <1> QED
    BY <1>6, <1>7, <1>8, <1>9

LEMMA NextArgumentInvariant ==
    ASSUME Invariant, pc \notin Gone \cup {"send"}, NEW query, IsQuery(query),
           NEW p \in Nat, NextArgument(query, p)
    PROVE  Invariant'
  <1> DEFINE t == SubSeq(query.buf, p + 1, Len(query.buf))
  <1>1. t \in Seq(Tokens)
    BY QueryFields
  <1>2. query = [buf |-> query.buf, type |-> query.type, multibulklen |-> query.multibulklen,
                 bulklen |-> query.bulklen, argv |-> query.argv]
    BY QueryFields
  <1>3. \/ q' = [query EXCEPT !.buf = t] /\ pc' = "execute"
        \/ q' = query /\ pc' = "length" /\ query.multibulklen # 0
    BY <1>2 DEF NextArgument
  <1> HIDE DEF t
  <1>4. IsQuery(q')
    <2>1. IsQuery([query EXCEPT !.buf = t])
      BY <1>1, QueryFields, QueryType
    <2> QED
      BY <1>3, <2>1
  <1>5. Counting'
    BY <1>3 DEF Counting
  <1> QED
    BY <1>3, <1>4, <1>5, ParsedInvariant DEF NextArgument

LEMMA BulkArgumentInvariant ==
    ASSUME Invariant, BulkArgument
    PROVE  Invariant'
  <1> DEFINE end == pos + q.bulklen
             a   == Append(q.argv, SubSeq(q.buf, pos + 1, end))
             m   == q.multibulklen - 1
             next == [q EXCEPT !.argv = Append(@, SubSeq(q.buf, pos + 1, end)),
                               !.bulklen = 0, !.multibulklen = @ - 1]
  <1>1. pc = "argument" /\ IsQuery(q) /\ pos \in Nat
    BY DEF BulkArgument, Invariant, Types
  <1>2. pc \notin Gone \cup {"send"}
    BY <1>1 DEF Gone
  <1>3. end \in Nat /\ m \in Nat
    <2>1. q.multibulklen \in Nat /\ q.bulklen \in Nat
      BY <1>1, QueryFields
    <2>2. q.multibulklen # 0
      BY <1>1 DEF Counting, Invariant
    <2> QED
      BY <1>1, <2>1, <2>2
  <1> HIDE DEF end, m, a
  <1>5. next = [buf |-> q.buf, type |-> q.type, multibulklen |-> m, bulklen |-> 0, argv |-> a]
    <2>1. q = [buf |-> q.buf, type |-> q.type, multibulklen |-> q.multibulklen,
               bulklen |-> q.bulklen, argv |-> q.argv]
      BY <1>1, QueryFields
    <2>2. next = [q EXCEPT !.argv = a, !.bulklen = 0, !.multibulklen = m]
      BY <2>1 DEF a, m
    <2> HIDE DEF next
    <2> QED
      BY <2>1, <2>2
  <1> HIDE DEF next
  <1>6. IsQuery(next)
    BY <1>1, <1>3, <1>5, QueryFields, QueryType
  <1>7. \/ Break(q, pos)
        \/ NextArgument([next EXCEPT !.buf = <<>>], 0)
        \/ NextArgument(next, end + 2)
    BY DEF BulkArgument, end, next
  <1>8. CASE Break(q, pos)
    BY <1>2, <1>8, BreakInvariant
  <1>9. CASE NextArgument([next EXCEPT !.buf = <<>>], 0)
    <2>1. <<>> \in Seq(Tokens) /\ 0 \in Nat
      OBVIOUS
    <2>2. IsQuery([next EXCEPT !.buf = <<>>])
      <3>1. [next EXCEPT !.buf = <<>>]
                = [buf |-> <<>>, type |-> q.type, multibulklen |-> m, bulklen |-> 0, argv |-> a]
        BY <1>5
      <3>2. IsQuery([buf |-> <<>>, type |-> q.type, multibulklen |-> m, bulklen |-> 0,
                     argv |-> a])
        BY <1>1, <1>3, <2>1, QueryFields, QueryType
      <3> QED
        BY ONLY <3>1, <3>2
    <2> QED
      BY <1>2, <1>9, <2>1, <2>2, NextArgumentInvariant
  <1>10. CASE NextArgument(next, end + 2)
    <2>1. end + 2 \in Nat
      BY <1>3
    <2> QED
      BY <1>2, <1>6, <1>10, <2>1, NextArgumentInvariant
  <1> QED
    BY <1>7, <1>8, <1>9, <1>10

LEMMA ExecuteInvariant ==
    ASSUME Invariant, Execute
    PROVE  Invariant'
  <1>1. pc = "execute" /\ IsQuery(q') /\ pos \in Nat
    BY EmptyQueryType DEF Execute, Invariant, Types
  <1>2. pc \notin Gone \cup {"send"}
    BY <1>1 DEF Gone
  <1>3. UNCHANGED <<wire, peer, inflight, errno, pos, eager, received>>
    BY DEF Execute, conn
  <1>4. CASE q.argv = <<>>
    <2>1. UNCHANGED <<out, expected, jumped>> /\ pc' = "parse"
      BY <1>4 DEF Execute
    <2>2. Types'
      BY <1>1, <1>3, <2>1 DEF Invariant, Types, PCs
    <2>3. Quiet /\ Counting'
      BY <1>3, <2>1 DEF Quiet, Counting
    <2> QED
      BY <1>2, <2>1, <2>2, <2>3, QuietInvariant
  <1>5. CASE q.argv # <<>>
    <2>1. PICK adds \in RepliesTo(q.argv) : Reply(adds)
      BY <1>5 DEF Execute
    <2>2. pc' \in {"undefined", "ready", "parse"}
      BY <1>5 DEF Execute, Continue
    <2>3. adds \in RepliesTo(q.argv) \cup {Error}
      OBVIOUS
    <2> QED
      BY <1>1, <1>2, <1>3, <2>1, <2>2, <2>3, ReplyInvariant
  <1> QED
    BY <1>4, <1>5

-------------------------------------------------------------------------------
(* The theorems. *)

LEMMA InitInvariant ==
    ASSUME Init
    PROVE  Invariant
  <1>1. /\ out = [buf |-> <<>>, list |-> <<>>, sent |-> 0, armed |-> FALSE,
                  dangling |-> FALSE, CRobj |-> "live", undefined |-> FALSE]
        /\ received = <<>> /\ inflight = <<>> /\ expected = <<>> /\ wire = <<>>
    BY DEF Init
  <1>2. <<>> \in Seq(Tokens) /\ <<>> \in Seq(Additions) /\ Len(<<>>) = 0 /\ DOMAIN <<>> = {}
    OBVIOUS
  <1>3. out \in Outs /\ out.buf = <<>> /\ out.list = <<>> /\ out.sent = 0
    BY <1>1, <1>2 DEF Outs
  <1>4. GoodOut(out)
    BY <1>2, <1>3, ClientAssumption DEF GoodOut
  <1>5. Types
    BY <1>1, <1>2, EmptyQueryType DEF Init, Types, PCs
  <1>6. Sending /\ Counting
    BY <1>3 DEF Sending, Counting, Init
  <1>7. Listed(out) = <<>>
    BY <1>3 DEF Listed
  <1>8. Queued(out) = <<>>
    BY <1>3, <1>7, FlattenEmpty DEF Queued
  <1>9. InOrder(received, inflight, out, expected)
    BY <1>1, <1>3, <1>8 DEF InOrder
  <1> QED
    BY <1>4, <1>5, <1>6, <1>9, OrderUnfolded DEF Invariant

LEMMA StepInvariant ==
    ASSUME Invariant, [Next]_vars
    PROVE  Invariant'
  <1>1. ASSUME NEW r \in Requests, Send(r)
        PROVE  Invariant'
    BY <1>1, SendInvariant
  <1>2. CASE Receive
    BY <1>2, ReceiveInvariant
  <1>3. CASE Close
    BY <1>3, CloseInvariant
  <1>4. ASSUME NEW n \in 1 .. Len(wire), Read(n)
        PROVE  Invariant'
    BY <1>4, ReadInvariant
  <1>5. CASE ReadEnd
    <2>1. Types' /\ Counting'
      BY <1>5 DEF Invariant, Types, ReadEnd, AtEnd, conn, history, PCs, Gone, Counting
    <2>2. Quiet /\ pc \notin Gone \cup {"send"}
      BY <1>5 DEF Quiet, ReadEnd, conn, history, Gone
    <2> QED
      BY <2>1, <2>2, QuietInvariant
  <1>6. CASE ParseEnd
    <2>1. Types' /\ Counting'
      BY <1>6 DEF Invariant, Types, ParseEnd, conn, history, PCs, Counting
    <2>2. Quiet /\ pc \notin Gone \cup {"send"}
      BY <1>6 DEF Quiet, ParseEnd, conn, history, Gone
    <2> QED
      BY <2>1, <2>2, QuietInvariant
  <1>7. CASE Inline
    BY <1>7, InlineInvariant
  <1>8. CASE MultibulkLength
    BY <1>8, MultibulkLengthInvariant
  <1>9. CASE BulkLength
    BY <1>9, BulkLengthInvariant
  <1>10. CASE BulkArgument
    BY <1>10, BulkArgumentInvariant
  <1>11. CASE Execute
    BY <1>11, ExecuteInvariant
  <1>12. CASE Writable
    <2>1. Types' /\ Counting'
      BY <1>12 DEF Invariant, Types, Writable, conn, history, PCs, Counting
    <2>2. Quiet /\ pc \notin Gone \cup {"send"}
      BY <1>12 DEF Quiet, Writable, conn, history, Gone
    <2> QED
      BY <2>1, <2>2, QuietInvariant
  <1>13. ASSUME NEW n \in 1 .. Len(Source), Write(n)
         PROVE  Invariant'
    BY <1>13, WriteInvariant
  <1>14. CASE WriteBlocked
    <2>1. Types' /\ Counting'
      BY <1>14 DEF Invariant, Types, WriteBlocked, conn, history, PCs, Counting
    <2>2. Quiet /\ pc \notin Gone /\ pc' = "send"
      BY <1>14 DEF Quiet, WriteBlocked, conn, history, Gone
    <2> QED
      BY <2>1, <2>2, QuietInvariant
  <1>15. CASE WriteFails
    <2>1. Types' /\ Counting'
      BY <1>15 DEF Invariant, Types, WriteFails, conn, history, PCs, Gone, Counting
    <2>2. Quiet /\ pc \notin Gone /\ pc' \in Gone
      BY <1>15 DEF Quiet, WriteFails, conn, history, Gone
    <2> QED
      BY <2>1, <2>2, QuietInvariant
  <1>16. CASE SendEnd
    BY <1>16, SendEndInvariant
  <1>17. CASE UNCHANGED vars
    <2>1. /\ UNCHANGED <<wire, peer, inflight, q, pos, pc, out, errno>>
          /\ UNCHANGED <<eager, expected, received, jumped>>
      BY <1>17 DEF vars, conn, history
    <2>2. Types' /\ Counting' /\ GoodOut(out)' /\ Sending'
      BY <2>1 DEF Invariant, Types, Counting, GoodOut, Sending, Source, IsQuery
    <2>3. RepliesInOrder'
      BY <2>1, OrderUnfolded DEF Invariant
    <2> QED
      BY <2>2, <2>3 DEF Invariant
  <1> QED
    BY <1>1, <1>2, <1>3, <1>4, <1>5, <1>6, <1>7, <1>8, <1>9, <1>10, <1>11, <1>12,
       <1>13, <1>14, <1>15, <1>16, <1>17 DEF Next, Server

(* In every state of every behaviour of a connection. *)
THEOREM InvariantHolds == Spec => []Invariant
  BY InitInvariant, StepInvariant, PTL DEF Spec

(* TypeOK: sendlen is a position inside what is being sent, what is being  *)
(* sent is not empty, and the reply buffer is never overrun (prepare-      *)
(* ClientToWrite and the addReply functions, networking.c:73-200).         *)
THEOREM TypeCorrect == Spec => []TypeOK
  <1>1. Invariant => TypeOK
    BY DEF Invariant, Types, IsQuery, GoodOut, Outs, Sending, TypeOK
  <1> QED
    BY <1>1, InvariantHolds, PTL

(* RepliesInOrder: whatever the peer sends, however reads and writes are   *)
(* cut and whenever the socket is full, what was received, what is on its  *)
(* way and what is still to be sent are together the replies made, byte    *)
(* for byte, until a reply has jumped the list (networking.c:73-250).      *)
THEOREM RepliesSentInOrder == Spec => []RepliesInOrder
  BY InvariantHolds, PTL DEF Invariant
=============================================================================
