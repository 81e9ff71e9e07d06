----------------------------- MODULE LibraryProofs ----------------------------
(***************************************************************************)
(* Proofs about the library code: the list, for any number of nodes and    *)
(* any values; the sockets, for any descriptors, addresses and sizes; the  *)
(* strings, for any bytes, widths of the header and lengths; and the skip  *)
(* list, for any number of nodes, levels and powers.                       *)
(***************************************************************************)
EXTENDS Library, Recursion, SequenceTheorems, FiniteSetTheorems

-------------------------------------------------------------------------------
(* The list: a node is put at a place or taken from one. *)

(* The i-th node, or none. *)
At(ord, i) == IF i \in 1 .. Len(ord) THEN ord[i] ELSE 0

Members(ord) == {ord[i] : i \in 1 .. Len(ord)}

Different(ord) == \A i, j \in 1 .. Len(ord) : ord[i] = ord[j] => i = j

Links == List!Ids \cup {0}

NodeType == [prev : Links, next : Links, value : Values]

LinkedAs(ns, ord) ==
    \A i \in 1 .. Len(ord) :
        ns[ord[i]].prev = At(ord, i - 1) /\ ns[ord[i]].next = At(ord, i + 1)

(* The nodes are those of the list of that order, with their pointers. *)
IsList(ns, ord) ==
    /\ ord \in Seq(List!Ids)
    /\ Different(ord)
    /\ ns \in [Members(ord) -> NodeType]
    /\ LinkedAs(ns, ord)

(* A new node at a place. *)
Put(ns, ord, at, new, value) ==
    [n \in DOMAIN ns \cup {new} |->
        IF n = new THEN [prev |-> At(ord, at - 1), next |-> At(ord, at), value |-> value]
        ELSE [prev  |-> IF n = At(ord, at) THEN new ELSE ns[n].prev,
              next  |-> IF n = At(ord, at - 1) THEN new ELSE ns[n].next,
              value |-> ns[n].value]]

(* Without the node at a place. *)
Take(ns, ord, at) ==
    [n \in DOMAIN ns \ {ord[at]} |->
        [prev  |-> IF n = At(ord, at + 1) THEN At(ord, at - 1) ELSE ns[n].prev,
         next  |-> IF n = At(ord, at - 1) THEN At(ord, at + 1) ELSE ns[n].next,
         value |-> ns[n].value]]

LEMMA MemberFacts ==
    ASSUME NEW ns, NEW ord, IsList(ns, ord)
    PROVE  /\ DOMAIN ns = Members(ord)
           /\ Members(ord) \subseteq List!Ids /\ 0 \notin Members(ord)
           /\ \A i \in 1 .. Len(ord) : ord[i] \in Members(ord) /\ ord[i] # 0
           /\ \A i, j \in 1 .. Len(ord) : ord[i] = ord[j] => i = j
           /\ Len(ord) \in Nat
           /\ ord # <<>> <=> Len(ord) # 0
  <1>1. ord \in Seq(List!Ids) /\ Len(ord) \in Nat /\ \A i \in 1 .. Len(ord) : ord[i] \in List!Ids
    BY DEF IsList
  <1>2. 0 \notin List!Ids
    BY DEF List!Ids
  <1>3. ord # <<>> <=> Len(ord) # 0
    BY <1>1
  <1> QED
    BY <1>1, <1>2, <1>3 DEF IsList, Members, Different

(* The two sequences, one after the other. *)
Joined(p, q, r) ==
    /\ Len(r) = Len(p) + Len(q)
    /\ \A i \in 1 .. Len(p) + Len(q) : r[i] = IF i <= Len(p) THEN p[i] ELSE q[i - Len(p)]

LEMMA Join ==
    ASSUME NEW S, NEW p \in Seq(S), NEW q \in Seq(S)
    PROVE  p \o q \in Seq(S) /\ Joined(p, q, p \o q)
  BY DEF Joined

LEMMA Slice ==
    ASSUME NEW S, NEW p \in Seq(S), NEW a \in 1 .. Len(p) + 1, NEW b \in 0 .. Len(p), a <= b + 1
    PROVE  /\ SubSeq(p, a, b) \in Seq(S) /\ Len(SubSeq(p, a, b)) = b + 1 - a
           /\ \A i \in 1 .. b + 1 - a : SubSeq(p, a, b)[i] = p[a + i - 1]
  OBVIOUS

LEMMA InsertedOrder ==
    ASSUME NEW S, NEW ord \in Seq(S), NEW new \in S, NEW at \in 1 .. Len(ord) + 1
    PROVE  /\ List!InsertAt(ord, at, new) \in Seq(S)
           /\ Len(List!InsertAt(ord, at, new)) = Len(ord) + 1
           /\ \A i \in 1 .. Len(ord) + 1 :
                  List!InsertAt(ord, at, new)[i]
                      = IF i < at THEN ord[i] ELSE IF i = at THEN new ELSE ord[i - 1]
  <1> DEFINE p == SubSeq(ord, 1, at - 1)
             q == SubSeq(ord, at, Len(ord))
             r == <<new>>
             pr == p \o r
             o == pr \o q
             n == Len(ord)
  <1>1. at \in Nat /\ n \in Nat /\ 1 <= at /\ at <= n + 1
    OBVIOUS
  <1>2. p \in Seq(S) /\ Len(p) = at - 1 /\ \A i \in 1 .. at - 1 : p[i] = ord[i]
    BY <1>1
  <1>3. /\ q \in Seq(S) /\ Len(q) = n + 1 - at
        /\ \A i \in 1 .. n + 1 - at : q[i] = ord[at + i - 1]
    BY <1>1
  <1>4. r \in Seq(S) /\ Len(r) = 1 /\ r[1] = new
    OBVIOUS
  <1>5. List!InsertAt(ord, at, new) = o
    BY DEF List!InsertAt
  <1> HIDE DEF p, q, r
  <1>6. pr \in Seq(S) /\ Joined(p, r, pr)
    BY <1>2, <1>4, Join
  <1> HIDE DEF pr
  <1>7. o \in Seq(S) /\ Joined(pr, q, o)
    BY <1>3, <1>6, Join
  <1> HIDE DEF o, n
  <1>8. Len(pr) = at /\ \A i \in 1 .. at : pr[i] = IF i <= at - 1 THEN p[i] ELSE r[i - (at - 1)]
    BY ONLY <1>1, <1>2, <1>4, <1>6 DEF Joined
  <1>9. \A i \in 1 .. at : pr[i] = IF i < at THEN ord[i] ELSE new
    <2> SUFFICES ASSUME NEW i \in 1 .. at
                 PROVE  pr[i] = IF i < at THEN ord[i] ELSE new
      OBVIOUS
    <2>1. CASE i < at
      BY ONLY <1>1, <1>2, <1>8, <2>1, i \in 1 .. at
    <2>2. CASE i = at
      <3>1. i - (at - 1) = 1 /\ ~ i <= at - 1
        BY ONLY <1>1, <2>2
      <3> QED
        BY ONLY <1>4, <1>8, <2>2, <3>1, i \in 1 .. at
    <2> QED
      BY <1>1, <2>1, <2>2
  <1>10. /\ Len(o) = n + 1
         /\ \A i \in 1 .. n + 1 : o[i] = IF i <= at THEN pr[i] ELSE q[i - at]
    <2>1. at + (n + 1 - at) = n + 1
      BY ONLY <1>1
    <2> QED
      BY ONLY <1>3, <1>7, <1>8, <2>1 DEF Joined
  <1>11. ASSUME NEW i \in 1 .. n + 1
         PROVE  o[i] = IF i < at THEN ord[i] ELSE IF i = at THEN new ELSE ord[i - 1]
    <2>1. CASE i <= at
      <3>1. i \in 1 .. at /\ o[i] = pr[i]
        BY <1>1, <1>10, <2>1
      <3> QED
        BY ONLY <1>1, <1>9, <2>1, <3>1
    <2>2. CASE i > at
      <3>1. o[i] = q[i - at] /\ i - at \in 1 .. n + 1 - at
        BY ONLY <1>1, <1>10, <2>2, i \in 1 .. n + 1
      <3>2. q[i - at] = ord[at + (i - at) - 1]
        BY ONLY <1>3, <3>1
      <3>3. at + (i - at) - 1 = i - 1 /\ ~ i < at /\ i # at
        BY ONLY <1>1, <2>2, i \in 1 .. n + 1
      <3> QED
        BY ONLY <3>1, <3>2, <3>3
    <2> QED
      BY <1>1, <2>1, <2>2
  <1>12. List!InsertAt(ord, at, new) \in Seq(S) /\ Len(List!InsertAt(ord, at, new)) = n + 1
    BY ONLY <1>5, <1>7, <1>10
  <1> QED
    BY <1>5, <1>11, <1>12 DEF n

LEMMA RemovedOrder ==
    ASSUME NEW S, NEW ord \in Seq(S), NEW at \in 1 .. Len(ord)
    PROVE  /\ List!RemoveAt(ord, at) \in Seq(S)
           /\ Len(List!RemoveAt(ord, at)) = Len(ord) - 1
           /\ \A i \in 1 .. Len(ord) - 1 :
                  List!RemoveAt(ord, at)[i] = IF i < at THEN ord[i] ELSE ord[i + 1]
  <1> DEFINE p == SubSeq(ord, 1, at - 1)
             q == SubSeq(ord, at + 1, Len(ord))
             o == p \o q
             n == Len(ord)
  <1>1. at \in Nat /\ n \in Nat /\ 1 <= at /\ at <= n
    OBVIOUS
  <1>2. p \in Seq(S) /\ Len(p) = at - 1 /\ \A i \in 1 .. at - 1 : p[i] = ord[i]
    BY <1>1
  <1>3. /\ q \in Seq(S) /\ Len(q) = n - at
        /\ \A i \in 1 .. n - at : q[i] = ord[at + i]
    BY <1>1
  <1>4. List!RemoveAt(ord, at) = o
    BY DEF List!RemoveAt
  <1> HIDE DEF p, q
  <1>5. o \in Seq(S) /\ Joined(p, q, o)
    BY <1>2, <1>3, Join
  <1> HIDE DEF o, n
  <1>6. /\ Len(o) = n - 1
        /\ \A i \in 1 .. n - 1 : o[i] = IF i <= at - 1 THEN p[i] ELSE q[i - (at - 1)]
    <2>1. at - 1 + (n - at) = n - 1
      BY ONLY <1>1
    <2> QED
      BY ONLY <1>2, <1>3, <1>5, <2>1 DEF Joined
  <1>7. ASSUME NEW i \in 1 .. n - 1
        PROVE  o[i] = IF i < at THEN ord[i] ELSE ord[i + 1]
    <2>1. CASE i < at
      BY ONLY <1>1, <1>2, <1>6, <2>1, i \in 1 .. n - 1
    <2>2. CASE i >= at
      <3>1. o[i] = q[i - (at - 1)] /\ i - (at - 1) \in 1 .. n - at
        BY ONLY <1>1, <1>6, <2>2, i \in 1 .. n - 1
      <3>2. q[i - (at - 1)] = ord[at + (i - (at - 1))]
        BY ONLY <1>3, <3>1
      <3>3. at + (i - (at - 1)) = i + 1 /\ ~ i < at
        BY ONLY <1>1, <2>2, i \in 1 .. n - 1
      <3> QED
        BY ONLY <3>1, <3>2, <3>3
    <2> QED
      BY <1>1, <2>1, <2>2
  <1>8. List!RemoveAt(ord, at) \in Seq(S) /\ Len(List!RemoveAt(ord, at)) = n - 1
    BY ONLY <1>4, <1>5, <1>6
  <1> QED
    BY <1>4, <1>7, <1>8 DEF n

LEMMA PutIsList ==
    ASSUME NEW ns, NEW ord, IsList(ns, ord), NEW at \in 1 .. Len(ord) + 1,
           NEW new \in List!Ids \ DOMAIN ns, NEW value \in Values
    PROVE  IsList(Put(ns, ord, at, new, value), List!InsertAt(ord, at, new))
  <1> DEFINE o == List!InsertAt(ord, at, new)
             g == Put(ns, ord, at, new, value)
             n == Len(ord)
  <1>1. /\ DOMAIN ns = Members(ord) /\ 0 \notin Members(ord)
        /\ \A i \in 1 .. n : ord[i] \in Members(ord) /\ ord[i] # 0
        /\ \A i, j \in 1 .. n : ord[i] = ord[j] => i = j
        /\ n \in Nat
    BY MemberFacts
  <1>2. new # 0 /\ new \notin Members(ord)
    BY <1>1 DEF List!Ids
  <1>3. at \in Nat /\ at >= 1 /\ at <= n + 1
    BY <1>1
  <1>4. /\ o \in Seq(List!Ids) /\ Len(o) = n + 1
        /\ \A i \in 1 .. n + 1 :
               o[i] = IF i < at THEN ord[i] ELSE IF i = at THEN new ELSE ord[i - 1]
    <2>1. ord \in Seq(List!Ids)
      BY DEF IsList
    <2>2. new \in List!Ids
      OBVIOUS
    <2> QED
      BY <2>1, <2>2, InsertedOrder
  <1> HIDE DEF o, n
  <1>5. Different(o)
    <2> SUFFICES ASSUME NEW i \in 1 .. n + 1, NEW j \in 1 .. n + 1, o[i] = o[j]
                 PROVE  i = j
      BY <1>4 DEF Different
    <2> DEFINE Old(x) == IF x < at THEN x ELSE x - 1
    <2>1. ASSUME NEW x \in 1 .. n + 1, x # at
          PROVE  Old(x) \in 1 .. n /\ o[x] = ord[Old(x)]
      BY ONLY <1>1, <1>3, <1>4, <2>1, x \in 1 .. n + 1
    <2>2. \A x \in 1 .. n + 1 : x # at => o[x] # new
      <3> HIDE DEF Old
      <3> QED
        BY <1>1, <1>2, <2>1
    <2>3. o[at] = new
      BY ONLY <1>1, <1>3, <1>4
    <2>4. CASE i # at /\ j # at
      <3>1. Old(i) = Old(j)
        <4> HIDE DEF Old
        <4> QED
          BY <1>1, <2>1, <2>4
      <3> QED
        BY ONLY <1>1, <1>3, <2>4, <3>1, i \in 1 .. n + 1, j \in 1 .. n + 1
    <2> QED
      BY <2>2, <2>3, <2>4
  <1>6. Members(o) = Members(ord) \cup {new}
    <2>1. \A i \in 1 .. n + 1 : o[i] \in Members(ord) \cup {new}
      BY <1>1, <1>3, <1>4
    <2>2. new \in Members(o)
      BY <1>3, <1>4 DEF Members
    <2>3. ASSUME NEW i \in 1 .. n
          PROVE  ord[i] \in Members(o)
      <3>1. CASE i < at
        BY <1>1, <1>4, <3>1 DEF Members
      <3>2. CASE i >= at
        <4>1. i + 1 \in 1 .. n + 1 /\ o[i + 1] = ord[i]
          BY <1>1, <1>3, <1>4, <3>2
        <4> QED
          BY <1>4, <4>1 DEF Members
      <3> QED
        BY <1>1, <1>3, <3>1, <3>2
    <2> QED
      BY <1>4, <2>1, <2>2, <2>3 DEF Members, n
  <1>7. \A i \in Int : At(o, i) = IF i < at THEN At(ord, i)
                                  ELSE IF i = at THEN new ELSE At(ord, i - 1)
    BY <1>1, <1>3, <1>4 DEF At, n
  <1>8. \A i \in Int : At(ord, i) \in Links
    BY DEF At, Links, IsList
  <1>9. /\ DOMAIN g = Members(ord) \cup {new}
        /\ g[new] = [prev |-> At(ord, at - 1), next |-> At(ord, at), value |-> value]
        /\ \A x \in Members(ord) :
              g[x] = [prev  |-> IF x = At(ord, at) THEN new ELSE ns[x].prev,
                      next  |-> IF x = At(ord, at - 1) THEN new ELSE ns[x].next,
                      value |-> ns[x].value]
        /\ g = [x \in DOMAIN g |-> g[x]]
    BY <1>1, <1>2 DEF Put
  <1> HIDE DEF g
  <1>10. \A x \in Members(ord) : ns[x] \in NodeType
    BY DEF IsList
  <1>11. g \in [Members(o) -> NodeType]
    <2>1. g[new] \in NodeType
      BY <1>3, <1>8, <1>9 DEF NodeType
    <2>2. ASSUME NEW x \in Members(ord)
          PROVE  g[x] \in NodeType
      <3>1. ns[x].prev \in Links /\ ns[x].next \in Links /\ ns[x].value \in Values /\ new \in Links
        BY <1>10 DEF NodeType, Links
      <3> QED
        BY <1>9, <3>1 DEF NodeType
    <2> QED
      BY <1>6, <1>9, <2>1, <2>2
  <1>12. \A i \in 1 .. n : ns[ord[i]].prev = At(ord, i - 1) /\ ns[ord[i]].next = At(ord, i + 1)
    BY DEF IsList, LinkedAs, n
  <1>13. \A i \in 1 .. n : \A j \in Int : ord[i] = At(ord, j) => i = j
    BY <1>1 DEF At, n
  <1>14. ASSUME NEW j \in 1 .. n
         PROVE  /\ g[ord[j]].prev = IF j = at THEN new ELSE At(ord, j - 1)
                /\ g[ord[j]].next = IF j = at - 1 THEN new ELSE At(ord, j + 1)
    <2>1. (ord[j] = At(ord, at)) = (j = at) /\ (ord[j] = At(ord, at - 1)) = (j = at - 1)
      BY <1>1, <1>3, <1>13 DEF At, n
    <2> QED
      BY <1>1, <1>9, <1>12, <2>1
  <1>15. LinkedAs(g, o)
    <2> SUFFICES ASSUME NEW i \in 1 .. n + 1
                 PROVE  g[o[i]].prev = At(o, i - 1) /\ g[o[i]].next = At(o, i + 1)
      BY <1>4 DEF LinkedAs
    <2>0. i \in Nat /\ i - 1 \in Int /\ i + 1 \in Int
      OBVIOUS
    <2>1. CASE i < at
      <3>1. i \in 1 .. n /\ o[i] = ord[i]
        BY <1>1, <1>3, <1>4, <2>1
      <3>2. At(o, i - 1) = At(ord, i - 1)
        BY <1>3, <1>7, <2>0, <2>1
      <3>3. At(o, i + 1) = IF i = at - 1 THEN new ELSE At(ord, i + 1)
        BY <1>3, <1>7, <2>0, <2>1
      <3> QED
        BY <1>3, <1>14, <2>1, <3>1, <3>2, <3>3
    <2>2. CASE i = at
      <3>1. o[i] = new /\ At(o, i - 1) = At(ord, at - 1) /\ At(o, i + 1) = At(ord, at)
        <4>1. o[i] = new
          BY <1>4, <2>2
        <4>2. i - 1 < at /\ ~ i + 1 < at /\ i + 1 # at /\ (i + 1) - 1 = at
          BY <1>3, <2>2
        <4>3. At(o, i - 1) = At(ord, i - 1) /\ At(o, i + 1) = At(ord, (i + 1) - 1)
          BY ONLY <1>7, <2>0, <4>2
        <4> QED
          BY ONLY <2>2, <4>1, <4>2, <4>3
      <3> QED
        BY <1>9, <3>1
    <2>3. CASE i > at
      <3> DEFINE j == i - 1
      <3>1. j \in 1 .. n /\ o[i] = ord[j] /\ i = j + 1
        BY <1>1, <1>3, <1>4, <2>3
      <3>2. At(o, i - 1) = IF j = at THEN new ELSE At(ord, j - 1)
        BY <1>3, <1>7, <2>0, <2>3
      <3>3. At(o, i + 1) = At(ord, j + 1)
        <4>1. i + 1 # at /\ ~ i + 1 < at
          BY <1>3, <2>3
        <4>2. At(o, i + 1) = At(ord, i + 1 - 1)
          BY <1>7, <2>0, <4>1
        <4> QED
          BY <4>2
      <3>4. j # at - 1
        BY <1>3, <2>3
      <3> HIDE DEF j
      <3> QED
        BY <1>14, <3>1, <3>2, <3>3, <3>4
    <2> QED
      BY <1>3, <2>0, <2>1, <2>2, <2>3
  <1> QED
    BY <1>4, <1>5, <1>11, <1>15 DEF IsList, o, g

LEMMA TakeIsList ==
    ASSUME NEW ns, NEW ord, IsList(ns, ord), NEW at \in 1 .. Len(ord)
    PROVE  IsList(Take(ns, ord, at), List!RemoveAt(ord, at))
  <1> DEFINE o == List!RemoveAt(ord, at)
             g == Take(ns, ord, at)
             n == Len(ord)
  <1>1. /\ DOMAIN ns = Members(ord) /\ 0 \notin Members(ord)
        /\ \A i \in 1 .. n : ord[i] \in Members(ord) /\ ord[i] # 0
        /\ \A i, j \in 1 .. n : ord[i] = ord[j] => i = j
        /\ n \in Nat
    BY MemberFacts
  <1>2. at \in Nat /\ at >= 1 /\ at <= n
    BY <1>1
  <1>3. /\ o \in Seq(List!Ids) /\ Len(o) = n - 1
        /\ \A i \in 1 .. n - 1 : o[i] = IF i < at THEN ord[i] ELSE ord[i + 1]
    BY RemovedOrder DEF IsList
  <1> HIDE DEF o, n
  <1> DEFINE Old(i) == IF i < at THEN i ELSE i + 1
  <1>4. \A i \in 1 .. n - 1 : Old(i) \in 1 .. n /\ Old(i) # at /\ o[i] = ord[Old(i)]
    BY ONLY <1>1, <1>2, <1>3
  <1>5. Different(o)
    <2> SUFFICES ASSUME NEW i \in 1 .. n - 1, NEW j \in 1 .. n - 1, o[i] = o[j]
                 PROVE  i = j
      BY <1>3 DEF Different
    <2>1. Old(i) = Old(j)
      <3> HIDE DEF Old
      <3> QED
        BY <1>1, <1>4
    <2> QED
      BY ONLY <1>1, <1>2, <2>1, i \in 1 .. n - 1, j \in 1 .. n - 1
  <1>6. Members(o) = Members(ord) \ {ord[at]}
    <2>1. \A i \in 1 .. n - 1 : o[i] \in Members(ord) \ {ord[at]}
      <3> HIDE DEF Old
      <3> QED
        BY <1>1, <1>2, <1>4
    <2>2. ASSUME NEW i \in 1 .. n, i # at
          PROVE  ord[i] \in Members(o)
      <3>1. CASE i < at
        <4>1. i \in 1 .. n - 1 /\ o[i] = ord[i]
          BY ONLY <1>1, <1>2, <1>3, <3>1, i \in 1 .. n
        <4> QED
          BY <1>3, <4>1 DEF Members
      <3>2. CASE i > at
        <4>1. i - 1 \in 1 .. n - 1 /\ o[i - 1] = ord[i]
          BY ONLY <1>1, <1>2, <1>3, <3>2, i \in 1 .. n
        <4> QED
          BY <1>3, <4>1 DEF Members
      <3> QED
        BY <1>1, <1>2, <2>2, <3>1, <3>2
    <2> QED
      BY <1>3, <2>1, <2>2 DEF Members, n
  <1>7. \A i \in Int : At(o, i) = IF i < at THEN At(ord, i) ELSE At(ord, i + 1)
    BY <1>1, <1>2, <1>3 DEF At, n
  <1>8. \A i \in Int : At(ord, i) \in Links
    BY DEF At, Links, IsList
  <1>9. /\ DOMAIN g = Members(ord) \ {ord[at]}
        /\ \A x \in Members(ord) \ {ord[at]} :
              g[x] = [prev  |-> IF x = At(ord, at + 1) THEN At(ord, at - 1) ELSE ns[x].prev,
                      next  |-> IF x = At(ord, at - 1) THEN At(ord, at + 1) ELSE ns[x].next,
                      value |-> ns[x].value]
        /\ g = [x \in DOMAIN g |-> g[x]]
    BY <1>1 DEF Take
  <1> HIDE DEF g
  <1>10. \A x \in Members(ord) : ns[x] \in NodeType
    BY DEF IsList
  <1>11. g \in [Members(o) -> NodeType]
    <2>1. ASSUME NEW x \in Members(ord) \ {ord[at]}
          PROVE  g[x] \in NodeType
      <3>1. ns[x].prev \in Links /\ ns[x].next \in Links /\ ns[x].value \in Values
        BY <1>10 DEF NodeType
      <3>2. At(ord, at - 1) \in Links /\ At(ord, at + 1) \in Links
        BY <1>2, <1>8
      <3>3. g[x] = [prev  |-> IF x = At(ord, at + 1) THEN At(ord, at - 1) ELSE ns[x].prev,
                    next  |-> IF x = At(ord, at - 1) THEN At(ord, at + 1) ELSE ns[x].next,
                    value |-> ns[x].value]
        BY <1>9
      <3> QED
        BY <3>1, <3>2, <3>3 DEF NodeType
    <2> QED
      BY <1>6, <1>9, <2>1
  <1>12. \A i \in 1 .. n : ns[ord[i]].prev = At(ord, i - 1) /\ ns[ord[i]].next = At(ord, i + 1)
    BY DEF IsList, LinkedAs, n
  <1>13. \A i \in 1 .. n : \A j \in Int : ord[i] = At(ord, j) => i = j
    BY <1>1 DEF At, n
  <1>14. ASSUME NEW j \in 1 .. n, j # at
         PROVE  /\ g[ord[j]].prev = IF j = at + 1 THEN At(ord, at - 1) ELSE At(ord, j - 1)
                /\ g[ord[j]].next = IF j = at - 1 THEN At(ord, at + 1) ELSE At(ord, j + 1)
    <2>1. /\ (ord[j] = At(ord, at + 1)) = (j = at + 1)
          /\ (ord[j] = At(ord, at - 1)) = (j = at - 1)
      BY <1>1, <1>2, <1>13 DEF At, n
    <2>2. ord[j] \in Members(ord) \ {ord[at]}
      BY <1>1, <1>2, <1>14
    <2>3. /\ g[ord[j]].prev = IF ord[j] = At(ord, at + 1) THEN At(ord, at - 1) ELSE ns[ord[j]].prev
          /\ g[ord[j]].next = IF ord[j] = At(ord, at - 1) THEN At(ord, at + 1) ELSE ns[ord[j]].next
      <3>1. ASSUME NEW x \in Members(ord) \ {ord[at]}
            PROVE  /\ g[x].prev = IF x = At(ord, at + 1) THEN At(ord, at - 1) ELSE ns[x].prev
                   /\ g[x].next = IF x = At(ord, at - 1) THEN At(ord, at + 1) ELSE ns[x].next
        <4> DEFINE a == IF x = At(ord, at + 1) THEN At(ord, at - 1) ELSE ns[x].prev
                   b == IF x = At(ord, at - 1) THEN At(ord, at + 1) ELSE ns[x].next
        <4>1. g[x] = [prev |-> a, next |-> b, value |-> ns[x].value]
          BY <1>9
        <4>2. g[x].prev = a /\ g[x].next = b
          <5> HIDE DEF a, b
          <5> QED
            BY <4>1
        <4> QED
          BY <4>2
      <3> QED
        BY <2>2, <3>1
    <2> QED
      BY <1>12, <2>1, <2>3
  <1>15. LinkedAs(g, o)
    <2> SUFFICES ASSUME NEW i \in 1 .. n - 1
                 PROVE  g[o[i]].prev = At(o, i - 1) /\ g[o[i]].next = At(o, i + 1)
      BY <1>3 DEF LinkedAs
    <2>0. i \in Nat /\ i >= 1 /\ i <= n - 1 /\ i - 1 \in Int /\ i + 1 \in Int
      BY <1>1
    <2>1. CASE i < at
      <3>1. i \in 1 .. n /\ i # at /\ o[i] = ord[i] /\ i # at + 1
        BY <1>1, <1>2, <1>3, <2>0, <2>1
      <3>2. At(o, i - 1) = At(ord, i - 1)
        BY <1>2, <1>7, <2>0, <2>1
      <3>3. At(o, i + 1) = IF i = at - 1 THEN At(ord, at + 1) ELSE At(ord, i + 1)
        BY <1>2, <1>7, <2>0, <2>1
      <3> QED
        BY <1>14, <3>1, <3>2, <3>3
    <2>2. CASE i >= at
      <3> DEFINE j == i + 1
      <3>1. j \in 1 .. n /\ j # at /\ o[i] = ord[j] /\ j # at - 1
        BY <1>1, <1>2, <1>3, <2>0, <2>2
      <3>2. At(o, i - 1) = IF j = at + 1 THEN At(ord, at - 1) ELSE At(ord, j - 1)
        <4>1. CASE i = at
          BY <1>2, <1>7, <2>0, <4>1
        <4>2. CASE i > at
          <5>1. ~ i - 1 < at /\ i - 1 + 1 = i /\ j # at + 1 /\ j - 1 = i
            BY <1>2, <2>0, <4>2
          <5>2. At(o, i - 1) = At(ord, i - 1 + 1)
            BY <1>7, <2>0, <5>1
          <5> HIDE DEF j
          <5> QED
            BY <5>1, <5>2
        <4> QED
          BY <1>2, <2>0, <2>2, <4>1, <4>2
      <3>3. At(o, i + 1) = At(ord, j + 1)
        <4>1. ~ i + 1 < at
          BY <1>2, <2>0, <2>2
        <4> QED
          BY <1>7, <2>0, <4>1
      <3> HIDE DEF j
      <3> QED
        BY <1>14, <3>1, <3>2, <3>3
    <2> QED
      BY <1>2, <2>0, <2>1, <2>2
  <1> QED
    BY <1>3, <1>5, <1>11, <1>15 DEF IsList, o, g

-------------------------------------------------------------------------------
(* Nodes, field by field. *)

Nodes(D, a, b, c) == [x \in D |-> [prev |-> a[x], next |-> b[x], value |-> c[x]]]

Prevs(ns) == [x \in DOMAIN ns |-> ns[x].prev]
Nexts(ns) == [x \in DOMAIN ns |-> ns[x].next]
Vals(ns)  == [x \in DOMAIN ns |-> ns[x].value]

(* f, changed at n if there is such a node. *)
Change(f, n, y) == [x \in DOMAIN f |-> IF x = n THEN y ELSE f[x]]

LEMMA Fields ==
    ASSUME NEW ns, NEW ord, IsList(ns, ord)
    PROVE  ns = Nodes(DOMAIN ns, Prevs(ns), Nexts(ns), Vals(ns))
  <1>1. ns \in [DOMAIN ns -> NodeType]
    BY MemberFacts DEF IsList
  <1>2. \A x \in DOMAIN ns :
            ns[x] = [prev |-> ns[x].prev, next |-> ns[x].next, value |-> ns[x].value]
    BY <1>1 DEF NodeType
  <1> QED
    BY <1>1, <1>2 DEF Nodes, Prevs, Nexts, Vals

LEMMA PrevChanged ==
    ASSUME NEW D, NEW a, NEW b, NEW c, DOMAIN a = D, NEW n, n \in D, NEW y
    PROVE  [Nodes(D, a, b, c) EXCEPT ![n].prev = y] = Nodes(D, Change(a, n, y), b, c)
  <1> DEFINE f == Nodes(D, a, b, c)
  <1>1. /\ DOMAIN f = D
        /\ f[n] = [prev |-> a[n], next |-> b[n], value |-> c[n]]
        /\ \A x \in D : f[x] = [prev |-> a[x], next |-> b[x], value |-> c[x]]
    BY DEF Nodes
  <1>2. [f EXCEPT ![n].prev = y] = [f EXCEPT ![n] = [f[n] EXCEPT !.prev = y]]
    OBVIOUS
  <1>3. [f[n] EXCEPT !.prev = y] = [prev |-> y, next |-> b[n], value |-> c[n]]
    BY <1>1
  <1>4. [f EXCEPT ![n] = [prev |-> y, next |-> b[n], value |-> c[n]]]
            = Nodes(D, Change(a, n, y), b, c)
    BY DEF Nodes, Change
  <1> HIDE DEF f
  <1> QED
    BY <1>2, <1>3, <1>4 DEF f

LEMMA NextChanged ==
    ASSUME NEW D, NEW a, NEW b, NEW c, DOMAIN b = D, NEW n, n \in D, NEW y
    PROVE  [Nodes(D, a, b, c) EXCEPT ![n].next = y] = Nodes(D, a, Change(b, n, y), c)
  <1> DEFINE f == Nodes(D, a, b, c)
  <1>1. /\ DOMAIN f = D
        /\ f[n] = [prev |-> a[n], next |-> b[n], value |-> c[n]]
        /\ \A x \in D : f[x] = [prev |-> a[x], next |-> b[x], value |-> c[x]]
    BY DEF Nodes
  <1>2. [f EXCEPT ![n].next = y] = [f EXCEPT ![n] = [f[n] EXCEPT !.next = y]]
    OBVIOUS
  <1>3. [f[n] EXCEPT !.next = y] = [prev |-> a[n], next |-> y, value |-> c[n]]
    BY <1>1
  <1>4. [f EXCEPT ![n] = [prev |-> a[n], next |-> y, value |-> c[n]]]
            = Nodes(D, a, Change(b, n, y), c)
    BY DEF Nodes, Change
  <1> HIDE DEF f
  <1> QED
    BY <1>2, <1>3, <1>4 DEF f

LEMMA Unchanged ==
    ASSUME NEW f, f = [x \in DOMAIN f |-> f[x]], NEW n, n \notin DOMAIN f, NEW y
    PROVE  Change(f, n, y) = f
  BY DEF Change

LEMMA WithIsPut ==
    ASSUME NEW ns, NEW ord, NEW at, NEW value, List!New \notin DOMAIN ns
    PROVE  List!With(Nodes(DOMAIN ns, Change(Prevs(ns), At(ord, at), List!New),
                           Change(Nexts(ns), At(ord, at - 1), List!New), Vals(ns)),
                     List!Node(At(ord, at - 1), At(ord, at), value))
               = Put(ns, ord, at, List!New, value)
  BY DEF List!With, List!Node, Nodes, Change, Prevs, Nexts, Vals, Put

LEMMA FreedIsTake ==
    ASSUME NEW ns, NEW ord, NEW at
    PROVE  List!Freed(Nodes(DOMAIN ns, Change(Prevs(ns), At(ord, at + 1), At(ord, at - 1)),
                            Change(Nexts(ns), At(ord, at - 1), At(ord, at + 1)), Vals(ns)),
                      ord[at])
               = Take(ns, ord, at)
  BY DEF List!Freed, List!Restrict, Nodes, Change, Prevs, Nexts, Vals, Take

(* A pointer of n is set, if n is not NULL. *)
SetPrev(ns, n, y) == IF n = 0 THEN ns ELSE [ns EXCEPT ![n].prev = y]

SetNext(ns, n, y) == IF n = 0 THEN ns ELSE [ns EXCEPT ![n].next = y]

LEMMA PointersSet ==
    ASSUME NEW D, 0 \notin D, NEW a \in [D -> Links], NEW b \in [D -> Links], NEW c,
           NEW n \in D \cup {0}, NEW y
    PROVE  /\ SetPrev(Nodes(D, a, b, c), n, y) = Nodes(D, Change(a, n, y), b, c)
           /\ SetNext(Nodes(D, a, b, c), n, y) = Nodes(D, a, Change(b, n, y), c)
  <1>1. DOMAIN a = D /\ a = [x \in D |-> a[x]] /\ DOMAIN b = D /\ b = [x \in D |-> b[x]]
    OBVIOUS
  <1>2. CASE n = 0
    <2>1. Change(a, n, y) = a /\ Change(b, n, y) = b
      BY <1>1, <1>2, Unchanged
    <2> QED
      BY <1>2, <2>1 DEF SetPrev, SetNext
  <1>3. CASE n # 0
    <2>1. n \in D
      BY <1>3
    <2>2. [Nodes(D, a, b, c) EXCEPT ![n].prev = y] = Nodes(D, Change(a, n, y), b, c)
      BY <1>1, <2>1, PrevChanged
    <2>3. [Nodes(D, a, b, c) EXCEPT ![n].next = y] = Nodes(D, a, Change(b, n, y), c)
      BY <1>1, <2>1, NextChanged
    <2> QED
      BY <1>3, <2>2, <2>3 DEF SetPrev, SetNext
  <1> QED
    BY <1>2, <1>3

LEMMA ChangeType ==
    ASSUME NEW D, NEW a \in [D -> Links], NEW n, NEW y \in Links
    PROVE  Change(a, n, y) \in [D -> Links]
  BY DEF Change

LEMMA ListFacts ==
    ASSUME NEW ns, NEW ord, IsList(ns, ord)
    PROVE  /\ 0 \notin DOMAIN ns
           /\ Prevs(ns) \in [DOMAIN ns -> Links] /\ Nexts(ns) \in [DOMAIN ns -> Links]
           /\ \A j \in Int : At(ord, j) \in DOMAIN ns \cup {0} /\ At(ord, j) \in Links
           /\ \A j \in 1 .. Len(ord) :
                  /\ ord[j] = At(ord, j) /\ ord[j] \in DOMAIN ns /\ ord[j] # 0
                  /\ ns[ord[j]].prev = At(ord, j - 1)
                  /\ ns[ord[j]].next = At(ord, j + 1)
           /\ \A j \in Int : (At(ord, j) = 0) = (j \notin 1 .. Len(ord))
           /\ Len(ord) \in Nat /\ (ord # <<>> <=> Len(ord) # 0)
  <1>1. /\ DOMAIN ns = Members(ord) /\ 0 \notin Members(ord)
        /\ \A i \in 1 .. Len(ord) : ord[i] \in Members(ord) /\ ord[i] # 0
        /\ Len(ord) \in Nat /\ (ord # <<>> <=> Len(ord) # 0)
    BY MemberFacts
  <1>2. ns \in [DOMAIN ns -> NodeType]
    BY <1>1 DEF IsList
  <1>3. Prevs(ns) \in [DOMAIN ns -> Links] /\ Nexts(ns) \in [DOMAIN ns -> Links]
    <2>1. \A x \in DOMAIN ns : ns[x].prev \in Links /\ ns[x].next \in Links
      BY <1>2 DEF NodeType
    <2> QED
      BY <2>1 DEF Prevs, Nexts
  <1>4. \A j \in 1 .. Len(ord) :
            ns[ord[j]].prev = At(ord, j - 1) /\ ns[ord[j]].next = At(ord, j + 1)
    BY DEF IsList, LinkedAs
  <1>5. \A j \in Int : At(ord, j) \in DOMAIN ns \cup {0}
    BY <1>1 DEF At
  <1>6. \A j \in Int : At(ord, j) \in Links
    BY DEF At, Links, IsList
  <1>7. /\ \A j \in 1 .. Len(ord) : ord[j] = At(ord, j)
        /\ \A j \in Int : (At(ord, j) = 0) = (j \notin 1 .. Len(ord))
    BY <1>1 DEF At
  <1> QED
    BY <1>1, <1>3, <1>4, <1>5, <1>6, <1>7

(* The pointers are set in either order. *)
LEMMA PutSteps ==
    ASSUME NEW ns, NEW ord, IsList(ns, ord), NEW at \in 1 .. Len(ord) + 1, NEW value,
           List!New \in List!Ids \ DOMAIN ns
    PROVE  LET pred == At(ord, at - 1)
               succ == At(ord, at)
               node == List!Node(pred, succ, value)
           IN  /\ List!With(SetPrev(SetNext(ns, pred, List!New), succ, List!New), node)
                      = Put(ns, ord, at, List!New, value)
               /\ List!With(SetNext(SetPrev(ns, succ, List!New), pred, List!New), node)
                      = Put(ns, ord, at, List!New, value)
  <1> DEFINE pred == At(ord, at - 1)
             succ == At(ord, at)
             new == List!New
             D == DOMAIN ns
             a == Prevs(ns)
             b == Nexts(ns)
             c == Vals(ns)
  <1>0. at \in Int /\ at - 1 \in Int
    BY ListFacts
  <1>1. 0 \notin D /\ a \in [D -> Links] /\ b \in [D -> Links]
    BY ListFacts
  <1>2. pred \in D \cup {0} /\ succ \in D \cup {0}
    BY <1>0, ListFacts
  <1>3. ns = Nodes(D, a, b, c)
    BY Fields
  <1>4. new \in Links /\ new \notin D
    BY DEF Links
  <1>5. List!With(Nodes(D, Change(a, succ, new), Change(b, pred, new), c),
                  List!Node(pred, succ, value))
            = Put(ns, ord, at, new, value)
    BY <1>4, WithIsPut
  <1> HIDE DEF pred, succ, new, D, a, b, c
  <1>6. Change(a, succ, new) \in [D -> Links] /\ Change(b, pred, new) \in [D -> Links]
    BY <1>1, <1>4, ChangeType
  <1>7. SetPrev(SetNext(Nodes(D, a, b, c), pred, new), succ, new)
            = Nodes(D, Change(a, succ, new), Change(b, pred, new), c)
    <2>1. SetNext(Nodes(D, a, b, c), pred, new) = Nodes(D, a, Change(b, pred, new), c)
      BY <1>1, <1>2, PointersSet
    <2>2. SetPrev(Nodes(D, a, Change(b, pred, new), c), succ, new)
              = Nodes(D, Change(a, succ, new), Change(b, pred, new), c)
      BY <1>1, <1>2, <1>6, PointersSet
    <2> QED
      BY <2>1, <2>2
  <1>8. SetNext(SetPrev(Nodes(D, a, b, c), succ, new), pred, new)
            = Nodes(D, Change(a, succ, new), Change(b, pred, new), c)
    <2>1. SetPrev(Nodes(D, a, b, c), succ, new) = Nodes(D, Change(a, succ, new), b, c)
      BY <1>1, <1>2, PointersSet
    <2>2. SetNext(Nodes(D, Change(a, succ, new), b, c), pred, new)
              = Nodes(D, Change(a, succ, new), Change(b, pred, new), c)
      BY <1>1, <1>2, <1>6, PointersSet
    <2> QED
      BY <2>1, <2>2
  <1>9. /\ List!With(SetPrev(SetNext(ns, pred, new), succ, new), List!Node(pred, succ, value))
               = Put(ns, ord, at, new, value)
        /\ List!With(SetNext(SetPrev(ns, succ, new), pred, new), List!Node(pred, succ, value))
               = Put(ns, ord, at, new, value)
    BY <1>3, <1>5, <1>7, <1>8
  <1> QED
    BY <1>9 DEF pred, succ, new

LEMMA TakeSteps ==
    ASSUME NEW ns, NEW ord, IsList(ns, ord), NEW at \in 1 .. Len(ord)
    PROVE  LET pred == At(ord, at - 1)
               succ == At(ord, at + 1)
           IN  List!Freed(SetPrev(SetNext(ns, pred, succ), succ, pred), ord[at])
                   = Take(ns, ord, at)
  <1> DEFINE pred == At(ord, at - 1)
             succ == At(ord, at + 1)
             D == DOMAIN ns
             a == Prevs(ns)
             b == Nexts(ns)
             c == Vals(ns)
  <1>0. at \in Int /\ at - 1 \in Int /\ at + 1 \in Int
    BY ListFacts
  <1>1. 0 \notin D /\ a \in [D -> Links] /\ b \in [D -> Links]
    BY ListFacts
  <1>2. pred \in D \cup {0} /\ succ \in D \cup {0} /\ pred \in Links /\ succ \in Links
    BY <1>0, ListFacts
  <1>3. ns = Nodes(D, a, b, c)
    BY Fields
  <1>5. List!Freed(Nodes(D, Change(a, succ, pred), Change(b, pred, succ), c), ord[at])
            = Take(ns, ord, at)
    BY FreedIsTake
  <1> HIDE DEF pred, succ, D, a, b, c
  <1>6. Change(b, pred, succ) \in [D -> Links]
    BY <1>1, <1>2, ChangeType
  <1>7. SetPrev(SetNext(Nodes(D, a, b, c), pred, succ), succ, pred)
            = Nodes(D, Change(a, succ, pred), Change(b, pred, succ), c)
    <2>1. SetNext(Nodes(D, a, b, c), pred, succ) = Nodes(D, a, Change(b, pred, succ), c)
      BY <1>1, <1>2, PointersSet
    <2>2. SetPrev(Nodes(D, a, Change(b, pred, succ), c), succ, pred)
              = Nodes(D, Change(a, succ, pred), Change(b, pred, succ), c)
      BY <1>1, <1>2, <1>6, PointersSet
    <2> QED
      BY <2>1, <2>2
  <1>9. List!Freed(SetPrev(SetNext(ns, pred, succ), succ, pred), ord[at]) = Take(ns, ord, at)
    BY <1>3, <1>5, <1>7
  <1> QED
    BY <1>9 DEF pred, succ

-------------------------------------------------------------------------------
(* The inductive invariant. *)

Sound(ns, ord, h, t, len, ok) ==
    /\ IsList(ns, ord)
    /\ len = Len(ord)
    /\ ord # <<>> => h = ord[1] /\ t = ord[Len(ord)]
    /\ ord = <<>> => h = 0 \/ t = 0
    /\ ~ok => ord = <<>> /\ <<h, t>> # <<0, 0>>

ListInvariant == Sound(nodes, order, head, tail, length, defined)

LEMMA PutSound ==
    ASSUME NEW ns, NEW ord, NEW h, NEW t, NEW len, NEW ok, Sound(ns, ord, h, t, len, ok), ok,
           NEW at \in 1 .. Len(ord) + 1, NEW new \in List!Ids \ DOMAIN ns, NEW value \in Values,
           NEW h2, h2 = IF at = 1 THEN new ELSE h,
           NEW t2, t2 = IF at = Len(ord) + 1 THEN new ELSE t
    PROVE  Sound(Put(ns, ord, at, new, value), List!InsertAt(ord, at, new), h2, t2, len + 1, ok)
  <1> DEFINE o == List!InsertAt(ord, at, new)
             n == Len(ord)
  <1>1. IsList(ns, ord) /\ len = n
    BY DEF Sound
  <1>2. IsList(Put(ns, ord, at, new, value), o)
    BY <1>1, PutIsList
  <1>3. n \in Nat /\ at \in Nat /\ at >= 1 /\ at <= n + 1 /\ (ord # <<>> <=> n # 0)
    BY <1>1, MemberFacts
  <1>4. /\ Len(o) = n + 1
        /\ \A i \in 1 .. n + 1 :
               o[i] = IF i < at THEN ord[i] ELSE IF i = at THEN new ELSE ord[i - 1]
    <2>1. ord \in Seq(List!Ids)
      BY <1>1 DEF IsList
    <2>2. new \in List!Ids
      OBVIOUS
    <2> QED
      BY <2>1, <2>2, InsertedOrder
  <1>5. n # 0 => h = ord[1] /\ t = ord[n]
    BY <1>3 DEF Sound
  <1> HIDE DEF o, n
  <1>6. o # <<>>
    <2>1. o = <<>> => Len(o) = 0
      OBVIOUS
    <2> QED
      BY <1>3, <1>4, <2>1
  <1>7. h2 = o[1]
    <2>1. o[1] = IF 1 < at THEN ord[1] ELSE IF 1 = at THEN new ELSE ord[0]
      BY <1>3, <1>4
    <2> QED
      BY <1>3, <1>5, <2>1 DEF n
  <1>8. t2 = o[n + 1]
    <2>1. o[n + 1] = IF n + 1 < at THEN ord[n + 1] ELSE IF n + 1 = at THEN new ELSE ord[n]
      BY <1>3, <1>4
    <2> QED
      BY <1>3, <1>5, <2>1 DEF n
  <1> QED
    BY <1>1, <1>2, <1>4, <1>6, <1>7, <1>8 DEF Sound, o

LEMMA TakeSound ==
    ASSUME NEW ns, NEW ord, NEW h, NEW t, NEW len, NEW ok, Sound(ns, ord, h, t, len, ok), ok,
           NEW at \in 1 .. Len(ord),
           NEW h2, Len(ord) = 1 \/ h2 = (IF at = 1 THEN At(ord, 2) ELSE h),
           NEW t2, Len(ord) = 1 \/ t2 = (IF at = Len(ord) THEN At(ord, Len(ord) - 1) ELSE t),
           Len(ord) = 1 => h2 = 0 \/ t2 = 0
    PROVE  Sound(Take(ns, ord, at), List!RemoveAt(ord, at), h2, t2, len - 1, ok)
  <1> DEFINE o == List!RemoveAt(ord, at)
             n == Len(ord)
  <1>1. IsList(ns, ord) /\ len = n
    BY DEF Sound
  <1>2. IsList(Take(ns, ord, at), o)
    BY <1>1, TakeIsList
  <1>3. n \in Nat /\ at \in Nat /\ at >= 1 /\ at <= n /\ (ord # <<>> <=> n # 0)
    BY <1>1, MemberFacts
  <1>4. /\ Len(o) = n - 1
        /\ \A i \in 1 .. n - 1 : o[i] = IF i < at THEN ord[i] ELSE ord[i + 1]
        /\ o \in Seq(List!Ids)
    <2>1. ord \in Seq(List!Ids)
      BY <1>1 DEF IsList
    <2> QED
      BY <2>1, RemovedOrder
  <1>5. h = ord[1] /\ t = ord[n]
    BY <1>3 DEF Sound
  <1>6. n > 1 => At(ord, 2) = ord[2] /\ At(ord, n - 1) = ord[n - 1]
    BY <1>3 DEF At
  <1> HIDE DEF o
  <1>7. o # <<>> <=> n # 1
    BY <1>3, <1>4
  <1>8. n > 1 => h2 = o[1]
    <2>1. n > 1 => o[1] = IF 1 < at THEN ord[1] ELSE ord[2]
      BY <1>3, <1>4
    <2> QED
      BY <1>3, <1>5, <1>6, <2>1
  <1>9. n > 1 => t2 = o[n - 1]
    <2>1. n > 1 => o[n - 1] = IF n - 1 < at THEN ord[n - 1] ELSE ord[n]
      BY <1>3, <1>4
    <2> QED
      BY <1>3, <1>5, <1>6, <2>1
  <1> QED
    BY <1>1, <1>2, <1>3, <1>4, <1>7, <1>8, <1>9 DEF Sound, o

(* The first place whose node passes a test. *)
LEMMA FirstPlace ==
    ASSUME NEW S \in SUBSET Nat, NEW k \in S, \A j \in S : k <= j
    PROVE  List!Min(S) = k
  <1>1. \A j \in S : (\A i \in S : j <= i) => j = k
    BY SMT
  <1> QED
    BY <1>1 DEF List!Min



(* listSerchNode stops at a node with the value, or behind the last node.  *)
Found(ns, value) == {n \in DOMAIN ns \cup {0} : n = 0 \/ ns[n].value = value}

Follow(ns) == [n \in DOMAIN ns \cup {0} |-> ns[n].next]

Itself(ns) == [n \in DOMAIN ns \cup {0} |-> n]

LEMMA SearchFunction ==
    ASSUME NEW value, IsList(nodes, order)
    PROVE  \E f : /\ TailRecursive(f, DOMAIN nodes \cup {0}, Found(nodes, value),
                                   Follow(nodes), Itself(nodes))
                  /\ List!Search(value) = f[head]
  <1> DEFINE D == DOMAIN nodes \cup {0}
             body(g) == [n \in D |-> IF n = 0 \/ nodes[n].value = value THEN n
                                     ELSE g[nodes[n].next]]
             from == CHOOSE g : g = body(g)
  <1>1. \A q \in D \ Found(nodes, value) : Follow(nodes)[q] \in D
    <2> SUFFICES ASSUME NEW q \in D \ Found(nodes, value)
                 PROVE  nodes[q].next \in D
      BY DEF Follow
    <2>1. q \in DOMAIN nodes
      BY DEF Found
    <2>2. PICK i \in 1 .. Len(order) : q = order[i]
      <3>1. DOMAIN nodes = Members(order)
        BY MemberFacts
      <3> QED
        BY <2>1, <3>1 DEF Members
    <2>3. nodes[q].next = At(order, i + 1) /\ i + 1 \in Int
      BY <2>2, ListFacts
    <2> QED
      BY <2>3, ListFacts
  <1>2. PICK f : TailRecursive(f, D, Found(nodes, value), Follow(nodes), Itself(nodes))
    <2>1. Found(nodes, value) \in SUBSET D
      BY DEF Found
    <2> QED
      BY <1>1, <2>1, TailRecursion
  <1>3. ASSUME NEW g
        PROVE  body(g) = [n \in D |-> IF n \in Found(nodes, value) THEN Itself(nodes)[n]
                                      ELSE g[Follow(nodes)[n]]]
    BY DEF Found, Follow, Itself
  <1>4. f = body(f)
    BY <1>2, <1>3 DEF TailRecursive
  <1>5. from = body(from)
    <2> HIDE DEF body
    <2> QED
      BY <1>4
  <1>6. List!Search(value) = from[head]
    BY DEF List!Search, List!Nil
  <1>7. TailRecursive(from, D, Found(nodes, value), Follow(nodes), Itself(nodes))
    <2> HIDE DEF body, from
    <2> QED
      BY <1>3, <1>5 DEF TailRecursive
  <1> HIDE DEF from
  <1> QED
    BY <1>6, <1>7

(* It finds the first of them. *)
LEMMA SearchFinds ==
    ASSUME NEW value, IsList(nodes, order), head = At(order, 1)
    PROVE  \/ List!Search(value) = 0
           \/ \E k \in 1 .. Len(order) : List!Search(value) = order[k] /\ List!First(value) = k
  <1> DEFINE n == Len(order)
             Hits == {i \in 1 .. n + 1 : i = n + 1 \/ nodes[order[i]].value = value}
             D == DOMAIN nodes \cup {0}
             Stop == Found(nodes, value)
             follow == Follow(nodes)
             val == Itself(nodes)
  <1>1. /\ 0 \notin DOMAIN nodes
        /\ \A j \in Int : At(order, j) \in D
        /\ \A j \in 1 .. n : /\ order[j] = At(order, j) /\ order[j] \in DOMAIN nodes
                             /\ order[j] # 0
                             /\ nodes[order[j]].next = At(order, j + 1)
        /\ \A j \in Int : (At(order, j) = 0) = (j \notin 1 .. n)
        /\ n \in Nat
    BY ListFacts
  <1>2. \A i, j \in 1 .. n : order[i] = order[j] => i = j
    BY MemberFacts
  <1>3. PICK k \in Hits : \A i \in Hits : k <= i
    <2>1. Hits \in SUBSET Nat /\ n + 1 \in Hits
      BY <1>1
    <2> HIDE DEF Hits
    <2> QED
      BY <2>1, LeastNumber
  <1>4. /\ k \in 1 .. n + 1 /\ (k = n + 1 \/ nodes[order[k]].value = value)
        /\ \A i \in 1 .. k - 1 : i \in 1 .. n /\ nodes[order[i]].value # value
    <2>1. k \in 1 .. n + 1 /\ (k = n + 1 \/ nodes[order[k]].value = value)
      OBVIOUS
    <2>2. ASSUME NEW i \in 1 .. k - 1
          PROVE  i \in 1 .. n /\ nodes[order[i]].value # value
      <3>1. i \in 1 .. n /\ i \in 1 .. n + 1 /\ ~ k <= i
        BY <1>1, <2>1
      <3>2. i \notin Hits
        BY <1>3, <3>1
      <3> QED
        BY <3>1, <3>2
    <2> QED
      BY <2>1, <2>2
  <1> DEFINE R == {At(order, i) : i \in 1 .. k}
             Place(p) == CHOOSE i \in 1 .. k : p = At(order, i)
             m == [p \in R |-> k - Place(p)]
  <1>5. \A i, j \in 1 .. n + 1 : At(order, i) = At(order, j) => i = j
    <2>1. \A i \in 1 .. n + 1 : i \in Int /\ (i = n + 1 <=> i \notin 1 .. n)
      BY <1>1
    <2> QED
      BY <1>1, <1>2, <2>1
  <1>6. \A i \in 1 .. k : i \in Nat /\ i \in 1 .. n + 1 /\ Place(At(order, i)) = i
    <2>1. \A i \in 1 .. k : i \in Nat /\ i \in 1 .. n + 1
      BY <1>1, <1>4
    <2> QED
      BY <1>5, <2>1
  <1> HIDE DEF Place
  <1>7. \A i \in 1 .. k : m[At(order, i)] = k - i /\ k - i \in Nat
    BY <1>4, <1>6
  <1>8. ASSUME NEW i \in 1 .. k, At(order, i) \notin Stop
        PROVE  /\ follow[At(order, i)] = At(order, i + 1)
               /\ i + 1 \in 1 .. k
    <2>1. At(order, i) # 0 /\ i \in Nat
      BY <1>6, <1>8 DEF Found, D
    <2>2. i \in 1 .. n
      BY <1>1, <2>1
    <2>3. nodes[order[i]].value # value
      BY <1>1, <1>8, <2>2 DEF Found
    <2>4. i # k
      BY <1>4, <2>2, <2>3, <1>1
    <2>5. i + 1 \in 1 .. k
      BY <1>4, <2>1, <2>4
    <2> QED
      BY <1>1, <2>2, <2>5 DEF Follow
  <1>9. At(order, k) \in Stop
    BY <1>1, <1>4 DEF Found, At
  <1>10. ASSUME NEW i \in 1 .. k, At(order, i) \in Stop
         PROVE  i = k
    <2>1. CASE i # k
      <3>1. i \in 1 .. n /\ nodes[order[i]].value # value
        BY <1>4, <2>1
      <3> QED
        BY <1>1, <1>10, <3>1 DEF Found
    <2> QED
      BY <2>1
  <1>11. Descends(D, Stop, follow, val, R, {At(order, k)}, m)
    <2>1. R \subseteq D
      <3>1. \A i \in 1 .. k : i \in Int
        BY <1>6
      <3> QED
        BY <1>1, <3>1
    <2>2. m \in [R -> Nat]
      <3>1. \A p \in R : m[p] \in Nat
        <4> HIDE DEF m
        <4> QED
          BY <1>7
      <3> QED
        BY <3>1
    <2> HIDE DEF m
    <2>3. \A p \in R \cap Stop : val[p] \in {At(order, k)}
      <3>1. \A p \in R \cap Stop : p = At(order, k)
        BY <1>10
      <3>2. \A p \in R : val[p] = p
        BY <2>1 DEF Itself
      <3> QED
        BY <3>1, <3>2
    <2>4. ASSUME NEW p \in R \ Stop
          PROVE  follow[p] \in R /\ m[follow[p]] < m[p]
      <3>1. PICK i \in 1 .. k : p = At(order, i)
        OBVIOUS
      <3>2. follow[p] = At(order, i + 1) /\ i + 1 \in 1 .. k
        BY <1>8, <3>1
      <3>3. m[p] = k - i /\ m[follow[p]] = k - (i + 1)
        BY <1>7, <3>1, <3>2
      <3> QED
        BY <1>4, <1>6, <3>2, <3>3
    <2> HIDE DEF R, D, Stop, follow, val
    <2> QED
      BY <2>1, <2>2, <2>3, <2>4 DEF Descends
  <1>12. List!Search(value) = At(order, k)
    <2>1. PICK f : TailRecursive(f, D, Stop, follow, val) /\ List!Search(value) = f[head]
      BY SearchFunction
    <2>2. Stop \in SUBSET D
      BY DEF Found
    <2>3. head \in R
      BY <1>4
    <2> DEFINE V == {At(order, k)}
    <2>4. Descends(D, Stop, follow, val, R, V, m) /\ TailRecursive(f, D, Stop, follow, val)
      BY <1>11, <2>1
    <2> HIDE DEF R, D, Stop, follow, val, m, V
    <2>5. \A p \in R : f[p] \in V
      BY ONLY <2>2, <2>4, TailInvariant
    <2> QED
      BY <2>1, <2>3, <2>5 DEF V
  <1>13. CASE k = n + 1
    BY <1>1, <1>12, <1>13
  <1>14. CASE k # n + 1
    <2>1. k \in 1 .. n /\ nodes[order[k]].value = value
      BY <1>1, <1>4, <1>14
    <2> DEFINE I == {i \in 1 .. Len(order) : nodes[order[i]].value = value}
    <2>2. k \in I /\ I \in SUBSET Nat /\ \A j \in I : k <= j
      BY <1>1, <1>3, <2>1
    <2>3. List!First(value) = IF I # {} THEN List!Min(I) ELSE 0
      BY DEF List!First, List!SelectInSeq
    <2>4. List!First(value) = k
      <3> HIDE DEF I
      <3> QED
        BY <2>2, <2>3, FirstPlace
    <2> QED
      BY <1>1, <1>12, <2>1, <2>4
  <1> QED
    BY <1>13, <1>14

-------------------------------------------------------------------------------
(* Every operation keeps the invariant. *)

LEMMA NewNode ==
    ASSUME MaxLength \in Nat, IsList(nodes, order), List!HasMemory
    PROVE  List!New \in List!Ids \ DOMAIN nodes
  <1> DEFINE S == List!Ids \ DOMAIN nodes
  <1>1. S \in SUBSET Nat /\ S # {}
    BY MemberFacts DEF List!HasMemory, List!Ids
  <1>2. \E n \in S : \A m \in S : n <= m
    BY <1>1, LeastNumber
  <1> QED
    BY <1>2 DEF List!New, List!Min

(* The ends of the list. *)
LEMMA Ends ==
    ASSUME ListInvariant
    PROVE  /\ order = <<>> => DOMAIN nodes = {} /\ Len(order) = 0
           /\ order # <<>> => /\ Len(order) \in Nat \ {0}
                              /\ head = At(order, 1) /\ tail = At(order, Len(order))
                              /\ head \in DOMAIN nodes /\ tail \in DOMAIN nodes
                              /\ head # 0 /\ tail # 0 /\ defined
           /\ IsList(nodes, order) /\ length = Len(order)
           /\ ~defined => order = <<>> /\ <<head, tail>> # <<0, 0>>
           /\ order = <<>> => head = 0 \/ tail = 0
  <1>1. IsList(nodes, order) /\ length = Len(order)
    BY DEF ListInvariant, Sound
  <1>2. order = <<>> => DOMAIN nodes = {} /\ Len(order) = 0
    <2>1. DOMAIN nodes = Members(order)
      BY <1>1, MemberFacts
    <2> QED
      BY <2>1 DEF Members
  <1>3. ASSUME order # <<>>
        PROVE  /\ Len(order) \in Nat \ {0}
               /\ head = At(order, 1) /\ tail = At(order, Len(order))
               /\ head \in DOMAIN nodes /\ tail \in DOMAIN nodes
               /\ head # 0 /\ tail # 0 /\ defined
    <2>1. Len(order) \in Nat \ {0}
      BY <1>1, <1>3, ListFacts
    <2>2. 1 \in 1 .. Len(order) /\ Len(order) \in 1 .. Len(order)
      BY <2>1
    <2>3. head = order[1] /\ tail = order[Len(order)] /\ defined
      BY <1>3 DEF ListInvariant, Sound
    <2> QED
      BY <1>1, <2>1, <2>2, <2>3, ListFacts
  <1> QED
    BY <1>1, <1>2, <1>3 DEF ListInvariant, Sound

LEMMA InsertStep ==
    ASSUME ListInvariant, defined, NEW at \in 1 .. Len(order) + 1, NEW value \in Values,
           List!New \in List!Ids \ DOMAIN nodes,
           nodes' = Put(nodes, order, at, List!New, value),
           head' = (IF at = 1 THEN List!New ELSE head),
           tail' = (IF at = Len(order) + 1 THEN List!New ELSE tail),
           List!Added(List!New, at)
    PROVE  ListInvariant'
  <1>1. Sound(Put(nodes, order, at, List!New, value), List!InsertAt(order, at, List!New),
              head', tail', length + 1, defined)
    BY PutSound DEF ListInvariant
  <1>2. length' = length + 1 /\ order' = List!InsertAt(order, at, List!New) /\ defined' = defined
    BY DEF List!Added
  <1> QED
    BY <1>1, <1>2 DEF ListInvariant

LEMMA RemoveStep ==
    ASSUME ListInvariant, defined, NEW at \in 1 .. Len(order),
           nodes' = Take(nodes, order, at), order' = List!RemoveAt(order, at),
           length' = length - 1, defined' = defined,
           Len(order) = 1 \/ head' = (IF at = 1 THEN At(order, 2) ELSE head),
           Len(order) = 1 \/ tail' = (IF at = Len(order) THEN At(order, Len(order) - 1) ELSE tail),
           Len(order) = 1 => head' = 0 \/ tail' = 0
    PROVE  ListInvariant'
  <1>1. Sound(Take(nodes, order, at), List!RemoveAt(order, at), head', tail', length - 1, defined)
    BY TakeSound DEF ListInvariant
  <1> QED
    BY <1>1 DEF ListInvariant

LEMMA CrashStep ==
    ASSUME ListInvariant, order = <<>>, head # 0 \/ tail # 0, List!Crash
    PROVE  ListInvariant'
  <1>1. /\ defined' = FALSE /\ nodes' = nodes /\ head' = head /\ tail' = tail
        /\ length' = length /\ order' = order
    BY DEF List!Crash
  <1>2. Sound(nodes, order, head, tail, length, FALSE)
    BY DEF ListInvariant, Sound
  <1> QED
    BY <1>1, <1>2 DEF ListInvariant

LEMMA EmptySound == ASSUME NEW ok, ok PROVE Sound(<<>>, <<>>, 0, 0, 0, ok)
  <1>1. <<>> \in Seq(List!Ids) /\ Len(<<>>) = 0 /\ Members(<<>>) = {}
    BY DEF Members
  <1>2. <<>> \in [{} -> NodeType]
    OBVIOUS
  <1>3. Different(<<>>) /\ LinkedAs(<<>>, <<>>)
    BY DEF Different, LinkedAs
  <1> QED
    BY <1>1, <1>2, <1>3 DEF Sound, IsList

LEMMA AddHeadStep ==
    ASSUME MaxLength \in Nat, ListInvariant, NEW value \in Values, List!AddHead(value)
    PROVE  ListInvariant'
  <1>1. IsList(nodes, order) /\ defined /\ Len(order) \in Nat
    BY Ends, ListFacts DEF List!AddHead
  <1>2. List!New \in List!Ids \ DOMAIN nodes
    BY <1>1, NewNode DEF List!AddHead
  <1>3. 1 \in 1 .. Len(order) + 1 /\ At(order, 1 - 1) = 0
    BY <1>1 DEF At
  <1>4. List!With(SetNext(SetPrev(nodes, At(order, 1), List!New), 0, List!New),
                  List!Node(0, At(order, 1), value))
            = Put(nodes, order, 1, List!New, value)
    BY <1>1, <1>2, <1>3, PutSteps
  <1>5. List!With(SetPrev(nodes, At(order, 1), List!New), List!Node(0, At(order, 1), value))
            = Put(nodes, order, 1, List!New, value)
    BY <1>4 DEF SetNext
  <1>6. CASE head = 0
    <2>1. order = <<>> /\ Len(order) = 0 /\ At(order, 1) = 0
      BY <1>6, Ends DEF At
    <2>2. /\ nodes' = List!With(nodes, List!Node(0, 0, value))
          /\ head' = List!New /\ tail' = List!New /\ List!Added(List!New, 1)
      BY <1>6 DEF List!AddHead, List!Nil
    <2>3. nodes' = Put(nodes, order, 1, List!New, value)
      BY <1>5, <2>1, <2>2 DEF SetPrev
    <2>4. head' = (IF 1 = 1 THEN List!New ELSE head)
          /\ tail' = (IF 1 = Len(order) + 1 THEN List!New ELSE tail)
      BY <2>1, <2>2
    <2> QED
      BY <1>1, <1>2, <1>3, <2>2, <2>3, <2>4, InsertStep
  <1>7. CASE head # 0 /\ head \in DOMAIN nodes
    <2>1. order # <<>> /\ Len(order) \in Nat \ {0} /\ head = At(order, 1)
      BY <1>7, Ends
    <2>2. /\ nodes' = List!With([nodes EXCEPT ![head].prev = List!New], List!Node(0, head, value))
          /\ head' = List!New /\ tail' = tail /\ List!Added(List!New, 1)
      BY <1>7 DEF List!AddHead, List!Nil, List!Alive
    <2>3. nodes' = Put(nodes, order, 1, List!New, value)
      BY <1>5, <1>7, <2>1, <2>2 DEF SetPrev
    <2>4. head' = (IF 1 = 1 THEN List!New ELSE head)
          /\ tail' = (IF 1 = Len(order) + 1 THEN List!New ELSE tail)
      BY <2>1, <2>2
    <2> QED
      BY <1>1, <1>2, <1>3, <2>2, <2>3, <2>4, InsertStep
  <1>8. CASE head # 0 /\ head \notin DOMAIN nodes
    <2>1. order = <<>> /\ List!Crash
      BY <1>8, Ends DEF List!AddHead, List!Nil, List!Alive
    <2> QED
      BY <1>8, <2>1, CrashStep
  <1> QED
    BY <1>6, <1>7, <1>8

LEMMA AddTailStep ==
    ASSUME MaxLength \in Nat, ListInvariant, NEW value \in Values, List!AddTail(value)
    PROVE  ListInvariant'
  <1> DEFINE at == Len(order) + 1
  <1>1. IsList(nodes, order) /\ defined /\ Len(order) \in Nat
    BY Ends, ListFacts DEF List!AddTail
  <1>2. List!New \in List!Ids \ DOMAIN nodes
    BY <1>1, NewNode DEF List!AddTail
  <1>3. at \in 1 .. Len(order) + 1 /\ At(order, at) = 0 /\ at - 1 = Len(order)
    BY <1>1 DEF At
  <1>4. List!With(SetPrev(SetNext(nodes, At(order, at - 1), List!New), At(order, at), List!New),
                  List!Node(At(order, at - 1), At(order, at), value))
            = Put(nodes, order, at, List!New, value)
    BY <1>1, <1>2, <1>3, PutSteps
  <1> HIDE DEF at
  <1>5. List!With(SetNext(nodes, At(order, Len(order)), List!New),
                  List!Node(At(order, Len(order)), 0, value))
            = Put(nodes, order, at, List!New, value)
    BY <1>3, <1>4 DEF SetPrev
  <1>6. CASE tail = 0
    <2>1. order = <<>> /\ Len(order) = 0 /\ At(order, Len(order)) = 0 /\ at = 1
      BY <1>6, Ends DEF At, at
    <2>2. /\ nodes' = List!With(nodes, List!Node(0, 0, value))
          /\ head' = List!New /\ tail' = List!New /\ List!Added(List!New, at)
      BY <1>6 DEF List!AddTail, List!Nil, at
    <2>3. nodes' = Put(nodes, order, at, List!New, value)
      BY <1>5, <2>1, <2>2 DEF SetNext
    <2>4. head' = (IF at = 1 THEN List!New ELSE head)
          /\ tail' = (IF at = Len(order) + 1 THEN List!New ELSE tail)
      BY <2>1, <2>2
    <2> QED
      BY <1>1, <1>2, <1>3, <2>2, <2>3, <2>4, InsertStep
  <1>7. CASE tail # 0 /\ tail \in DOMAIN nodes
    <2>1. order # <<>> /\ Len(order) \in Nat \ {0} /\ tail = At(order, Len(order)) /\ at # 1
      BY <1>7, Ends DEF at
    <2>2. /\ nodes' = List!With([nodes EXCEPT ![tail].next = List!New], List!Node(tail, 0, value))
          /\ tail' = List!New /\ head' = head /\ List!Added(List!New, at)
      BY <1>7 DEF List!AddTail, List!Nil, List!Alive, at
    <2>3. nodes' = Put(nodes, order, at, List!New, value)
      BY <1>5, <1>7, <2>1, <2>2 DEF SetNext
    <2>4. head' = (IF at = 1 THEN List!New ELSE head)
          /\ tail' = (IF at = Len(order) + 1 THEN List!New ELSE tail)
      BY <2>1, <2>2 DEF at
    <2> QED
      BY <1>1, <1>2, <1>3, <2>2, <2>3, <2>4, InsertStep
  <1>8. CASE tail # 0 /\ tail \notin DOMAIN nodes
    <2>1. order = <<>> /\ List!Crash
      BY <1>8, Ends DEF List!AddTail, List!Nil, List!Alive
    <2> QED
      BY <1>8, <2>1, CrashStep
  <1> QED
    BY <1>6, <1>7, <1>8

(* The place of a node. *)
LEMMA PlaceFound ==
    ASSUME IsList(nodes, order), NEW old \in DOMAIN nodes
    PROVE  \E k \in 1 .. Len(order) :
               /\ old = order[k]
               /\ List!SelectInSeq(order, LAMBDA n : n = old) = k
  <1>1. PICK k \in 1 .. Len(order) : old = order[k]
    <2>1. DOMAIN nodes = Members(order)
      BY MemberFacts
    <2> QED
      BY <2>1 DEF Members
  <1> DEFINE I == {i \in 1 .. Len(order) : order[i] = old}
  <1>2. I = {k}
    BY <1>1, MemberFacts
  <1>3. Len(order) \in Nat
    BY ListFacts
  <1>4. List!SelectInSeq(order, LAMBDA n : n = old) = IF I # {} THEN List!Min(I) ELSE 0
    BY DEF List!SelectInSeq
  <1>5. List!SelectInSeq(order, LAMBDA n : n = old) = k
    <2>1. I \in SUBSET Nat /\ k \in I /\ \A j \in I : k <= j
      BY <1>2, <1>3
    <2> HIDE DEF I
    <2> QED
      BY <1>4, <2>1, FirstPlace
  <1> QED
    BY <1>1, <1>5

LEMMA InsertAfterStep ==
    ASSUME MaxLength \in Nat, ListInvariant, NEW old, NEW value \in Values,
           List!InsertAfter(old, value)
    PROVE  ListInvariant'
  <1>1. IsList(nodes, order) /\ defined /\ Len(order) \in Nat /\ old \in DOMAIN nodes
    BY Ends, ListFacts DEF List!InsertAfter, List!Alive
  <1>2. List!New \in List!Ids \ DOMAIN nodes
    BY <1>1, NewNode DEF List!InsertAfter
  <1>3. PICK k \in 1 .. Len(order) :
            old = order[k] /\ List!SelectInSeq(order, LAMBDA n : n = old) = k
    BY <1>1, PlaceFound
  <1> DEFINE at == k + 1
             succ == nodes[old].next
             new == List!New
  <1>4. /\ at \in 1 .. Len(order) + 1 /\ at # 1
        /\ At(order, at - 1) = old /\ At(order, at) = succ /\ old # 0
        /\ (succ = 0) = (at = Len(order) + 1)
    <2>1. /\ old = At(order, k) /\ succ = At(order, k + 1) /\ old # 0
          /\ (At(order, k + 1) = 0) = (k + 1 \notin 1 .. Len(order))
      BY <1>1, <1>3, ListFacts
    <2> QED
      BY <1>1, <2>1
  <1>5. List!With(SetPrev(SetNext(nodes, old, new), succ, new), List!Node(old, succ, value))
            = Put(nodes, order, at, new, value)
    BY <1>1, <1>2, <1>4, PutSteps
  <1>6. List!Added(new, at)
    BY <1>3 DEF List!InsertAfter
  <1> DEFINE set == [nodes EXCEPT ![old].next = new]
  <1>7. /\ IF succ = 0
           THEN nodes' = List!With(set, List!Node(old, succ, value)) /\ tail' = new
           ELSE /\ nodes' = List!With([set EXCEPT ![succ].prev = new], List!Node(old, succ, value))
                /\ tail' = tail
        /\ head' = head
    BY DEF List!InsertAfter, List!Nil
  <1>8. SetNext(nodes, old, new) = set
    BY <1>4 DEF SetNext
  <1> HIDE DEF at, succ, new, set
  <1>9. nodes' = Put(nodes, order, at, new, value)
    BY <1>5, <1>7, <1>8 DEF SetPrev
  <1>10. head' = (IF at = 1 THEN new ELSE head)
         /\ tail' = (IF at = Len(order) + 1 THEN new ELSE tail)
    BY <1>4, <1>7
  <1> QED
    BY <1>1, <1>2, <1>4, <1>6, <1>9, <1>10, InsertStep DEF new

LEMMA InsertBeforeStep ==
    ASSUME MaxLength \in Nat, ListInvariant, NEW old, NEW value \in Values,
           List!InsertBefore(old, value)
    PROVE  ListInvariant'
  <1>1. IsList(nodes, order) /\ defined /\ Len(order) \in Nat /\ old \in DOMAIN nodes
    BY Ends, ListFacts DEF List!InsertBefore, List!Alive
  <1>2. List!New \in List!Ids \ DOMAIN nodes
    BY <1>1, NewNode DEF List!InsertBefore
  <1>3. PICK at \in 1 .. Len(order) :
            old = order[at] /\ List!SelectInSeq(order, LAMBDA n : n = old) = at
    BY <1>1, PlaceFound
  <1> DEFINE pred == nodes[old].prev
             new == List!New
  <1>4. /\ at \in 1 .. Len(order) + 1 /\ at # Len(order) + 1
        /\ At(order, at - 1) = pred /\ At(order, at) = old /\ old # 0
        /\ (pred = 0) = (at = 1)
    <2>1. /\ old = At(order, at) /\ pred = At(order, at - 1) /\ old # 0
          /\ (At(order, at - 1) = 0) = (at - 1 \notin 1 .. Len(order))
      BY <1>1, <1>3, ListFacts
    <2> QED
      BY <1>1, <2>1
  <1>5. List!With(SetNext(SetPrev(nodes, old, new), pred, new), List!Node(pred, old, value))
            = Put(nodes, order, at, new, value)
    BY <1>1, <1>2, <1>4, PutSteps
  <1>6. List!Added(new, at)
    BY <1>3 DEF List!InsertBefore
  <1> DEFINE set == [nodes EXCEPT ![old].prev = new]
  <1>7. /\ IF pred = 0
           THEN nodes' = List!With(set, List!Node(pred, old, value)) /\ head' = new
           ELSE /\ nodes' = List!With([set EXCEPT ![pred].next = new], List!Node(pred, old, value))
                /\ head' = head
        /\ tail' = tail
    BY DEF List!InsertBefore, List!Nil
  <1>8. SetPrev(nodes, old, new) = set
    BY <1>4 DEF SetPrev
  <1> HIDE DEF pred, new, set
  <1>9. nodes' = Put(nodes, order, at, new, value)
    BY <1>5, <1>7, <1>8 DEF SetNext
  <1>10. head' = (IF at = 1 THEN new ELSE head)
         /\ tail' = (IF at = Len(order) + 1 THEN new ELSE tail)
    BY <1>4, <1>7
  <1> QED
    BY <1>1, <1>2, <1>4, <1>6, <1>9, <1>10, InsertStep DEF new

(* The ends are the places at which a node is taken without a search. *)
LEMMA EndsRemoved ==
    ASSUME NEW S, NEW ord \in Seq(S), ord # <<>>
    PROVE  /\ Tail(ord) = List!RemoveAt(ord, 1)
           /\ List!Front(ord) = List!RemoveAt(ord, Len(ord))
  <1>1. Len(ord) \in Nat \ {0} /\ 1 \in 1 .. Len(ord) /\ Len(ord) \in 1 .. Len(ord)
    OBVIOUS
  <1> DEFINE o == List!RemoveAt(ord, 1)
             p == List!RemoveAt(ord, Len(ord))
             n == Len(ord)
  <1>2. /\ o \in Seq(S) /\ Len(o) = n - 1
        /\ \A i \in 1 .. n - 1 : o[i] = IF i < 1 THEN ord[i] ELSE ord[i + 1]
    BY <1>1, RemovedOrder
  <1>3. /\ p \in Seq(S) /\ Len(p) = n - 1
        /\ \A i \in 1 .. n - 1 : p[i] = IF i < n THEN ord[i] ELSE ord[i + 1]
    BY <1>1, RemovedOrder
  <1>4. /\ Tail(ord) \in Seq(S) /\ Len(Tail(ord)) = n - 1
        /\ \A i \in 1 .. n - 1 : Tail(ord)[i] = ord[i + 1]
    BY <1>1
  <1>5. /\ List!Front(ord) \in Seq(S) /\ Len(List!Front(ord)) = n - 1
        /\ \A i \in 1 .. n - 1 : List!Front(ord)[i] = ord[i]
    <2>1. List!Front(ord) = SubSeq(ord, 1, n - 1) /\ 1 \in 1 .. n + 1 /\ n - 1 \in 0 .. n
          /\ 1 <= n - 1 + 1 /\ n - 1 + 1 - 1 = n - 1
      BY <1>1 DEF List!Front
    <2>2. \A i \in 1 .. n - 1 : 1 + i - 1 = i
      BY <1>1
    <2> QED
      BY <2>1, <2>2, Slice
  <1> HIDE DEF o, p
  <1>6. Tail(ord) = o
    <2>1. \A i \in 1 .. n - 1 : Tail(ord)[i] = o[i]
      BY <1>1, <1>2, <1>4
    <2> HIDE DEF n
    <2> QED
      BY <1>2, <1>4, <2>1, SeqEqual
  <1>7. List!Front(ord) = p
    <2>1. \A i \in 1 .. n - 1 : List!Front(ord)[i] = p[i]
      BY <1>1, <1>3, <1>5
    <2> HIDE DEF n
    <2> QED
      BY <1>3, <1>5, <2>1, SeqEqual
  <1> QED
    BY <1>6, <1>7 DEF o, p

LEMMA FreeFristStep ==
    ASSUME ListInvariant, List!FreeFrist
    PROVE  ListInvariant'
  <1>1. CASE head \in DOMAIN nodes
    <2>1. /\ order # <<>> /\ defined /\ IsList(nodes, order) /\ Len(order) \in Nat \ {0}
          /\ head = At(order, 1) /\ head # 0
      BY <1>1, Ends DEF List!FreeFrist
    <2> DEFINE succ == nodes[head].next
    <2>2. 1 \in 1 .. Len(order) /\ At(order, 1 - 1) = 0
      BY <2>1 DEF At
    <2>3. head = order[1] /\ succ = At(order, 1 + 1)
      BY <2>1, <2>2, ListFacts
    <2>4. List!Freed(SetPrev(SetNext(nodes, 0, succ), succ, 0), head) = Take(nodes, order, 1)
      BY <2>1, <2>2, <2>3, TakeSteps
    <2>5. /\ nodes' = List!Freed(IF succ = 0 THEN nodes ELSE [nodes EXCEPT ![succ].prev = 0], head)
          /\ head' = succ /\ length' = length - 1 /\ order' = Tail(order)
          /\ tail' = tail /\ defined' = defined
      BY <1>1 DEF List!FreeFrist, List!Alive, List!Nil
    <2> HIDE DEF succ
    <2>6. nodes' = Take(nodes, order, 1)
      BY <2>4, <2>5 DEF SetPrev, SetNext
    <2>7. order \in Seq(List!Ids)
      BY <2>1 DEF IsList
    <2>8. order' = List!RemoveAt(order, 1)
      BY <2>1, <2>5, <2>7, EndsRemoved
    <2>9. head' = At(order, 2)
      BY <2>3, <2>5
    <2>10. Len(order) = 1 \/ tail' = IF 1 = Len(order) THEN At(order, Len(order) - 1) ELSE tail
      BY <2>5
    <2>11. Len(order) = 1 => head' = 0 \/ tail' = 0
      BY <2>9 DEF At
    <2> QED
      BY <2>1, <2>2, <2>5, <2>6, <2>8, <2>9, <2>10, <2>11, RemoveStep
  <1>2. CASE head \notin DOMAIN nodes
    <2>1. order = <<>> /\ head # 0 /\ List!Crash
      BY <1>2, Ends DEF List!FreeFrist, List!Nil, List!Alive
    <2> QED
      BY <2>1, CrashStep
  <1> QED
    BY <1>1, <1>2

LEMMA FreeLastStep ==
    ASSUME ListInvariant, List!FreeLast
    PROVE  ListInvariant'
  <1>1. CASE tail \in DOMAIN nodes
    <2> DEFINE at == Len(order)
               pred == nodes[tail].prev
    <2>1. /\ order # <<>> /\ defined /\ IsList(nodes, order) /\ Len(order) \in Nat \ {0}
          /\ tail = At(order, at) /\ tail # 0
      BY <1>1, Ends DEF List!FreeLast
    <2>2. at \in 1 .. Len(order) /\ At(order, at + 1) = 0
      BY <2>1 DEF At
    <2>3. tail = order[at] /\ pred = At(order, at - 1)
      BY <2>1, <2>2, ListFacts
    <2>4. List!Freed(SetPrev(SetNext(nodes, pred, 0), 0, pred), tail) = Take(nodes, order, at)
      BY <2>1, <2>2, <2>3, TakeSteps
    <2>5. /\ nodes' = List!Freed(IF pred = 0 THEN nodes ELSE [nodes EXCEPT ![pred].next = 0], tail)
          /\ tail' = pred /\ length' = length - 1 /\ order' = List!Front(order)
          /\ head' = head /\ defined' = defined
      BY <1>1 DEF List!FreeLast, List!Alive, List!Nil
    <2>7. order \in Seq(List!Ids)
      BY <2>1 DEF IsList
    <2>8. order' = List!RemoveAt(order, at)
      BY <2>1, <2>5, <2>7, EndsRemoved
    <2>9. tail' = At(order, Len(order) - 1)
      BY <2>3, <2>5
    <2>10. Len(order) = 1 \/ head' = IF at = 1 THEN At(order, 2) ELSE head
      BY <2>5
    <2>11. Len(order) = 1 => head' = 0 \/ tail' = 0
      BY <2>9 DEF At
    <2>12. Len(order) = 1 \/ tail' = IF at = Len(order) THEN At(order, Len(order) - 1) ELSE tail
      BY <2>9
    <2> HIDE DEF pred, at
    <2>6. nodes' = Take(nodes, order, at)
      BY <2>4, <2>5 DEF SetPrev, SetNext
    <2> QED
      BY <2>1, <2>2, <2>5, <2>6, <2>8, <2>10, <2>11, <2>12, RemoveStep
  <1>2. CASE tail \notin DOMAIN nodes
    <2>1. order = <<>> /\ tail # 0 /\ List!Crash
      BY <1>2, Ends DEF List!FreeLast, List!Nil, List!Alive
    <2> QED
      BY <2>1, CrashStep
  <1> QED
    BY <1>1, <1>2

LEMMA RemoveNodeStep ==
    ASSUME ListInvariant, NEW value, List!RemoveNode(value)
    PROVE  ListInvariant'
  <1>1. CASE head # 0 /\ head \notin DOMAIN nodes
    <2>1. order = <<>> /\ List!Crash
      BY <1>1, Ends DEF List!RemoveNode, List!Nil, List!Alive
    <2> QED
      BY <1>1, <2>1, CrashStep
  <1>2. CASE head = 0 \/ head \in DOMAIN nodes
    <2> DEFINE n == List!Search(value)
               pred == nodes[n].prev
               succ == nodes[n].next
    <2>1. /\ n # 0
          /\ nodes' = List!Freed(List!Unlinked(n), n)
          /\ head' = IF pred = 0 THEN succ ELSE head
          /\ tail' = IF succ = 0 THEN pred ELSE tail
          /\ length' = length - 1
          /\ order' = List!RemoveAt(order, List!First(value))
          /\ defined /\ defined' = defined
      BY <1>2 DEF List!RemoveNode, List!Nil, List!Alive
    <2>2. IsList(nodes, order) /\ Len(order) \in Nat
      BY Ends, ListFacts
    <2>3. head = At(order, 1)
      BY <1>2, <2>2, Ends DEF At
    <2>4. PICK k \in 1 .. Len(order) : n = order[k] /\ List!First(value) = k
      BY <2>1, <2>2, <2>3, SearchFinds
    <2>5. List!Unlinked(n) = SetPrev(SetNext(nodes, pred, succ), succ, pred)
      BY DEF List!Unlinked, List!Nil, SetPrev, SetNext
    <2>6. /\ pred = At(order, k - 1) /\ succ = At(order, k + 1)
          /\ (At(order, k - 1) = 0) = (k - 1 \notin 1 .. Len(order))
          /\ (At(order, k + 1) = 0) = (k + 1 \notin 1 .. Len(order))
      BY <2>2, <2>4, ListFacts
    <2> HIDE DEF n, pred, succ
    <2>7. List!Freed(SetPrev(SetNext(nodes, pred, succ), succ, pred), n) = Take(nodes, order, k)
      BY <2>2, <2>4, <2>6, TakeSteps
    <2>8. nodes' = Take(nodes, order, k) /\ order' = List!RemoveAt(order, k)
      BY <2>1, <2>4, <2>5, <2>7
    <2>9. /\ k \in Nat /\ k >= 1 /\ k <= Len(order)
          /\ (pred = 0) = (k = 1) /\ (succ = 0) = (k = Len(order))
      BY <2>2, <2>6
    <2>10. head' = IF k = 1 THEN At(order, 2) ELSE head
      BY <2>1, <2>6, <2>9
    <2>11. tail' = IF k = Len(order) THEN At(order, Len(order) - 1) ELSE tail
      BY <2>1, <2>6, <2>9
    <2>12. Len(order) = 1 => head' = 0
      BY <2>9, <2>10 DEF At
    <2> QED
      BY <2>1, <2>8, <2>10, <2>11, <2>12, RemoveStep
  <1> QED
    BY <1>1, <1>2

LEMMA FreeListStep ==
    ASSUME ListInvariant, List!FreeList
    PROVE  ListInvariant'
  <1>1. CASE head # 0 /\ head \notin DOMAIN nodes
    <2>1. order = <<>> /\ List!Crash
      BY <1>1, Ends DEF List!FreeList, List!Nil, List!Alive
    <2> QED
      BY <1>1, <2>1, CrashStep
  <1>2. CASE head = 0 \/ head \in DOMAIN nodes
    <2>1. /\ nodes' = <<>> /\ head' = 0 /\ tail' = 0 /\ length' = 0 /\ order' = <<>>
          /\ defined' = defined /\ defined
      BY <1>2 DEF List!FreeList, List!Nil, List!Alive
    <2> QED
      BY <2>1, EmptySound DEF ListInvariant
  <1> QED
    BY <1>1, <1>2

LEMMA ListInit == List!Init => ListInvariant
  BY EmptySound DEF List!Init, List!Nil, ListInvariant

LEMMA ListStep ==
    ASSUME MaxLength \in Nat
    PROVE  ListInvariant /\ [List!Next]_List!vars => ListInvariant'
  <1> SUFFICES ASSUME ListInvariant, [List!Next]_List!vars
               PROVE  ListInvariant'
    OBVIOUS
  <1>1. CASE UNCHANGED List!vars
    BY <1>1 DEF List!vars, ListInvariant
  <1>2. ASSUME NEW value \in Values, List!AddHead(value)
        PROVE  ListInvariant'
    BY <1>2, AddHeadStep
  <1>3. ASSUME NEW value \in Values, List!AddTail(value)
        PROVE  ListInvariant'
    BY <1>3, AddTailStep
  <1>4. ASSUME NEW value \in Values, List!RemoveNode(value)
        PROVE  ListInvariant'
    BY <1>4, RemoveNodeStep
  <1>5. ASSUME NEW old \in List!Ids, NEW value \in Values, List!InsertAfter(old, value)
        PROVE  ListInvariant'
    BY <1>5, InsertAfterStep
  <1>6. ASSUME NEW old \in List!Ids, NEW value \in Values, List!InsertBefore(old, value)
        PROVE  ListInvariant'
    BY <1>6, InsertBeforeStep
  <1>7. CASE List!FreeFrist
    BY <1>7, FreeFristStep
  <1>8. CASE List!FreeLast
    BY <1>8, FreeLastStep
  <1>9. CASE List!FreeList
    BY <1>9, FreeListStep
  <1> QED
    BY <1>1, <1>2, <1>3, <1>4, <1>5, <1>6, <1>7, <1>8, <1>9 DEF List!Next

LEMMA ListAlone == [Next]_vars => [List!Next]_List!vars
  BY DEF Next, vars, listVars, List!vars

(* The list of any length and any values is, pointer by pointer, the list *)
(* its operations stand for, up to the use of a freed node.                *)
THEOREM ListCorrect == Spec => []ListIntact
  <1>1. ListInvariant => ListIntact
    <2> SUFFICES ASSUME ListInvariant
                 PROVE  ListIntact
      OBVIOUS
    <2>1. IsList(nodes, order)
      BY DEF ListInvariant, Sound
    <2>2. Len(order) \in Nat /\ DOMAIN order = 1 .. Len(order)
      BY <2>1 DEF IsList
    <2>3. DOMAIN nodes = List!ToSet(order)
      <3>1. DOMAIN nodes = Members(order)
        BY <2>1, MemberFacts
      <3> QED
        BY <2>2, <3>1 DEF List!ToSet, Members
    <2>4. List!Linked
      <3> SUFFICES ASSUME NEW i \in 1 .. Len(order)
                   PROVE  /\ nodes[order[i]].prev = (IF i = 1 THEN 0 ELSE order[i - 1])
                          /\ nodes[order[i]].next = (IF i = Len(order) THEN 0 ELSE order[i + 1])
        BY <2>2 DEF List!Linked, List!Nil
      <3>1. nodes[order[i]].prev = At(order, i - 1) /\ nodes[order[i]].next = At(order, i + 1)
        BY <2>1, ListFacts
      <3>2. At(order, i - 1) = IF i = 1 THEN 0 ELSE order[i - 1]
        BY <2>2 DEF At
      <3>3. At(order, i + 1) = IF i = Len(order) THEN 0 ELSE order[i + 1]
        <4>1. CASE i = Len(order)
          BY <2>2, <4>1 DEF At
        <4>2. CASE i # Len(order)
          <5>1. i + 1 \in 1 .. Len(order)
            <6> DEFINE n == Len(order)
            <6>1. n \in Nat /\ i \in 1 .. n /\ i # n
              BY <2>2, <4>2
            <6> HIDE DEF n
            <6>2. i + 1 \in 1 .. n
              BY ONLY <6>1
            <6> QED
              BY <6>2 DEF n
          <5> QED
            BY <4>2, <5>1 DEF At
        <4> QED
          BY <4>1, <4>2
      <3> QED
        BY <3>1, <3>2, <3>3
    <2> QED
      BY <2>3, <2>4 DEF ListInvariant, Sound, ListIntact, List!ListIntact, List!Last, List!Nil
  <1>2. Init => ListInvariant
    BY ListInit DEF Init
  <1>3. ListInvariant /\ [Next]_vars => ListInvariant'
    BY LibraryAssumption, ListAlone, ListStep
  <1> QED
    BY <1>1, <1>2, <1>3, PTL DEF Spec

-------------------------------------------------------------------------------
(* Sockets. *)

(* The step of a call, and what there is at it. *)
Entered == {"resolve", "accept", "transfer"}
Open    == {"reuse", "source", "connect", "listen"}
Closed  == {"idle", "address"} \cup Entered
Steps   == Closed \cup Open \cup {"error", "end"}

SocketTypes ==
    /\ call \in [fn : {"none", "connect", "server", "accept", "transfer"}, step : Steps,
                 source : BOOLEAN]
    /\ sock \in Descriptors \cup {Net!NetErr}
    /\ open \subseteq Descriptors
    /\ lists \in Nat

StepsSound ==
    /\ call.step \in Closed => sock = Net!NetErr
    /\ call.step \in Open => sock # Net!NetErr

(* Where the bytes are. *)
Parts == moved \in [done : Nat, buf : Nat, parts : Nat, bytes : SUBSET Nat]

PartsPlaced ==
    /\ moved.parts = 0 => moved.done = 0 /\ moved.buf = 0
    /\ moved.parts = 1 => moved.buf = moved.done
    /\ moved.parts >= 1 => moved.done >= 1
    /\ moved.parts >= 2 => moved.buf > moved.done
    /\ moved.parts <= 2 => moved.bytes = 1 .. moved.done
    /\ moved.parts > 2 => \E x \in moved.bytes : x > moved.done
    /\ \A x \in moved.bytes : x <= moved.buf

NetInvariant ==
    /\ SocketTypes /\ StepsSound /\ Net!NoSocketLost
    /\ Parts /\ PartsPlaced

Free == Descriptors \ open

LEMMA NextDescriptor ==
    ASSUME Descriptors \subseteq Nat, open \subseteq Descriptors, open # Descriptors
    PROVE  Net!Min(Free) \in Free
  <1>1. \E n \in Free : \A m \in Free : n <= m
    BY LeastNumber DEF Free
  <1> QED
    BY <1>1 DEF Net!Min, Free

LEMMA NetInit == Net!Init => NetInvariant
  <1> SUFFICES ASSUME Net!Init PROVE NetInvariant
    OBVIOUS
  <1>1. SocketTypes /\ StepsSound /\ Net!NoSocketLost
    BY DEF Net!Init, SocketTypes, StepsSound, Net!NoSocketLost, Net!Idle, Net!NetErr, Net!At,
           Closed, Open, Entered, Steps
  <1>2. Parts /\ PartsPlaced
    BY DEF Net!Init, Parts, PartsPlaced, Net!NothingMoved
  <1> QED
    BY <1>1, <1>2 DEF NetInvariant

LEMMA NetStep ==
    ASSUME Descriptors \subseteq Nat, Count \in Nat, NetInvariant, Net!Next
    PROVE  NetInvariant'
  <1> USE DEF NetInvariant
  <1>0. Net!NetErr \notin Descriptors
    BY DEF Net!NetErr
  <1>1. ASSUME UNCHANGED moved
        PROVE  (Parts /\ PartsPlaced)'
    BY <1>1 DEF Parts, PartsPlaced
  <1>2. CASE Net!Enter
    <2>1. (SocketTypes /\ StepsSound /\ Net!NoSocketLost)'
      <3>1. /\ call' \in [fn : {"none", "connect", "server", "accept", "transfer"},
                          step : Steps, source : BOOLEAN]
            /\ call'.step \in Entered
        <4>1. Net!Idle = [fn |-> "none", step |-> "idle", source |-> FALSE]
          BY DEF Net!Idle
        <4>2. ASSUME NEW fn \in {"server", "accept", "transfer"}, NEW step \in Entered,
                     call' = [Net!Idle EXCEPT !.fn = fn, !.step = step]
              PROVE  call' = [fn |-> fn, step |-> step, source |-> FALSE]
          BY <4>1, <4>2
        <4>3. ASSUME NEW fn \in {"connect", "server", "accept", "transfer"}, NEW step \in Entered,
                     NEW source \in BOOLEAN, call' = [fn |-> fn, step |-> step, source |-> source]
              PROVE  /\ call' \in [fn : {"none", "connect", "server", "accept", "transfer"},
                                   step : Steps, source : BOOLEAN]
                     /\ call'.step \in Entered
          BY <4>3 DEF Closed, Steps
        <4>4. {"resolve", "accept", "transfer"} = Entered
          BY DEF Entered
        <4> QED
          BY <1>2, <4>2, <4>3, <4>4 DEF Net!Enter
      <3>2. call.step = "idle" /\ sock' = Net!NetErr /\ UNCHANGED <<open, lists, held>>
        BY <1>2 DEF Net!Enter, Net!At
      <3>3. held' = open' /\ lists' = 0 /\ open' \subseteq Descriptors
        BY <3>2 DEF SocketTypes, StepsSound, Net!NoSocketLost, Net!At, Closed
      <3> QED
        BY <1>0, <3>1, <3>2, <3>3
           DEF SocketTypes, StepsSound, Net!NoSocketLost, Net!At, Closed, Open, Entered
    <2>2. moved' = Net!NothingMoved
      BY <1>2 DEF Net!Enter
    <2>3. (Parts /\ PartsPlaced)'
      BY <2>2 DEF Parts, PartsPlaced, Net!NothingMoved
    <2> QED
      BY <2>1, <2>3
  <1>3. CASE Net!Resolve
    <2>1. (SocketTypes /\ StepsSound /\ Net!NoSocketLost)'
      <3>1. call.step = "resolve" /\ sock = Net!NetErr /\ held = open /\ lists = 0 /\ open' = open
        BY <1>3 DEF Net!Resolve, StepsSound, Net!NoSocketLost, Net!At, Closed, Entered
      <3>2. CASE Net!Return(Net!NetErr) /\ UNCHANGED lists
        BY <1>0, <3>1, <3>2 DEF Net!Return, SocketTypes, StepsSound, Net!NoSocketLost, Net!Idle,
                  Net!At, Closed, Open, Entered, Steps
      <3>3. CASE lists' = lists + 1 /\ Net!Goto("address") /\ UNCHANGED <<sock, held>>
        BY <1>0, <3>1, <3>3 DEF Net!Goto, SocketTypes, StepsSound, Net!NoSocketLost, Net!At,
                  Closed, Open, Entered, Steps
      <3> QED
        BY <1>3, <3>2, <3>3 DEF Net!Resolve
    <2> QED
      BY <1>1, <1>3, <2>1 DEF Net!Resolve
  <1>4. CASE Net!Address
    <2>1. (SocketTypes /\ StepsSound /\ Net!NoSocketLost)'
      <3>1. CASE left = 0 /\ Net!Goto("error") /\ UNCHANGED <<left, sock, open>>
        BY <1>4, <3>1 DEF Net!Address, Net!Goto, SocketTypes, StepsSound, Net!NoSocketLost,
                  Net!Idle, Net!NetErr, Net!At, Closed, Open, Entered, Steps
      <3>2. CASE left > 0 /\ left' = left - 1 /\ sock' = Net!NetErr /\ UNCHANGED <<call, open>>
        BY <1>4, <3>2 DEF Net!Address, Net!Goto, SocketTypes, StepsSound, Net!NoSocketLost,
                  Net!Idle, Net!NetErr, Net!At, Closed, Open, Entered, Steps
      <3>3. ASSUME NEW fd \in Free, sock' = fd, open' = open \cup {fd},
                   Net!Goto(IF call.fn = "server" THEN "listen" ELSE "reuse")
            PROVE  (SocketTypes /\ StepsSound /\ Net!NoSocketLost)'
        BY <1>0, <1>4, <3>3 DEF Net!Address, Net!Goto, SocketTypes, StepsSound, Net!NoSocketLost,
                  Free, Net!Idle, Net!At, Closed, Open, Entered, Steps
      <3>4. Net!At("address") /\ sock = Net!NetErr
        BY <1>4 DEF Net!Address, Net!At, StepsSound, Closed
      <3>5. open # Descriptors => Net!Min(Descriptors \ open) \in Free
        BY NextDescriptor DEF SocketTypes, Free
      <3> QED
        BY <1>4, <3>1, <3>2, <3>3, <3>5 DEF Net!Address
    <2> QED
      BY <1>1, <1>4, <2>1 DEF Net!Address
  <1>5. CASE Net!Reuse \/ Net!Source
    <2>1. (SocketTypes /\ StepsSound /\ Net!NoSocketLost)'
      BY <1>5 DEF Net!Reuse, Net!Source, Net!Goto, SocketTypes, StepsSound, Net!NoSocketLost,
                  Net!Idle, Net!At, Closed, Open, Entered, Steps
    <2> QED
      BY <1>1, <1>5, <2>1 DEF Net!Reuse, Net!Source
  <1>6. CASE Net!Connect \/ Net!Listen
    <2>1. (SocketTypes /\ StepsSound /\ Net!NoSocketLost)'
      BY <1>0, <1>6 DEF Net!Connect, Net!Listen, Net!Refused, Net!Goto, SocketTypes, StepsSound,
                  Net!NoSocketLost, Net!Idle, Net!At, Closed, Open, Entered, Steps
    <2> QED
      BY <1>1, <1>6, <2>1 DEF Net!Connect, Net!Listen
  <1>7. CASE Net!Error \/ Net!End
    <2>1. CASE Net!Error
      BY <1>0, <1>1, <2>1 DEF Net!Error, Net!Goto, SocketTypes, StepsSound, Net!NoSocketLost,
                  Net!At, Closed, Open, Entered, Steps
    <2>2. CASE Net!End
      <3>1. call.step = "end" /\ lists' = lists - 1 /\ open' = open /\ Net!Return(sock)
        BY <2>2 DEF Net!End, Net!At
      <3>2. lists = 1
        BY <3>1 DEF Net!NoSocketLost, Net!At
      <3>3. (SocketTypes /\ StepsSound /\ Net!NoSocketLost)'
        BY <1>0, <3>1, <3>2 DEF Net!Return, SocketTypes, StepsSound, Net!NoSocketLost, Net!Idle,
                  Net!At, Closed, Open, Entered, Steps
      <3> QED
        BY <1>1, <2>2, <3>3 DEF Net!End
    <2> QED
      BY <1>7, <2>1, <2>2
  <1>8. CASE Net!Accept
    <2>1. (SocketTypes /\ StepsSound /\ Net!NoSocketLost)'
      <3>1. CASE UNCHANGED <<call, sock, open, held>>
        BY <1>8, <3>1 DEF Net!Accept, SocketTypes, StepsSound, Net!NoSocketLost, Net!At
      <3>2. CASE Net!Return(Net!NetErr) /\ UNCHANGED open
        BY <1>8, <3>2 DEF Net!Accept, Net!Return, SocketTypes, StepsSound, Net!NoSocketLost,
                  Net!Idle, Net!At, Closed, Open, Entered, Steps
      <3>3. ASSUME NEW fd \in Free, open' = open \cup {fd}, Net!Return(fd)
            PROVE  (SocketTypes /\ StepsSound /\ Net!NoSocketLost)'
        BY <1>0, <1>8, <3>3 DEF Net!Accept, Net!Return, SocketTypes, StepsSound, Net!NoSocketLost,
                  Free, Net!Idle, Net!At, Closed, Open, Entered, Steps
      <3>4. open # Descriptors => Net!Min(Descriptors \ open) \in Free
        BY NextDescriptor DEF SocketTypes, Free
      <3> QED
        BY <1>8, <3>1, <3>2, <3>3, <3>4 DEF Net!Accept
    <2> QED
      BY <1>1, <1>8, <2>1 DEF Net!Accept
  <1>9. CASE Net!Transfer
    <2>1. (SocketTypes /\ StepsSound /\ Net!NoSocketLost)'
      <3>1. CASE UNCHANGED <<call, sock, held>>
        BY <1>9, <3>1 DEF Net!Transfer, SocketTypes, StepsSound, Net!NoSocketLost, Net!At
      <3>2. CASE Net!Return(Net!NetErr)
        BY <1>0, <1>9, <3>2 DEF Net!Transfer, Net!Return, SocketTypes, StepsSound,
                  Net!NoSocketLost, Net!Idle, Net!At, Closed, Open, Entered, Steps
      <3> QED
        BY <1>9, <3>1, <3>2 DEF Net!Transfer
    <2>2. CASE UNCHANGED moved
      BY <1>1, <2>1, <2>2
    <2>3. ASSUME NEW n \in 1 .. Count - moved.done,
                 moved' = [Net!Advanced(moved, n) EXCEPT
                              !.parts = @ + 1,
                              !.bytes = @ \cup (moved.buf + 1 .. moved.buf + n)]
          PROVE  (Parts /\ PartsPlaced)'
      <3> DEFINE d == moved.done
                 f == moved.buf
                 p == moved.parts
                 B == moved.bytes
      <3>1. /\ d \in Nat /\ f \in Nat /\ p \in Nat /\ B \in SUBSET Nat
            /\ moved = [done |-> d, buf |-> f, parts |-> p, bytes |-> B]
        BY DEF Parts
      <3>2. moved' = [done |-> d + n, buf |-> f + d + n, parts |-> p + 1,
                      bytes |-> B \cup (f + 1 .. f + n)]
        BY <2>3, <3>1 DEF Net!Advanced
      <3>3. /\ p = 0 => d = 0 /\ f = 0
            /\ p = 1 => f = d
            /\ p >= 1 => d >= 1
            /\ p >= 2 => f > d
            /\ p <= 2 => B = 1 .. d
            /\ p > 2 => \E x \in B : x > d
            /\ \A x \in B : x <= f
        BY DEF PartsPlaced
      <3> HIDE DEF d, f, p, B
      <3>4. n \in Nat /\ n >= 1
        BY <3>1 DEF d
      <3>5. Parts'
        BY <3>1, <3>2, <3>4 DEF Parts
      <3>6. p <= 1 => B \cup (f + 1 .. f + n) = 1 .. d + n
        BY <3>1, <3>3, <3>4
      <3>7. p >= 2 => f + n \in B \cup (f + 1 .. f + n) /\ f + n > d + n
        BY <3>1, <3>3, <3>4
      <3>8. \A x \in B \cup (f + 1 .. f + n) : x <= f + d + n
        BY <3>1, <3>3, <3>4
      <3>9. PartsPlaced'
        BY <3>1, <3>2, <3>3, <3>4, <3>6, <3>7, <3>8 DEF PartsPlaced
      <3> QED
        BY <3>5, <3>9
    <2> QED
      BY <1>9, <2>1, <2>2, <2>3 DEF Net!Transfer
  <1>10. CASE Net!Close
    <2>1. (SocketTypes /\ StepsSound /\ Net!NoSocketLost)'
      BY <1>10 DEF Net!Close, SocketTypes, StepsSound, Net!NoSocketLost, Net!Idle, Net!At, Closed,
                  Open, Entered, Steps
    <2> QED
      BY <1>1, <1>10, <2>1 DEF Net!Close
  <1> QED
    BY <1>2, <1>3, <1>4, <1>5, <1>6, <1>7, <1>8, <1>9, <1>10 DEF Net!Next

LEMMA SocketsAlone == [Next]_vars => [Net!Next]_Net!vars
  BY DEF Next, vars, netVars, Net!vars

(* No socket and no list of addresses is lost whichever system call of     *)
(* hnet.c fails, for any number of descriptors and addresses; a transfer   *)
(* in two parts has its bytes where they belong, and a third one is where  *)
(* netRead and netWrite go past what they were asked for (hnet.c:279-300). *)
THEOREM SocketsCorrect == Spec => []SocketsRight
  <1>1. NetInvariant => SocketsRight
    <2> SUFFICES ASSUME NetInvariant
                 PROVE  Net!TransferPlaced
      BY DEF NetInvariant, SocketsRight, Net!SocketsRight
    <2>1. ASSUME moved.parts > 2
          PROVE  Net!Max(moved.bytes) > moved.done
      <3>1. PICK x \in moved.bytes : x > moved.done
        BY <2>1 DEF NetInvariant, PartsPlaced
      <3>2. moved.bytes \in SUBSET Nat /\ moved.buf \in Nat /\ moved.done \in Nat
        BY DEF NetInvariant, Parts
      <3>3. \E y \in moved.bytes : \A z \in moved.bytes : y >= z
        BY <3>2, GreatestNumber DEF NetInvariant, PartsPlaced
      <3>4. Net!Max(moved.bytes) \in moved.bytes /\ Net!Max(moved.bytes) >= x
        BY <3>3 DEF Net!Max
      <3> QED
        BY <3>1, <3>2, <3>4
    <2> QED
      BY <2>1 DEF NetInvariant, PartsPlaced, Net!TransferPlaced
  <1>2. NetInvariant /\ UNCHANGED Net!vars => NetInvariant'
    BY DEF Net!vars, NetInvariant, SocketTypes, StepsSound, Net!NoSocketLost, Parts, PartsPlaced,
           Net!At
  <1>3. NetInvariant /\ [Next]_vars => NetInvariant'
    BY <1>2, LibraryAssumption, SocketsAlone, NetStep
  <1>4. Init => NetInvariant
    BY NetInit DEF Init
  <1> QED
    BY <1>1, <1>3, <1>4, PTL DEF Spec

-------------------------------------------------------------------------------
(* Dynamic strings: header and buffer. *)

Alphabet == Bytes \cup {NulByte}

Headers == [type : Strings!Types, len : Nat, alloc : Nat, room : Nat, text : Seq(Alphabet)]

(* The length is that of the text and did not wrap, and there is room for  *)
(* what the header promises.                                               *)
GoodString(s) ==
    /\ s \in Headers
    /\ s.len = Len(s.text)
    /\ s.len < Strings!Capacity(s.type) /\ s.alloc < Strings!Capacity(s.type)
    /\ s.len <= Strings!Alloc(s) /\ Strings!Alloc(s) <= s.room

LEMMA SmallRemainder ==
    ASSUME NEW m \in Nat, NEW n \in Nat, n < m
    PROVE  n % m = n
  OBVIOUS

LEMMA TypeFacts ==
    /\ Strings!Types = 1 .. Len(Bits) /\ Len(Bits) \in Nat /\ Len(Bits) >= 2
    /\ \A t \in Strings!Types : Strings!Capacity(t) \in Nat \ {0}
    /\ Strings!Capacity(1) <= Strings!Capacity(2)
    /\ 2 * (MaxText + 3) < Strings!Capacity(Len(Bits))
    /\ 1 \in Strings!Types /\ 2 \in Strings!Types /\ Len(Bits) \in Strings!Types
  BY LibraryAssumption DEF Strings!Types, Strings!Capacity

(* sdsReqType finds a type that is large enough, when there is one. *)
LEMMA ReqTypeLarge ==
    ASSUME NEW limit \in Nat, limit < Strings!Capacity(Len(Bits))
    PROVE  /\ Strings!ReqType(limit) \in Strings!Types
           /\ limit < Strings!Capacity(Strings!ReqType(limit))
  <1> DEFINE T == {t \in Strings!Types : limit < Strings!Capacity(t) \/ t = Len(Bits)}
  <1>1. T \in SUBSET Nat /\ T # {}
    BY TypeFacts
  <1>2. \E t \in T : \A u \in T : t <= u
    <2> HIDE DEF T
    <2> QED
      BY <1>1, LeastNumber
  <1>3. Strings!ReqType(limit) \in T
    <2>1. Strings!ReqType(limit) = Strings!Min(T)
      BY DEF Strings!ReqType
    <2> HIDE DEF T
    <2> QED
      BY <1>2, <2>1 DEF Strings!Min
  <1> QED
    BY <1>3

(* The length is set, to what the header can hold. *)
LEMMA LengthSet ==
    ASSUME NEW s \in Headers, NEW t \in Seq(Alphabet), NEW n \in Nat, n < Strings!Capacity(s.type)
    PROVE  Strings!SetLen([s EXCEPT !.text = t], n) = [s EXCEPT !.text = t, !.len = n]
  <1>1. s.type \in Strings!Types /\ Strings!Capacity(s.type) \in Nat \ {0}
    BY TypeFacts DEF Headers
  <1>2. n % Strings!Capacity(s.type) = n
    BY <1>1, SmallRemainder
  <1> QED
    BY <1>2 DEF Strings!SetLen, Headers

LEMMA ResizedGood ==
    ASSUME NEW s, GoodString(s), NEW type \in Strings!Types, NEW room \in Nat,
           s.len <= room, room < Strings!Capacity(type)
    PROVE  /\ GoodString(Strings!Resized(s, type, room))
           /\ Strings!Resized(s, type, room).text = s.text
           /\ type # 1 => Strings!Avail(Strings!Resized(s, type, room)) = room - s.len
  <1> DEFINE a == [s EXCEPT !.type = type, !.room = room]
             r == [s EXCEPT !.type = type, !.room = room,
                            !.alloc = IF type = 1 THEN 0 ELSE room]
  <1>1. Strings!Capacity(type) \in Nat \ {0} /\ s \in Headers /\ s.len < Strings!Capacity(type)
    BY TypeFacts DEF GoodString, Headers
  <1>2. s.len % Strings!Capacity(type) = s.len /\ room % Strings!Capacity(type) = room
    BY <1>1, SmallRemainder DEF Headers
  <1>3. Strings!SetLen(a, s.len) = a
    BY <1>1, <1>2 DEF Strings!SetLen, Headers
  <1>4. Strings!SetAlloc(a, room) = r
    BY <1>1, <1>2 DEF Strings!SetAlloc, Headers, Strings!Type5
  <1>5. Strings!Resized(s, type, room) = r
    BY <1>3, <1>4 DEF Strings!Resized
  <1>6. /\ r \in Headers /\ r.type = type /\ r.room = room /\ r.text = s.text /\ r.len = s.len
        /\ r.alloc = IF type = 1 THEN 0 ELSE room
    BY <1>1 DEF Headers
  <1> HIDE DEF r
  <1>7. GoodString(r)
    BY <1>1, <1>6 DEF GoodString, Headers, Strings!Alloc, Strings!Type5
  <1>8. type # 1 => Strings!Avail(r) = room - s.len
    BY <1>6 DEF Strings!Avail, Strings!Type5
  <1> QED
    BY <1>5, <1>6, <1>7, <1>8

LEMMA RoomMade ==
    ASSUME NEW s, GoodString(s), NEW addlen \in Nat, s.len + addlen <= MaxText + 3
    PROVE  /\ GoodString(Strings!MakeRoomFor(s, addlen))
           /\ Strings!MakeRoomFor(s, addlen).text = s.text
           /\ Strings!MakeRoomFor(s, addlen).len = s.len
           /\ Strings!Avail(Strings!MakeRoomFor(s, addlen)) >= addlen
  <1> DEFINE need == s.len + addlen
             newlen == IF need < MaxPrealloc THEN 2 * need ELSE need + MaxPrealloc
             type == IF Strings!ReqType(newlen) = 1 THEN 2 ELSE Strings!ReqType(newlen)
  <1>0. s \in Headers /\ s.len \in Nat /\ Strings!Avail(s) \in Int
    BY DEF GoodString, Headers, Strings!Avail
  <1>1. /\ newlen \in Nat /\ newlen >= s.len + addlen
        /\ newlen < Strings!Capacity(Len(Bits))
    <2>1. /\ Strings!Capacity(Len(Bits)) \in Nat /\ MaxText \in Nat /\ MaxPrealloc \in Nat
          /\ 2 * (MaxText + 3) < Strings!Capacity(Len(Bits))
      BY TypeFacts, LibraryAssumption
    <2>2. need \in Nat /\ need >= s.len /\ need <= MaxText + 3
      BY <1>0
    <2> HIDE DEF need
    <2>3. newlen \in Nat /\ newlen >= need /\ newlen <= 2 * need
      BY <2>1, <2>2
    <2> QED
      BY <2>1, <2>2, <2>3 DEF need
  <1>2. Strings!ReqType(newlen) \in Strings!Types /\ newlen < Strings!Capacity(Strings!ReqType(newlen))
    BY <1>1, ReqTypeLarge
  <1> HIDE DEF newlen
  <1>3. type \in Strings!Types /\ newlen < Strings!Capacity(type) /\ type # 1
    BY <1>1, <1>2, TypeFacts
  <1>4. CASE Strings!Avail(s) >= addlen
    BY <1>0, <1>4 DEF Strings!MakeRoomFor
  <1>5. CASE ~ (Strings!Avail(s) >= addlen)
    <2>1. Strings!MakeRoomFor(s, addlen) = Strings!Resized(s, type, newlen)
      BY <1>5 DEF Strings!MakeRoomFor, newlen, Strings!Type5, Strings!Type8
    <2> HIDE DEF type
    <2>2. /\ GoodString(Strings!Resized(s, type, newlen))
          /\ Strings!Resized(s, type, newlen).text = s.text
          /\ Strings!Avail(Strings!Resized(s, type, newlen)) = newlen - s.len
      BY <1>0, <1>1, <1>3, ResizedGood
    <2> QED
      BY <1>0, <1>1, <2>1, <2>2 DEF GoodString
  <1> QED
    BY <1>4, <1>5

(* Another text that is no longer than what is allocated. *)
LEMMA TextSet ==
    ASSUME NEW s, GoodString(s), NEW t \in Seq(Alphabet), Len(t) <= Strings!Alloc(s)
    PROVE  /\ GoodString(Strings!SetLen([s EXCEPT !.text = t], Len(t)))
           /\ Strings!SetLen([s EXCEPT !.text = t], Len(t)).text = t
  <1> DEFINE r == [s EXCEPT !.text = t, !.len = Len(t)]
  <1>1. s \in Headers /\ Len(t) \in Nat /\ Strings!Capacity(s.type) \in Nat
    BY TypeFacts DEF GoodString, Headers
  <1>2. Len(t) < Strings!Capacity(s.type)
    BY <1>1 DEF GoodString, Strings!Alloc, Headers
  <1>3. Strings!SetLen([s EXCEPT !.text = t], Len(t)) = r
    <2>1. \A n \in Nat : n < Strings!Capacity(s.type) =>
              Strings!SetLen([s EXCEPT !.text = t], n) = [s EXCEPT !.text = t, !.len = n]
      BY <1>1, LengthSet
    <2> QED
      BY <1>1, <1>2, <2>1, Zenon
  <1>4. /\ r \in Headers /\ r.type = s.type /\ r.room = s.room /\ r.text = t /\ r.len = Len(t)
        /\ r.alloc = s.alloc
    BY <1>1 DEF Headers
  <1> HIDE DEF r
  <1>5. GoodString(r)
    BY <1>1, <1>2, <1>4 DEF GoodString, Headers, Strings!Alloc, Strings!Type5
  <1> QED
    BY <1>3, <1>4, <1>5

LEMMA AppendedGood ==
    ASSUME NEW s, GoodString(s), NEW t \in Seq(Alphabet), Len(t) <= Strings!Avail(s)
    PROVE  /\ GoodString(Strings!Written(s, s.len, t)) /\ Strings!Written(s, s.len, t).text = s.text \o t
           /\ GoodString(Strings!SetLen([s EXCEPT !.text = @ \o t], s.len + Len(t)))
           /\ Strings!SetLen([s EXCEPT !.text = @ \o t], s.len + Len(t)).text = s.text \o t
  <1>1. s \in Headers /\ Len(t) \in Nat /\ s.text \in Seq(Alphabet) /\ s.len = Len(s.text) /\ s.len \in Nat
    BY DEF GoodString, Headers
  <1>2. SubSeq(s.text, 1, s.len) = s.text
    BY <1>1
  <1>3. s.text \o t \in Seq(Alphabet) /\ Len(s.text \o t) = s.len + Len(t)
    BY <1>1
  <1>4. s.len + Len(t) <= Strings!Alloc(s)
    BY <1>1 DEF GoodString, Strings!Avail, Strings!Alloc, Strings!Type5, Headers
  <1> QED
    BY <1>2, <1>3, <1>4, TextSet DEF Strings!Written

(* The string is good and holds the text. *)
Holds(s, t) == GoodString(s) /\ s.text = t

LEMMA HoldsFacts ==
    ASSUME NEW s, NEW t, Holds(s, t)
    PROVE  /\ GoodString(s) /\ s.text = t /\ t \in Seq(Alphabet) /\ s.len = Len(t) /\ Len(t) \in Nat
           /\ Strings!Alloc(s) \in Nat /\ Len(t) <= Strings!Alloc(s) /\ Strings!Avail(s) \in Nat
           /\ \A n \in Nat : n <= Strings!Avail(s) => Len(t) + n <= Strings!Alloc(s)
  BY DEF Holds, GoodString, Headers, Strings!Avail, Strings!Alloc

LEMMA NewHolds ==
    ASSUME NEW t \in Seq(Alphabet), Len(t) <= MaxText
    PROVE  Holds(Strings!NewLen(t), t)
  <1> DEFINE type == IF t = <<>> THEN 2 ELSE Strings!ReqType(Len(t))
             s == [type |-> type, len |-> 0, alloc |-> 0, room |-> Len(t), text |-> t]
             r == [type |-> type, len |-> Len(t), alloc |-> IF type = 1 THEN 0 ELSE Len(t),
                   room |-> Len(t), text |-> t]
  <1>1. Len(t) \in Nat /\ Len(t) < Strings!Capacity(Len(Bits)) /\ (t = <<>> => Len(t) = 0)
    <2>1. Strings!Capacity(Len(Bits)) \in Nat /\ MaxText \in Nat
      BY TypeFacts, LibraryAssumption
    <2> QED
      BY <2>1, TypeFacts
  <1>2. type \in Strings!Types /\ Len(t) < Strings!Capacity(type) /\ Strings!Capacity(type) \in Nat
    <2>1. /\ Strings!ReqType(Len(t)) \in Strings!Types
          /\ Len(t) < Strings!Capacity(Strings!ReqType(Len(t)))
      BY <1>1, ReqTypeLarge
    <2> QED
      BY <1>1, <2>1, TypeFacts
  <1>3. Len(t) % Strings!Capacity(type) = Len(t)
    BY <1>1, <1>2, SmallRemainder
  <1>4. Strings!NewLen(t) = Strings!SetAlloc(Strings!SetLen(s, Len(t)), Len(t))
    BY DEF Strings!NewLen, Strings!Type8
  <1> HIDE DEF type
  <1>5. Strings!SetAlloc(Strings!SetLen(s, Len(t)), Len(t)) = r
    <2> DEFINE a == [type |-> type, len |-> Len(t), alloc |-> 0, room |-> Len(t), text |-> t]
    <2>1. Strings!SetLen(s, Len(t)) = a
      BY <1>3 DEF Strings!SetLen
    <2>2. Strings!SetAlloc(a, Len(t)) = r
      BY <1>3 DEF Strings!SetAlloc, Strings!Type5
    <2> QED
      BY <2>1, <2>2
  <1>6. r \in Headers
    BY <1>1, <1>2 DEF Headers
  <1> QED
    BY <1>1, <1>2, <1>4, <1>5, <1>6 DEF Holds, GoodString, Strings!Alloc, Strings!Type5

LEMMA RoomHolds ==
    ASSUME NEW s, NEW t, Holds(s, t), NEW n \in Nat, Len(t) + n <= MaxText + 3
    PROVE  Holds(Strings!MakeRoomFor(s, n), t) /\ Strings!Avail(Strings!MakeRoomFor(s, n)) >= n
  BY HoldsFacts, RoomMade DEF Holds

LEMMA CutHolds ==
    ASSUME NEW s, NEW t, Holds(s, t), NEW u \in Seq(Alphabet), Len(u) <= Len(t)
    PROVE  Holds(Strings!SetLen([s EXCEPT !.text = u], Len(u)), u)
  <1>1. Len(u) \in Nat /\ Len(u) <= Strings!Alloc(s)
    BY HoldsFacts
  <1> QED
    BY <1>1, TextSet DEF Holds

LEMMA PutHolds ==
    ASSUME NEW s, NEW t, Holds(s, t), NEW u \in Seq(Alphabet), Len(u) <= Strings!Avail(s)
    PROVE  /\ Holds(Strings!Written(s, s.len, u), t \o u)
           /\ Holds(Strings!SetLen([s EXCEPT !.text = @ \o u], s.len + Len(u)), t \o u)
  BY HoldsFacts, AppendedGood DEF Holds

LEMMA ReadHolds ==
    ASSUME NEW s, NEW t, Holds(s, t), NEW u \in Seq(Alphabet), NEW limit \in Nat,
           Len(u) <= limit, Len(t) + limit <= MaxText + 3
    PROVE  Holds(Strings!Written(Strings!MakeRoomFor(s, limit), s.len, u), t \o u)
  <1> DEFINE m == Strings!MakeRoomFor(s, limit)
  <1>1. Holds(m, t) /\ Strings!Avail(m) >= limit
    BY RoomHolds
  <1>2. m.len = s.len /\ Strings!Avail(m) \in Nat /\ Len(u) \in Nat
    BY <1>1, HoldsFacts
  <1> HIDE DEF m
  <1>3. Len(u) <= Strings!Avail(m)
    BY <1>1, <1>2
  <1>4. Holds(Strings!Written(m, m.len, u), t \o u)
    BY <1>1, <1>3, PutHolds
  <1> QED
    BY <1>2, <1>4 DEF m

LEMMA CatHolds ==
    ASSUME NEW s, NEW t, Holds(s, t), NEW u \in Seq(Alphabet), Len(t \o u) <= MaxText
    PROVE  Holds(Strings!CatLen(s, u), t \o u)
  <1>1. Len(u) \in Nat /\ Len(t) + Len(u) <= MaxText + 3 /\ Len(u) <= Len(u)
    <2>1. t \in Seq(Alphabet) /\ MaxText \in Nat
      BY HoldsFacts, LibraryAssumption
    <2>2. Len(t \o u) = Len(t) + Len(u) /\ Len(t) \in Nat /\ Len(u) \in Nat
      BY <2>1
    <2> QED
      BY <2>1, <2>2
  <1> QED
    BY <1>1, ReadHolds DEF Strings!CatLen

(* sdscpylen asks for the bytes that are missing. *)
LEMMA CopyHolds ==
    ASSUME NEW s, NEW t, Holds(s, t), NEW u \in Seq(Alphabet), Len(u) <= MaxText
    PROVE  Holds(Strings!CpyLen(s, u), u)
  <1> DEFINE m == IF Strings!Alloc(s) < Len(u) THEN Strings!MakeRoomFor(s, Len(u) - s.len) ELSE s
  <1>0. Len(u) \in Nat /\ MaxText \in Nat /\ s.len = Len(t) /\ Len(t) \in Nat
    BY HoldsFacts, LibraryAssumption
  <1>1. Holds(m, t) /\ Len(u) <= Strings!Alloc(m)
    <2>1. CASE Strings!Alloc(s) < Len(u)
      <3> DEFINE n == Len(u) - s.len
      <3>1. n \in Nat /\ Len(t) + n <= MaxText + 3 /\ Len(t) + n = Len(u)
        BY <1>0, <2>1, HoldsFacts
      <3>2. m = Strings!MakeRoomFor(s, n)
        BY <2>1
      <3> HIDE DEF n, m
      <3>3. Holds(m, t) /\ Strings!Avail(m) >= n
        BY <3>1, <3>2, RoomHolds
      <3>4. \A k \in Nat : k <= Strings!Avail(m) => Len(t) + k <= Strings!Alloc(m)
        BY <3>3, HoldsFacts
      <3>5. Strings!Avail(m) \in Nat
        BY <3>3, HoldsFacts
      <3> QED
        BY <3>1, <3>3, <3>4, <3>5
    <2>2. CASE ~ (Strings!Alloc(s) < Len(u))
      BY <1>0, <2>2, HoldsFacts
    <2> QED
      BY <2>1, <2>2
  <1>2. Strings!CpyLen(s, u) = Strings!Written(m, 0, u)
    BY DEF Strings!CpyLen
  <1> HIDE DEF m
  <1>3. m.text \in Seq(Alphabet)
    BY <1>1, HoldsFacts
  <1>4. SubSeq(m.text, 1, 0) \o u = u /\ 0 + Len(u) = Len(u)
    BY <1>0, <1>3
  <1>5. Strings!Written(m, 0, u) = Strings!SetLen([m EXCEPT !.text = u], Len(u))
    BY <1>4 DEF Strings!Written
  <1> QED
    BY <1>1, <1>2, <1>5, TextSet DEF Holds

LEMMA ZeroBytes ==
    ASSUME NEW k \in Int
    PROVE  /\ [i \in 1 .. k |-> NulByte] \in Seq(Alphabet)
           /\ k >= 0 => Len([i \in 1 .. k |-> NulByte]) = k
           /\ k <= 0 => [i \in 1 .. k |-> NulByte] = <<>>
  <1>1. CASE k >= 0
    <2>1. [i \in 1 .. k |-> NulByte] \in [1 .. k -> Alphabet] /\ k \in Nat
      BY <1>1 DEF Alphabet
    <2> QED
      BY <1>1, <2>1
  <1>2. CASE k < 0
    <2>1. 1 .. k = {} /\ 1 .. 0 = {}
      BY <1>2
    <2>2. [i \in 1 .. k |-> NulByte] = <<>>
      BY <2>1
    <2> QED
      BY <1>2, <2>2
  <1> QED
    BY <1>1, <1>2

LEMMA GrowHolds ==
    ASSUME NEW s, NEW t, Holds(s, t), Len(t) <= MaxText, NEW len \in 0 .. MaxText
    PROVE  Holds(Strings!GrowZero(s, len), t \o [i \in 1 .. len - Len(t) |-> NulByte])
  <1> DEFINE z == [i \in 1 .. len - Len(t) |-> NulByte]
             n == len - Len(t)
  <1>0. s.len = Len(t) /\ Len(t) \in Nat /\ MaxText \in Nat /\ len \in Nat /\ t \in Seq(Alphabet)
    BY HoldsFacts, LibraryAssumption
  <1>1. n \in Int /\ z \in Seq(Alphabet) /\ (n >= 0 => Len(z) = n) /\ (n <= 0 => z = <<>>)
    <2>1. n \in Int
      BY <1>0
    <2> HIDE DEF n
    <2> QED
      BY <2>1, ZeroBytes DEF n
  <1>2. CASE len <= s.len
    <2>1. z = <<>>
      BY <1>0, <1>1, <1>2
    <2> HIDE DEF z
    <2>2. t \o z = t
      BY <1>0, <2>1
    <2>3. Strings!GrowZero(s, len) = s
      BY <1>2 DEF Strings!GrowZero
    <2> QED
      BY <2>2, <2>3 DEF z
  <1>3. CASE ~ (len <= s.len)
    <2>1. Strings!GrowZero(s, len) = Strings!Written(Strings!MakeRoomFor(s, n), s.len, z)
      BY <1>0, <1>3 DEF Strings!GrowZero
    <2>2. n \in Nat /\ Len(z) <= n /\ Len(t) + n <= MaxText + 3
      BY <1>0, <1>1, <1>3
    <2> HIDE DEF n, z
    <2>3. Holds(Strings!Written(Strings!MakeRoomFor(s, n), s.len, z), t \o z)
      BY <1>1, <2>2, ReadHolds
    <2> QED
      BY <2>1, <2>3 DEF z
  <1> QED
    BY <1>2, <1>3

(* The buffer of sdscatvprintf is doubled until the text fits. *)
LEMMA BufferGrows ==
    ASSUME NEW n \in Nat
    PROVE  LET limit[k \in Nat] == IF n >= k - 1 THEN limit[2 * k] ELSE k
           IN  limit[PrintBuffer] \in Nat /\ limit[PrintBuffer] - 1 > n
  <1> DEFINE limit == CHOOSE f : f = [k \in Nat |-> IF n >= k - 1 THEN f[2 * k] ELSE k]
             Stop == {k \in Nat : ~ (n >= k - 1)}
             double == [k \in Nat |-> 2 * k]
             val == [k \in Nat |-> k]
             m == [k \in Nat \ {0} |-> IF k > n + 2 THEN 0 ELSE n + 2 - k]
             R == Nat \ {0}
             V == {k \in Nat : k - 1 > n}
  <1>1. Stop \in SUBSET Nat /\ \A k \in Nat \ Stop : double[k] \in Nat
    OBVIOUS
  <1>2. PICK f : TailRecursive(f, Nat, Stop, double, val)
    <2> HIDE DEF Stop, double, val
    <2> QED
      BY <1>1, TailRecursion
  <1>3. f = [k \in Nat |-> IF n >= k - 1 THEN f[2 * k] ELSE k]
    <2>1. \A k \in Nat : (IF k \in Stop THEN val[k] ELSE f[double[k]])
                             = IF n >= k - 1 THEN f[2 * k] ELSE k
      OBVIOUS
    <2>2. f = [k \in Nat |-> IF k \in Stop THEN val[k] ELSE f[double[k]]]
      BY <1>2 DEF TailRecursive
    <2> HIDE DEF Stop, val, double
    <2> QED
      BY <2>1, <2>2, Zenon
  <1>4. limit = [k \in Nat |-> IF n >= k - 1 THEN limit[2 * k] ELSE k]
    BY <1>3
  <1> HIDE DEF limit
  <1>5. TailRecursive(limit, Nat, Stop, double, val)
    <2>1. \A k \in Nat : (IF k \in Stop THEN val[k] ELSE limit[double[k]])
                             = IF n >= k - 1 THEN limit[2 * k] ELSE k
      OBVIOUS
    <2> HIDE DEF Stop, val, double
    <2> QED
      BY <2>1, <1>4, Zenon DEF TailRecursive
  <1>6. Descends(Nat, Stop, double, val, R, V, m)
    <2>1. m \in [R -> Nat]
      OBVIOUS
    <2>2. ASSUME NEW k \in R \ Stop
          PROVE  double[k] \in R /\ m[double[k]] < m[k]
      OBVIOUS
    <2>3. \A k \in R \cap Stop : val[k] \in V
      OBVIOUS
    <2>4. R \subseteq Nat
      OBVIOUS
    <2> HIDE DEF Stop, double, val, m, R, V
    <2> QED
      BY <2>1, <2>2, <2>3, <2>4 DEF Descends
  <1>7. \A k \in R : limit[k] \in V
    <2> HIDE DEF Stop, double, val, m, R, V
    <2> QED
      BY <1>1, <1>5, <1>6, TailInvariant
  <1>8. limit[PrintBuffer] \in V
    BY <1>7, LibraryAssumption
  <1> QED
    BY <1>8 DEF limit

LEMMA PrintHolds ==
    ASSUME NEW s, NEW t, Holds(s, t), NEW u \in Seq(Alphabet), Len(t \o u) <= MaxText
    PROVE  Holds(Strings!CatPrintf(s, u), t \o u)
  <1> DEFINE limit == CHOOSE f : f = [k \in Nat |-> IF Len(u) >= k - 1 THEN f[2 * k] ELSE k]
  <1>1. Len(u) \in Nat
    OBVIOUS
  <1>2. limit[PrintBuffer] \in Nat /\ limit[PrintBuffer] - 1 > Len(u)
    BY <1>1, BufferGrows
  <1>3. Strings!CatPrintf(s, u)
            = Strings!CatLen(s, SubSeq(u, 1, Strings!Min({Len(u), limit[PrintBuffer] - 1})))
    BY DEF Strings!CatPrintf
  <1> HIDE DEF limit
  <1>4. Strings!Min({Len(u), limit[PrintBuffer] - 1}) = Len(u)
    BY <1>1, <1>2 DEF Strings!Min
  <1>5. SubSeq(u, 1, Len(u)) = u
    BY <1>1
  <1> QED
    BY <1>3, <1>4, <1>5, CatHolds

(* sdscatfmt: one item. *)
Roomy(x) == IF Strings!Avail(x) = 0 THEN Strings!MakeRoomFor(x, 1) ELSE x

Fits(x, t) == IF Strings!Avail(x) < Len(t) THEN Strings!MakeRoomFor(x, Len(t)) ELSE x

Placed(x, t) == Strings!SetLen([x EXCEPT !.text = @ \o t], x.len + Len(t))

Item(x, e) ==
    IF e.plain THEN Placed(Roomy(x), e.text) ELSE Placed(Fits(Roomy(x), e.text), e.text)

Formats == [plain : BOOLEAN, text : Seq(Alphabet)]

LEMMA ItemHolds ==
    ASSUME NEW s, NEW t, Holds(s, t), NEW e \in Formats, e.plain => Len(e.text) = 1,
           Len(t) + Len(e.text) <= MaxText
    PROVE  Holds(Item(s, e), t \o e.text)
  <1> DEFINE r == Roomy(s)
             y == IF e.plain THEN r ELSE Fits(r, e.text)
             n == Len(e.text)
  <1>0. MaxText \in Nat /\ Len(t) \in Nat /\ e.text \in Seq(Alphabet) /\ n \in Nat
    BY HoldsFacts, LibraryAssumption DEF Formats
  <1>1. Holds(r, t) /\ Strings!Avail(r) >= 1 /\ Strings!Avail(r) \in Nat
    <2>1. CASE Strings!Avail(s) = 0
      <3>1. Holds(Strings!MakeRoomFor(s, 1), t) /\ Strings!Avail(Strings!MakeRoomFor(s, 1)) >= 1
        BY <1>0, RoomHolds
      <3> QED
        BY <2>1, <3>1, HoldsFacts DEF Roomy
    <2>2. CASE Strings!Avail(s) # 0
      BY <2>2, HoldsFacts DEF Roomy
    <2> QED
      BY <2>1, <2>2
  <1> HIDE DEF r
  <1>2. Holds(y, t) /\ Strings!Avail(y) >= n
    <2>1. CASE e.plain
      BY <1>1, <2>1
    <2>2. CASE ~ e.plain /\ Strings!Avail(r) < n
      <3>1. Holds(Strings!MakeRoomFor(r, n), t) /\ Strings!Avail(Strings!MakeRoomFor(r, n)) >= n
        BY <1>0, <1>1, RoomHolds
      <3> QED
        BY <2>2, <3>1 DEF Fits
    <2>3. CASE ~ e.plain /\ ~ (Strings!Avail(r) < n)
      BY <1>0, <1>1, <2>3 DEF Fits
    <2> QED
      BY <2>1, <2>2, <2>3
  <1>3. Item(s, e) = Strings!SetLen([y EXCEPT !.text = @ \o e.text], y.len + Len(e.text))
    BY DEF Item, Placed, r
  <1> HIDE DEF y
  <1> QED
    BY <1>0, <1>2, <1>3, PutHolds

LEMMA TwoItems ==
    ASSUME NEW s, NEW e1, NEW e2
    PROVE  Strings!CatFmt(s, <<e1, e2>>) = Item(Item(s, e1), e2)
  <1> DEFINE es == <<e1, e2>>
             Body(g) == [S \in SUBSET DOMAIN es |->
                            IF S = {} THEN s
                            ELSE Item(g[S \ {Strings!Max(S)}], es[Strings!Max(S)])]
             iter == CHOOSE g : g = Body(g)
             h == [S \in SUBSET {1, 2} |->
                      IF S = {} THEN s
                      ELSE IF S = {1} THEN Item(s, e1)
                      ELSE IF S = {2} THEN Item(s, e2)
                      ELSE Item(Item(s, e1), e2)]
  <1>1. DOMAIN es = {1, 2}
    OBVIOUS
  <1>2. Strings!CatFmt(s, es) = iter[DOMAIN es]
    BY Zenon DEF Strings!CatFmt, Strings!FoldLeft, Strings!MapThenFoldSet, Item, Roomy, Fits,
                 Placed
  <1>3. Strings!Max({1}) = 1 /\ Strings!Max({2}) = 2 /\ Strings!Max({1, 2}) = 2
    BY DEF Strings!Max
  <1>4. \A S \in SUBSET {1, 2} : S \in {{}, {1}, {2}, {1, 2}}
    OBVIOUS
  <1>5. ASSUME NEW S \in SUBSET {1, 2}
        PROVE  h[S] = IF S = {} THEN s
                      ELSE Item(h[S \ {Strings!Max(S)}], es[Strings!Max(S)])
    <2>1. {1} \ {1} = {} /\ {2} \ {2} = {} /\ {1, 2} \ {2} = {1}
      OBVIOUS
    <2>2. es[1] = e1 /\ es[2] = e2
      OBVIOUS
    <2>3. /\ h[{}] = s /\ h[{1}] = Item(s, e1) /\ h[{2}] = Item(s, e2)
          /\ h[{1, 2}] = Item(Item(s, e1), e2)
      <3>1. {1} # {} /\ {2} # {} /\ {1} # {2} /\ {1, 2} # {} /\ {1, 2} # {1} /\ {1, 2} # {2}
        OBVIOUS
      <3> QED
        BY <3>1
    <2> HIDE DEF h, es
    <2>4. CASE S = {}
      BY <2>3, <2>4
    <2>5. CASE S = {1}
      BY <1>3, <2>1, <2>2, <2>3, <2>5
    <2>6. CASE S = {2}
      BY <1>3, <2>1, <2>2, <2>3, <2>6
    <2>7. CASE S = {1, 2}
      BY <1>3, <2>1, <2>2, <2>3, <2>7
    <2> QED
      BY <1>4, <2>4, <2>5, <2>6, <2>7
  <1>6. h = Body(h)
    <2>1. h = [S \in SUBSET {1, 2} |-> h[S]]
      OBVIOUS
    <2> HIDE DEF h, es
    <2> QED
      BY <1>1, <1>5, <2>1
  <1> HIDE DEF Body
  <1>7. iter = Body(iter)
    BY <1>6
  <1> HIDE DEF iter
  <1>8. iter[{1, 2}] = Item(iter[{1}], e2) /\ iter[{1}] = Item(iter[{}], e1) /\ iter[{}] = s
    <2>1. \A S \in SUBSET {1, 2} : iter[S] = IF S = {} THEN s
                      ELSE Item(iter[S \ {Strings!Max(S)}], es[Strings!Max(S)])
      BY <1>1, <1>7 DEF Body
    <2>2. {1, 2} \ {2} = {1} /\ {1} \ {1} = {} /\ es[1] = e1 /\ es[2] = e2
      OBVIOUS
    <2> HIDE DEF es
    <2>3. iter[{}] = s
      BY <2>1
    <2>4. iter[{1}] = Item(iter[{1} \ {1}], es[1])
      <3>1. {1} \in SUBSET {1, 2} /\ {1} # {}
        OBVIOUS
      <3> QED
        BY <1>3, <2>1, <3>1
    <2>5. iter[{1, 2}] = Item(iter[{1, 2} \ {2}], es[2])
      <3>1. {1, 2} \in SUBSET {1, 2} /\ {1, 2} # {}
        OBVIOUS
      <3> QED
        BY <1>3, <2>1, <3>1
    <2> QED
      BY ONLY <2>2, <2>3, <2>4, <2>5
  <1> QED
    BY <1>1, <1>2, <1>8

LEMMA FormatHolds ==
    ASSUME NEW s, NEW t, Holds(s, t), NEW e1 \in Formats, NEW e2 \in Formats,
           e1.plain => Len(e1.text) = 1, e2.plain => Len(e2.text) = 1,
           Len(t \o e1.text \o e2.text) <= MaxText
    PROVE  Holds(Strings!CatFmt(s, <<e1, e2>>), t \o e1.text \o e2.text)
  <1> DEFINE u == t \o e1.text
  <1>1. /\ t \in Seq(Alphabet) /\ e1.text \in Seq(Alphabet) /\ e2.text \in Seq(Alphabet)
        /\ MaxText \in Nat
    BY HoldsFacts, LibraryAssumption DEF Formats
  <1>2. u \in Seq(Alphabet) /\ Len(u) = Len(t) + Len(e1.text)
    BY <1>1
  <1>3. Len(u \o e2.text) = Len(u) + Len(e2.text)
    BY <1>1, <1>2
  <1>4. Len(t) \in Nat /\ Len(e1.text) \in Nat /\ Len(e2.text) \in Nat
    BY <1>1
  <1>5. Len(t) + Len(e1.text) <= MaxText /\ Len(u) + Len(e2.text) <= MaxText
    <2>1. Len(u \o e2.text) <= MaxText
      OBVIOUS
    <2>2. Len(u) + Len(e2.text) <= MaxText
      BY ONLY <1>3, <2>1
    <2> HIDE DEF u
    <2>3. \A i, j, k, m \in Nat : i + j + k <= m => i + j <= m
      OBVIOUS
    <2>4. MaxText \in Nat
      BY <1>1
    <2>5. Len(t) + Len(e1.text) <= MaxText
      BY ONLY <1>2, <1>4, <2>2, <2>3, <2>4
    <2> QED
      BY <2>2, <2>5
  <1>6. Holds(Item(s, e1), u)
    BY <1>5, ItemHolds
  <1> HIDE DEF u
  <1>7. Holds(Item(Item(s, e1), e2), u \o e2.text)
    BY <1>5, <1>6, ItemHolds
  <1> QED
    BY <1>7, TwoItems DEF u

(* What is cut out of a string. *)
LEMMA PartShorter ==
    ASSUME NEW t \in Seq(Alphabet), NEW a \in Int, NEW b \in Int, a >= 1, b <= Len(t)
    PROVE  /\ SubSeq(t, a, b) \in Seq(Alphabet) /\ Len(SubSeq(t, a, b)) <= Len(t)
           /\ a <= b => Len(SubSeq(t, a, b)) = b - a + 1
           /\ a > b => SubSeq(t, a, b) = <<>> /\ Len(SubSeq(t, a, b)) = 0
  <1>1. Len(t) \in Nat
    OBVIOUS
  <1>2. CASE a <= b
    BY <1>1, <1>2
  <1>3. CASE a > b
    <2>1. SubSeq(t, a, b) = <<>>
      BY <1>1, <1>3
    <2> QED
      BY <1>1, <1>3, <2>1
  <1> QED
    BY <1>2, <1>3

LEMMA PairExtremes ==
    ASSUME NEW a \in Int, NEW b \in Int
    PROVE  /\ Strings!Max({a, b}) = IF a >= b THEN a ELSE b
           /\ Strings!Min({a, b}) = IF a <= b THEN a ELSE b
  BY DEF Strings!Max, Strings!Min

(* A position that counts from the end when it is negative. *)
Place(t, i) == IF i < 0 THEN Strings!Max({Len(t) + i, 0}) ELSE i

LEMMA RangeHolds ==
    ASSUME NEW s, NEW t, Holds(s, t), NEW first \in Int, NEW last \in Int
    PROVE  Holds(Strings!SdsRange(s, first, last),
                 SubSeq(t, Place(t, first) + 1, Strings!Min({Place(t, last) + 1, Len(t)})))
  <1> DEFINE n == Len(t)
             from == Place(t, first)
             to == Place(t, last)
             end == IF to >= n THEN n - 1 ELSE to
             newlen == IF from > end \/ from >= n THEN 0 ELSE end - from + 1
             u == SubSeq(t, from + 1, Strings!Min({to + 1, n}))
  <1>0. n \in Nat /\ s.len = n /\ s.text = t /\ t \in Seq(Alphabet)
    BY HoldsFacts
  <1>1. from \in Nat /\ to \in Nat
    BY <1>0, PairExtremes DEF Place
  <1>2. Strings!SdsRange(s, first, last)
            = IF n = 0 THEN s
              ELSE Strings!SetLen([s EXCEPT !.text = SubSeq(@, from + 1, from + newlen)], newlen)
    BY <1>0, Zenon DEF Strings!SdsRange, Place
  <1> HIDE DEF from, to
  <1>3. Strings!Min({to + 1, n}) = end + 1 /\ end \in Int /\ end + 1 <= n /\ newlen \in Nat
    <2>1. to + 1 \in Int /\ n \in Int
      BY <1>0, <1>1
    <2>2. Strings!Min({to + 1, n}) = IF to + 1 <= n THEN to + 1 ELSE n
      BY <2>1, PairExtremes
    <2> HIDE DEF n
    <2> QED
      BY <1>0, <1>1, <2>2
  <1>4. /\ u \in Seq(Alphabet) /\ Len(u) <= n /\ Len(u) = newlen
        /\ u = SubSeq(t, from + 1, from + newlen)
    <2>1. u = SubSeq(t, from + 1, end + 1)
      BY <1>3
    <2> HIDE DEF u, end
    <2>2. CASE from + 1 <= end + 1
      <3>1. newlen = end - from + 1 /\ from + newlen = end + 1
        BY <1>0, <1>1, <1>3, <2>2
      <3> HIDE DEF newlen, n
      <3> QED
        BY <1>0, <1>1, <1>3, <2>1, <2>2, <3>1, PartShorter DEF n
    <2>3. CASE from + 1 > end + 1
      <3>1. newlen = 0 /\ from + 1 > from + newlen /\ from + newlen = from
        BY <1>0, <1>1, <1>3, <2>3
      <3>2. SubSeq(t, from + 1, from) = <<>>
        BY <1>0, <1>1
      <3> HIDE DEF newlen
      <3>3. u = <<>> /\ Len(u) = 0
        BY <1>0, <1>1, <1>3, <2>1, <2>3, PartShorter
      <3>4. SubSeq(t, from + 1, from + newlen) = <<>>
        BY <3>1, <3>2
      <3>5. u \in Seq(Alphabet) /\ Len(u) <= n
        BY <1>0, <3>3
      <3> QED
        BY <3>1, <3>3, <3>4, <3>5
    <2> QED
      BY <1>1, <1>3, <2>2, <2>3
  <1> HIDE DEF newlen, u
  <1>5. CASE n = 0
    <2>1. t = <<>> /\ u = <<>>
      BY <1>0, <1>4, <1>5
    <2> QED
      BY <1>2, <1>5, <2>1 DEF u, from, to
  <1>6. CASE n # 0
    <2>1. Strings!SdsRange(s, first, last) = Strings!SetLen([s EXCEPT !.text = u], Len(u))
      BY <1>0, <1>2, <1>4, <1>6
    <2>2. Holds(Strings!SetLen([s EXCEPT !.text = u], Len(u)), u)
      BY <1>4, CutHolds
    <2> QED
      BY <2>1, <2>2 DEF u, from, to
  <1> QED
    BY <1>5, <1>6

LEMMA PositionExtremes ==
    ASSUME NEW n \in Nat, NEW I \in SUBSET (1 .. n), I # {}
    PROVE  Strings!Min(I) \in I /\ Strings!Max(I) \in I /\ Strings!Min(I) <= Strings!Max(I)
  <1>1. I \in SUBSET Nat /\ \A x \in I : x <= n
    OBVIOUS
  <1>2. \E x \in I : \A y \in I : x <= y
    BY <1>1, LeastNumber
  <1>3. \E x \in I : \A y \in I : x >= y
    BY <1>1, GreatestNumber
  <1> QED
    BY <1>2, <1>3 DEF Strings!Min, Strings!Max

(* The positions of t that sdstrim keeps something of, and what it keeps. *)
KeptPlaces(t, cset) == {i \in 1 .. Len(t) : t[i] \notin cset \cup {NulByte}}
FirstKept(t, cset) == IF KeptPlaces(t, cset) # {} THEN Strings!Min(KeptPlaces(t, cset)) ELSE 0
LastKept(t, cset) == IF KeptPlaces(t, cset) # {} THEN Strings!Max(KeptPlaces(t, cset)) ELSE 0
Trimmed(t, cset) ==
    IF FirstKept(t, cset) = 0 THEN <<>> ELSE SubSeq(t, FirstKept(t, cset), LastKept(t, cset))

LEMMA TrimHolds ==
    ASSUME NEW s, NEW t, Holds(s, t), NEW cset
    PROVE  Holds(Strings!Trim(s, cset), Trimmed(t, cset))
  <1> DEFINE kept == KeptPlaces(t, cset)
             first == IF kept # {} THEN Strings!Min(kept) ELSE 0
             last == IF kept # {} THEN Strings!Max(kept) ELSE 0
             u == IF first = 0 THEN <<>> ELSE SubSeq(t, first, last)
             len == IF kept = {} THEN 0 ELSE Strings!Max(kept) - Strings!Min(kept) + 1
             v == IF kept = {} THEN <<>> ELSE SubSeq(t, Strings!Min(kept), Strings!Max(kept))
  <1>0. Len(t) \in Nat /\ s.len = Len(t) /\ s.text = t /\ t \in Seq(Alphabet)
    BY HoldsFacts
  <1>1. Trimmed(t, cset) = u
    BY DEF Trimmed, FirstKept, LastKept
  <1>2. Strings!Trim(s, cset) = Strings!SetLen([s EXCEPT !.text = v], len)
    BY <1>0 DEF Strings!Trim, KeptPlaces
  <1>3. kept # {} => /\ Strings!Min(kept) \in 1 .. Len(t) /\ Strings!Max(kept) \in 1 .. Len(t)
                     /\ Strings!Min(kept) <= Strings!Max(kept)
    <2>1. kept \in SUBSET (1 .. Len(t))
      BY DEF KeptPlaces
    <2> HIDE DEF kept
    <2> QED
      BY <1>0, <2>1, PositionExtremes
  <1> HIDE DEF kept
  <1>4. u = v /\ v \in Seq(Alphabet) /\ Len(v) = len /\ Len(v) <= Len(t)
    <2>1. CASE kept = {}
      BY <1>0, <2>1
    <2>2. CASE kept # {}
      BY <1>0, <1>3, <2>2, PartShorter
    <2> QED
      BY <2>1, <2>2
  <1> HIDE DEF u, v, len
  <1>5. Holds(Strings!SetLen([s EXCEPT !.text = v], len), v)
    BY <1>4, CutHolds
  <1> QED
    BY <1>1, <1>2, <1>4, <1>5 DEF u

LEMMA UpdateHolds ==
    ASSUME NEW s, NEW t, Holds(s, t)
    PROVE  LET nul == Strings!SelectInSeq(t, LAMBDA c : c = NulByte)
           IN  Holds(Strings!UpdateLen(s), IF nul = 0 THEN t ELSE SubSeq(t, 1, nul - 1))
  <1> DEFINE I == {i \in 1 .. Len(t) : t[i] = NulByte}
             nul == IF I # {} THEN Strings!Min(I) ELSE 0
             len == IF nul = 0 THEN Len(t) ELSE nul - 1
             u == SubSeq(t, 1, len)
  <1>0. Len(t) \in Nat /\ s.text = t /\ t \in Seq(Alphabet)
    BY HoldsFacts
  <1>1. Strings!SelectInSeq(t, LAMBDA c : c = NulByte) = nul
    BY DEF Strings!SelectInSeq
  <1>2. Strings!UpdateLen(s) = Strings!SetLen([s EXCEPT !.text = u], len)
    BY <1>0, <1>1, Zenon DEF Strings!UpdateLen
  <1>3. nul \in 0 .. Len(t)
    <2>1. I \in SUBSET (1 .. Len(t))
      OBVIOUS
    <2>2. I # {} => Strings!Min(I) \in I
      BY <1>0, <2>1, PositionExtremes
    <2> HIDE DEF I
    <2>3. CASE I # {}
      <3>1. nul \in I
        BY <2>2, <2>3
      <3> HIDE DEF nul
      <3> QED
        BY <1>0, <2>1, <3>1
    <2>4. CASE I = {}
      BY <1>0, <2>4
    <2> QED
      BY <2>3, <2>4
  <1> HIDE DEF nul
  <1>4. /\ u \in Seq(Alphabet) /\ Len(u) = len /\ Len(u) <= Len(t)
        /\ u = IF nul = 0 THEN t ELSE SubSeq(t, 1, nul - 1)
    BY <1>0, <1>3
  <1> HIDE DEF u, len
  <1>5. Holds(Strings!SetLen([s EXCEPT !.text = u], len), u)
    BY <1>4, CutHolds
  <1> QED
    BY <1>1, <1>2, <1>4, <1>5

LEMMA CutRightHolds ==
    ASSUME NEW s, NEW t, Holds(s, t), NEW n \in 0 .. Len(t)
    PROVE  Holds(Strings!CutRight(s, n), SubSeq(t, 1, Len(t) - n))
  <1> DEFINE u == SubSeq(t, 1, Len(t) - n)
  <1>0. Len(t) \in Nat /\ s.len = Len(t) /\ s.text = t /\ t \in Seq(Alphabet)
    BY HoldsFacts
  <1>1. u \in Seq(Alphabet) /\ Len(u) = Len(t) - n /\ Len(u) <= Len(t)
    BY <1>0
  <1>2. Strings!CutRight(s, n) = Strings!SetLen([s EXCEPT !.text = u], Len(t) - n)
    BY <1>0 DEF Strings!CutRight
  <1> HIDE DEF u
  <1>3. Holds(Strings!SetLen([s EXCEPT !.text = u], Len(u)), u)
    BY <1>1, CutHolds
  <1> QED
    BY <1>1, <1>2, <1>3 DEF u

LEMMA FitHolds ==
    ASSUME NEW s, NEW t, Holds(s, t), Len(t) <= MaxText
    PROVE  Holds(Strings!RemoveFreeSpace(s), t)
  <1>0. Len(t) \in Nat /\ s.len = Len(t) /\ GoodString(s) /\ s.text = t
    BY HoldsFacts
  <1>1. s.len < Strings!Capacity(Len(Bits))
    <2>1. Strings!Capacity(Len(Bits)) \in Nat /\ MaxText \in Nat
      BY TypeFacts, LibraryAssumption
    <2> QED
      BY <1>0, <2>1, TypeFacts
  <1>2. /\ Strings!ReqType(s.len) \in Strings!Types
        /\ s.len < Strings!Capacity(Strings!ReqType(s.len))
    BY <1>0, <1>1, ReqTypeLarge
  <1>3. /\ GoodString(Strings!Resized(s, Strings!ReqType(s.len), s.len))
        /\ Strings!Resized(s, Strings!ReqType(s.len), s.len).text = s.text
    BY <1>0, <1>2, ResizedGood
  <1> QED
    BY <1>0, <1>3 DEF Strings!RemoveFreeSpace, Holds

(* The invariant, and the actions. *)
StringInvariant == Holds(str, meant) /\ Len(meant) <= MaxText

LEMMA Became ==
    ASSUME NEW s, NEW t, Strings!Becomes(s, t), Len(t) <= MaxText => Holds(s, t)
    PROVE  StringInvariant'
  BY DEF Strings!Becomes, StringInvariant, Holds, GoodString, Headers, Alphabet, Strings!Types,
         Strings!Capacity, Strings!Alloc, Strings!Type5

LEMMA TextsTyped ==
    /\ \A t \in Strings!Texts : t \in Seq(Alphabet)
    /\ \A e \in Strings!Items : e \in Formats /\ (e.plain => Len(e.text) = 1)
  <1>1. ASSUME NEW t \in Strings!Texts
        PROVE  t \in Seq(Alphabet)
    <2>1. PICK n \in 0 .. 2 : t \in [1 .. n -> Bytes]
      BY DEF Strings!Texts
    <2>2. t \in [1 .. n -> Alphabet]
      BY <2>1 DEF Alphabet
    <2> QED
      BY <2>2
  <1>2. ASSUME NEW e \in Strings!Items
        PROVE  e \in Formats /\ (e.plain => Len(e.text) = 1)
    <2>1. CASE e \in [plain : {TRUE}, text : [1 .. 1 -> Bytes]]
      <3>1. e.text \in [1 .. 1 -> Alphabet]
        BY <2>1 DEF Alphabet
      <3>2. ASSUME NEW n \in Nat, NEW u \in [1 .. n -> Alphabet]
            PROVE  u \in Seq(Alphabet) /\ Len(u) = n
        OBVIOUS
      <3>3. e.text \in Seq(Alphabet) /\ Len(e.text) = 1
        BY <3>1, <3>2
      <3> QED
        BY <2>1, <3>3 DEF Formats
    <2>2. CASE e \in [plain : {FALSE}, text : Strings!Texts]
      BY <1>1, <2>2 DEF Formats
    <2> QED
      BY <2>1, <2>2 DEF Strings!Items
  <1> QED
    BY <1>1, <1>2

LEMMA StringStep ==
    ASSUME StringInvariant, [Strings!Next]_Strings!vars
    PROVE  StringInvariant'
  <1>0. /\ Holds(str, meant) /\ Len(meant) <= MaxText /\ meant \in Seq(Alphabet)
        /\ Len(meant) \in Nat /\ str.len = Len(meant) /\ str.text = meant /\ MaxText \in Nat
    BY HoldsFacts, LibraryAssumption DEF StringInvariant
  <1>1. CASE Strings!New
    <2>1. PICK t \in Strings!Texts : Strings!Becomes(Strings!NewLen(t), t)
      BY <1>1 DEF Strings!New
    <2> QED
      BY <2>1, TextsTyped, NewHolds, Became
  <1>2. CASE Strings!Dup
    <2>1. Strings!Becomes(Strings!NewLen(meant), meant)
      BY <1>0, <1>2 DEF Strings!Dup
    <2> QED
      BY <1>0, <2>1, NewHolds, Became
  <1>3. CASE Strings!AppendText
    <2>1. PICK t \in Strings!Texts :
              \/ Strings!Becomes(Strings!CatLen(str, t), meant \o t)
              \/ Strings!Becomes(Strings!CatPrintf(str, t), meant \o t)
              \/ \E limit \in Len(t) .. 3 : Strings!Becomes(Strings!ReadInto(str, limit, t), meant \o t)
      BY <1>3 DEF Strings!AppendText
    <2>2. t \in Seq(Alphabet) /\ Len(t) \in Nat
      BY TextsTyped
    <2>3. CASE Strings!Becomes(Strings!CatLen(str, t), meant \o t)
      BY <1>0, <2>2, <2>3, CatHolds, Became
    <2>4. CASE Strings!Becomes(Strings!CatPrintf(str, t), meant \o t)
      BY <1>0, <2>2, <2>4, PrintHolds, Became
    <2>5. ASSUME NEW limit \in Len(t) .. 3, Strings!Becomes(Strings!ReadInto(str, limit, t), meant \o t)
          PROVE  StringInvariant'
      <3>1. limit \in Nat /\ Len(t) <= limit /\ Len(meant) + limit <= MaxText + 3
        BY <1>0, <2>2
      <3>2. Holds(Strings!ReadInto(str, limit, t), meant \o t)
        BY <1>0, <2>2, <3>1, ReadHolds DEF Strings!ReadInto
      <3> QED
        BY <2>5, <3>2, Became
    <2> QED
      BY <2>1, <2>3, <2>4, <2>5
  <1>4. CASE Strings!Format
    <2>1. PICK e1 \in Strings!Items, e2 \in Strings!Items :
              Strings!Becomes(Strings!CatFmt(str, <<e1, e2>>), meant \o e1.text \o e2.text)
      BY <1>4 DEF Strings!Format
    <2>2. /\ e1 \in Formats /\ (e1.plain => Len(e1.text) = 1)
          /\ e2 \in Formats /\ (e2.plain => Len(e2.text) = 1)
      BY TextsTyped
    <2>3. Len(meant \o e1.text \o e2.text) <= MaxText =>
              Holds(Strings!CatFmt(str, <<e1, e2>>), meant \o e1.text \o e2.text)
      BY <1>0, <2>2, FormatHolds
    <2> QED
      BY <2>1, <2>3, Became
  <1>5. CASE Strings!Copy
    <2>1. PICK t \in Strings!Texts : Strings!Becomes(Strings!CpyLen(str, t), t)
      BY <1>5 DEF Strings!Copy
    <2> QED
      BY <1>0, <2>1, TextsTyped, CopyHolds, Became
  <1>6. CASE Strings!Grow
    <2>1. PICK len \in 0 .. MaxText :
              Strings!Becomes(Strings!GrowZero(str, len),
                              meant \o [i \in 1 .. len - Len(meant) |-> NulByte])
      BY <1>6 DEF Strings!Grow
    <2> QED
      BY <1>0, <2>1, GrowHolds, Became
  <1>7. CASE Strings!Shrink
    <2>1. CASE \E n \in 0 .. str.len :
                   Strings!Asserted(str, n)
                   /\ Strings!Becomes(Strings!CutRight(str, n), SubSeq(meant, 1, Len(meant) - n))
      BY <1>0, <2>1, CutRightHolds, Became
    <2>2. CASE \E first, last \in -3 .. 3 :
                   LET place(i) == IF i < 0 THEN Strings!Max({Len(meant) + i, 0}) ELSE i
                   IN  Strings!Becomes(Strings!SdsRange(str, first, last),
                           SubSeq(meant, place(first) + 1,
                                  Strings!Min({place(last) + 1, Len(meant)})))
      <3>1. PICK first \in -3 .. 3, last \in -3 .. 3 :
                Strings!Becomes(Strings!SdsRange(str, first, last),
                    SubSeq(meant, Place(meant, first) + 1,
                           Strings!Min({Place(meant, last) + 1, Len(meant)})))
        BY <2>2, Zenon DEF Place
      <3> QED
        BY <1>0, <3>1, RangeHolds, Became
    <2>3. CASE \E cset \in SUBSET (Bytes \ {NulByte}) :
                   LET first == Strings!SelectInSeq(meant, LAMBDA c : c \notin cset \cup {NulByte})
                       last  == Strings!SelectLastInSeq(meant, LAMBDA c : c \notin cset \cup {NulByte})
                   IN  Strings!Becomes(Strings!Trim(str, cset),
                           IF first = 0 THEN <<>> ELSE SubSeq(meant, first, last))
      <3>1. PICK cset \in SUBSET (Bytes \ {NulByte}) :
                LET first == Strings!SelectInSeq(meant, LAMBDA c : c \notin cset \cup {NulByte})
                    last  == Strings!SelectLastInSeq(meant, LAMBDA c : c \notin cset \cup {NulByte})
                IN  Strings!Becomes(Strings!Trim(str, cset),
                        IF first = 0 THEN <<>> ELSE SubSeq(meant, first, last))
        BY <2>3, Zenon
      <3> DEFINE first == Strings!SelectInSeq(meant, LAMBDA c : c \notin cset \cup {NulByte})
                 last  == Strings!SelectLastInSeq(meant, LAMBDA c : c \notin cset \cup {NulByte})
                 t == IF first = 0 THEN <<>> ELSE SubSeq(meant, first, last)
      <3>2. Holds(Strings!Trim(str, cset), t)
        <4>1. /\ first = FirstKept(meant, cset)
              /\ last = LastKept(meant, cset)
          BY DEF Strings!SelectInSeq, Strings!SelectLastInSeq, FirstKept, LastKept, KeptPlaces
        <4> HIDE DEF first, last
        <4>2. t = Trimmed(meant, cset)
          BY <4>1 DEF Trimmed
        <4> HIDE DEF t
        <4> QED
          BY <1>0, <4>2, TrimHolds
      <3>3. Strings!Becomes(Strings!Trim(str, cset), t)
        BY <3>1, Zenon
      <3> HIDE DEF t
      <3> QED
        BY <3>2, <3>3, Became
    <2>4. CASE Strings!Becomes(Strings!SetLen([str EXCEPT !.text = <<>>], 0), <<>>)
      <3>1. <<>> \in Seq(Alphabet) /\ Len(<<>>) = 0
        OBVIOUS
      <3>2. Holds(Strings!SetLen([str EXCEPT !.text = <<>>], 0), <<>>)
        <4>1. \A u \in Seq(Alphabet) : Len(u) <= Len(meant) =>
                  Holds(Strings!SetLen([str EXCEPT !.text = u], Len(u)), u)
          BY <1>0, CutHolds
        <4> DEFINE e == <<>>
        <4>2. e \in Seq(Alphabet) /\ Len(e) = 0 /\ Len(e) <= Len(meant)
          BY <1>0, <3>1
        <4> HIDE DEF e
        <4>3. Holds(Strings!SetLen([str EXCEPT !.text = e], 0), e)
          BY <4>1, <4>2
        <4> QED
          BY <4>3 DEF e
      <3> QED
        BY <2>4, <3>2, Became
    <2>5. CASE LET nul == Strings!SelectInSeq(meant, LAMBDA c : c = NulByte)
               IN  Strings!Becomes(Strings!UpdateLen(str),
                                   IF nul = 0 THEN meant ELSE SubSeq(meant, 1, nul - 1))
      BY <1>0, <2>5, UpdateHolds, Became
    <2> QED
      BY <1>7, <2>1, <2>2, <2>3, <2>4, <2>5, Zenon DEF Strings!Shrink
  <1>8. CASE Strings!Fit
    BY <1>0, <1>8, FitHolds, Became DEF Strings!Fit
  <1>9. CASE UNCHANGED Strings!vars
    BY <1>9 DEF Strings!vars, StringInvariant, Holds, GoodString, Headers, Alphabet, Strings!Types,
                Strings!Capacity, Strings!Alloc, Strings!Type5
  <1> QED
    BY <1>1, <1>2, <1>3, <1>4, <1>5, <1>6, <1>7, <1>8, <1>9 DEF Strings!Next

LEMMA StringsAlone == [Next]_vars => [Strings!Next]_Strings!vars
  BY DEF Next, vars, sdsVars, Strings!vars

(* After any operations of sds.c a string holds what they mean, its length *)
(* did not wrap in its header, and the header promises no more bytes than  *)
(* were allocated, for strings of any length.                              *)
THEOREM StringsCorrect == Spec => []SdsIntact
  <1>1. Init => StringInvariant
    <2>1. <<>> \in Seq(Alphabet) /\ Len(<<>>) = 0 /\ MaxText \in Nat
      BY LibraryAssumption
    <2> DEFINE e == <<>>
    <2>2. e \in Seq(Alphabet) /\ Len(e) <= MaxText
      BY <2>1
    <2>3. Init => str = Strings!NewLen(e) /\ meant = e
      BY DEF Init, Strings!Init
    <2> HIDE DEF e
    <2>4. Holds(Strings!NewLen(e), e)
      BY <2>2, NewHolds
    <2> QED
      BY <2>2, <2>3, <2>4 DEF StringInvariant
  <1>2. StringInvariant /\ [Next]_vars => StringInvariant'
    BY StringsAlone, StringStep
  <1>3. StringInvariant => SdsIntact
    <2> SUFFICES ASSUME StringInvariant
                 PROVE  SdsIntact
      OBVIOUS
    <2>1. /\ GoodString(str) /\ str.text = meant /\ str.len = Len(meant) /\ meant \in Seq(Alphabet)
          /\ Strings!Avail(str) \in Nat /\ Len(meant) <= Strings!Alloc(str)
      BY HoldsFacts DEF StringInvariant
    <2>2. Strings!Alloc(str) <= str.room /\ Strings!Alloc(str) \in Nat /\ str.room \in Nat
      BY <2>1 DEF GoodString, Headers, Strings!Alloc
    <2>3. SubSeq(str.text, 1, str.len) = meant /\ Len(meant) \in Nat
      BY <2>1
    <2>4. Len(meant) <= str.room
      BY <2>1, <2>2, <2>3
    <2> QED
      BY <2>1, <2>2, <2>3, <2>4 DEF SdsIntact, Strings!SdsIntact
  <1> QED
    BY <1>1, <1>2, <1>3, PTL DEF Spec

-------------------------------------------------------------------------------
(* The skip list: the nodes on the lowest level have places in an order of *)
(* all, and every level is the list of those that are high enough.         *)

(* On a level the pointer of a node leads to the next of the live nodes.   *)
Leads(nx, live, rank, n, i) ==
    LET high == {x \in live : i \in DOMAIN nx[x] /\ rank[n] < rank[x]}
    IN  \/ nx[n][i] = Skip!Nil /\ high = {}
        \/ nx[n][i] \in high /\ \A x \in high : rank[nx[n][i]] <= rank[x]

Ordered(pw, live, rank, top) ==
    /\ top \in Nat
    /\ rank \in [live \cup {Skip!Start} -> 0 .. top]
    /\ rank[Skip!Start] = 0
    /\ \A n \in live : rank[n] > 0 /\ pw[n] \in Powers
    /\ \A m, n \in live : /\ rank[m] = rank[n] => m = n
                          /\ rank[m] < rank[n] => pw[m] <= pw[n]

Leveled(nx, pw, live, rank, top) ==
    /\ Ordered(pw, live, rank, top)
    /\ DOMAIN nx \subseteq Skip!Ids \cup {Skip!Start} /\ DOMAIN pw = DOMAIN nx
    /\ live \subseteq DOMAIN nx \ {Skip!Start}
    /\ Skip!Start \in DOMAIN nx /\ DOMAIN nx[Skip!Start] = Skip!Levels
    /\ \A n \in live : \E level \in Skip!Levels :
           nx[n] \in [1 .. level -> Skip!Ids \cup {Skip!Nil}]
    /\ \A n \in live \cup {Skip!Start} :
           \A i \in DOMAIN nx[n] : Leads(nx, live, rank, n, i)

(* Of a power the list holds no more nodes than were added and not deleted *)
(* again, and as many when there was never a second.                       *)
Counted(pw, live, cnt, twc) ==
    /\ cnt \in [Powers -> Int]
    /\ \A p \in Powers :
           /\ Cardinality({n \in live : pw[n] = p}) <= cnt[p]
           /\ p \notin twc => /\ cnt[p] <= 1
                              /\ Cardinality({n \in live : pw[n] = p}) = cnt[p]

SkipInvariant ==
    \E live, rank, top : /\ Leveled(next, power, live, rank, top)
                         /\ Counted(power, live, count, twice)

LEMMA SkipConstants ==
    /\ Powers \subseteq Int /\ MaxLevel \in Nat \ {0} /\ MaxNodes \in Nat
    /\ Skip!Nil = -1 /\ Skip!Start = 0 /\ Skip!Ids = 1 .. MaxNodes
    /\ Skip!Levels = 1 .. MaxLevel
  BY LibraryAssumption DEF Skip!Nil, Skip!Start, Skip!Ids, Skip!Levels

LEMMA OrderFacts ==
    ASSUME NEW pw, NEW live, NEW rank, NEW top, Ordered(pw, live, rank, top)
    PROVE  /\ top \in Nat /\ rank[Skip!Start] = 0
           /\ \A n \in live \cup {Skip!Start} : rank[n] \in Nat /\ rank[n] <= top
           /\ \A n \in live : rank[n] > 0 /\ pw[n] \in Int /\ pw[n] \in Powers
           /\ \A m, n \in live : rank[m] = rank[n] => m = n
           /\ \A m, n \in live : rank[m] <= rank[n] => pw[m] <= pw[n]
  <1>1. \A n \in live : pw[n] \in Int
    BY SkipConstants DEF Ordered
  <1>2. \A m, n \in live : rank[m] <= rank[n] => pw[m] <= pw[n]
    <2> SUFFICES ASSUME NEW m \in live, NEW n \in live, rank[m] <= rank[n]
                 PROVE  pw[m] <= pw[n]
      OBVIOUS
    <2>1. CASE rank[m] = rank[n]
      BY <1>1, <2>1 DEF Ordered
    <2>2. CASE rank[m] # rank[n]
      BY <1>1, <2>2 DEF Ordered
    <2> QED
      BY <2>1, <2>2
  <1> QED
    BY <1>1, <1>2 DEF Ordered

LEMMA LevelFacts ==
    ASSUME NEW nx, NEW pw, NEW live, NEW rank, NEW top, Leveled(nx, pw, live, rank, top)
    PROVE  /\ Skip!Nil \notin DOMAIN nx /\ Skip!Start \notin live
           /\ live \subseteq DOMAIN nx /\ live \subseteq Skip!Ids
           /\ Skip!Start \in DOMAIN nx
           /\ \A n \in live \cup {Skip!Start} :
                  /\ n \in DOMAIN nx
                  /\ \A i \in Skip!Levels : i + 1 \in DOMAIN nx[n] => i \in DOMAIN nx[n]
                  /\ 1 \in DOMAIN nx[n] /\ DOMAIN nx[n] \subseteq Skip!Levels
           /\ DOMAIN nx[Skip!Start] = Skip!Levels
           /\ \A n \in live \cup {Skip!Start}, i \in Skip!Levels : i \in DOMAIN nx[n] =>
                 \/ /\ nx[n][i] = Skip!Nil
                    /\ \A x \in live : i \in DOMAIN nx[x] => rank[x] <= rank[n]
                 \/ /\ nx[n][i] \in live /\ i \in DOMAIN nx[nx[n][i]]
                    /\ rank[n] < rank[nx[n][i]]
                    /\ \A x \in live : i \in DOMAIN nx[x] /\ rank[n] < rank[x] =>
                           rank[nx[n][i]] <= rank[x]
  <1>1. Skip!Nil \notin DOMAIN nx /\ Skip!Start \notin live /\ live \subseteq Skip!Ids
    BY SkipConstants DEF Leveled
  <1>2. \A n \in live \cup {Skip!Start} :
            /\ n \in DOMAIN nx
            /\ \A i \in Skip!Levels : i + 1 \in DOMAIN nx[n] => i \in DOMAIN nx[n]
            /\ 1 \in DOMAIN nx[n] /\ DOMAIN nx[n] \subseteq Skip!Levels
    <2> SUFFICES ASSUME NEW n \in live \cup {Skip!Start}
                 PROVE  /\ n \in DOMAIN nx
                        /\ \A i \in Skip!Levels : i + 1 \in DOMAIN nx[n] => i \in DOMAIN nx[n]
                        /\ 1 \in DOMAIN nx[n] /\ DOMAIN nx[n] \subseteq Skip!Levels
      OBVIOUS
    <2>1. PICK level \in Skip!Levels : DOMAIN nx[n] = 1 .. level
      BY SkipConstants DEF Leveled
    <2> QED
      BY <2>1, SkipConstants DEF Leveled
  <1>3. \A n \in live \cup {Skip!Start}, i \in Skip!Levels : i \in DOMAIN nx[n] =>
            \/ /\ nx[n][i] = Skip!Nil
               /\ \A x \in live : i \in DOMAIN nx[x] => rank[x] <= rank[n]
            \/ /\ nx[n][i] \in live /\ i \in DOMAIN nx[nx[n][i]]
               /\ rank[n] < rank[nx[n][i]]
               /\ \A x \in live : i \in DOMAIN nx[x] /\ rank[n] < rank[x] =>
                      rank[nx[n][i]] <= rank[x]
    <2> SUFFICES ASSUME NEW n \in live \cup {Skip!Start}, NEW i \in Skip!Levels,
                        i \in DOMAIN nx[n]
                 PROVE  \/ /\ nx[n][i] = Skip!Nil
                           /\ \A x \in live : i \in DOMAIN nx[x] => rank[x] <= rank[n]
                        \/ /\ nx[n][i] \in live /\ i \in DOMAIN nx[nx[n][i]]
                           /\ rank[n] < rank[nx[n][i]]
                           /\ \A x \in live : i \in DOMAIN nx[x] /\ rank[n] < rank[x] =>
                                  rank[nx[n][i]] <= rank[x]
      OBVIOUS
    <2>1. Leads(nx, live, rank, n, i)
      BY DEF Leveled
    <2>2. \A x \in live \cup {Skip!Start} : rank[x] \in Nat
      BY OrderFacts DEF Leveled
    <2> QED
      BY <2>1, <2>2 DEF Leads
  <1> QED
    BY <1>1, <1>2, <1>3 DEF Leveled

-------------------------------------------------------------------------------
(* The search. *)

(* The nodes of a level before the place of a power, and the last of them. *)
Lower(nx, pw, live, p, i) ==
    {n \in live \cup {Skip!Start} : i \in DOMAIN nx[n] /\ (n = Skip!Start \/ pw[n] < p)}

Lowest(nx, pw, live, p, i) ==
    {n \in Lower(nx, pw, live, p, i) : nx[n][i] = Skip!Nil \/ pw[nx[n][i]] >= p}

LEMMA WalkEnds ==
    ASSUME NEW live, NEW rank, NEW top, Leveled(next, power, live, rank, top),
           NEW p \in Powers, NEW i \in Skip!Levels,
           NEW from \in Lower(next, power, live, p, i)
    PROVE  Skip!Along(p, i, from) \in Lowest(next, power, live, p, i)
  <1> DEFINE D == DOMAIN next
             Go(n) == next[n][i] \in D /\ power[next[n][i]] < p
             Stop == {n \in D : ~ Go(n)}
             follow == [n \in D |-> next[n][i]]
             itself == [n \in D |-> n]
             body(g) == [n \in D |-> IF Go(n) THEN g[next[n][i]] ELSE n]
             walk == CHOOSE g : g = body(g)
             R == Lower(next, power, live, p, i)
             V == Lowest(next, power, live, p, i)
             m == [n \in R |-> top - rank[n]]
  <1>1. \A n \in D \ Stop : follow[n] \in D
    OBVIOUS
  <1>2. PICK f : TailRecursive(f, D, Stop, follow, itself)
    <2>1. Stop \in SUBSET D
      OBVIOUS
    <2> QED
      BY <1>1, <2>1, TailRecursion
  <1>3. ASSUME NEW g
        PROVE  body(g) = [n \in D |-> IF n \in Stop THEN itself[n] ELSE g[follow[n]]]
    OBVIOUS
  <1>4. f = body(f)
    BY <1>2, <1>3 DEF TailRecursive
  <1>5. walk = body(walk)
    <2> HIDE DEF body
    <2> QED
      BY <1>4
  <1>6. Skip!Along(p, i, from) = walk[from]
    BY DEF Skip!Along
  <1>7. TailRecursive(walk, D, Stop, follow, itself)
    <2> HIDE DEF body, walk
    <2> QED
      BY <1>3, <1>5 DEF TailRecursive
  <1> HIDE DEF walk, body
  <1>8. Descends(D, Stop, follow, itself, R, V, m)
    <2>0. /\ \A n \in live \cup {Skip!Start} : rank[n] \in Nat /\ rank[n] <= top
          /\ top \in Nat
          /\ \A n \in live : power[n] \in Int
          /\ p \in Int
      BY OrderFacts, SkipConstants DEF Leveled
    <2>1. R \subseteq D
      BY LevelFacts DEF Lower
    <2>2. m \in [R -> Nat]
      BY <2>0 DEF Lower
    <2>3. ASSUME NEW n \in R
          PROVE  /\ n \in Stop => itself[n] \in V
                 /\ n \notin Stop => follow[n] \in R /\ m[follow[n]] < m[n]
      <3>1. n \in live \cup {Skip!Start} /\ i \in DOMAIN next[n] /\ n \in D
        BY <2>1 DEF Lower
      <3>2. CASE next[n][i] = Skip!Nil
        <4>1. next[n][i] \notin D
          BY <3>2, LevelFacts
        <4> QED
          BY <3>1, <3>2, <4>1 DEF Lowest
      <3>3. CASE /\ next[n][i] \in live /\ i \in DOMAIN next[next[n][i]]
                 /\ rank[n] < rank[next[n][i]]
        <4>1. next[n][i] \in D
          BY <3>3, LevelFacts
        <4>2. CASE power[next[n][i]] < p
          BY <2>0, <3>1, <3>3, <4>1, <4>2 DEF Lower
        <4>3. CASE power[next[n][i]] >= p
          BY <2>0, <3>1, <3>3, <4>1, <4>3 DEF Lowest
        <4> QED
          BY <2>0, <3>3, <4>2, <4>3
      <3> QED
        BY <3>1, <3>2, <3>3, LevelFacts
    <2> QED
      BY <2>1, <2>2, <2>3 DEF Descends
  <1>9. \A n \in R : walk[n] \in V
    <2>1. Stop \in SUBSET D
      OBVIOUS
    <2> HIDE DEF D, Stop, follow, itself, R, V, m
    <2> QED
      BY <1>1, <1>7, <1>8, <2>1, TailInvariant
  <1> QED
    BY <1>6, <1>9

(* The last node before the place of a power divides the level. *)
LEMMA LowestDivides ==
    ASSUME NEW nx, NEW pw, NEW live, NEW rank, NEW top, Leveled(nx, pw, live, rank, top),
           NEW p \in Powers, NEW i \in Skip!Levels, NEW a \in Lowest(nx, pw, live, p, i)
    PROVE  /\ a \in live \cup {Skip!Start} /\ i \in DOMAIN nx[a]
           /\ a # Skip!Start => pw[a] < p
           /\ \A x \in live : i \in DOMAIN nx[x] => (pw[x] < p <=> rank[x] <= rank[a])
           /\ \A x \in live : pw[x] >= p => rank[x] > rank[a]
  <1>0. /\ \A n \in live \cup {Skip!Start} : rank[n] \in Nat
        /\ \A n \in live : rank[n] > 0 /\ pw[n] \in Int
        /\ \A m, n \in live : rank[m] <= rank[n] => pw[m] <= pw[n]
        /\ p \in Int /\ rank[Skip!Start] = 0
    BY OrderFacts, SkipConstants DEF Leveled
  <1>1. /\ a \in live \cup {Skip!Start} /\ i \in DOMAIN nx[a]
        /\ a # Skip!Start => a \in live /\ pw[a] < p
        /\ nx[a][i] = Skip!Nil \/ pw[nx[a][i]] >= p
    BY DEF Lowest, Lower
  <1>2. \A x \in live : pw[x] >= p => rank[x] > rank[a]
    <2> SUFFICES ASSUME NEW x \in live, pw[x] >= p, rank[x] <= rank[a]
                 PROVE  FALSE
      BY <1>0, <1>1
    <2>1. a # Skip!Start
      BY <1>0
    <2> QED
      BY <1>0, <1>1, <2>1
  <1>3. ASSUME NEW x \in live, i \in DOMAIN nx[x], pw[x] < p, rank[x] > rank[a]
        PROVE  FALSE
    <2>1. /\ nx[a][i] \in live /\ rank[nx[a][i]] <= rank[x]
          /\ nx[a][i] # Skip!Nil
      <3>1. Skip!Nil \notin live
        BY LevelFacts
      <3>2. \/ /\ nx[a][i] = Skip!Nil
               /\ \A y \in live : i \in DOMAIN nx[y] => rank[y] <= rank[a]
            \/ /\ nx[a][i] \in live
               /\ \A y \in live : i \in DOMAIN nx[y] /\ rank[a] < rank[y] =>
                      rank[nx[a][i]] <= rank[y]
        BY <1>1, LevelFacts
      <3> QED
        BY <1>0, <1>1, <1>3, <3>1, <3>2
    <2> QED
      BY <1>0, <1>1, <1>3, <2>1
  <1> QED
    BY <1>0, <1>1, <1>2, <1>3

LEMMA LowestUnique ==
    ASSUME NEW nx, NEW pw, NEW live, NEW rank, NEW top, Leveled(nx, pw, live, rank, top),
           NEW p \in Powers, NEW i \in Skip!Levels, NEW a \in Lowest(nx, pw, live, p, i),
           NEW b \in Lowest(nx, pw, live, p, i)
    PROVE  a = b
  <1>0. /\ \A n \in live \cup {Skip!Start} : rank[n] \in Nat
        /\ \A n \in live : rank[n] > 0
        /\ \A m, n \in live : rank[m] = rank[n] => m = n
        /\ rank[Skip!Start] = 0
    BY OrderFacts DEF Leveled
  <1>1. /\ a \in live \cup {Skip!Start} /\ i \in DOMAIN nx[a]
        /\ a # Skip!Start => pw[a] < p
        /\ \A x \in live : i \in DOMAIN nx[x] => (pw[x] < p <=> rank[x] <= rank[a])
    BY LowestDivides
  <1>2. /\ b \in live \cup {Skip!Start} /\ i \in DOMAIN nx[b]
        /\ b # Skip!Start => pw[b] < p
        /\ \A x \in live : i \in DOMAIN nx[x] => (pw[x] < p <=> rank[x] <= rank[b])
    BY LowestDivides
  <1>3. a # Skip!Start => rank[a] <= rank[b]
    BY <1>1, <1>2
  <1>4. b # Skip!Start => rank[b] <= rank[a]
    BY <1>1, <1>2
  <1> QED
    BY <1>0, <1>1, <1>2, <1>3, <1>4

(* Every level is searched as from the head, though the search starts      *)
(* where that of the level above ended.                                    *)
LEMMA SearchEnds ==
    ASSUME NEW live, NEW rank, NEW top, Leveled(next, power, live, rank, top),
           NEW p \in Powers
    PROVE  \A i \in Skip!Levels :
               Skip!GetPreptrArr(p)[i] \in Lowest(next, power, live, p, i)
  <1> DEFINE body(g) == [i \in Skip!Levels |->
                            Skip!Along(p, i, IF i = MaxLevel THEN Skip!Start ELSE g[i + 1])]
             ends == [i \in Skip!Levels |-> Skip!Along(p, i, Skip!Start)]
             down == CHOOSE g : g = body(g)
             L(i) == Lowest(next, power, live, p, i)
  <1>0. MaxLevel \in Nat \ {0} /\ Skip!Levels = 1 .. MaxLevel
    BY SkipConstants
  <1>1. \A i \in Skip!Levels : Skip!Start \in Lower(next, power, live, p, i)
    BY LevelFacts DEF Lower
  <1>2. \A i \in Skip!Levels : ends[i] \in L(i)
    BY <1>1, WalkEnds
  <1>3. ASSUME NEW i \in Skip!Levels, i # MaxLevel, NEW a \in L(i + 1)
        PROVE  Skip!Along(p, i, a) = ends[i]
    <2>1. i + 1 \in Skip!Levels
      BY <1>0, <1>3
    <2>2. a \in Lower(next, power, live, p, i)
      BY <1>3, <2>1, LevelFacts DEF Lower, Lowest
    <2>3. Skip!Along(p, i, a) \in L(i)
      BY <2>2, WalkEnds
    <2> QED
      BY <1>2, <2>3, LowestUnique
  <1>4. \A i \in Skip!Levels : i # MaxLevel => i + 1 \in Skip!Levels
    BY <1>0
  <1>5. ends = body(ends)
    <2>1. \A i \in Skip!Levels :
              ends[i] = Skip!Along(p, i, IF i = MaxLevel THEN Skip!Start ELSE ends[i + 1])
      <3> SUFFICES ASSUME NEW i \in Skip!Levels
                   PROVE  ends[i] = Skip!Along(p, i, IF i = MaxLevel THEN Skip!Start
                                                     ELSE ends[i + 1])
        OBVIOUS
      <3>1. CASE i = MaxLevel
        BY <3>1
      <3>2. CASE i # MaxLevel
        <4>1. ends[i + 1] \in L(i + 1)
          BY <1>2, <1>4, <3>2
        <4> HIDE DEF ends, L
        <4> QED
          BY <1>3, <3>2, <4>1
      <3> QED
        BY <3>1, <3>2
    <2> QED
      BY <2>1
  <1>6. down = body(down)
    <2> HIDE DEF body, ends
    <2> QED
      BY <1>5
  <1>7. Skip!GetPreptrArr(p) = down
    BY DEF Skip!GetPreptrArr
  <1> HIDE DEF down
  <1>8. \A i \in Skip!Levels :
            down[i] = Skip!Along(p, i, IF i = MaxLevel THEN Skip!Start ELSE down[i + 1])
    BY <1>6
  <1>9. \A i \in Skip!Levels : down[i] = ends[i]
    <2> DEFINE Bad == {i \in Skip!Levels : down[i] # ends[i]}
    <2> SUFFICES ASSUME Bad # {}
                 PROVE  FALSE
      OBVIOUS
    <2>1. Bad \in SUBSET Nat /\ \A i \in Bad : i <= MaxLevel
      BY <1>0
    <2>2. PICK i \in Bad : \A j \in Bad : i >= j
      <3> HIDE DEF Bad
      <3> QED
        BY <1>0, <2>1, GreatestNumber
    <2>3. i # MaxLevel
      BY <1>8
    <2>4. i + 1 \in Skip!Levels /\ i + 1 \notin Bad
      BY <1>0, <2>2, <2>3
    <2>5. down[i + 1] \in L(i + 1)
      BY <1>2, <2>4
    <2>6. down[i] = Skip!Along(p, i, down[i + 1])
      BY <1>8, <2>3
    <2> HIDE DEF L, ends
    <2> QED
      BY <1>3, <2>3, <2>5, <2>6
  <1> QED
    BY <1>2, <1>7, <1>9

(* The first node at or behind the place of a power, on a level. *)
After(p, i) == next[Skip!GetPreptrArr(p)[i]][i]

LEMMA AfterFacts ==
    ASSUME NEW live, NEW rank, NEW top, Leveled(next, power, live, rank, top),
           NEW p \in Powers, NEW i \in Skip!Levels
    PROVE  \/ /\ After(p, i) = Skip!Nil
              /\ \A x \in live : i \in DOMAIN next[x] => power[x] < p
           \/ /\ After(p, i) \in live /\ i \in DOMAIN next[After(p, i)]
              /\ power[After(p, i)] >= p
              /\ \A x \in live : i \in DOMAIN next[x] /\ power[x] >= p =>
                     rank[After(p, i)] <= rank[x]
  <1> DEFINE a == Skip!GetPreptrArr(p)[i]
  <1>0. /\ \A n \in live \cup {Skip!Start} : rank[n] \in Nat
        /\ \A n \in live : power[n] \in Int
        /\ p \in Int
    BY OrderFacts, SkipConstants DEF Leveled
  <1>1. a \in Lowest(next, power, live, p, i) /\ After(p, i) = next[a][i]
    BY SearchEnds DEF After
  <1> HIDE DEF a
  <1>2. /\ a \in live \cup {Skip!Start} /\ i \in DOMAIN next[a]
        /\ \A x \in live : i \in DOMAIN next[x] => (power[x] < p <=> rank[x] <= rank[a])
        /\ \A x \in live : power[x] >= p => rank[x] > rank[a]
    BY <1>1, LowestDivides
  <1>3. CASE /\ next[a][i] = Skip!Nil
             /\ \A x \in live : i \in DOMAIN next[x] => rank[x] <= rank[a]
    BY <1>1, <1>2, <1>3
  <1>4. CASE /\ next[a][i] \in live /\ i \in DOMAIN next[next[a][i]]
             /\ rank[a] < rank[next[a][i]]
             /\ \A x \in live : i \in DOMAIN next[x] /\ rank[a] < rank[x] =>
                    rank[next[a][i]] <= rank[x]
    <2>1. power[next[a][i]] >= p
      BY <1>0, <1>2, <1>4
    <2> QED
      BY <1>1, <1>2, <1>4, <2>1
  <1> QED
    BY <1>2, <1>3, <1>4, LevelFacts

(* What is found is of the power, and the first of the highest of those    *)
(* that are; nothing is found when there is none.                          *)
LEMMA FindFinds ==
    ASSUME NEW live, NEW rank, NEW top, Leveled(next, power, live, rank, top),
           NEW p \in Powers
    PROVE  \/ Skip!Find(p) = Skip!Nil /\ \A n \in live : power[n] # p
           \/ /\ Skip!Find(p) \in live /\ power[Skip!Find(p)] = p
              /\ \A x \in live : power[x] = p =>
                     DOMAIN next[x] \subseteq DOMAIN next[Skip!Find(p)]
  <1> DEFINE hits == {i \in Skip!Levels : After(p, i) # Skip!Nil /\ power[After(p, i)] = p}
             after == [i \in Skip!Levels |-> next[Skip!GetPreptrArr(p)[i]][i]]
  <1>0. /\ \A n \in live : power[n] \in Int
        /\ \A m, n \in live : rank[m] <= rank[n] => power[m] <= power[n]
        /\ p \in Int
        /\ Skip!Levels \in SUBSET Nat /\ MaxLevel \in Nat /\ \A i \in Skip!Levels : i <= MaxLevel
        /\ Skip!Nil \notin live
        /\ Skip!Levels = 1 .. MaxLevel
    BY OrderFacts, SkipConstants, LevelFacts DEF Leveled
  <1>1. Skip!Find(p) = IF hits = {} THEN Skip!Nil ELSE After(p, Skip!Max(hits))
    <2>1. \A i \in Skip!Levels : after[i] = After(p, i)
      BY DEF After
    <2> DEFINE same == {i \in Skip!Levels : after[i] # Skip!Nil /\ power[after[i]] = p}
    <2>2. hits = same
      BY <2>1
    <2>3. Skip!Find(p) = IF hits = {} THEN Skip!Nil ELSE after[Skip!Max(hits)]
      <3>1. Skip!Find(p) = IF same = {} THEN Skip!Nil ELSE after[Skip!Max(same)]
        BY DEF Skip!Find
      <3> HIDE DEF hits, same, after
      <3> QED
        BY <2>2, <3>1
    <2>4. hits # {} => Skip!Max(hits) \in Skip!Levels
      <3>1. hits \in SUBSET Nat /\ \A i \in hits : i <= MaxLevel
        BY <1>0
      <3>2. hits # {} => \E x \in hits : \A y \in hits : x >= y
        <4> HIDE DEF hits
        <4> QED
          BY <1>0, <3>1, GreatestNumber
      <3> QED
        BY <3>2 DEF Skip!Max
    <2> HIDE DEF hits, after
    <2> QED
      BY <2>1, <2>3, <2>4
  <1>2. ASSUME NEW i \in Skip!Levels, NEW x \in live, power[x] = p, i \in DOMAIN next[x]
        PROVE  i \in hits
    BY <1>0, <1>2, AfterFacts
  <1>3. CASE hits = {}
    <2>1. \A n \in live : power[n] # p
      BY <1>0, <1>2, <1>3, LevelFacts
    <2> QED
      BY <1>1, <1>3, <2>1
  <1>4. CASE hits # {}
    <2>1. hits \in SUBSET Nat /\ \A i \in hits : i <= MaxLevel
      BY <1>0
    <2>2. \E x \in hits : \A y \in hits : x >= y
      <3> HIDE DEF hits
      <3> QED
        BY <1>0, <1>4, <2>1, GreatestNumber
    <2> DEFINE h == Skip!Max(hits)
    <2>3. h \in hits /\ \A y \in hits : h >= y
      BY <2>2 DEF Skip!Max
    <2> HIDE DEF h
    <2>4. Skip!Find(p) = After(p, h) /\ h \in Skip!Levels
      BY <1>1, <1>4, <2>3 DEF h
    <2>5. After(p, h) \in live /\ h \in DOMAIN next[After(p, h)] /\ power[After(p, h)] = p
      BY <2>3, <2>4, AfterFacts
    <2>6. PICK level \in Skip!Levels : DOMAIN next[After(p, h)] = 1 .. level
      BY <2>5 DEF Leveled
    <2>7. ASSUME NEW x \in live, power[x] = p, NEW i \in DOMAIN next[x]
          PROVE  i \in DOMAIN next[After(p, h)]
      <3>1. i \in Skip!Levels
        BY LevelFacts
      <3>2. i <= h
        BY <1>2, <2>3, <2>7, <3>1
      <3> QED
        BY <1>0, <2>4, <2>5, <2>6, <3>1, <3>2
    <2> QED
      BY <2>4, <2>5, <2>7
  <1> QED
    BY <1>3, <1>4

-------------------------------------------------------------------------------
(* What the property says. *)

(* The nodes of a level are the live ones that are high enough. *)
LEMMA LevelNodes ==
    ASSUME NEW live, NEW rank, NEW top, Leveled(next, power, live, rank, top),
           NEW i \in Skip!Levels
    PROVE  Skip!OnLevel(i) = {n \in live : i \in DOMAIN next[n]}
  <1> DEFINE On == {n \in live : i \in DOMAIN next[n]}
             Upward(S) == \A n \in S \cup {Skip!Start} :
                              i \in DOMAIN next[n] => next[n][i] \in S \cup {Skip!Nil}
  <1>0. /\ \A n \in live \cup {Skip!Start} : rank[n] \in Nat /\ rank[n] <= top
        /\ \A n \in live : rank[n] > 0
        /\ \A m, n \in live : rank[m] = rank[n] => m = n
        /\ rank[Skip!Start] = 0 /\ top \in Nat
    BY OrderFacts DEF Leveled
  <1>1. Skip!OnLevel(i) = {n \in DOMAIN next : \A S \in SUBSET DOMAIN next : Upward(S) => n \in S}
    BY DEF Skip!OnLevel
  <1>2. On \in SUBSET DOMAIN next /\ Upward(On)
    <2>1. \A n \in On \cup {Skip!Start} : n \in live \cup {Skip!Start}
      OBVIOUS
    <2> QED
      BY <2>1, LevelFacts
  <1>3. ASSUME NEW S \in SUBSET DOMAIN next, Upward(S), On \ S # {}
        PROVE  FALSE
    <2> DEFINE Ranks == {rank[n] : n \in On \ S}
    <2>1. Ranks \in SUBSET Nat /\ Ranks # {}
      BY <1>0, <1>3
    <2>2. PICK k \in Ranks : \A j \in Ranks : k <= j
      <3> HIDE DEF Ranks
      <3> QED
        BY <2>1, LeastNumber
    <2>3. PICK x \in On \ S : k = rank[x]
      OBVIOUS
    <2>4. \A y \in On \ S : rank[x] <= rank[y]
      BY <2>2, <2>3
    <2> DEFINE Below == {y \in On \cup {Skip!Start} : rank[y] < rank[x]}
               Lowers == {rank[y] : y \in Below}
    <2>5. Lowers \in SUBSET Nat /\ Lowers # {} /\ \A j \in Lowers : j <= top
      <3>1. Skip!Start \in Below
        BY <1>0, <2>3
      <3>2. \A y \in Below : y \in live \cup {Skip!Start}
        OBVIOUS
      <3> HIDE DEF Below
      <3> QED
        BY <1>0, <3>1, <3>2
    <2>6. PICK l \in Lowers : \A j \in Lowers : l >= j
      <3> HIDE DEF Lowers
      <3> QED
        BY <1>0, <2>5, GreatestNumber
    <2>7. PICK y \in Below : l = rank[y]
      OBVIOUS
    <2>8. \A z \in On : rank[z] < rank[x] => rank[z] <= rank[y]
      BY <2>6, <2>7
    <2>9. y \in S \cup {Skip!Start} /\ i \in DOMAIN next[y] /\ y \in live \cup {Skip!Start}
      <3>1. y \in On => y \in S
        BY <1>0, <2>4, <2>7
      <3> QED
        BY <2>7, <3>1, LevelFacts
    <2>10. next[y][i] = x
      <3>1. \/ \A z \in live : i \in DOMAIN next[z] => rank[z] <= rank[y]
            \/ /\ next[y][i] \in On /\ rank[y] < rank[next[y][i]]
               /\ \A z \in live : i \in DOMAIN next[z] /\ rank[y] < rank[z] =>
                      rank[next[y][i]] <= rank[z]
        BY <2>9, LevelFacts
      <3>2. x \in live /\ i \in DOMAIN next[x] /\ rank[y] < rank[x]
        BY <2>7
      <3>3. /\ next[y][i] \in On /\ rank[y] < rank[next[y][i]]
            /\ rank[next[y][i]] <= rank[x]
        BY <1>0, <2>9, <3>1, <3>2
      <3>4. rank[next[y][i]] = rank[x]
        BY <1>0, <2>8, <2>9, <3>2, <3>3
      <3> QED
        BY <1>0, <3>2, <3>3, <3>4
    <2>11. next[y][i] \in S \cup {Skip!Nil}
      BY <1>3, <2>9
    <2> QED
      BY <2>3, <2>10, <2>11, LevelFacts
  <1> HIDE DEF On, Upward
  <1> QED
    BY <1>1, <1>2, <1>3 DEF On

LEMMA SkipHolds == SkipInvariant => SkipListIntact
  <1> SUFFICES ASSUME SkipInvariant
               PROVE  SkipListIntact
    OBVIOUS
  <1>1. PICK live, rank, top : /\ Leveled(next, power, live, rank, top)
                               /\ Counted(power, live, count, twice)
    BY DEF SkipInvariant
  <1>2. \A i \in Skip!Levels : Skip!OnLevel(i) = {n \in live : i \in DOMAIN next[n]}
    BY <1>1, LevelNodes
  <1>3. 1 \in Skip!Levels /\ Skip!OnLevel(1) = live
    <2>1. 1 \in Skip!Levels
      BY SkipConstants
    <2>2. \A n \in live : 1 \in DOMAIN next[n]
      BY <1>1, LevelFacts
    <2> QED
      BY <1>2, <2>1, <2>2
  <1>4. ASSUME NEW i \in Skip!Levels, NEW n \in DOMAIN next \ {Skip!Start},
               n \in Skip!OnLevel(i)
        PROVE  /\ i \in DOMAIN next[n] /\ next[n][i] \in DOMAIN next \cup {Skip!Nil}
               /\ next[n][i] # Skip!Nil => power[n] <= power[next[n][i]]
               /\ n \in Skip!OnLevel(1)
    <2>1. n \in live /\ i \in DOMAIN next[n]
      BY <1>2, <1>4
    <2>2. \/ next[n][i] = Skip!Nil
          \/ next[n][i] \in live /\ rank[n] < rank[next[n][i]]
      BY <1>1, <2>1, LevelFacts
    <2>3. /\ \A x \in live : rank[x] \in Nat
          /\ \A x, y \in live : rank[x] <= rank[y] => power[x] <= power[y]
      BY <1>1, OrderFacts DEF Leveled
    <2> QED
      BY <1>1, <1>3, <2>1, <2>2, <2>3, LevelFacts
  <1>5. \A i \in Skip!Levels : next[Skip!Start][i] \in DOMAIN next \cup {Skip!Nil}
    BY <1>1, LevelFacts
  <1>6. ASSUME NEW n \in Skip!OnLevel(1), NEW i \in Skip!Levels, i <= Len(next[n])
        PROVE  n \in Skip!OnLevel(i)
    <2>1. n \in live
      BY <1>3
    <2>2. PICK level \in Skip!Levels : next[n] \in [1 .. level -> Skip!Ids \cup {Skip!Nil}]
      BY <1>1, <2>1 DEF Leveled
    <2>3. next[n] \in Seq(Skip!Ids \cup {Skip!Nil}) /\ Len(next[n]) = level
      <3>1. level \in Nat
        BY SkipConstants
      <3> QED
        BY <2>2, <3>1
    <2> QED
      BY <1>2, <1>6, <2>1, <2>2, <2>3, SkipConstants
  <1>7. ASSUME NEW p \in Powers
        PROVE  /\ (Skip!Find(p) # Skip!Nil) = (\E n \in Skip!OnLevel(1) : power[n] = p)
               /\ Cardinality({n \in Skip!OnLevel(1) : power[n] = p}) <= count[p]
               /\ p \notin twice =>
                      Cardinality({n \in Skip!OnLevel(1) : power[n] = p}) = count[p]
    <2>1. (Skip!Find(p) # Skip!Nil) <=> (\E n \in live : power[n] = p)
      BY <1>1, FindFinds, LevelFacts
    <2> QED
      BY <1>1, <1>3, <2>1 DEF Counted
  <1>8. \A S : Skip!Cardinality(S) = Cardinality(S)
    BY Zenon DEF Skip!Cardinality, Cardinality
  <1> QED
    BY <1>4, <1>5, <1>6, <1>7, <1>8, Zenon DEF SkipListIntact, Skip!SkipListIntact

-------------------------------------------------------------------------------
(* A node is added. *)

LEMMA NewId ==
    ASSUME NEW live, NEW rank, NEW top, Leveled(next, power, live, rank, top),
           DOMAIN next # Skip!Ids \cup {Skip!Start}
    PROVE  Skip!Min(Skip!Ids \ DOMAIN next) \in Skip!Ids \ DOMAIN next
  <1> DEFINE S == Skip!Ids \ DOMAIN next
  <1>1. S \in SUBSET Nat
    BY SkipConstants
  <1>2. S # {}
    <2>1. DOMAIN next \subseteq Skip!Ids \cup {Skip!Start} /\ Skip!Start \in DOMAIN next
      BY DEF Leveled
    <2> QED
      BY <2>1
  <1>3. \E n \in S : \A m \in S : n <= m
    <2> HIDE DEF S
    <2> QED
      BY <1>1, <1>2, LeastNumber
  <1> QED
    BY <1>3 DEF Skip!Min

(* Its place is behind every node of a lower power. *)
Behind(live, rank, new, r) ==
    [x \in live \cup {new, Skip!Start} |->
        IF x = new THEN r + 1 ELSE IF rank[x] <= r THEN rank[x] ELSE rank[x] + 1]

(* The node in front of that place is the one of the lowest level. *)
LEMMA FrontFacts ==
    ASSUME NEW live, NEW rank, NEW top, Leveled(next, power, live, rank, top),
           NEW p \in Powers, NEW r, r = rank[Skip!GetPreptrArr(p)[1]]
    PROVE  /\ r \in Nat /\ r <= top
           /\ \A x \in live : power[x] < p <=> rank[x] <= r
  <1> DEFINE a == Skip!GetPreptrArr(p)[1]
  <1>1. 1 \in Skip!Levels /\ a \in Lowest(next, power, live, p, 1)
    BY SkipConstants, SearchEnds
  <1> HIDE DEF a
  <1>2. /\ a \in live \cup {Skip!Start}
        /\ \A x \in live : 1 \in DOMAIN next[x] => (power[x] < p <=> rank[x] <= rank[a])
    BY <1>1, LowestDivides
  <1>3. \A x \in live : 1 \in DOMAIN next[x]
    BY LevelFacts
  <1> QED
    BY <1>2, <1>3, OrderFacts DEF a, Leveled

LEMMA AddOrdered ==
    ASSUME NEW live, NEW rank, NEW top, Leveled(next, power, live, rank, top),
           NEW p \in Powers, NEW r, r = rank[Skip!GetPreptrArr(p)[1]],
           NEW new \in Skip!Ids \ DOMAIN next, NEW pw,
           pw = [n \in DOMAIN power \cup {new} |-> IF n = new THEN p ELSE power[n]]
    PROVE  Ordered(pw, live \cup {new}, Behind(live, rank, new, r), top + 1)
  <1> DEFINE rank2 == Behind(live, rank, new, r)
  <1>0. /\ top \in Nat /\ rank[Skip!Start] = 0
        /\ \A n \in live \cup {Skip!Start} : rank[n] \in Nat /\ rank[n] <= top
        /\ \A n \in live : rank[n] > 0 /\ power[n] \in Int /\ power[n] \in Powers
        /\ \A m, n \in live : rank[m] = rank[n] => m = n
        /\ \A m, n \in live : rank[m] <= rank[n] => power[m] <= power[n]
    BY OrderFacts DEF Leveled
  <1>1. /\ r \in Nat /\ r <= top
        /\ \A x \in live : power[x] < p <=> rank[x] <= r
    BY FrontFacts
  <1>2. /\ new \notin live /\ new # Skip!Start /\ p \in Int
        /\ live \subseteq DOMAIN power
    BY SkipConstants, LevelFacts DEF Leveled
  <1>3. \A n \in live : pw[n] = power[n] /\ n # new
    BY <1>2
  <1>4. pw[new] = p
    BY <1>2
  <1>5. /\ \A n \in live \cup {Skip!Start} :
              rank2[n] = IF rank[n] <= r THEN rank[n] ELSE rank[n] + 1
        /\ rank2[new] = r + 1
    BY <1>2 DEF Behind
  <1>6. rank2 \in [(live \cup {new}) \cup {Skip!Start} -> 0 .. top + 1]
    <2>1. \A n \in (live \cup {new}) \cup {Skip!Start} : rank2[n] \in 0 .. top + 1
      BY <1>0, <1>1, <1>5
    <2> QED
      BY <2>1 DEF Behind
  <1> HIDE DEF rank2
  <1>7. rank2[Skip!Start] = 0 /\ \A n \in live \cup {new} : rank2[n] > 0
    BY <1>0, <1>1, <1>5
  <1>8. \A n \in live \cup {new} : pw[n] \in Powers
    BY <1>0, <1>3, <1>4
  <1>9. ASSUME NEW m \in live \cup {new}, NEW n \in live \cup {new}
        PROVE  /\ rank2[m] = rank2[n] => m = n
               /\ rank2[m] < rank2[n] => pw[m] <= pw[n]
    <2>1. CASE m \in live /\ n \in live
      <3>1. /\ rank2[m] = rank2[n] => rank[m] = rank[n]
            /\ rank2[m] < rank2[n] => rank[m] <= rank[n]
        BY <1>0, <1>1, <1>5, <2>1
      <3> QED
        BY <1>0, <1>3, <2>1, <3>1
    <2>2. CASE m = new /\ n \in live
      BY <1>0, <1>1, <1>2, <1>3, <1>4, <1>5, <2>2
    <2>3. CASE m \in live /\ n = new
      BY <1>0, <1>1, <1>2, <1>3, <1>4, <1>5, <2>3
    <2>4. CASE m = new /\ n = new
      BY <1>1, <1>2, <1>4, <1>5, <2>4
    <2> QED
      BY <2>1, <2>2, <2>3, <2>4
  <1>10. top + 1 \in Nat
    BY <1>0
  <1> QED
    BY <1>6, <1>7, <1>8, <1>9, <1>10 DEF Ordered, rank2

(* The pointers after it *)
Linked(nx, p, new, level) ==
    [n \in DOMAIN nx \cup {new} |->
        IF n = new THEN [i \in 1 .. level |-> After(p, i)]
        ELSE [i \in DOMAIN nx[n] |->
                 IF i <= level /\ Skip!GetPreptrArr(p)[i] = n THEN new ELSE nx[n][i]]]

LEMMA AddLeads ==
    ASSUME NEW live, NEW rank, NEW top, Leveled(next, power, live, rank, top),
           NEW p \in Powers, NEW r, r = rank[Skip!GetPreptrArr(p)[1]],
           NEW new \in Skip!Ids \ DOMAIN next, NEW level \in Skip!Levels,
           NEW n \in (live \cup {new}) \cup {Skip!Start},
           NEW i \in DOMAIN Linked(next, p, new, level)[n]
    PROVE  Leads(Linked(next, p, new, level), live \cup {new}, Behind(live, rank, new, r), n, i)
  <1> DEFINE nx2 == Linked(next, p, new, level)
             live2 == live \cup {new}
             rank2 == Behind(live, rank, new, r)
             a == Skip!GetPreptrArr(p)[i]
             high == {x \in live2 : i \in DOMAIN nx2[x] /\ rank2[n] < rank2[x]}
  <1>0. /\ top \in Nat /\ rank[Skip!Start] = 0
        /\ \A x \in live \cup {Skip!Start} : rank[x] \in Nat /\ rank[x] <= top
        /\ \A x \in live : rank[x] > 0 /\ power[x] \in Int
        /\ \A x, y \in live : rank[x] = rank[y] => x = y
        /\ p \in Int
    BY OrderFacts, SkipConstants DEF Leveled
  <1>1. /\ r \in Nat /\ r <= top
        /\ \A x \in live : power[x] < p <=> rank[x] <= r
    BY FrontFacts
  <1>2. /\ new \notin live /\ new # Skip!Start /\ Skip!Start \notin live
        /\ live \cup {Skip!Start} \subseteq DOMAIN next /\ new \notin DOMAIN next
        /\ \A x \in live \cup {Skip!Start} : x # new
    BY SkipConstants, LevelFacts
  <1>3. /\ \A x \in live \cup {Skip!Start} :
              rank2[x] = IF rank[x] <= r THEN rank[x] ELSE rank[x] + 1
        /\ rank2[new] = r + 1
    BY <1>2 DEF Behind
  <1>4. /\ \A x \in live \cup {Skip!Start} : DOMAIN nx2[x] = DOMAIN next[x]
        /\ DOMAIN nx2[new] = 1 .. level
        /\ \A x \in live \cup {Skip!Start}, j \in Skip!Levels : j \in DOMAIN next[x] =>
               nx2[x][j] = IF j <= level /\ Skip!GetPreptrArr(p)[j] = x THEN new
                           ELSE next[x][j]
        /\ \A j \in 1 .. level : nx2[new][j] = After(p, j)
    BY <1>2 DEF Linked
  <1>5. i \in Skip!Levels /\ (i \in 1 .. level <=> i <= level)
    <2>1. DOMAIN nx2[n] \subseteq Skip!Levels
      BY <1>4, LevelFacts, SkipConstants
    <2>2. i \in Skip!Levels
      BY <2>1
    <2> QED
      BY <2>2, SkipConstants
  <1>6. a \in Lowest(next, power, live, p, i)
    BY <1>5, SearchEnds
  <1>7. /\ a \in live \cup {Skip!Start} /\ i \in DOMAIN next[a]
        /\ a # Skip!Start => power[a] < p
        /\ \A x \in live : i \in DOMAIN next[x] => (power[x] < p <=> rank[x] <= rank[a])
        /\ \A x \in live : power[x] >= p => rank[x] > rank[a]
    <2> HIDE DEF a
    <2> QED
      BY <1>5, <1>6, LowestDivides
  <1>8. rank[a] <= r
    BY <1>0, <1>1, <1>7
  <1> HIDE DEF nx2, rank2
  <1>9. CASE n = new
    <2>1. i \in 1 .. level /\ nx2[n][i] = After(p, i) /\ rank2[n] = r + 1
      BY <1>3, <1>4, <1>9 DEF nx2
    <2>2. high = {x \in live : i \in DOMAIN next[x] /\ power[x] >= p}
      <3>1. ASSUME NEW x \in live2
            PROVE  rank2[n] < rank2[x] <=> (x \in live /\ power[x] >= p)
        BY <1>0, <1>1, <1>2, <1>3, <2>1
      <3> QED
        BY <1>4, <3>1
    <2>3. \A x, y \in live : rank[x] <= rank[y] => rank2[x] <= rank2[y]
      BY <1>0, <1>1, <1>3
    <2>4. \/ /\ After(p, i) = Skip!Nil
             /\ \A x \in live : i \in DOMAIN next[x] => power[x] < p
          \/ /\ After(p, i) \in live /\ i \in DOMAIN next[After(p, i)]
             /\ power[After(p, i)] >= p
             /\ \A x \in live : i \in DOMAIN next[x] /\ power[x] >= p =>
                    rank[After(p, i)] <= rank[x]
      BY <1>5, AfterFacts
    <2>5. Leads(nx2, live2, rank2, n, i) <=>
              \/ nx2[n][i] = Skip!Nil /\ high = {}
              \/ nx2[n][i] \in high /\ \A x \in high : rank2[nx2[n][i]] <= rank2[x]
      BY DEF Leads
    <2> HIDE DEF high, live2
    <2>6. CASE After(p, i) = Skip!Nil
      BY <1>0, <2>1, <2>2, <2>4, <2>5, <2>6, LevelFacts DEF nx2, rank2, live2
    <2>7. CASE After(p, i) # Skip!Nil
      <3>1. /\ After(p, i) \in high
            /\ \A x \in high : rank2[After(p, i)] <= rank2[x]
        BY <2>2, <2>3, <2>4, <2>7
      <3> QED
        BY <2>1, <2>5, <3>1 DEF nx2, rank2, live2
    <2> QED
      BY <2>6, <2>7
  <1>10. CASE n # new /\ i <= level /\ a = n
    <2>1. n \in live \cup {Skip!Start} /\ i \in DOMAIN next[n] /\ nx2[n][i] = new
      BY <1>4, <1>5, <1>7, <1>10
    <2>2. rank2[n] < rank2[new]
      BY <1>0, <1>1, <1>3, <1>8, <1>10, <2>1
    <2>3. new \in high
      BY <1>4, <1>5, <1>10, <2>2
    <2>4. ASSUME NEW x \in high
          PROVE  rank2[new] <= rank2[x]
      <3>1. CASE x = new
        BY <1>1, <1>3, <3>1
      <3>2. CASE x \in live
        <4>1. i \in DOMAIN next[x] /\ rank2[n] < rank2[x]
          BY <1>4, <3>2
        <4>2. ~ power[x] < p
          BY <1>0, <1>1, <1>3, <1>7, <1>8, <1>10, <2>1, <3>2, <4>1
        <4> QED
          BY <1>0, <1>1, <1>3, <3>2, <4>2
      <3> QED
        BY <3>1, <3>2
    <2> QED
      BY <2>1, <2>3, <2>4 DEF Leads, nx2, rank2
  <1>11. CASE n # new /\ ~ (i <= level /\ a = n)
    <2>1. n \in live \cup {Skip!Start} /\ i \in DOMAIN next[n] /\ nx2[n][i] = next[n][i]
      BY <1>4, <1>5, <1>11 DEF nx2
    <2>2. \A x, y \in live \cup {Skip!Start} : rank[x] < rank[y] <=> rank2[x] < rank2[y]
      BY <1>0, <1>1, <1>3
    <2>3. \A x, y \in live : rank[x] <= rank[y] => rank2[x] <= rank2[y]
      BY <1>0, <1>1, <1>3
    <2>4. \A x \in high : x # new =>
              x \in live /\ i \in DOMAIN next[x] /\ rank[n] < rank[x]
      BY <1>4, <2>1, <2>2
    <2>5. \A x \in live : i \in DOMAIN next[x] /\ rank[n] < rank[x] => x \in high
      BY <1>4, <2>1, <2>2
    <2>6. ASSUME new \in high
          PROVE  /\ a \in live /\ rank[n] < rank[a] /\ power[a] < p
      <3>1. i <= level /\ rank2[n] < r + 1 /\ a # n
        BY <1>3, <1>4, <1>5, <1>11, <2>6
      <3>2. rank[n] <= r
        BY <1>0, <1>1, <1>3, <2>1, <3>1
      <3>3. CASE n = Skip!Start
        BY <1>0, <1>7, <3>1, <3>3
      <3>4. CASE n \in live
        <4>1. power[n] < p /\ rank[n] <= rank[a]
          BY <1>1, <1>7, <2>1, <3>2, <3>4
        <4>2. a # Skip!Start
          BY <1>0, <3>4, <4>1
        <4> QED
          BY <1>0, <1>7, <3>1, <3>4, <4>1, <4>2
      <3> QED
        BY <2>1, <3>3, <3>4
    <2>7. CASE /\ next[n][i] = Skip!Nil
               /\ \A x \in live : i \in DOMAIN next[x] => rank[x] <= rank[n]
      <3>1. new \notin high
        BY <1>0, <1>7, <2>1, <2>6, <2>7
      <3>2. high = {}
        BY <1>0, <2>1, <2>4, <2>7, <3>1
      <3> QED
        BY <2>1, <2>7, <3>2 DEF Leads, nx2, rank2
    <2>8. CASE /\ next[n][i] \in live /\ i \in DOMAIN next[next[n][i]]
               /\ rank[n] < rank[next[n][i]]
               /\ \A x \in live : i \in DOMAIN next[x] /\ rank[n] < rank[x] =>
                      rank[next[n][i]] <= rank[x]
      <3>1. next[n][i] \in high
        BY <2>5, <2>8
      <3>2. ASSUME NEW x \in high
            PROVE  rank2[next[n][i]] <= rank2[x]
        <4>1. CASE x # new
          BY <2>3, <2>4, <2>8, <4>1
        <4>2. CASE x = new
          <5>1. rank[next[n][i]] <= rank[a]
            BY <1>7, <2>6, <2>8, <4>2
          <5> QED
            BY <1>0, <1>1, <1>3, <1>7, <1>8, <2>8, <4>2, <5>1
        <4> QED
          BY <4>1, <4>2
      <3> QED
        BY <2>1, <3>1, <3>2 DEF Leads, nx2, rank2
    <2> QED
      BY <1>5, <2>1, <2>7, <2>8, LevelFacts
  <1> QED
    BY <1>9, <1>10, <1>11 DEF nx2, rank2

LEMMA FiniteOf ==
    ASSUME NEW nx, NEW pw, NEW live, NEW rank, NEW top, Leveled(nx, pw, live, rank, top),
           NEW S \in SUBSET live
    PROVE  IsFiniteSet(S) /\ Cardinality(S) \in Nat
  <1>1. IsFiniteSet(1 .. MaxNodes)
    BY SkipConstants, FS_Interval
  <1>2. S \subseteq 1 .. MaxNodes
    BY SkipConstants, LevelFacts
  <1> QED
    BY <1>1, <1>2, FS_Subset, FS_CardinalityType

LEMMA AddStep ==
    ASSUME SkipInvariant, NEW p \in Powers, Skip!Add(p)
    PROVE  SkipInvariant'
  <1>1. PICK live, rank, top : /\ Leveled(next, power, live, rank, top)
                               /\ Counted(power, live, count, twice)
    BY DEF SkipInvariant
  <1> DEFINE new == Skip!Min(Skip!Ids \ DOMAIN next)
             r == rank[Skip!GetPreptrArr(p)[1]]
             live2 == live \cup {new}
             rank2 == Behind(live, rank, new, r)
  <1>2. new \in Skip!Ids \ DOMAIN next
    BY <1>1, NewId DEF Skip!Add
  <1>3. PICK level \in Skip!Levels :
            /\ next' = Linked(next, p, new, level)
            /\ power' = [n \in DOMAIN power \cup {new} |-> IF n = new THEN p ELSE power[n]]
    BY DEF Skip!Add, Linked, After
  <1>4. /\ count' = [count EXCEPT ![p] = @ + 1]
        /\ twice' = IF count[p] > 0 THEN twice \cup {p} ELSE twice
    BY DEF Skip!Add
  <1> HIDE DEF new, r, rank2
  <1>5. Leveled(next', power', live2, rank2, top + 1)
    <2>1. Ordered(power', live2, rank2, top + 1)
      BY <1>1, <1>2, <1>3, AddOrdered DEF r, rank2
    <2>2. \A n \in live2 \cup {Skip!Start} : \A i \in DOMAIN (next')[n] :
              Leads(next', live2, rank2, n, i)
      <3> SUFFICES ASSUME NEW n \in live2 \cup {Skip!Start}, NEW i \in DOMAIN (next')[n]
                   PROVE  Leads(next', live2, rank2, n, i)
        OBVIOUS
      <3>1. i \in DOMAIN Linked(next, p, new, level)[n]
        BY <1>3
      <3>2. Leads(Linked(next, p, new, level), live2, rank2, n, i)
        BY <1>1, <1>2, <3>1, AddLeads DEF r, rank2
      <3> QED
        BY <1>3, <3>2
    <2>3. /\ DOMAIN next' = DOMAIN next \cup {new} /\ DOMAIN power' = DOMAIN power \cup {new}
          /\ DOMAIN next \subseteq Skip!Ids \cup {Skip!Start} /\ DOMAIN power = DOMAIN next
          /\ live \subseteq DOMAIN next \ {Skip!Start} /\ Skip!Start \in DOMAIN next
          /\ DOMAIN next[Skip!Start] = Skip!Levels
          /\ new # Skip!Start
      BY <1>1, <1>2, <1>3, SkipConstants DEF Leveled, Linked
    <2>4. DOMAIN (next')[Skip!Start] = Skip!Levels
      BY <1>3, <2>3 DEF Linked
    <2>5. ASSUME NEW n \in live2
          PROVE  \E h \in Skip!Levels : (next')[n] \in [1 .. h -> Skip!Ids \cup {Skip!Nil}]
      <3>1. CASE n = new
        <4>1. (next')[n] = [i \in 1 .. level |-> After(p, i)]
          BY <1>3, <3>1 DEF Linked
        <4>2. \A i \in 1 .. level : After(p, i) \in Skip!Ids \cup {Skip!Nil}
          <5> SUFFICES ASSUME NEW i \in 1 .. level
                       PROVE  After(p, i) \in Skip!Ids \cup {Skip!Nil}
            OBVIOUS
          <5>1. i \in Skip!Levels
            BY SkipConstants
          <5> QED
            BY <1>1, <5>1, AfterFacts, LevelFacts
        <4> QED
          BY <4>1, <4>2
      <3>2. CASE n # new
        <4>1. n \in live /\ n \in DOMAIN next
          BY <2>3, <3>2
        <4>2. PICK h \in Skip!Levels : next[n] \in [1 .. h -> Skip!Ids \cup {Skip!Nil}]
          BY <1>1, <4>1 DEF Leveled
        <4>3. (next')[n] = [i \in DOMAIN next[n] |->
                               IF i <= level /\ Skip!GetPreptrArr(p)[i] = n THEN new
                               ELSE next[n][i]]
          BY <1>3, <3>2, <4>1 DEF Linked
        <4>4. DOMAIN next[n] = 1 .. h
          BY <4>2
        <4> QED
          BY <1>2, <4>2, <4>3, <4>4
      <3> QED
        BY <3>1, <3>2
    <2> QED
      BY <1>2, <2>1, <2>2, <2>3, <2>4, <2>5 DEF Leveled
  <1>6. Counted(power', live2, count', twice')
    <2>0. /\ count \in [Powers -> Int]
          /\ \A q \in Powers :
                 /\ Cardinality({n \in live : power[n] = q}) <= count[q]
                 /\ q \notin twice =>
                        /\ count[q] <= 1
                        /\ Cardinality({n \in live : power[n] = q}) = count[q]
      BY <1>1 DEF Counted
    <2>1. new \notin live /\ \A n \in live : (power')[n] = power[n]
      BY <1>1, <1>2, <1>3, LevelFacts DEF Leveled
    <2>2. (power')[new] = p
      BY <1>3
    <2>3. ASSUME NEW q \in Powers, q # p
          PROVE  /\ {n \in live2 : (power')[n] = q} = {n \in live : power[n] = q}
                 /\ (count')[q] = count[q]
                 /\ q \notin twice' => q \notin twice
      BY <1>4, <2>0, <2>1, <2>2, <2>3
    <2>4. /\ {n \in live2 : (power')[n] = p} = {n \in live : power[n] = p} \cup {new}
          /\ (count')[p] = count[p] + 1
          /\ p \notin twice' => p \notin twice /\ ~ count[p] > 0
      BY <1>4, <2>0, <2>1, <2>2
    <2> DEFINE Of == {n \in live : power[n] = p}
    <2>5. Cardinality(Of \cup {new}) = Cardinality(Of) + 1 /\ Cardinality(Of) \in Nat
      <3>1. IsFiniteSet(Of) /\ Cardinality(Of) \in Nat /\ new \notin Of
        BY <1>1, <2>1, FiniteOf
      <3> HIDE DEF Of
      <3> QED
        BY <3>1, FS_AddElement
    <2>6. /\ Cardinality({n \in live2 : (power')[n] = p}) <= (count')[p]
          /\ p \notin twice' =>
                 /\ (count')[p] <= 1
                 /\ Cardinality({n \in live2 : (power')[n] = p}) = (count')[p]
      <3>1. count[p] \in Int /\ Cardinality(Of) <= count[p]
        BY <2>0
      <3>2. p \notin twice => Cardinality(Of) = count[p]
        BY <2>0
      <3>3. Cardinality({n \in live2 : (power')[n] = p}) = Cardinality(Of) + 1
        BY <2>4, <2>5
      <3> HIDE DEF Of, live2
      <3> QED
        BY <2>4, <2>5, <3>1, <3>2, <3>3
    <2>7. ASSUME NEW q \in Powers, q # p
          PROVE  /\ Cardinality({n \in live2 : (power')[n] = q}) <= (count')[q]
                 /\ q \notin twice' =>
                        /\ (count')[q] <= 1
                        /\ Cardinality({n \in live2 : (power')[n] = q}) = (count')[q]
      BY <2>0, <2>3, <2>7
    <2>8. count' \in [Powers -> Int]
      BY <1>4, <2>0
    <2> HIDE DEF live2
    <2> QED
      BY <2>6, <2>7, <2>8 DEF Counted
  <1> QED
    BY <1>5, <1>6 DEF SkipInvariant

-------------------------------------------------------------------------------
(* What is found is deleted, and with it goes what is between it and the   *)
(* place of the power.                                                     *)

Kept(pw, live, rank, p, found) == {x \in live : pw[x] < p \/ rank[found] < rank[x]}

Unlinked(nx, p, found) ==
    [n \in DOMAIN nx \ {found} |->
        [i \in DOMAIN nx[n] |->
            IF i \in DOMAIN nx[found] /\ Skip!GetPreptrArr(p)[i] = n THEN nx[found][i]
            ELSE nx[n][i]]]

LEMMA KeptFacts ==
    ASSUME NEW live, NEW rank, NEW top, Leveled(next, power, live, rank, top),
           NEW p \in Powers, NEW found \in live, power[found] = p
    PROVE  /\ Kept(power, live, rank, p, found) \subseteq live \ {found}
           /\ \A x \in live \ Kept(power, live, rank, p, found) : power[x] = p
  <1>1. /\ p \in Int
        /\ \A x \in live : rank[x] \in Nat /\ power[x] \in Int
        /\ \A x, y \in live : rank[x] <= rank[y] => power[x] <= power[y]
    BY OrderFacts, SkipConstants DEF Leveled
  <1>2. ASSUME NEW x \in live \ Kept(power, live, rank, p, found)
        PROVE  power[x] = p
    <2>1. power[x] >= p /\ rank[x] <= rank[found]
      BY <1>1 DEF Kept
    <2> QED
      BY <1>1, <2>1
  <1> QED
    BY <1>1, <1>2 DEF Kept

LEMMA DeleteLeads ==
    ASSUME NEW live, NEW rank, NEW top, Leveled(next, power, live, rank, top),
           NEW p \in Powers, NEW found \in live, power[found] = p,
           \A x \in live : power[x] = p => DOMAIN next[x] \subseteq DOMAIN next[found],
           NEW n \in Kept(power, live, rank, p, found) \cup {Skip!Start},
           NEW i \in DOMAIN Unlinked(next, p, found)[n], NEW rank2,
           \A x \in Kept(power, live, rank, p, found) \cup {Skip!Start} : rank2[x] = rank[x]
    PROVE  Leads(Unlinked(next, p, found), Kept(power, live, rank, p, found), rank2, n, i)
  <1> DEFINE nx2 == Unlinked(next, p, found)
             live2 == Kept(power, live, rank, p, found)
             a == Skip!GetPreptrArr(p)[i]
             high == {x \in live2 : i \in DOMAIN nx2[x] /\ rank2[n] < rank2[x]}
  <1>0. /\ \A x \in live \cup {Skip!Start} : rank[x] \in Nat
        /\ \A x \in live : rank[x] > 0 /\ power[x] \in Int
        /\ \A x, y \in live : rank[x] = rank[y] => x = y
        /\ p \in Int /\ rank[Skip!Start] = 0
    BY OrderFacts, SkipConstants DEF Leveled
  <1>1. live2 \subseteq live \ {found} /\ \A x \in live \ live2 : power[x] = p
    BY KeptFacts
  <1>2. \A x \in live : x \in live2 <=> power[x] < p \/ rank[found] < rank[x]
    BY DEF Kept
  <1>3. /\ Skip!Start \notin live /\ Skip!Nil \notin live
        /\ live2 \cup {Skip!Start} \subseteq DOMAIN next \ {found}
        /\ live2 \cup {Skip!Start} \subseteq live \cup {Skip!Start}
    BY <1>1, LevelFacts
  <1>4. /\ \A x \in live2 \cup {Skip!Start} : DOMAIN nx2[x] = DOMAIN next[x]
        /\ \A x \in live2 \cup {Skip!Start} : \A j \in DOMAIN next[x] :
               nx2[x][j] = IF j \in DOMAIN next[found] /\ Skip!GetPreptrArr(p)[j] = x
                           THEN next[found][j] ELSE next[x][j]
    BY <1>3 DEF Unlinked
  <1>5. i \in DOMAIN next[n] /\ i \in Skip!Levels
    BY <1>3, <1>4, LevelFacts
  <1>6. a \in Lowest(next, power, live, p, i)
    BY <1>5, SearchEnds
  <1>7. /\ a \in live \cup {Skip!Start} /\ i \in DOMAIN next[a]
        /\ a # Skip!Start => power[a] < p
        /\ \A x \in live : i \in DOMAIN next[x] => (power[x] < p <=> rank[x] <= rank[a])
        /\ \A x \in live : power[x] >= p => rank[x] > rank[a]
    <2> HIDE DEF a
    <2> QED
      BY <1>5, <1>6, LowestDivides
  <1>8. rank[a] < rank[found]
    BY <1>0, <1>7
  <1>9. nx2[n][i] = IF i \in DOMAIN next[found] /\ a = n THEN next[found][i] ELSE next[n][i]
    BY <1>4, <1>5
  <1> SUFFICES Leads(nx2, live2, rank2, n, i)
    OBVIOUS
  <1> HIDE DEF nx2, a
  <1>10. \A x \in live2 : x \in high <=> i \in DOMAIN next[x] /\ rank[n] < rank[x]
    BY <1>4
  <1>11. Leads(nx2, live2, rank2, n, i) <=>
             \/ nx2[n][i] = Skip!Nil /\ high = {}
             \/ nx2[n][i] \in high /\ \A x \in high : rank2[nx2[n][i]] <= rank2[x]
    BY DEF Leads
  <1>12. high \subseteq live2
    OBVIOUS
  <1> HIDE DEF high, live2
  <1>13. ASSUME NEW m, m \in live2, i \in DOMAIN next[m], rank[n] < rank[m],
                \A x \in live2 : i \in DOMAIN next[x] /\ rank[n] < rank[x] => rank[m] <= rank[x],
                nx2[n][i] = m
         PROVE  Leads(nx2, live2, rank2, n, i)
    BY <1>10, <1>11, <1>12, <1>13 DEF live2
  <1>14. ASSUME \A x \in live2 : ~ (i \in DOMAIN next[x] /\ rank[n] < rank[x]),
                nx2[n][i] = Skip!Nil
         PROVE  Leads(nx2, live2, rank2, n, i)
    BY <1>10, <1>11, <1>12, <1>14
  <1>15. CASE i \in DOMAIN next[found] /\ a = n
    <2>1. \A x \in live2 : i \in DOMAIN next[x] /\ rank[n] < rank[x] => rank[found] < rank[x]
      BY <1>0, <1>1, <1>2, <1>7, <1>15
    <2>2. CASE /\ next[found][i] = Skip!Nil
               /\ \A x \in live : i \in DOMAIN next[x] => rank[x] <= rank[found]
      <3>1. \A x \in live2 : ~ (i \in DOMAIN next[x] /\ rank[n] < rank[x])
        BY <1>0, <1>1, <2>1, <2>2
      <3> QED
        BY <1>9, <1>14, <1>15, <2>2, <3>1
    <2>3. CASE /\ next[found][i] \in live /\ i \in DOMAIN next[next[found][i]]
               /\ rank[found] < rank[next[found][i]]
               /\ \A x \in live : i \in DOMAIN next[x] /\ rank[found] < rank[x] =>
                      rank[next[found][i]] <= rank[x]
      <3>1. next[found][i] \in live2
        BY <1>2, <2>3
      <3>2. rank[n] < rank[next[found][i]]
        BY <1>0, <1>7, <1>8, <1>15, <2>3
      <3>3. \A x \in live2 : i \in DOMAIN next[x] /\ rank[n] < rank[x] =>
                rank[next[found][i]] <= rank[x]
        BY <1>1, <2>1, <2>3
      <3> QED
        BY <1>9, <1>13, <1>15, <2>3, <3>1, <3>2, <3>3
    <2> QED
      BY <1>5, <1>15, <2>2, <2>3, LevelFacts
  <1>16. CASE ~ (i \in DOMAIN next[found] /\ a = n)
    <2>1. n \in live \cup {Skip!Start} /\ nx2[n][i] = next[n][i]
      BY <1>3, <1>9, <1>16 DEF live2
    <2>2. CASE /\ next[n][i] = Skip!Nil
               /\ \A x \in live : i \in DOMAIN next[x] => rank[x] <= rank[n]
      <3>1. \A x \in live2 : ~ (i \in DOMAIN next[x] /\ rank[n] < rank[x])
        BY <1>0, <1>1, <2>1, <2>2
      <3> QED
        BY <1>14, <2>1, <2>2, <3>1
    <2>3. CASE /\ next[n][i] \in live /\ i \in DOMAIN next[next[n][i]]
               /\ rank[n] < rank[next[n][i]]
               /\ \A x \in live : i \in DOMAIN next[x] /\ rank[n] < rank[x] =>
                      rank[next[n][i]] <= rank[x]
      <3> DEFINE m == next[n][i]
      <3>1. m \in live2
        <4>1. CASE i \notin DOMAIN next[found]
          BY <1>1, <2>3, <4>1
        <4>2. CASE i \in DOMAIN next[found] /\ (n = Skip!Start \/ power[n] < p)
          <5>1. a # n
            BY <1>16, <4>2
          <5>2. CASE n = Skip!Start
            <6>1. a \in live /\ rank[n] < rank[a]
              BY <1>0, <1>7, <5>1, <5>2
            <6>2. rank[m] <= rank[a]
              BY <1>7, <2>3, <6>1
            <6> QED
              BY <1>2, <1>7, <2>3, <6>2
          <5>3. CASE n \in live /\ power[n] < p
            <6>1. rank[n] <= rank[a]
              BY <1>5, <1>7, <5>3
            <6>2. a \in live /\ rank[n] < rank[a]
              BY <1>0, <1>7, <5>1, <5>3, <6>1
            <6>3. rank[m] <= rank[a]
              BY <1>7, <2>3, <6>2
            <6> QED
              BY <1>2, <1>7, <2>3, <6>3
          <5> QED
            BY <2>1, <4>2, <5>2, <5>3
        <4>3. CASE n \in live2 /\ ~ power[n] < p
          <5>1. rank[found] < rank[n]
            BY <1>1, <1>2, <4>3
          <5> QED
            BY <1>0, <1>2, <2>1, <2>3, <5>1
        <4> QED
          BY <4>1, <4>2, <4>3 DEF live2
      <3>2. \A x \in live2 : i \in DOMAIN next[x] /\ rank[n] < rank[x] => rank[m] <= rank[x]
        BY <1>1, <2>3
      <3> QED
        BY <1>13, <2>1, <2>3, <3>1, <3>2
    <2> QED
      BY <1>5, <2>1, <2>2, <2>3, LevelFacts
  <1> QED
    BY <1>15, <1>16 DEF nx2, live2

LEMMA DeleteStep ==
    ASSUME SkipInvariant, NEW p \in Powers, Skip!Delete(p)
    PROVE  SkipInvariant'
  <1>1. PICK live, rank, top : /\ Leveled(next, power, live, rank, top)
                               /\ Counted(power, live, count, twice)
    BY DEF SkipInvariant
  <1> DEFINE found == Skip!Find(p)
             live2 == Kept(power, live, rank, p, found)
             rank2 == [x \in live2 \cup {Skip!Start} |-> rank[x]]
  <1>2. /\ found # Skip!Nil
        /\ next' = Unlinked(next, p, found)
        /\ power' = [n \in DOMAIN power \ {found} |-> power[n]]
        /\ count' = [count EXCEPT ![p] = @ - 1] /\ twice' = twice
    BY DEF Skip!Delete, Skip!Restrict, Unlinked
  <1>3. /\ found \in live /\ power[found] = p
        /\ \A x \in live : power[x] = p => DOMAIN next[x] \subseteq DOMAIN next[found]
    BY <1>1, <1>2, FindFinds
  <1> HIDE DEF found
  <1>4. live2 \subseteq live \ {found} /\ \A x \in live \ live2 : power[x] = p
    BY <1>1, <1>3, KeptFacts
  <1>5. \A x \in live2 \cup {Skip!Start} : rank2[x] = rank[x]
    OBVIOUS
  <1>6. /\ DOMAIN next \subseteq Skip!Ids \cup {Skip!Start} /\ DOMAIN power = DOMAIN next
        /\ live \subseteq DOMAIN next \ {Skip!Start} /\ Skip!Start \in DOMAIN next
        /\ DOMAIN next[Skip!Start] = Skip!Levels
        /\ DOMAIN next' = DOMAIN next \ {found} /\ DOMAIN power' = DOMAIN power \ {found}
    BY <1>1, <1>2 DEF Leveled, Unlinked
  <1>7. \A x \in live2 : (power')[x] = power[x]
    BY <1>2, <1>4, <1>6
  <1>8. Leveled(next', power', live2, rank2, top)
    <2>1. Ordered(power', live2, rank2, top)
      <3>1. /\ top \in Nat
            /\ \A n \in live \cup {Skip!Start} : rank[n] \in 0 .. top
            /\ rank[Skip!Start] = 0
            /\ \A n \in live : rank[n] > 0 /\ power[n] \in Powers
            /\ \A m, n \in live : /\ rank[m] = rank[n] => m = n
                                  /\ rank[m] < rank[n] => power[m] <= power[n]
        BY <1>1 DEF Leveled, Ordered
      <3>2. rank2 \in [live2 \cup {Skip!Start} -> 0 .. top]
        <4>1. live2 \subseteq live
          BY <1>4
        <4> HIDE DEF live2
        <4> QED
          BY <3>1, <4>1
      <3> HIDE DEF live2, rank2
      <3> QED
        BY <1>4, <1>5, <1>7, <3>1, <3>2 DEF Ordered
    <2>2. \A n \in live2 \cup {Skip!Start} : \A i \in DOMAIN (next')[n] :
              Leads(next', live2, rank2, n, i)
      <3> SUFFICES ASSUME NEW n \in live2 \cup {Skip!Start}, NEW i \in DOMAIN (next')[n]
                   PROVE  Leads(next', live2, rank2, n, i)
        OBVIOUS
      <3>1. i \in DOMAIN Unlinked(next, p, found)[n]
        BY <1>2
      <3> HIDE DEF rank2
      <3>2. Leads(Unlinked(next, p, found), live2, rank2, n, i)
        BY <1>1, <1>3, <1>5, <3>1, DeleteLeads
      <3> QED
        BY <1>2, <3>2
    <2>3. \A n \in live2 \cup {Skip!Start} :
              (next')[n] = [i \in DOMAIN next[n] |->
                               IF i \in DOMAIN next[found] /\ Skip!GetPreptrArr(p)[i] = n
                               THEN next[found][i] ELSE next[n][i]]
      <3>1. live2 \cup {Skip!Start} \subseteq DOMAIN next \ {found}
        BY <1>3, <1>4, <1>6
      <3> HIDE DEF live2
      <3> QED
        BY <1>2, <3>1 DEF Unlinked
    <2>4. ASSUME NEW n \in live2
          PROVE  \E h \in Skip!Levels : (next')[n] \in [1 .. h -> Skip!Ids \cup {Skip!Nil}]
      <3>1. n \in live
        BY <1>4
      <3>2. PICK h \in Skip!Levels : next[n] \in [1 .. h -> Skip!Ids \cup {Skip!Nil}]
        BY <1>1, <3>1 DEF Leveled
      <3>3. PICK g \in Skip!Levels : next[found] \in [1 .. g -> Skip!Ids \cup {Skip!Nil}]
        BY <1>1, <1>3 DEF Leveled
      <3>4. DOMAIN next[n] = 1 .. h /\ DOMAIN next[found] = 1 .. g
        BY <3>2, <3>3
      <3>5. (next')[n] = [i \in DOMAIN next[n] |->
                             IF i \in DOMAIN next[found] /\ Skip!GetPreptrArr(p)[i] = n
                             THEN next[found][i] ELSE next[n][i]]
        BY <2>3
      <3> HIDE DEF live2
      <3> QED
        BY <3>2, <3>3, <3>4, <3>5
    <2>5. DOMAIN (next')[Skip!Start] = Skip!Levels
      BY <1>6, <2>3
    <2>6. live2 \subseteq DOMAIN next' \ {Skip!Start} /\ Skip!Start \in DOMAIN next'
      BY <1>3, <1>4, <1>6
    <2> HIDE DEF live2, rank2
    <2> QED
      BY <1>6, <2>1, <2>2, <2>4, <2>5, <2>6 DEF Leveled
  <1>9. Counted(power', live2, count', twice')
    <2>0. /\ count \in [Powers -> Int]
          /\ \A q \in Powers :
                 /\ Cardinality({n \in live : power[n] = q}) <= count[q]
                 /\ q \notin twice =>
                        /\ count[q] <= 1
                        /\ Cardinality({n \in live : power[n] = q}) = count[q]
      BY <1>1 DEF Counted
    <2>1. live2 \subseteq live
      BY <1>4
    <2> HIDE DEF live2
    <2>2. ASSUME NEW q \in Powers, q # p
          PROVE  /\ {n \in live2 : (power')[n] = q} = {n \in live : power[n] = q}
                 /\ (count')[q] = count[q]
      <3>1. \A n \in live : n \notin live2 => power[n] = p
        BY <1>4 DEF live2
      <3>2. \A n \in live2 : (power')[n] = power[n]
        BY <1>7 DEF live2
      <3>3. \A n \in live2 : n \in live
        BY <2>1
      <3>4. {n \in live2 : (power')[n] = q} = {n \in live : power[n] = q}
        BY <2>2, <3>1, <3>2, <3>3
      <3> QED
        BY <1>2, <2>0, <2>2, <3>4
    <2> DEFINE Of == {n \in live : power[n] = p}
               Left == {n \in live2 : (power')[n] = p}
    <2>3. /\ Cardinality(Left) \in Nat /\ Cardinality(Of) \in Nat
          /\ Cardinality(Left) <= Cardinality(Of) - 1
      <3>1. Left \subseteq Of \ {found} /\ found \in Of
        BY <1>3, <1>4, <1>7, <2>1
      <3>2. IsFiniteSet(Of) /\ Cardinality(Of) \in Nat
        BY <1>1, FiniteOf
      <3> HIDE DEF Of, Left
      <3>3. IsFiniteSet(Of \ {found}) /\ Cardinality(Of \ {found}) = Cardinality(Of) - 1
        BY <3>1, <3>2, FS_RemoveElement
      <3>4. Cardinality(Left) <= Cardinality(Of \ {found}) /\ IsFiniteSet(Left)
        BY <3>1, <3>3, FS_Subset
      <3>5. Cardinality(Left) \in Nat
        BY <3>4, FS_CardinalityType
      <3> QED
        BY <3>2, <3>3, <3>4, <3>5
    <2>4. /\ Cardinality(Left) <= (count')[p]
          /\ p \notin twice => (count')[p] <= 1 /\ Cardinality(Left) = (count')[p]
      <3>1. count[p] \in Int /\ Cardinality(Of) <= count[p]
        BY <2>0
      <3>2. p \notin twice => count[p] <= 1 /\ Cardinality(Of) = count[p]
        BY <2>0
      <3>3. (count')[p] = count[p] - 1
        BY <1>2, <2>0
      <3> HIDE DEF Of, Left
      <3> QED
        BY <2>3, <3>1, <3>2, <3>3
    <2>5. count' \in [Powers -> Int]
      BY <1>2, <2>0
    <2>6. ASSUME NEW q \in Powers, q # p
          PROVE  /\ Cardinality({n \in live2 : (power')[n] = q}) <= (count')[q]
                 /\ q \notin twice =>
                        /\ (count')[q] <= 1
                        /\ Cardinality({n \in live2 : (power')[n] = q}) = (count')[q]
      BY <2>0, <2>2, <2>6
    <2> QED
      BY <1>2, <2>4, <2>5, <2>6 DEF Counted
  <1> QED
    BY <1>8, <1>9 DEF SkipInvariant

-------------------------------------------------------------------------------
LEMMA EmptyHolds ==
    ASSUME NEW nx, NEW pw, nx = Skip!Empty, pw = [n \in {Skip!Start} |-> 0],
           NEW cnt, cnt = [p \in Powers |-> 0], NEW twc
    PROVE  /\ Leveled(nx, pw, {}, [n \in {Skip!Start} |-> 0], 0)
           /\ Counted(pw, {}, cnt, twc)
  <1>1. /\ DOMAIN nx = {Skip!Start} /\ nx[Skip!Start] = [i \in Skip!Levels |-> Skip!Nil]
        /\ DOMAIN pw = {Skip!Start}
    BY DEF Skip!Empty
  <1> DEFINE rank == [n \in {Skip!Start} |-> 0]
  <1>2. Ordered(pw, {}, rank, 0)
    BY DEF Ordered
  <1>3. \A i \in DOMAIN nx[Skip!Start] : Leads(nx, {}, rank, Skip!Start, i)
    BY <1>1 DEF Leads
  <1>4. Leveled(nx, pw, {}, rank, 0)
    <2> HIDE DEF rank
    <2> QED
      BY <1>1, <1>2, <1>3 DEF Leveled
  <1>5. Counted(pw, {}, cnt, twc)
    <2>1. \A p : Cardinality({n \in {} : pw[n] = p}) = 0
      <3>1. \A p : {n \in {} : pw[n] = p} = {}
        OBVIOUS
      <3> QED
        BY <3>1, FS_EmptySet
    <2> QED
      BY <2>1 DEF Counted
  <1> QED
    BY <1>4, <1>5

LEMMA SkipInit == Skip!Init => SkipInvariant
  <1> SUFFICES ASSUME Skip!Init
               PROVE  SkipInvariant
    OBVIOUS
  <1>1. next = Skip!Empty /\ power = [n \in {Skip!Start} |-> 0] /\ count = [p \in Powers |-> 0]
    BY DEF Skip!Init
  <1> QED
    BY <1>1, EmptyHolds, Zenon DEF SkipInvariant

LEMMA SkipStep == SkipInvariant /\ [Skip!Next]_Skip!vars => SkipInvariant'
  <1> SUFFICES ASSUME SkipInvariant, [Skip!Next]_Skip!vars
               PROVE  SkipInvariant'
    OBVIOUS
  <1>1. CASE \E p \in Powers : Skip!Add(p) \/ Skip!Delete(p)
    BY <1>1, AddStep, DeleteStep
  <1>2. CASE Skip!FreeSkipList
    <2>1. /\ next' = Skip!Empty /\ power' = [n \in {Skip!Start} |-> 0]
          /\ count' = [p \in Powers |-> 0]
      BY <1>2 DEF Skip!FreeSkipList
    <2>2. /\ Leveled(next', power', {}, [n \in {Skip!Start} |-> 0], 0)
          /\ Counted(power', {}, count', twice')
      BY <2>1, EmptyHolds
    <2> QED
      BY <2>2, Zenon DEF SkipInvariant
  <1>3. CASE UNCHANGED Skip!vars
    <2>1. next' = next /\ power' = power /\ count' = count /\ twice' = twice
      BY <1>3 DEF Skip!vars
    <2> QED
      BY <2>1 DEF SkipInvariant
  <1> QED
    BY <1>1, <1>2, <1>3 DEF Skip!Next

LEMMA SkipAlone == [Next]_vars => [Skip!Next]_Skip!vars
  BY DEF Next, vars, skipVars, Skip!vars

(* However nodes are added and deleted, and whatever levels they get,      *)
(* every level of a skip list stays an ordered list of nodes of the level  *)
(* below, every value that is in the list is found, and a list without     *)
(* equal powers loses none; for any number of levels, nodes and powers.    *)
THEOREM SkipListCorrect == Spec => []SkipListIntact
  <1>1. Init => SkipInvariant
    BY SkipInit DEF Init
  <1>2. SkipInvariant /\ [Next]_vars => SkipInvariant'
    BY SkipStep, SkipAlone
  <1> QED
    BY <1>1, <1>2, SkipHolds, PTL DEF Spec
===============================================================================
