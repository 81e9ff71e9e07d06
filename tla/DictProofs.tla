------------------------------ MODULE DictProofs ------------------------------
(***************************************************************************)
(* Proofs about Dict, for every set of keys, hash function and sequence of *)
(* table sizes: the invariants of the API; then the keys, of which none is *)
(* held twice by the server, every one is found, and none is lost but by a *)
(* delete; and from these, that Dict, as the server uses it, implements    *)
(* LossyMap.                                                               *)
(***************************************************************************)
EXTENDS Dict, Recursion, SequenceTheorems, FiniteSetTheorems

(* What every operation relies on and restores: the invariants that hold   *)
(* of any use of the API.                                                  *)
Good(d) == IsDict(d) /\ Shaped(d) /\ WellPlaced(d) /\ EmptyBehind(d)

(* An index computed with % is an index of the table. *)
LEMMA ModInRange ==
    ASSUME NEW h \in Nat, NEW s \in Nat \ {0}
    PROVE  h % s \in 0 .. s - 1
  OBVIOUS

LEMMA BucketInRange ==
    ASSUME NEW d, IsDict(d), NEW t \in Tables, d.size[t] # 0, NEW k \in Key
    PROVE  Bucket(d, t, k) \in Buckets(d, t)
  <1>1. d.size[t] \in Nat \ {0}
    BY DictAssumption DEF IsDict
  <1>2. Hash[k] \in Nat
    BY DictAssumption
  <1> QED
    BY <1>1, <1>2, ModInRange DEF Bucket, Buckets

LEMMA InitGood == Good(NewDict)
  <1>1. IsDict(NewDict)
    BY DictAssumption DEF NewDict, IsDict, Tables, Buckets, EmptyTable
  <1> QED
    BY <1>1 DEF Good, NewDict, Shaped, WellPlaced, EmptyBehind, Rehashing, Buckets, Tables, EmptyTable

-------------------------------------------------------------------------------
(* Growing keeps the struct in order. *)

LEMMA EmptyTableType ==
    ASSUME NEW s \in Nat
    PROVE  /\ EmptyTable(s) \in [0 .. s - 1 -> Seq(Entry)]
           /\ \A b \in 0 .. s - 1 : EmptyTable(s)[b] = <<>>
  BY DEF EmptyTable

LEMMA ExpandedGood ==
    ASSUME NEW d, Good(d), ~Rehashing(d),
           NEW s \in TableSizes, s > d.size[0]
    PROVE  Good(Expanded(d, s)) /\ Expanded(d, s).size[0] # 0
  <1> DEFINE e == Expanded(d, s)
  <1>1. s \in Nat \ {0}
    BY DictAssumption
  <1>2. CASE d.size[0] = 0
    <2>1. /\ e.table[0] = EmptyTable(s) /\ e.table[1] = d.table[1]
          /\ e.size[0] = s /\ e.size[1] = d.size[1]
          /\ e.used[0] = 0 /\ e.used[1] = d.used[1]
          /\ e.rehashidx = -1
      BY <1>2 DEF Expanded, Good, IsDict, Rehashing, Tables
    <2>2. IsDict(e)
      BY <1>1, <1>2, <2>1, EmptyTableType DEF Expanded, Good, IsDict, Rehashing, Tables, Buckets
    <2>3. Shaped(e) /\ EmptyBehind(e)
      BY <2>1 DEF Good, Shaped, EmptyBehind, Rehashing
    <2>4. WellPlaced(e)
      <3>1. \A b \in Buckets(e, 0) : DOMAIN e.table[0][b] = {}
        BY <1>1, <2>1, EmptyTableType, SMTT(30) DEF Buckets
      <3>2. \A b \in Buckets(e, 1) : \A i \in DOMAIN e.table[1][b] :
                Bucket(e, 1, e.table[1][b][i].key) = b
        BY <2>1 DEF Good, WellPlaced, Bucket, Buckets, Tables
      <3> QED
        BY <3>1, <3>2 DEF WellPlaced, Tables
    <2> QED
      BY <1>1, <2>1, <2>2, <2>3, <2>4 DEF Good
  <1>3. CASE d.size[0] # 0
    <2>1. /\ e.table[1] = EmptyTable(s) /\ e.table[0] = d.table[0]
          /\ e.size[1] = s /\ e.size[0] = d.size[0]
          /\ e.used[1] = 0 /\ e.used[0] = d.used[0]
          /\ e.rehashidx = 0
      BY <1>3 DEF Expanded, Good, IsDict, Rehashing, Tables
    <2>2. IsDict(e)
      BY <1>1, <1>3, <2>1, EmptyTableType DEF Expanded, Good, IsDict, Rehashing, Tables, Buckets
    <2>3. Shaped(e) /\ EmptyBehind(e)
      BY <1>1, <1>3, <2>1, <2>2, DictAssumption, SMTT(30)
         DEF Good, Shaped, EmptyBehind, Rehashing, Buckets, IsDict, Tables
    <2>4. WellPlaced(e)
      <3>1. \A b \in Buckets(e, 1) : DOMAIN e.table[1][b] = {}
        BY <1>1, <2>1, EmptyTableType, SMTT(30) DEF Buckets
      <3>2. \A b \in Buckets(e, 0) : \A i \in DOMAIN e.table[0][b] :
                Bucket(e, 0, e.table[0][b][i].key) = b
        BY <2>1, SMTT(30) DEF Good, WellPlaced, Bucket, Buckets, Tables
      <3> QED
        BY <3>1, <3>2 DEF WellPlaced, Tables
    <2> QED
      BY <1>3, <2>1, <2>2, <2>3, <2>4 DEF Good
  <1> QED
    BY <1>2, <1>3

(* The struct after its chains were changed, its sizes and rehashidx not:  *)
(* what is in each chain must belong there.                                *)
LEMMA NewChains ==
    ASSUME NEW d, Good(d), NEW T, NEW u \in [Tables -> Nat],
           T = [t \in Tables |-> T[t]],
           \A t \in Tables : T[t] \in [Buckets(d, t) -> Seq(Entry)],
           \A t \in Tables : \A b \in Buckets(d, t) : \A i \in DOMAIN T[t][b] :
               Bucket(d, t, T[t][b][i].key) = b,
           \A b \in Buckets(d, 0) :
               Rehashing(d) /\ b < d.rehashidx => T[0][b] = <<>>
    PROVE  Good(SetHt(d, T, u))
  <1> DEFINE e == SetHt(d, T, u)
  <1>1. /\ e.table = T /\ e.used = u
        /\ e.size = d.size /\ e.rehashidx = d.rehashidx
        /\ e = [table |-> T, size |-> d.size, used |-> u, rehashidx |-> d.rehashidx]
    BY DEF SetHt
  <1> HIDE DEF e
  <1>2. IsDict(e)
    BY <1>1 DEF Good, IsDict, Buckets
  <1>3. Shaped(e)
    BY <1>1 DEF Good, Shaped, Rehashing
  <1>4. WellPlaced(e)
    BY <1>1 DEF WellPlaced, Bucket, Buckets
  <1>5. EmptyBehind(e)
    BY <1>1 DEF EmptyBehind, Rehashing, Buckets
  <1> QED
    BY <1>2, <1>3, <1>4, <1>5 DEF Good, e

(* The same when one chain changes. *)
LEMMA NewChain ==
    ASSUME NEW d, Good(d),
           NEW t \in Tables, NEW b \in Buckets(d, t), NEW c \in Seq(Entry),
           \A i \in DOMAIN c : Bucket(d, t, c[i].key) = b,
           t = 0 /\ Rehashing(d) /\ b < d.rehashidx => c = <<>>,
           NEW u \in [Tables -> Nat]
    PROVE  /\ Good(SetHt(d, [d.table EXCEPT ![t][b] = c], u))
           /\ \A r \in Tables : \A a \in Buckets(d, r) :
                  [d.table EXCEPT ![t][b] = c][r][a]
                      = IF r = t /\ a = b THEN c ELSE d.table[r][a]
  <1> DEFINE T == [d.table EXCEPT ![t][b] = c]
  <1> USE DEF Good
  <1>1. /\ T = [r \in Tables |-> T[r]]
        /\ T[t] = [d.table[t] EXCEPT ![b] = c]
        /\ \A r \in Tables \ {t} : T[r] = d.table[r]
    BY DEF IsDict
  <1> HIDE DEF T
  <1>2. \A r \in Tables : \A a \in Buckets(d, r) :
            T[r][a] = IF r = t /\ a = b THEN c ELSE d.table[r][a]
    BY <1>1 DEF IsDict
  <1>3. \A r \in Tables : T[r] \in [Buckets(d, r) -> Seq(Entry)]
    <2>1. \A r \in Tables : d.table[r] \in [Buckets(d, r) -> Seq(Entry)]
      BY DEF IsDict
    <2>2. T[t] \in [Buckets(d, t) -> Seq(Entry)]
      BY <1>1, <2>1
    <2> QED
      BY <1>1, <2>1, <2>2
  <1>4. \A r \in Tables : \A a \in Buckets(d, r) : \A i \in DOMAIN T[r][a] :
            Bucket(d, r, T[r][a][i].key) = a
    BY <1>2 DEF WellPlaced
  <1>5. \A a \in Buckets(d, 0) :
            Rehashing(d) /\ a < d.rehashidx => T[0][a] = <<>>
    BY <1>2 DEF EmptyBehind, Tables
  <1> HIDE DEF Good
  <1>6. Good(SetHt(d, T, u))
    BY <1>1, <1>3, <1>4, <1>5, NewChains
  <1> QED
    BY <1>2, <1>6 DEF T

-------------------------------------------------------------------------------
(* Chains. *)

LEMMA ConsChain ==
    ASSUME NEW e \in Entry, NEW c \in Seq(Entry)
    PROVE  /\ <<e>> \o c \in Seq(Entry)
           /\ DOMAIN (<<e>> \o c) = 1 .. Len(c) + 1
           /\ (<<e>> \o c)[1] = e
           /\ \A i \in 2 .. Len(c) + 1 : (<<e>> \o c)[i] = c[i - 1]
  OBVIOUS

LEMMA TailChain ==
    ASSUME NEW c \in Seq(Entry), c # <<>>
    PROVE  /\ Head(c) \in Entry
           /\ Head(c) = c[1]
           /\ Tail(c) \in Seq(Entry)
           /\ DOMAIN Tail(c) = 1 .. Len(c) - 1
           /\ \A i \in 1 .. Len(c) - 1 : Tail(c)[i] = c[i + 1]
  OBVIOUS

LEMMA RemoveAtChain ==
    ASSUME NEW c \in Seq(Entry), NEW m \in DOMAIN c
    PROVE  /\ RemoveAt(c, m) \in Seq(Entry)
           /\ DOMAIN RemoveAt(c, m) = 1 .. Len(c) - 1
           /\ \A i \in 1 .. Len(c) - 1 :
                  RemoveAt(c, m)[i] = IF i < m THEN c[i] ELSE c[i + 1]
  <1> DEFINE p == SubSeq(c, 1, m - 1)
             q == SubSeq(c, m + 1, Len(c))
  <1>1. m \in 1 .. Len(c) /\ Len(c) \in Nat
    OBVIOUS
  <1>2. p \in Seq(Entry) /\ Len(p) = m - 1 /\ \A i \in 1 .. m - 1 : p[i] = c[i]
    BY <1>1, SubSeqProperties
  <1>3. /\ q \in Seq(Entry) /\ Len(q) = Len(c) - m
        /\ \A i \in 1 .. Len(c) - m : q[i] = c[m + i]
    BY <1>1
  <1> HIDE DEF p, q
  <1>4. /\ p \o q \in Seq(Entry)
        /\ DOMAIN (p \o q) = 1 .. Len(c) - 1
        /\ \A i \in 1 .. Len(c) - 1 :
               (p \o q)[i] = IF i < m THEN c[i] ELSE c[i + 1]
    BY <1>1, <1>2, <1>3
  <1> QED
    BY <1>4 DEF RemoveAt, p, q

(* The first match exists when there is a match. *)
LEMMA FirstMatchIsMatch ==
    ASSUME NEW c \in Seq(Entry), NEW k, Matches(c, k) # {}
    PROVE  /\ FirstMatch(c, k) \in Matches(c, k)
           /\ \A j \in Matches(c, k) : FirstMatch(c, k) <= j
  <1>1. Matches(c, k) \in SUBSET Nat
    BY DEF Matches
  <1>2. \E i \in Matches(c, k) : \A j \in Matches(c, k) : i <= j
    BY <1>1, LeastNumber
  <1> QED
    BY <1>2 DEF FirstMatch

(* dictDelete leaves only entries of the chain, one fewer at least. *)
LEMMA UnlinkedChain ==
    ASSUME NEW c \in Seq(Entry), NEW k, Matches(c, k) # {}
    PROVE  /\ Unlinked(c, k) \in Seq(Entry)
           /\ Len(Unlinked(c, k)) < Len(c)
           /\ \A i \in DOMAIN Unlinked(c, k) : \E j \in DOMAIN c :
                  Unlinked(c, k)[i] = c[j]
  <1>1. FirstMatch(c, k) \in DOMAIN c
    BY FirstMatchIsMatch DEF Matches
  <1>2. CASE FirstMatch(c, k) = 1
    BY <1>1, <1>2 DEF Unlinked
  <1>3. CASE FirstMatch(c, k) # 1
    <2>1. Unlinked(c, k) = RemoveAt(c, FirstMatch(c, k))
      BY <1>3 DEF Unlinked
    <2> DEFINE m == FirstMatch(c, k)
    <2> HIDE DEF m
    <2>2. m \in DOMAIN c
      BY <1>1 DEF m
    <2>3. /\ RemoveAt(c, m) \in Seq(Entry)
          /\ Len(RemoveAt(c, m)) < Len(c)
          /\ \A i \in 1 .. Len(c) - 1 : \E j \in DOMAIN c : RemoveAt(c, m)[i] = c[j]
      <3>1. /\ RemoveAt(c, m) \in Seq(Entry)
            /\ DOMAIN RemoveAt(c, m) = 1 .. Len(c) - 1
            /\ \A i \in 1 .. Len(c) - 1 :
                  RemoveAt(c, m)[i] = IF i < m THEN c[i] ELSE c[i + 1]
        BY <2>2, RemoveAtChain
      <3>2. \A i \in 1 .. Len(c) - 1 : i \in DOMAIN c /\ i + 1 \in DOMAIN c
        OBVIOUS
      <3>3. Len(RemoveAt(c, m)) = Len(c) - 1
        BY <2>2, <3>1
      <3>4. Len(RemoveAt(c, m)) < Len(c)
        BY <3>3
      <3>5. ASSUME NEW i \in 1 .. Len(c) - 1
            PROVE  \E j \in DOMAIN c : RemoveAt(c, m)[i] = c[j]
        <4>1. CASE i < m
          BY <3>1, <3>2, <4>1
        <4>2. CASE ~ i < m
          BY <3>1, <3>2, <4>2
        <4> QED
          BY <4>1, <4>2
      <3> QED
        BY <3>1, <3>4, <3>5
    <2>4. DOMAIN RemoveAt(c, m) = 1 .. Len(c) - 1
      BY <2>2, RemoveAtChain
    <2> QED
      BY <2>1, <2>3, <2>4 DEF m
  <1> QED
    BY <1>2, <1>3
-------------------------------------------------------------------------------
(* Counting entries: how the places of a table change with one chain.      *)

Chains(table) == \A b \in DOMAIN table : table[b] \in Seq(Entry)

LEMMA PlacesMember ==
    ASSUME NEW table, Chains(table)
    PROVE  \A p : p \in Places(table) <=>
               \E b \in DOMAIN table : \E i \in 1 .. Len(table[b]) : p = <<b, i>>
  BY DEF Places, Chains

LEMMA PlacesAdd ==
    ASSUME NEW table, Chains(table), IsFiniteSet(Places(table)),
           NEW b \in DOMAIN table, NEW c \in Seq(Entry), Len(c) = Len(table[b]) + 1
    PROVE  /\ IsFiniteSet(Places([table EXCEPT ![b] = c]))
           /\ Cardinality(Places([table EXCEPT ![b] = c]))
                  = Cardinality(Places(table)) + 1
  <1> DEFINE new == [table EXCEPT ![b] = c]
             place == <<b, Len(table[b]) + 1>>
  <1>1. /\ DOMAIN new = DOMAIN table
        /\ \A a \in DOMAIN new : new[a] = IF a = b THEN c ELSE table[a]
    OBVIOUS
  <1>2. Chains(new)
    BY <1>1 DEF Chains
  <1>3. Len(table[b]) \in Nat
    BY DEF Chains
  <1> HIDE DEF new
  <1>4. ASSUME NEW p PROVE p \in Places(new) <=> p \in Places(table) \cup {place}
    BY <1>1, <1>2, <1>3, PlacesMember
  <1>5. Places(new) = Places(table) \cup {place}
    BY <1>4
  <1>6. place \notin Places(table)
    BY <1>3, PlacesMember
  <1> QED
    BY <1>5, <1>6, FS_AddElement, ZenonT(40) DEF new

LEMMA PlacesDrop ==
    ASSUME NEW table, Chains(table), IsFiniteSet(Places(table)),
           NEW b \in DOMAIN table, NEW c \in Seq(Entry), Len(c) < Len(table[b])
    PROVE  /\ IsFiniteSet(Places([table EXCEPT ![b] = c]))
           /\ Cardinality(Places([table EXCEPT ![b] = c]))
                  < Cardinality(Places(table))
  <1> DEFINE new == [table EXCEPT ![b] = c]
             place == <<b, Len(table[b])>>
  <1>1. /\ DOMAIN new = DOMAIN table
        /\ \A a \in DOMAIN new : new[a] = IF a = b THEN c ELSE table[a]
    OBVIOUS
  <1>2. Chains(new)
    BY <1>1 DEF Chains
  <1>3. Len(table[b]) \in Nat /\ Len(c) \in Nat
    BY DEF Chains
  <1> HIDE DEF new
  <1>4. ASSUME NEW p \in Places(new) PROVE p \in Places(table) \ {place}
    BY <1>1, <1>2, <1>3, PlacesMember
  <1>5. Places(new) \subseteq Places(table) \ {place}
    BY <1>4
  <1>6. place \in Places(table)
    BY <1>3, PlacesMember
  <1> DEFINE rest == Places(table) \ {place}
  <1>7. IsFiniteSet(rest) /\ Cardinality(rest) = Cardinality(Places(table)) - 1
    BY <1>6, FS_RemoveElement
  <1>8. IsFiniteSet(Places(new)) /\ Cardinality(Places(new)) <= Cardinality(rest)
    BY <1>5, <1>7, FS_Subset
  <1>9. /\ Cardinality(Places(table)) \in Nat
        /\ Cardinality(rest) \in Nat
        /\ Cardinality(Places(new)) \in Nat
    BY <1>7, <1>8, FS_CardinalityType
  <1> QED
    BY <1>7, <1>8, <1>9 DEF new

LEMMA PlacesSame ==
    ASSUME NEW table, Chains(table), NEW b \in DOMAIN table,
           NEW c \in Seq(Entry), Len(c) = Len(table[b])
    PROVE  Places([table EXCEPT ![b] = c]) = Places(table)
  <1> DEFINE new == [table EXCEPT ![b] = c]
  <1>1. /\ DOMAIN new = DOMAIN table
        /\ \A a \in DOMAIN new : new[a] = IF a = b THEN c ELSE table[a]
    OBVIOUS
  <1>2. \A a \in DOMAIN table : DOMAIN new[a] = DOMAIN table[a]
    BY <1>1 DEF Chains
  <1> HIDE DEF new
  <1>3. Places(new) = Places(table)
    BY <1>1, <1>2 DEF Places
  <1> QED
    BY <1>3 DEF new

LEMMA PlacesNone ==
    ASSUME NEW table, Chains(table), IsFiniteSet(Places(table))
    PROVE  Cardinality(Places(table)) = 0 <=> \A b \in DOMAIN table : table[b] = <<>>
  <1>1. Cardinality(Places(table)) = 0 <=> Places(table) = {}
    BY FS_EmptySet
  <1>2. ASSUME Places(table) = {}, NEW b \in DOMAIN table PROVE table[b] = <<>>
    <2>1. table[b] \in Seq(Entry) /\ Len(table[b]) \in Nat
      BY <1>2 DEF Chains
    <2>2. ASSUME Len(table[b]) # 0 PROVE FALSE
      <3>1. 1 \in 1 .. Len(table[b])
        BY <2>1, <2>2
      <3>2. <<b, 1>> \in Places(table)
        BY <1>2, <3>1, PlacesMember, ZenonT(40)
      <3> QED
        BY <1>2, <3>2
    <2> QED
      BY <2>1, <2>2
  <1>3. ASSUME \A b \in DOMAIN table : table[b] = <<>> PROVE Places(table) = {}
    BY <1>3, PlacesMember
  <1> QED
    BY <1>1, <1>2, <1>3

-------------------------------------------------------------------------------
(* Each operation keeps the struct in order. *)

LEMMA TargetIsTable ==
    ASSUME NEW d, Good(d), d.size[0] # 0
    PROVE  Target(d) \in Tables /\ d.size[Target(d)] # 0
  BY DEF Good, Shaped, Target, Tables

(* An entry put at the head of the chain its key hashes to. *)
LEMMA ConsPlaced ==
    ASSUME NEW d, Good(d), NEW t \in Tables, d.size[t] # 0, NEW n \in Entry,
           NEW b \in Buckets(d, t), b = Bucket(d, t, n.key)
    PROVE  /\ <<n>> \o d.table[t][b] \in Seq(Entry)
           /\ Len(<<n>> \o d.table[t][b]) = Len(d.table[t][b]) + 1
           /\ \A i \in DOMAIN (<<n>> \o d.table[t][b]) :
                  Bucket(d, t, (<<n>> \o d.table[t][b])[i].key) = b
  <1> DEFINE c == <<n>> \o d.table[t][b]
  <1>2. d.table[t][b] \in Seq(Entry)
    BY DEF Good, IsDict
  <1>3. \A i \in DOMAIN d.table[t][b] : Bucket(d, t, d.table[t][b][i].key) = b
    BY DEF Good, WellPlaced
  <1>4. /\ c \in Seq(Entry) /\ DOMAIN c = 1 .. Len(d.table[t][b]) + 1
        /\ Len(c) = Len(d.table[t][b]) + 1 /\ c[1] = n
        /\ \A i \in 2 .. Len(d.table[t][b]) + 1 : c[i] = d.table[t][b][i - 1]
    BY <1>2, ConsChain
  <1> HIDE DEF c
  <1>5. ASSUME NEW i \in 2 .. Len(d.table[t][b]) + 1
        PROVE  Bucket(d, t, c[i].key) = b
    <2>1. i - 1 \in DOMAIN d.table[t][b]
      BY <1>2
    <2> QED
      BY <1>3, <1>4, <2>1
  <1>6. \A i \in DOMAIN c : i = 1 \/ i \in 2 .. Len(d.table[t][b]) + 1
    BY <1>2, <1>4
  <1>7. c \in Seq(Entry) /\ \A i \in DOMAIN c : Bucket(d, t, c[i].key) = b
    BY <1>4, <1>5, <1>6
  <1> QED
    BY <1>4, <1>7 DEF c

(* The counters cover the entries; the tables are finite. *)
Covered(d) ==
    \A t \in Tables :
        IsFiniteSet(Places(d.table[t])) /\ Entries(d, t) <= d.used[t]

Sound(d) == Good(d) /\ Covered(d)

LEMMA ChainsOfDict ==
    ASSUME NEW d, IsDict(d), NEW t \in Tables
    PROVE  Chains(d.table[t]) /\ DOMAIN d.table[t] = Buckets(d, t)
  BY DEF IsDict, Chains

LEMMA EntriesInNat ==
    ASSUME NEW d, Covered(d), NEW t \in Tables
    PROVE  Entries(d, t) \in Nat
  BY FS_CardinalityType DEF Covered, Entries

LEMMA InsertedSound ==
    ASSUME NEW d, Sound(d), d.size[0] # 0, NEW k \in Key, NEW v \in Val
    PROVE  Sound(Inserted(d, k, v))
  <1> DEFINE t == Target(d)
             b == Bucket(d, t, k)
             n == [key |-> k, val |-> v]
             c == <<n>> \o d.table[t][b]
             T == [d.table EXCEPT ![t][b] = c]
             u == [d.used EXCEPT ![t] = @ + 1]
             e == SetHt(d, T, u)
  <1>1. Inserted(d, k, v) = e
    BY DEF Inserted
  <1>2. t \in Tables /\ d.size[t] # 0 /\ (t = 0 => ~Rehashing(d))
    BY TargetIsTable DEF Sound, Good, Target
  <1>3. n \in Entry /\ n.key = k
    BY DEF Entry
  <1> HIDE DEF n, t
  <1>4. b = Bucket(d, t, n.key) /\ b \in Buckets(d, t)
    BY <1>2, <1>3, BucketInRange DEF Sound, Good
  <1> HIDE DEF b
  <1>9. /\ c \in Seq(Entry) /\ Len(c) = Len(d.table[t][b]) + 1
        /\ \A i \in DOMAIN c : Bucket(d, t, c[i].key) = b
    BY <1>2, <1>3, <1>4, ConsPlaced DEF Sound
  <1> HIDE DEF c
  <1>5. u \in [Tables -> Nat]
    BY <1>2 DEF Sound, Good, IsDict
  <1>6. Good(e)
    BY <1>2, <1>4, <1>9, <1>5, NewChain DEF Sound
  <1>7. /\ e.table[t] = [d.table[t] EXCEPT ![b] = c]
        /\ \A r \in Tables \ {t} : e.table[r] = d.table[r]
        /\ e.used[t] = d.used[t] + 1
        /\ \A r \in Tables \ {t} : e.used[r] = d.used[r]
    BY <1>2 DEF Sound, Good, IsDict, SetHt
  <1> HIDE DEF e
  <1>8. /\ IsFiniteSet(Places(e.table[t]))
        /\ Entries(e, t) = Entries(d, t) + 1
    <2>1. Chains(d.table[t]) /\ b \in DOMAIN d.table[t] /\ IsFiniteSet(Places(d.table[t]))
      BY <1>2, <1>4, ChainsOfDict DEF Sound, Good, Covered
    <2>2. /\ IsFiniteSet(Places([d.table[t] EXCEPT ![b] = c]))
          /\ Cardinality(Places([d.table[t] EXCEPT ![b] = c]))
                = Cardinality(Places(d.table[t])) + 1
      BY <1>4, <1>9, <2>1, PlacesAdd
    <2> QED
      BY <1>7, <2>2 DEF Entries
  <1>10. Covered(e)
    <2>1. Entries(d, t) \in Nat /\ d.used[t] \in Nat /\ Entries(d, t) <= d.used[t]
      BY <1>2, EntriesInNat DEF Sound, Good, IsDict, Covered
    <2>2. Entries(e, t) <= e.used[t]
      BY <1>7, <1>8, <2>1
    <2>3. \A r \in Tables \ {t} :
              IsFiniteSet(Places(e.table[r])) /\ Entries(e, r) <= e.used[r]
      BY <1>7 DEF Sound, Covered, Entries
    <2> QED
      BY <1>8, <2>2, <2>3 DEF Covered
  <1> QED
    BY <1>1, <1>6, <1>10 DEF Sound, e

LEMMA ExpandedSound ==
    ASSUME NEW d, Sound(d), ~Rehashing(d),
           NEW s \in TableSizes, s > d.size[0]
    PROVE  Sound(Expanded(d, s)) /\ Expanded(d, s).size[0] # 0
  <1> DEFINE e == Expanded(d, s)
             t == IF d.size[0] = 0 THEN 0 ELSE 1
  <1>1. Good(e) /\ e.size[0] # 0
    BY ExpandedGood DEF Sound
  <1>2. /\ t \in Tables /\ e.table[t] = EmptyTable(s) /\ e.used[t] = 0
        /\ \A r \in Tables \ {t} : e.table[r] = d.table[r] /\ e.used[r] = d.used[r]
    <2>1. CASE d.size[0] = 0
      BY <2>1 DEF Expanded, Sound, Good, IsDict, Tables
    <2>2. CASE d.size[0] # 0
      BY <2>2 DEF Expanded, Sound, Good, IsDict, Tables
    <2> QED
      BY <2>1, <2>2
  <1>3. Places(EmptyTable(s)) = {}
    BY DEF Places, EmptyTable
  <1>4. IsFiniteSet(Places(e.table[t])) /\ Entries(e, t) <= e.used[t]
    BY <1>2, <1>3, FS_EmptySet DEF Entries
  <1>5. Covered(e)
    BY <1>2, <1>4 DEF Sound, Covered, Entries
  <1> QED
    BY <1>1, <1>5 DEF Sound

LEMMA SearchedTables ==
    ASSUME NEW d, Good(d), NEW t \in Searched(d)
    PROVE  t \in Tables /\ d.size[t] # 0
  BY DEF Good, Shaped, Searched, Tables

(* Where dictFind finds a key. *)
LEMMA HolderFacts ==
    ASSUME NEW d, Good(d), NEW k \in Key, NEW t \in Holders(d, k),
           NEW b, b = Bucket(d, t, k)
    PROVE  /\ t \in Tables
           /\ b \in Buckets(d, t)
           /\ d.table[t][b] \in Seq(Entry)
           /\ Matches(d.table[t][b], k) # {}
           /\ FirstMatch(d.table[t][b], k) \in DOMAIN d.table[t][b]
           /\ d.table[t][b][FirstMatch(d.table[t][b], k)].key = k
  <1>1. t \in Tables /\ d.size[t] # 0 /\ Matches(d.table[t][b], k) # {}
    BY SearchedTables DEF Holders, Chain
  <1>2. b \in Buckets(d, t)
    BY <1>1, BucketInRange DEF Good
  <1>3. d.table[t][b] \in Seq(Entry)
    BY <1>1, <1>2 DEF Good, IsDict
  <1>4. FirstMatch(d.table[t][b], k) \in Matches(d.table[t][b], k)
    BY <1>1, <1>3, FirstMatchIsMatch
  <1> QED
    BY <1>1, <1>2, <1>3, <1>4 DEF Matches

LEMMA OverwrittenSound ==
    ASSUME NEW d, Sound(d), NEW k \in Key, NEW v \in Val, Holders(d, k) # {}
    PROVE  Sound(Overwritten(d, k, v))
  <1> DEFINE t == Holder(d, k)
             b == Bucket(d, t, k)
             m == FirstMatch(d.table[t][b], k)
             c == [d.table[t][b] EXCEPT ![m].val = v]
             T == [d.table EXCEPT ![t][b] = c]
             e == SetHt(d, T, d.used)
  <1>1. Overwritten(d, k, v) = e
    BY DEF Overwritten
  <1>2. t \in Holders(d, k)
    BY DEF Holders, Holder, Searched
  <1> HIDE DEF t
  <1>3. b = Bucket(d, t, k)
    OBVIOUS
  <1> HIDE DEF b
  <1>4. /\ t \in Tables /\ b \in Buckets(d, t) /\ d.table[t][b] \in Seq(Entry)
        /\ m \in DOMAIN d.table[t][b]
    BY <1>2, <1>3, HolderFacts DEF Sound
  <1> HIDE DEF m
  <1>5. /\ c \in Seq(Entry) /\ Len(c) = Len(d.table[t][b])
        /\ DOMAIN c = DOMAIN d.table[t][b]
        /\ \A i \in DOMAIN c : c[i].key = d.table[t][b][i].key
    <2> DEFINE old == d.table[t][b]
               n == [old[m] EXCEPT !.val = v]
    <2>1. old[m] \in Entry
      BY <1>4
    <2>2. n \in Entry /\ n.key = old[m].key
      BY <2>1 DEF Entry
    <2>3. c = [old EXCEPT ![m] = n]
      OBVIOUS
    <2> HIDE DEF c, old, n
    <2>4. old \in Seq(Entry) /\ m \in DOMAIN old
      BY <1>4 DEF old
    <2>5. /\ c \in Seq(Entry) /\ Len(c) = Len(old) /\ DOMAIN c = DOMAIN old
          /\ \A i \in DOMAIN c : c[i] = IF i = m THEN n ELSE old[i]
      BY <2>2, <2>3, <2>4, ExceptSeq
    <2> QED
      BY <2>2, <2>5 DEF old
  <1> HIDE DEF c
  <1>6. \A i \in DOMAIN c : Bucket(d, t, c[i].key) = b
    BY <1>4, <1>5 DEF Sound, Good, WellPlaced
  <1>7. t = 0 /\ Rehashing(d) /\ b < d.rehashidx => c = <<>>
    BY <1>4, <1>5 DEF Sound, Good, EmptyBehind
  <1>8. Good(e)
    <2>1. Good(d) /\ d.used \in [Tables -> Nat]
      BY DEF Sound, Good, IsDict
    <2> QED
      BY <2>1, <1>4, <1>5, <1>6, <1>7, NewChain
  <1>9. /\ e.used = d.used
        /\ e.table[t] = [d.table[t] EXCEPT ![b] = c]
        /\ \A r \in Tables \ {t} : e.table[r] = d.table[r]
    BY <1>4 DEF Sound, Good, IsDict, SetHt
  <1>10. Places(e.table[t]) = Places(d.table[t])
    BY <1>4, <1>5, <1>9, ChainsOfDict, PlacesSame DEF Sound, Good
  <1>11. Covered(e)
    BY <1>9, <1>10 DEF Sound, Covered, Entries
  <1> QED
    BY <1>1, <1>8, <1>11 DEF Sound

(* A table after dictDelete. *)
LEMMA DeletedTable ==
    ASSUME NEW d, Sound(d), NEW k \in Key, NEW t \in Holders(d, k),
           NEW b, b = Bucket(d, t, k),
           NEW T, T = [d.table[t] EXCEPT ![b] = Unlinked(d.table[t][b], k)]
    PROVE  /\ T \in [Buckets(d, t) -> Seq(Entry)]
           /\ \A a \in Buckets(d, t) : \A i \in DOMAIN T[a] :
                  \E j \in DOMAIN d.table[t][a] : T[a][i] = d.table[t][a][j]
           /\ IsFiniteSet(Places(T))
           /\ Cardinality(Places(T)) < Entries(d, t)
  <1> DEFINE old == d.table[t][b]
             c == Unlinked(old, k)
  <1>1. /\ t \in Tables /\ b \in Buckets(d, t) /\ old \in Seq(Entry)
        /\ Matches(old, k) # {}
    BY HolderFacts, SMTT(30) DEF Sound
  <1> HIDE DEF old
  <1>2. /\ c \in Seq(Entry) /\ Len(c) < Len(old)
        /\ \A i \in DOMAIN c : \E j \in DOMAIN old : c[i] = old[j]
    BY <1>1, UnlinkedChain
  <1>3. T = [d.table[t] EXCEPT ![b] = c]
    BY DEF old
  <1> HIDE DEF c
  <1>4. /\ Chains(d.table[t]) /\ DOMAIN d.table[t] = Buckets(d, t)
        /\ IsFiniteSet(Places(d.table[t]))
    BY <1>1, ChainsOfDict DEF Sound, Good, Covered
  <1>5. d.table[t] \in [Buckets(d, t) -> Seq(Entry)]
    BY <1>1 DEF Sound, Good, IsDict
  <1>6. \A a \in Buckets(d, t) : T[a] = IF a = b THEN c ELSE d.table[t][a]
    BY <1>3, <1>5
  <1>7. T \in [Buckets(d, t) -> Seq(Entry)]
    BY <1>2, <1>3, <1>5
  <1>8. \A a \in Buckets(d, t) : \A i \in DOMAIN T[a] :
            \E j \in DOMAIN d.table[t][a] : T[a][i] = d.table[t][a][j]
    BY <1>2, <1>6 DEF old
  <1>9. /\ IsFiniteSet(Places([d.table[t] EXCEPT ![b] = c]))
        /\ Cardinality(Places([d.table[t] EXCEPT ![b] = c]))
              < Cardinality(Places(d.table[t]))
    BY <1>1, <1>2, <1>4, PlacesDrop DEF old
  <1> QED
    BY <1>3, <1>7, <1>8, <1>9 DEF Entries

LEMMA DeletedSound ==
    ASSUME NEW d, Sound(d), NEW k \in Key
    PROVE  Sound(Deleted(d, k))
  <1> DEFINE H == Holders(d, k)
             D(t) == [d.table[t] EXCEPT
                        ![Bucket(d, t, k)] = Unlinked(d.table[t][Bucket(d, t, k)], k)]
             T == [t \in Tables |-> IF t \in H THEN D(t) ELSE d.table[t]]
             u == [t \in Tables |-> IF t \in H THEN d.used[t] - 1 ELSE d.used[t]]
             e == SetHt(d, T, u)
  <1>1. Deleted(d, k) = e
    BY DEF Deleted, Tables
  <1>2. ASSUME NEW t \in Tables, t \in H
        PROVE  /\ T[t] \in [Buckets(d, t) -> Seq(Entry)]
               /\ \A a \in Buckets(d, t) : \A i \in DOMAIN T[t][a] :
                      \E j \in DOMAIN d.table[t][a] : T[t][a][i] = d.table[t][a][j]
               /\ IsFiniteSet(Places(T[t]))
               /\ Cardinality(Places(T[t])) < Entries(d, t)
    <2>1. T[t] = D(t)
      BY <1>2
    <2> HIDE DEF T, H
    <2> QED
      BY <1>2, <2>1, DeletedTable DEF H
  <1>3. ASSUME NEW t \in Tables, t \notin H
        PROVE  T[t] = d.table[t] /\ u[t] = d.used[t]
    BY <1>3
  <1>4. \A t \in Tables : t \in H => u[t] = d.used[t] - 1
    OBVIOUS
  <1>5. T = [t \in Tables |-> T[t]]
    OBVIOUS
  <1>6. u = [t \in Tables |-> u[t]]
    OBVIOUS
  <1> HIDE DEF T, u, H
  <1>7. \A t \in Tables : /\ T[t] \in [Buckets(d, t) -> Seq(Entry)]
                          /\ \A a \in Buckets(d, t) : \A i \in DOMAIN T[t][a] :
                                \E j \in DOMAIN d.table[t][a] :
                                    T[t][a][i] = d.table[t][a][j]
    BY <1>2, <1>3 DEF Sound, Good, IsDict
  <1>8. ASSUME NEW t \in Tables
        PROVE  /\ u[t] \in Nat
               /\ IsFiniteSet(Places(T[t]))
               /\ Cardinality(Places(T[t])) <= u[t]
    <2>1. d.used[t] \in Nat /\ Entries(d, t) \in Nat /\ Entries(d, t) <= d.used[t]
      BY EntriesInNat DEF Sound, Good, IsDict, Covered
    <2>2. CASE t \in H
      <3>1. IsFiniteSet(Places(T[t])) /\ Cardinality(Places(T[t])) \in Nat
        BY <1>2, <2>2, FS_CardinalityType
      <3> QED
        BY <1>2, <1>4, <2>1, <2>2, <3>1
    <2>3. CASE t \notin H
      BY <1>3, <2>1, <2>3 DEF Sound, Covered, Entries
    <2> QED
      BY <2>2, <2>3
  <1>9. u \in [Tables -> Nat]
    BY <1>6, <1>8
  <1>10. \A t \in Tables : \A b \in Buckets(d, t) : \A i \in DOMAIN T[t][b] :
            Bucket(d, t, T[t][b][i].key) = b
    BY <1>7 DEF Sound, Good, WellPlaced
  <1>11. \A b \in Buckets(d, 0) :
            Rehashing(d) /\ b < d.rehashidx => T[0][b] = <<>>
    <2>1. SUFFICES ASSUME NEW b \in Buckets(d, 0), Rehashing(d), b < d.rehashidx
                   PROVE  T[0][b] = <<>>
      OBVIOUS
    <2>2. d.table[0][b] = <<>>
      BY <2>1 DEF Sound, Good, EmptyBehind
    <2>3. T[0][b] \in Seq(Entry)
      BY <1>7 DEF Tables
    <2>4. ~ \E i \in DOMAIN T[0][b] : TRUE
      BY <1>7, <2>2 DEF Tables
    <2>5. CASE Len(T[0][b]) = 0
      BY <2>3, <2>5
    <2>6. CASE Len(T[0][b]) # 0
      <3>1. 1 \in DOMAIN T[0][b]
        BY <2>3, <2>6
      <3> QED
        BY <2>4, <3>1
    <2> QED
      BY <2>5, <2>6
  <1>12. Good(e)
    BY <1>5, <1>7, <1>9, <1>10, <1>11, NewChains DEF Sound
  <1>13. Covered(e)
    BY <1>8 DEF Covered, Entries, SetHt
  <1> QED
    BY <1>1, <1>12, <1>13 DEF Sound

(* One entry moved by dictRehash: first it is put in ht[1], then taken out *)
(* of ht[0].                                                               *)
LEMMA MovedSound ==
    ASSUME NEW d, Sound(d), Rehashing(d), d.rehashidx < d.size[0],
           d.table[0][d.rehashidx] # <<>>
    PROVE  Sound(Moved(d))
  <1> DEFINE x == d.rehashidx
             old == d.table[0][x]
             n == Head(old)
             b == Bucket(d, 1, n.key)
             c == <<n>> \o d.table[1][b]
             T1 == [d.table EXCEPT ![1][b] = c]
             m == SetHt(d, T1, d.used)
             T2 == [T1 EXCEPT ![0][x] = Tail(old)]
             u == [d.used EXCEPT ![0] = @ - 1, ![1] = @ + 1]
             e == SetHt(d, T2, u)
  <1>1. Moved(d) = e
    BY DEF Moved
  <1>2. Good(d) /\ d.size[1] # 0 /\ x \in Buckets(d, 0) /\ 0 \in Tables /\ 1 \in Tables
    BY DictAssumption DEF Sound, Good, Shaped, Rehashing, IsDict, Buckets, Tables
  <1>3. /\ old \in Seq(Entry) /\ n \in Entry /\ Tail(old) \in Seq(Entry)
        /\ Len(Tail(old)) = Len(old) - 1 /\ Len(old) \in Nat \ {0}
        /\ \A i \in DOMAIN Tail(old) : i + 1 \in DOMAIN old /\ Tail(old)[i] = old[i + 1]
    <2>1. old \in Seq(Entry) /\ old # <<>>
      BY <1>2 DEF Good, IsDict
    <2> HIDE DEF old
    <2> QED
      BY <2>1, TailChain
  <1>4. \A i \in DOMAIN old : Bucket(d, 0, old[i].key) = x
    BY <1>2 DEF Good, WellPlaced
  <1>5. \A i \in DOMAIN Tail(old) : Bucket(d, 0, Tail(old)[i].key) = x
    BY <1>3, <1>4
  <1> HIDE DEF n, old
  <1>6. b = Bucket(d, 1, n.key) /\ b \in Buckets(d, 1)
    BY <1>2, <1>3, BucketInRange DEF Good, Entry
  <1> HIDE DEF b
  <1>7. /\ d.table[1][b] \in Seq(Entry)
        /\ c \in Seq(Entry) /\ Len(c) = Len(d.table[1][b]) + 1
        /\ \A i \in DOMAIN c : Bucket(d, 1, c[i].key) = b
    <2>1. d.table[1][b] \in Seq(Entry)
      BY <1>2, <1>6 DEF Good, IsDict
    <2> QED
      BY <1>2, <1>3, <1>6, <2>1, ConsPlaced, SMTT(30)
  <1> HIDE DEF c
  <1>8. Good(m)
    <2>1. d.used \in [Tables -> Nat]
      BY <1>2 DEF Good, IsDict
    <2>2. 1 = 0 /\ Rehashing(d) /\ b < d.rehashidx => c = <<>>
      OBVIOUS
    <2> HIDE DEF x
    <2>3. ASSUME NEW t, t = 1
          PROVE  Good(SetHt(d, [d.table EXCEPT ![t][b] = c], d.used))
      <3>1. /\ t \in Tables /\ b \in Buckets(d, t) /\ d.used \in [Tables -> Nat]
            /\ \A i \in DOMAIN c : Bucket(d, t, c[i].key) = b
        BY <1>2, <1>6, <1>7, <2>1, <2>3
      <3>2. t # 0
        BY <2>3
      <3>3. Good(d) /\ c \in Seq(Entry)
        BY <1>2, <1>7
      <3> QED
        BY <3>1, <3>2, <3>3, NewChain
    <2> QED
      BY <2>3
  <1>9. /\ m.table = T1 /\ m.size = d.size /\ m.rehashidx = d.rehashidx
        /\ SetHt(m, T2, u) = e
    BY DEF SetHt
  <1>10. /\ T1[0] = d.table[0]
         /\ T1[1] = [d.table[1] EXCEPT ![b] = c]
         /\ T2[0] = [d.table[0] EXCEPT ![x] = Tail(old)]
         /\ T2[1] = T1[1]
    <2>1. DOMAIN d.table = Tables
      BY <1>2 DEF Good, IsDict
    <2>2. T1[0] = d.table[0] /\ T1[1] = [d.table[1] EXCEPT ![b] = c] /\ DOMAIN T1 = Tables
      BY <1>2, <2>1
    <2> HIDE DEF T1
    <2>3. T2[0] = [T1[0] EXCEPT ![x] = Tail(old)] /\ T2[1] = T1[1]
      BY <1>2, <2>2
    <2> QED
      BY <2>2, <2>3
  <1>11. u[0] = d.used[0] - 1 /\ u[1] = d.used[1] + 1 /\ u = [t \in Tables |-> u[t]]
    BY <1>2 DEF Good, IsDict, Tables
  <1> HIDE DEF u, T1, m
  <1>12. /\ IsFiniteSet(Places(T2[0])) /\ Cardinality(Places(T2[0])) < Entries(d, 0)
         /\ IsFiniteSet(Places(T2[1])) /\ Cardinality(Places(T2[1])) = Entries(d, 1) + 1
    <2>1. \A t \in Tables : /\ Chains(d.table[t])
                            /\ DOMAIN d.table[t] = Buckets(d, t)
                            /\ IsFiniteSet(Places(d.table[t]))
      BY <1>2, ChainsOfDict DEF Sound, Good, Covered
    <2>2. /\ IsFiniteSet(Places([d.table[1] EXCEPT ![b] = c]))
          /\ Cardinality(Places([d.table[1] EXCEPT ![b] = c])) = Entries(d, 1) + 1
      BY <1>2, <1>6, <1>7, <2>1, PlacesAdd DEF Entries
    <2>3. Len(Tail(old)) < Len(d.table[0][x])
      BY <1>3, SMTT(30) DEF old
    <2>4. /\ IsFiniteSet(Places([d.table[0] EXCEPT ![x] = Tail(old)]))
          /\ Cardinality(Places([d.table[0] EXCEPT ![x] = Tail(old)])) < Entries(d, 0)
      BY <1>2, <1>3, <2>1, <2>3, PlacesDrop DEF Entries
    <2> QED
      BY <1>10, <2>2, <2>4
  <1>13. /\ d.used[0] \in Nat /\ Entries(d, 0) \in Nat /\ Entries(d, 0) <= d.used[0]
         /\ d.used[1] \in Nat /\ Entries(d, 1) \in Nat /\ Entries(d, 1) <= d.used[1]
         /\ Cardinality(Places(T2[0])) \in Nat
    BY <1>2, <1>12, EntriesInNat, FS_CardinalityType DEF Sound, Good, IsDict, Covered
  <1>14. u \in [Tables -> Nat]
    BY <1>11, <1>12, <1>13 DEF Tables
  <1>15. Good(e)
    <2>1. x \in Buckets(m, 0) /\ ~ (Rehashing(m) /\ x < m.rehashidx)
      BY <1>2, <1>9 DEF Buckets, Good, IsDict
    <2>2. \A i \in DOMAIN Tail(old) : Bucket(m, 0, Tail(old)[i].key) = x
      BY <1>5, <1>9 DEF Bucket
    <2>3. Good(SetHt(m, [m.table EXCEPT ![0][x] = Tail(old)], u))
      BY <1>2, <1>3, <1>8, <1>14, <2>1, <2>2, NewChain
    <2> QED
      BY <1>9, <2>3
  <1>16. Covered(e)
    <2>1. Cardinality(Places(T2[0])) <= u[0] /\ Cardinality(Places(T2[1])) <= u[1]
      BY <1>11, <1>12, <1>13
    <2>2. e.table = T2 /\ e.used = u
      BY DEF SetHt
    <2>3. \A t \in Tables : t = 0 \/ t = 1
      BY DEF Tables
    <2> HIDE DEF e, T2
    <2> QED
      BY <1>12, <2>1, <2>2, <2>3 DEF Covered, Entries
  <1> QED
    BY <1>1, <1>15, <1>16 DEF Sound

(* rehashidx goes past a bucket that is empty. *)
LEMMA SkippedSound ==
    ASSUME NEW d, Sound(d), Rehashing(d), d.rehashidx < d.size[0],
           d.table[0][d.rehashidx] = <<>>,
           NEW e, e = [d EXCEPT !.rehashidx = @ + 1]
    PROVE  Sound(e)
  <1>1. /\ e.table = d.table /\ e.size = d.size /\ e.used = d.used
        /\ e.rehashidx = d.rehashidx + 1
        /\ e = [table |-> e.table, size |-> e.size, used |-> e.used,
                rehashidx |-> e.rehashidx]
    BY DEF Sound, Good, IsDict
  <1>2. d.rehashidx \in Nat /\ d.size[0] \in Nat
    BY DictAssumption DEF Sound, Good, IsDict, Rehashing, Tables
  <1>3. IsDict(e)
    BY <1>1, <1>2 DEF Sound, Good, IsDict, Buckets
  <1>4. Shaped(e)
    BY <1>1, <1>2 DEF Sound, Good, Shaped, Rehashing
  <1>5. WellPlaced(e)
    BY <1>1, SMTT(30) DEF Sound, Good, WellPlaced, Bucket, Buckets
  <1>6. EmptyBehind(e)
    BY <1>1, <1>2 DEF Sound, Good, EmptyBehind, Rehashing, Buckets
  <1>7. Covered(e)
    BY <1>1 DEF Sound, Covered, Entries
  <1> QED
    BY <1>3, <1>4, <1>5, <1>6, <1>7 DEF Sound, Good

LEMMA SkippedRehashing ==
    ASSUME NEW d, Sound(d), Rehashing(d), d.rehashidx < d.size[0],
           d.table[0][d.rehashidx] = <<>>,
           NEW e, e = [d EXCEPT !.rehashidx = @ + 1]
    PROVE  Sound(e) /\ Rehashing(e)
  <1>1. e.rehashidx = d.rehashidx + 1 /\ d.rehashidx \in Nat
    BY DEF Sound, Good, IsDict, Rehashing
  <1> QED
    BY <1>1, SkippedSound DEF Rehashing

LEMMA NewDictSound == Sound(NewDict)
  <1>1. \A t \in Tables : Places(NewDict.table[t]) = {} /\ NewDict.used[t] = 0
    BY DEF NewDict, Tables, Places, EmptyTable
  <1>2. Covered(NewDict)
    BY <1>1, FS_EmptySet DEF Covered, Entries
  <1> QED
    BY <1>2, InitGood DEF Sound

LEMMA SwitchedSound ==
    ASSUME NEW d, Sound(d), Rehashing(d)
    PROVE  Sound(Switched(d))
  <1> DEFINE T == [NewDict.table EXCEPT ![0] = d.table[1]]
             S == [NewDict.size EXCEPT ![0] = d.size[1]]
             u == [NewDict.used EXCEPT ![0] = d.used[1]]
             e == [table |-> T, size |-> S, used |-> u, rehashidx |-> -1]
  <1>1. Switched(d) = e
    BY DEF Switched
  <1>2. 0 \in Tables /\ 1 \in Tables /\ \A t \in Tables : t = 0 \/ t = 1
    BY DEF Tables
  <1>3. IsDict(d)
    BY DEF Sound, Good
  <1>4. /\ d.size[1] \in {0} \cup TableSizes /\ d.used[1] \in Nat
        /\ d.table[1] \in [Buckets(d, 1) -> Seq(Entry)]
    BY <1>2, <1>3 DEF IsDict
  <1>5. EmptyTable(0) \in [0 .. 0 - 1 -> Seq(Entry)]
    BY EmptyTableType
  <1>6. /\ T[0] = d.table[1] /\ T[1] = EmptyTable(0) /\ T = [t \in Tables |-> T[t]]
         /\ S[0] = d.size[1] /\ S[1] = 0 /\ S \in [Tables -> {0} \cup TableSizes]
         /\ u[0] = d.used[1] /\ u[1] = 0 /\ u \in [Tables -> Nat]
    <2>1. /\ NewDict.table = [t \in Tables |-> EmptyTable(0)]
          /\ NewDict.size = [t \in Tables |-> 0] /\ NewDict.used = [t \in Tables |-> 0]
      BY DEF NewDict, Tables
    <2>2. T[0] = d.table[1] /\ T[1] = EmptyTable(0) /\ T = [t \in Tables |-> T[t]]
      BY <1>2, <2>1
    <2>3. S[0] = d.size[1] /\ S[1] = 0 /\ S \in [Tables -> {0} \cup TableSizes]
      BY <1>2, <1>4, <2>1
    <2>4. u[0] = d.used[1] /\ u[1] = 0 /\ u \in [Tables -> Nat]
      BY <1>2, <1>4, <2>1
    <2> QED
      BY <2>2, <2>3, <2>4
  <1> HIDE DEF T, S, u
  <1>7. /\ e.table[0] = d.table[1] /\ e.size[0] = d.size[1] /\ e.used[0] = d.used[1]
        /\ e.table[1] = EmptyTable(0) /\ e.size[1] = 0 /\ e.used[1] = 0
        /\ e.rehashidx = -1
    BY <1>6
  <1>8. IsDict(e)
    <2>1. \A t \in Tables : T[t] \in [0 .. S[t] - 1 -> Seq(Entry)]
      BY <1>2, <1>4, <1>5, <1>6 DEF Buckets
    <2> QED
      BY <1>6, <2>1 DEF IsDict, Buckets
  <1> HIDE DEF e
  <1>9. Shaped(e) /\ EmptyBehind(e)
    BY <1>7 DEF Shaped, EmptyBehind, Rehashing
  <1>10. WellPlaced(e)
    <2>1. \A b \in Buckets(d, 1) : \A i \in DOMAIN d.table[1][b] :
              Hash[d.table[1][b][i].key] % d.size[1] = b
      BY <1>2 DEF Sound, Good, WellPlaced, Bucket
    <2>2. Buckets(e, 1) = {}
      BY <1>7 DEF Buckets
    <2>3. Buckets(e, 0) = Buckets(d, 1)
      BY <1>7 DEF Buckets
    <2> QED
      BY <1>7, <1>2, <2>1, <2>2, <2>3 DEF WellPlaced, Bucket
  <1>11. Covered(e)
    <2>1. Places(EmptyTable(0)) = {}
      BY DEF Places, EmptyTable
    <2> QED
      BY <1>7, <1>2, <2>1, FS_EmptySet DEF Sound, Covered, Entries
  <1> QED
    BY <1>1, <1>8, <1>9, <1>10, <1>11 DEF Sound, Good

-------------------------------------------------------------------------------
(* The invariant of any use of the API. *)

Invariant ==
    /\ Sound(dict)
    /\ pc \in {"idle", "loop", "bucket", "chain", "undefined"}
    /\ budget \in Nat
    /\ ret \in Results
    /\ pc # "idle" => Rehashing(dict)
    /\ pc = "chain" => dict.rehashidx < dict.size[0]

LEMMA ResultType ==
    ASSUME NEW op \in Calls, NEW k \in Key, NEW code \in {"ok", "err"}
    PROVE  Result(op, k, code) \in Results
  BY DEF Result, Results

LEMMA InsertSound ==
    ASSUME NEW d, Sound(d), d.size[0] # 0, NEW op \in Calls,
           NEW k \in Key, NEW v \in Val, Insert(op, d, k, v)
    PROVE  Sound(dict') /\ ret' \in Results
  BY InsertedSound, ResultType DEF Insert

LEMMA AddCallSound ==
    ASSUME Sound(dict), NEW op \in Calls,
           NEW k \in Key, NEW v \in Val, AddCall(op, k, v)
    PROVE  Sound(dict') /\ ret' \in Results
  <1>1. CASE NeedsExpand(dict)
    <2>1. PICK s \in SuitableSizes(GrowthTarget(dict)) :
              IF MayExpand(dict, GrowthTarget(dict), s)
              THEN Insert(op, Expanded(dict, s), k, v)
              ELSE Refuse(op, k)
      BY <1>1 DEF AddCall
    <2>2. CASE MayExpand(dict, GrowthTarget(dict), s)
      <3>1. s \in TableSizes /\ s > dict.size[0] /\ ~Rehashing(dict)
        BY <2>2 DEF MayExpand, SuitableSizes
      <3>2. Sound(Expanded(dict, s)) /\ Expanded(dict, s).size[0] # 0
        BY <3>1, ExpandedSound
      <3>3. Insert(op, Expanded(dict, s), k, v)
        BY <2>1, <2>2
      <3> QED
        BY <3>2, <3>3, InsertSound
    <2>3. CASE ~ MayExpand(dict, GrowthTarget(dict), s)
      BY <2>1, <2>3, ResultType DEF Refuse
    <2> QED
      BY <2>2, <2>3
  <1>2. CASE ~ NeedsExpand(dict)
    <2>1. Insert(op, dict, k, v)
      BY <1>2 DEF AddCall
    <2>2. dict.size[0] # 0
      BY <1>2 DEF NeedsExpand, Sound, Good, Shaped
    <2> QED
      BY <2>1, <2>2, InsertSound
  <1> QED
    BY <1>1, <1>2

LEMMA InitInvariant == Init => Invariant
  BY NewDictSound DEF Init, Invariant, Results

LEMMA NextInvariant == Invariant /\ [ApiNext]_vars => Invariant'
  <1> SUFFICES ASSUME Invariant, [ApiNext]_vars PROVE Invariant'
    OBVIOUS
  <1> USE DEF Invariant
  <1>1. ASSUME NEW k \in Key, NEW v \in Val, Add(k, v) PROVE Invariant'
    BY <1>1, AddCallSound DEF Add, Calls
  <1>2. ASSUME NEW k \in Key, NEW v \in Val, Replace(k, v) PROVE Invariant'
    <2>1. "replace" \in Calls
      BY DEF Calls
    <2> QED
      BY <1>2, <2>1, AddCallSound, OverwrittenSound, ResultType DEF Replace
  <1>3. ASSUME NEW k \in Key, Delete(k) PROVE Invariant'
    <2>1. ret' \in Results
      BY <1>3, ResultType DEF Delete, Calls
    <2> QED
      BY <1>3, <2>1, DeletedSound DEF Delete
  <1>4. CASE Resize
    BY <1>4, ExpandedSound DEF Resize, MayExpand, SuitableSizes
  <1>5. CASE RehashStart
    BY <1>5, DictAssumption DEF RehashStart
  <1>6. CASE RehashLoop
    BY <1>6 DEF RehashLoop
  <1>7. CASE RehashSkip
    <2>1. Sound(dict') /\ Rehashing(dict')
      BY <1>7, SkippedRehashing DEF RehashSkip
    <2> QED
      BY <1>7, <2>1 DEF RehashSkip
  <1>8. CASE RehashOutOfBounds
    BY <1>8 DEF RehashOutOfBounds
  <1>9. CASE RehashFound
    BY <1>9 DEF RehashFound
  <1>10. CASE RehashMove
    <2>1. Sound(dict')
      BY <1>10, MovedSound DEF RehashMove
    <2>2. dict'.rehashidx = dict.rehashidx /\ dict'.size = dict.size
      BY <1>10 DEF RehashMove, Moved, SetHt
    <2> QED
      BY <1>10, <2>1, <2>2 DEF RehashMove, Rehashing
  <1>11. CASE RehashNextBucket
    <2>1. Sound(dict') /\ Rehashing(dict')
      BY <1>11, SkippedRehashing DEF RehashNextBucket
    <2> QED
      BY <1>11, <2>1 DEF RehashNextBucket
  <1>12. CASE RehashReturn
    BY <1>12 DEF RehashReturn
  <1>13. CASE RehashFinish
    BY <1>13, SwitchedSound DEF RehashFinish
  <1>14. CASE UNCHANGED vars
    BY <1>14 DEF vars
  <1> QED
    BY <1>1, <1>2, <1>3, <1>4, <1>5, <1>6, <1>7, <1>8, <1>9, <1>10, <1>11,
       <1>12, <1>13, <1>14 DEF ApiNext, Rehash, RehashStep

LEMMA ApiInvariant == ApiSpec => []Invariant
  BY InitInvariant, NextInvariant, PTL DEF ApiSpec

(* The server's use is one of the uses of the API. *)
LEMMA ServerUsesApi == Spec => ApiSpec
  <1>1. [Next]_vars => [ApiNext]_vars
    BY DEF Next, ApiNext, AddAbsent
  <1> QED
    BY <1>1, PTL DEF Spec, ApiSpec

(* The type invariant: in particular the unsigned counters never wrap, not *)
(* even when dictDelete has dropped entries without counting them.         *)
THEOREM TypeCorrect == ApiSpec => []TypeOK
  <1>1. Invariant => TypeOK
    BY DEF Invariant, TypeOK, Sound, Good
  <1> QED
    BY <1>1, ApiInvariant, PTL

(* No index is computed modulo the size of a table that is not there, and  *)
(* rehashidx never passes the end of ht[0] by more than one.               *)
THEOREM ShapeCorrect == ApiSpec => []RehashShape
  <1>1. Invariant => RehashShape
    BY DEF Invariant, RehashShape, Sound, Good
  <1> QED
    BY <1>1, ApiInvariant, PTL

(* Every entry stays in the bucket of its key, through growth and rehash.  *)
THEOREM PlacedCorrect == ApiSpec => []Placed
  <1>1. Invariant => Placed
    BY DEF Invariant, Placed, Sound, Good
  <1> QED
    BY <1>1, ApiInvariant, PTL

(* What dictRehash has passed in ht[0] stays empty. *)
THEOREM MigratedEmptyCorrect == ApiSpec => []MigratedEmpty
  <1>1. Invariant => MigratedEmpty
    BY DEF Invariant, MigratedEmpty, Sound, Good
  <1> QED
    BY <1>1, ApiInvariant, PTL

(* The counters never fall short of the entries, so the table that         *)
(* dictRehash frees holds none.                                            *)
THEOREM CountersCoverEntries == ApiSpec => []UsedCoversEntries
  <1>1. Invariant => UsedCoversEntries
    BY DEF Invariant, UsedCoversEntries, Sound, Covered
  <1> QED
    BY <1>1, ApiInvariant, PTL

(* A table that was never made is not used. *)
NoTableNoUse == dict.size[0] = 0 => dict.used[0] = 0

LEMMA SizesKept ==
    ASSUME NEW d, NEW k \in Key, NEW v \in Val
    PROVE  /\ Inserted(d, k, v).size = d.size
           /\ Overwritten(d, k, v).size = d.size
           /\ Overwritten(d, k, v).used = d.used
  BY DEF Inserted, Overwritten, SetHt

LEMMA DeletedSizes ==
    ASSUME NEW d, NEW k \in Key
    PROVE  /\ Deleted(d, k).size = d.size
           /\ d.size[0] = 0 => Deleted(d, k).used[0] = d.used[0]
  <1>1. 0 \in Holders(d, k) => d.size[0] # 0
    BY DEF Holders, Searched
  <1> QED
    BY <1>1 DEF Deleted, SetHt

LEMMA AddCallMakesTable ==
    ASSUME Invariant, NEW op, NEW k \in Key, NEW v \in Val, AddCall(op, k, v)
    PROVE  dict'.size[0] # 0 \/ dict' = dict
  <1>1. ASSUME NEW d, Sound(d), d.size[0] # 0, Insert(op, d, k, v)
        PROVE  dict'.size[0] # 0
    BY <1>1, SizesKept DEF Insert
  <1>2. CASE NeedsExpand(dict)
    <2>1. PICK s \in SuitableSizes(GrowthTarget(dict)) :
              IF MayExpand(dict, GrowthTarget(dict), s)
              THEN Insert(op, Expanded(dict, s), k, v)
              ELSE Refuse(op, k)
      BY <1>2 DEF AddCall
    <2>2. CASE MayExpand(dict, GrowthTarget(dict), s)
      <3>1. Sound(Expanded(dict, s)) /\ Expanded(dict, s).size[0] # 0
        BY <2>2, ExpandedSound DEF MayExpand, SuitableSizes, Invariant
      <3> QED
        BY <1>1, <2>1, <2>2, <3>1
    <2>3. CASE ~ MayExpand(dict, GrowthTarget(dict), s)
      BY <2>1, <2>3 DEF Refuse
    <2> QED
      BY <2>2, <2>3
  <1>3. CASE ~ NeedsExpand(dict)
    BY <1>1, <1>3 DEF AddCall, NeedsExpand, Invariant, Sound, Good, Shaped
  <1> QED
    BY <1>2, <1>3

LEMMA NoTableNoUseInvariant == ApiSpec => []NoTableNoUse
  <1>1. Init => NoTableNoUse
    BY DEF Init, NewDict, NoTableNoUse
  <1>2. Invariant /\ NoTableNoUse /\ [ApiNext]_vars => NoTableNoUse'
    <2> SUFFICES ASSUME Invariant, NoTableNoUse, [ApiNext]_vars PROVE NoTableNoUse'
      OBVIOUS
    <2> USE DEF NoTableNoUse
    <2>1. Sound(dict) /\ (pc # "idle" => dict.size[0] # 0)
      BY DEF Invariant, Sound, Good, Shaped
    <2>2. ASSUME NEW k \in Key, NEW v \in Val, Add(k, v) PROVE NoTableNoUse'
      BY <2>2, AddCallMakesTable DEF Add
    <2>3. ASSUME NEW k \in Key, NEW v \in Val, Replace(k, v) PROVE NoTableNoUse'
      <3>1. CASE Holders(dict, k) = {}
        BY <2>3, <3>1, AddCallMakesTable DEF Replace
      <3>2. CASE Holders(dict, k) # {}
        <4>1. dict' = Overwritten(dict, k, v)
          BY <2>3, <3>2 DEF Replace
        <4> QED
          BY <2>1, <4>1, SizesKept
      <3> QED
        BY <3>1, <3>2
    <2>4. ASSUME NEW k \in Key, Delete(k) PROVE NoTableNoUse'
      <3>1. dict' = Deleted(dict, k)
        BY <2>4 DEF Delete
      <3> QED
        BY <2>1, <3>1, DeletedSizes
    <2>5. CASE Resize
      BY <2>1, <2>5, ExpandedSound DEF Resize, MayExpand, SuitableSizes
    <2>6. CASE RehashStart \/ RehashLoop \/ RehashOutOfBounds \/ RehashFound
               \/ RehashReturn \/ UNCHANGED vars
      BY <2>6 DEF RehashStart, RehashLoop, RehashOutOfBounds, RehashFound,
                  RehashReturn, vars
    <2>7. CASE RehashSkip \/ RehashNextBucket
      <3>1. dict'.size = dict.size
        BY <2>1, <2>7 DEF RehashSkip, RehashNextBucket, Sound, Good, IsDict
      <3> QED
        BY <2>1, <2>7, <3>1 DEF RehashSkip, RehashNextBucket
    <2>8. CASE RehashMove
      <3>1. dict'.size = dict.size
        BY <2>8 DEF RehashMove, Moved, SetHt
      <3> QED
        BY <2>1, <2>8, <3>1 DEF RehashMove
    <2>9. CASE RehashFinish
      <3>1. dict'.size[0] = dict.size[1] /\ dict.size[1] # 0
        BY <2>9 DEF RehashFinish, Switched, NewDict, Invariant, Sound, Good, Shaped
      <3> QED
        BY <3>1
    <2> QED
      BY <2>2, <2>3, <2>4, <2>5, <2>6, <2>7, <2>8, <2>9 DEF ApiNext, Rehash, RehashStep
  <1> QED
    BY <1>1, <1>2, ApiInvariant, PTL DEF ApiSpec

LEMMA QuotientAtLeastOne ==
    ASSUME NEW u \in Nat, NEW s \in Nat \ {0}, u \div s > 0
    PROVE  u >= s
  OBVIOUS

(* dictAdd never fails because its table cannot grow. *)
THEOREM GrowthCorrect == ApiSpec => []GrowthNeverRefused
  <1>1. Invariant /\ NoTableNoUse => GrowthNeverRefused
    <2> SUFFICES ASSUME Invariant, NoTableNoUse, NeedsExpand(dict),
                        NEW s \in SuitableSizes(GrowthTarget(dict))
                 PROVE  MayExpand(dict, GrowthTarget(dict), s)
      BY DEF GrowthNeverRefused
    <2>1. /\ s \in Nat \ {0} /\ s >= GrowthTarget(dict) /\ ~Rehashing(dict)
          /\ dict.size[0] \in Nat /\ dict.used[0] \in Nat
      BY DictAssumption DEF SuitableSizes, NeedsExpand, Invariant, Sound, Good, IsDict, Tables
    <2>2. CASE dict.size[0] = 0
      BY <2>1, <2>2, DictAssumption DEF MayExpand, GrowthTarget, NoTableNoUse
    <2>3. CASE dict.size[0] # 0
      <3>1. dict.used[0] \div dict.size[0] > UsedUp
        BY <2>3 DEF NeedsExpand
      <3>2. dict.used[0] \div dict.size[0] \in Int /\ UsedUp \in Nat
        BY <2>1, <2>3, DictAssumption
      <3>3. dict.used[0] >= dict.size[0]
        BY <2>1, <2>3, <3>1, <3>2, QuotientAtLeastOne
      <3> QED
        BY <2>1, <2>3, <3>3 DEF MayExpand, GrowthTarget
    <2> QED
      BY <2>2, <2>3
  <1> QED
    BY <1>1, ApiInvariant, NoTableNoUseInvariant, PTL

(* What dictRehash knows while it looks for a bucket, and where it is when *)
(* it has left the table.                                                  *)
SearchUsed ==
    /\ pc = "bucket" => dict.used[0] > 0
    /\ pc = "undefined" => dict.used[0] > 0 /\ dict.rehashidx >= dict.size[0]

LEMMA SearchUsedInvariant == ApiSpec => []SearchUsed
  <1>1. Init => SearchUsed
    BY DEF Init, SearchUsed
  <1>2. Invariant /\ SearchUsed /\ [ApiNext]_vars => SearchUsed'
    <2> SUFFICES ASSUME Invariant, SearchUsed, [ApiNext]_vars PROVE SearchUsed'
      OBVIOUS
    <2>1. ASSUME pc = "idle", pc' = pc PROVE SearchUsed'
      BY <2>1 DEF SearchUsed
    <2>2. CASE RehashSkip
      <3>1. dict'.used = dict.used
        BY <2>2 DEF RehashSkip, Invariant, Sound, Good, IsDict
      <3> QED
        BY <2>2, <3>1 DEF RehashSkip, SearchUsed
    <2>3. CASE RehashOutOfBounds \/ RehashLoop \/ UNCHANGED vars
      BY <2>3 DEF RehashOutOfBounds, RehashLoop, SearchUsed, vars
    <2>4. CASE RehashStart \/ RehashFound \/ RehashMove \/ RehashNextBucket
               \/ RehashReturn \/ RehashFinish
      BY <2>4 DEF RehashStart, RehashFound, RehashMove, RehashNextBucket,
                  RehashReturn, RehashFinish, SearchUsed
    <2> QED
      BY <2>1, <2>2, <2>3, <2>4 DEF ApiNext, Add, Replace, Delete, Resize, Rehash, RehashStep
  <1> QED
    BY <1>1, <1>2, ApiInvariant, PTL DEF ApiSpec

(* dictRehash leaves the table only when all entries have been moved and   *)
(* the counter does not say so.                                            *)
THEOREM OutOfBoundsCorrect == ApiSpec => []OutOfBoundsOnlyAfterLoss
  <1>1. Invariant /\ SearchUsed => OutOfBoundsOnlyAfterLoss
    <2> SUFFICES ASSUME Invariant, SearchUsed, pc = "undefined"
                 PROVE  Entries(dict, 0) = 0 /\ dict.used[0] > 0
      BY DEF OutOfBoundsOnlyAfterLoss
    <2>1. /\ Good(dict) /\ Covered(dict) /\ Rehashing(dict) /\ 0 \in Tables
          /\ dict.used[0] > 0 /\ dict.rehashidx >= dict.size[0]
      BY DEF Invariant, Sound, SearchUsed, Tables
    <2>2. dict.size[0] \in Nat /\ dict.rehashidx \in Nat
      BY <2>1, DictAssumption DEF Good, IsDict, Rehashing
    <2>3. \A b \in Buckets(dict, 0) : dict.table[0][b] = <<>>
      BY <2>1, <2>2 DEF Good, EmptyBehind, Buckets
    <2>4. Chains(dict.table[0]) /\ DOMAIN dict.table[0] = Buckets(dict, 0)
      BY <2>1, ChainsOfDict DEF Good
    <2>5. IsFiniteSet(Places(dict.table[0]))
      BY <2>1 DEF Covered
    <2> QED
      BY <2>1, <2>3, <2>4, <2>5, PlacesNone DEF Entries
  <1> QED
    BY <1>1, ApiInvariant, SearchUsedInvariant, PTL

-------------------------------------------------------------------------------
(* Exact counters.  A table and its counter change together, until a       *)
(* delete empties a chain of several entries.                              *)

LEMMA PlacesTake ==
    ASSUME NEW table, Chains(table), IsFiniteSet(Places(table)),
           table = [b \in DOMAIN table |-> table[b]],
           NEW b \in DOMAIN table, NEW c \in Seq(Entry), Len(c) + 1 = Len(table[b])
    PROVE  Cardinality(Places([table EXCEPT ![b] = c])) = Cardinality(Places(table)) - 1
  <1> DEFINE new == [table EXCEPT ![b] = c]
  <1>1. Len(c) \in Nat /\ Len(table[b]) \in Nat /\ table[b] \in Seq(Entry)
    BY DEF Chains
  <1>2. IsFiniteSet(Places(new))
    BY <1>1, PlacesDrop
  <1>3. /\ DOMAIN new = DOMAIN table /\ new[b] = c
        /\ \A a \in DOMAIN new : new[a] = IF a = b THEN c ELSE table[a]
    OBVIOUS
  <1>4. Chains(new)
    BY <1>3 DEF Chains
  <1>5. [new EXCEPT ![b] = table[b]] = table
    OBVIOUS
  <1> HIDE DEF new
  <1>6. Cardinality(Places([new EXCEPT ![b] = table[b]])) = Cardinality(Places(new)) + 1
    BY <1>1, <1>2, <1>3, <1>4, PlacesAdd
  <1>7. Cardinality(Places(new)) \in Nat
    BY <1>2, FS_CardinalityType
  <1> QED
    BY <1>5, <1>6, <1>7 DEF new

LEMMA ExactInserted ==
    ASSUME NEW d, Sound(d), d.size[0] # 0, NEW k \in Key, NEW v \in Val, Exact(d)
    PROVE  Exact(Inserted(d, k, v))
  <1> DEFINE t == Target(d)
             b == Bucket(d, t, k)
             n == [key |-> k, val |-> v]
             c == <<n>> \o d.table[t][b]
             T == [d.table EXCEPT ![t][b] = c]
             u == [d.used EXCEPT ![t] = @ + 1]
             e == SetHt(d, T, u)
  <1>1. Inserted(d, k, v) = e
    BY DEF Inserted
  <1>2. t \in Tables /\ d.size[t] # 0
    BY TargetIsTable DEF Sound
  <1>3. n \in Entry /\ n.key = k
    BY DEF Entry
  <1> HIDE DEF n, t
  <1>4. b = Bucket(d, t, n.key) /\ b \in Buckets(d, t)
    BY <1>2, <1>3, BucketInRange DEF Sound, Good
  <1> HIDE DEF b
  <1>5. /\ c \in Seq(Entry) /\ Len(c) = Len(d.table[t][b]) + 1
        /\ \A i \in DOMAIN c : Bucket(d, t, c[i].key) = b
    BY <1>2, <1>3, <1>4, ConsPlaced DEF Sound
  <1> HIDE DEF c
  <1>6. /\ e.table[t] = [d.table[t] EXCEPT ![b] = c]
        /\ \A r \in Tables \ {t} : e.table[r] = d.table[r]
        /\ e.used[t] = d.used[t] + 1
        /\ \A r \in Tables \ {t} : e.used[r] = d.used[r]
    BY <1>2 DEF Sound, Good, IsDict, SetHt
  <1> HIDE DEF e
  <1>7. Chains(d.table[t]) /\ b \in DOMAIN d.table[t] /\ IsFiniteSet(Places(d.table[t]))
    BY <1>2, <1>4, ChainsOfDict DEF Sound, Good, Covered
  <1>8. Cardinality(Places([d.table[t] EXCEPT ![b] = c])) = Cardinality(Places(d.table[t])) + 1
    BY <1>5, <1>7, PlacesAdd
  <1> QED
    BY <1>1, <1>2, <1>6, <1>8 DEF Exact, Entries, e

LEMMA ExactExpanded ==
    ASSUME NEW d, Sound(d), NEW s \in TableSizes, Exact(d)
    PROVE  Exact(Expanded(d, s))
  <1> DEFINE e == Expanded(d, s)
             t == IF d.size[0] = 0 THEN 0 ELSE 1
  <1>1. /\ t \in Tables /\ e.table[t] = EmptyTable(s) /\ e.used[t] = 0
        /\ \A r \in Tables \ {t} : e.table[r] = d.table[r] /\ e.used[r] = d.used[r]
    <2>1. CASE d.size[0] = 0
      BY <2>1 DEF Expanded, Sound, Good, IsDict, Tables
    <2>2. CASE d.size[0] # 0
      BY <2>2 DEF Expanded, Sound, Good, IsDict, Tables
    <2> QED
      BY <2>1, <2>2
  <1>2. Places(EmptyTable(s)) = {}
    BY DEF Places, EmptyTable
  <1> HIDE DEF e, t
  <1> QED
    BY <1>1, <1>2, FS_EmptySet DEF Exact, Entries, e

LEMMA ExactOverwritten ==
    ASSUME NEW d, Sound(d), NEW k \in Key, NEW v \in Val, Holders(d, k) # {}, Exact(d)
    PROVE  Exact(Overwritten(d, k, v))
  <1> DEFINE t == Holder(d, k)
             b == Bucket(d, t, k)
             m == FirstMatch(d.table[t][b], k)
             c == [d.table[t][b] EXCEPT ![m].val = v]
             T == [d.table EXCEPT ![t][b] = c]
             e == SetHt(d, T, d.used)
  <1>1. Overwritten(d, k, v) = e
    BY DEF Overwritten
  <1>2. t \in Holders(d, k)
    BY DEF Holders, Holder, Searched
  <1> HIDE DEF t
  <1>3. b = Bucket(d, t, k)
    OBVIOUS
  <1> HIDE DEF b
  <1>4. /\ t \in Tables /\ b \in Buckets(d, t) /\ d.table[t][b] \in Seq(Entry)
        /\ m \in DOMAIN d.table[t][b]
    BY <1>2, <1>3, HolderFacts DEF Sound
  <1> HIDE DEF m
  <1>5. c \in Seq(Entry) /\ Len(c) = Len(d.table[t][b])
    <2> DEFINE old == d.table[t][b]
               n == [old[m] EXCEPT !.val = v]
    <2>1. old[m] \in Entry
      BY <1>4
    <2>2. n \in Entry
      BY <2>1 DEF Entry
    <2>3. c = [old EXCEPT ![m] = n]
      OBVIOUS
    <2> HIDE DEF c, old, n
    <2>4. old \in Seq(Entry) /\ m \in DOMAIN old
      BY <1>4 DEF old
    <2>5. c \in Seq(Entry) /\ Len(c) = Len(old)
      BY <2>2, <2>3, <2>4, ExceptSeq
    <2> QED
      BY <2>5 DEF old
  <1> HIDE DEF c
  <1>6. /\ e.used = d.used
        /\ e.table[t] = [d.table[t] EXCEPT ![b] = c]
        /\ \A r \in Tables \ {t} : e.table[r] = d.table[r]
    BY <1>4 DEF Sound, Good, IsDict, SetHt
  <1>7. Places(e.table[t]) = Places(d.table[t])
    BY <1>4, <1>5, <1>6, ChainsOfDict, PlacesSame DEF Sound, Good
  <1> HIDE DEF e
  <1> QED
    BY <1>1, <1>6, <1>7 DEF Exact, Entries, e

(* A match inside a chain, or alone in it, is all that goes. *)
LEMMA UnlinkedOne ==
    ASSUME NEW c \in Seq(Entry), NEW k, Matches(c, k) # {},
           FirstMatch(c, k) = 1 => Len(c) <= 1
    PROVE  Unlinked(c, k) \in Seq(Entry) /\ Len(Unlinked(c, k)) + 1 = Len(c)
  <1> DEFINE m == FirstMatch(c, k)
  <1>1. m \in DOMAIN c
    BY FirstMatchIsMatch DEF Matches
  <1>2. Unlinked(c, k) = IF m = 1 THEN <<>> ELSE RemoveAt(c, m)
    BY DEF Unlinked
  <1>3. m = 1 => Len(c) <= 1
    OBVIOUS
  <1> HIDE DEF m
  <1>4. RemoveAt(c, m) \in Seq(Entry) /\ DOMAIN RemoveAt(c, m) = 1 .. Len(c) - 1
    BY <1>1, RemoveAtChain
  <1>5. Len(c) \in Nat \ {0}
    BY <1>1
  <1>6. Len(RemoveAt(c, m)) = Len(c) - 1
    BY <1>4, <1>5
  <1> QED
    BY <1>2, <1>3, <1>4, <1>5, <1>6

LEMMA ExactDeleted ==
    ASSUME NEW d, Sound(d), NEW k \in Key, ~ LosesChain(d, k), Exact(d)
    PROVE  Exact(Deleted(d, k))
  <1> DEFINE H == Holders(d, k)
             D(t) == [d.table[t] EXCEPT
                        ![Bucket(d, t, k)] = Unlinked(d.table[t][Bucket(d, t, k)], k)]
             T == [t \in Tables |-> IF t \in H THEN D(t) ELSE d.table[t]]
             u == [t \in Tables |-> IF t \in H THEN d.used[t] - 1 ELSE d.used[t]]
             e == SetHt(d, T, u)
  <1>1. Deleted(d, k) = e
    BY DEF Deleted, Tables
  <1>2. e.table = T /\ e.used = u
    BY DEF SetHt
  <1>3. ASSUME NEW t \in Tables, t \in H
        PROVE  Cardinality(Places(T[t])) = u[t]
    <2> DEFINE b == Bucket(d, t, k)
               old == d.table[t][b]
               c == Unlinked(old, k)
    <2>1. T[t] = D(t) /\ u[t] = d.used[t] - 1
      BY <1>3
    <2>2. /\ b \in Buckets(d, t) /\ old \in Seq(Entry) /\ Matches(old, k) # {}
      BY <1>3, HolderFacts, SMTT(30) DEF Sound
    <2>3. FirstMatch(old, k) = 1 => Len(old) <= 1
      BY <1>3, <2>2 DEF LosesChain, Chain
    <2> HIDE DEF T, u, H
    <2>4. T[t] = [d.table[t] EXCEPT ![b] = c]
      BY <2>1
    <2> HIDE DEF b
    <2> HIDE DEF old
    <2>5. c \in Seq(Entry) /\ Len(c) + 1 = Len(old)
      BY <2>2, <2>3, UnlinkedOne
    <2> HIDE DEF c
    <2>6. /\ Chains(d.table[t]) /\ DOMAIN d.table[t] = Buckets(d, t)
          /\ IsFiniteSet(Places(d.table[t]))
      BY ChainsOfDict DEF Sound, Good, Covered
    <2>7. d.table[t] = [a \in DOMAIN d.table[t] |-> d.table[t][a]]
      BY DEF Sound, Good, IsDict
    <2>8. Cardinality(Places([d.table[t] EXCEPT ![b] = c])) = Cardinality(Places(d.table[t])) - 1
      BY <2>2, <2>5, <2>6, <2>7, PlacesTake DEF old
    <2> QED
      BY <2>1, <2>4, <2>8 DEF Exact, Entries
  <1>4. ASSUME NEW t \in Tables, t \notin H
        PROVE  Cardinality(Places(T[t])) = u[t]
    <2>1. T[t] = d.table[t] /\ u[t] = d.used[t]
      BY <1>4
    <2> QED
      BY <2>1 DEF Exact, Entries
  <1> HIDE DEF T, u, e, H
  <1> QED
    BY <1>1, <1>2, <1>3, <1>4 DEF Exact, Entries

LEMMA ExactMoved ==
    ASSUME NEW d, Sound(d), Rehashing(d), d.rehashidx < d.size[0],
           d.table[0][d.rehashidx] # <<>>, Exact(d)
    PROVE  Exact(Moved(d))
  <1> DEFINE x == d.rehashidx
             old == d.table[0][x]
             n == Head(old)
             b == Bucket(d, 1, n.key)
             c == <<n>> \o d.table[1][b]
             T1 == [d.table EXCEPT ![1][b] = c]
             T2 == [T1 EXCEPT ![0][x] = Tail(old)]
             u == [d.used EXCEPT ![0] = @ - 1, ![1] = @ + 1]
             e == SetHt(d, T2, u)
  <1>1. Moved(d) = e
    BY DEF Moved
  <1>2. Good(d) /\ d.size[1] # 0 /\ x \in Buckets(d, 0) /\ 0 \in Tables /\ 1 \in Tables
    BY DictAssumption DEF Sound, Good, Shaped, Rehashing, IsDict, Buckets, Tables
  <1>3. /\ old \in Seq(Entry) /\ n \in Entry /\ Tail(old) \in Seq(Entry)
        /\ Len(Tail(old)) + 1 = Len(old)
    <2>1. old \in Seq(Entry) /\ old # <<>>
      BY <1>2 DEF Good, IsDict
    <2> HIDE DEF old
    <2> QED
      BY <2>1, TailChain
  <1>4. Len(Tail(old)) + 1 = Len(d.table[0][x])
    BY <1>3
  <1> HIDE DEF n, old
  <1>5. b = Bucket(d, 1, n.key) /\ b \in Buckets(d, 1)
    BY <1>2, <1>3, BucketInRange DEF Good, Entry
  <1> HIDE DEF b
  <1>6. c \in Seq(Entry) /\ Len(c) = Len(d.table[1][b]) + 1
    <2>1. d.table[1][b] \in Seq(Entry)
      BY <1>2, <1>5 DEF Good, IsDict
    <2> QED
      BY <1>3, <2>1
  <1> HIDE DEF c
  <1>7. /\ T2[0] = [d.table[0] EXCEPT ![x] = Tail(old)]
        /\ T2[1] = [d.table[1] EXCEPT ![b] = c]
    <2>1. DOMAIN d.table = Tables
      BY <1>2 DEF Good, IsDict
    <2>2. T1[0] = d.table[0] /\ T1[1] = [d.table[1] EXCEPT ![b] = c] /\ DOMAIN T1 = Tables
      BY <1>2, <2>1
    <2> HIDE DEF T1
    <2>3. T2[0] = [T1[0] EXCEPT ![x] = Tail(old)] /\ T2[1] = T1[1]
      BY <1>2, <2>2
    <2> QED
      BY <2>2, <2>3
  <1>8. u[0] = d.used[0] - 1 /\ u[1] = d.used[1] + 1
    BY <1>2 DEF Good, IsDict, Tables
  <1>9. e.table = T2 /\ e.used = u
    BY DEF SetHt
  <1> HIDE DEF u, T1, T2, e
  <1>10. \A t \in Tables : /\ Chains(d.table[t])
                           /\ DOMAIN d.table[t] = Buckets(d, t)
                           /\ IsFiniteSet(Places(d.table[t]))
                           /\ d.table[t] = [a \in DOMAIN d.table[t] |-> d.table[t][a]]
    <2>1. \A t \in Tables : d.table[t] = [a \in DOMAIN d.table[t] |-> d.table[t][a]]
      BY <1>2 DEF Good, IsDict
    <2> QED
      BY <1>2, <2>1, ChainsOfDict DEF Sound, Good, Covered
  <1>11. Cardinality(Places(T2[1])) = Cardinality(Places(d.table[1])) + 1
    <2>1. Cardinality(Places([d.table[1] EXCEPT ![b] = c])) = Cardinality(Places(d.table[1])) + 1
      BY <1>2, <1>5, <1>6, <1>10, PlacesAdd
    <2> QED
      BY <1>7, <2>1
  <1>12. Cardinality(Places(T2[0])) = Cardinality(Places(d.table[0])) - 1
    <2> HIDE DEF x
    <2>1. Cardinality(Places([d.table[0] EXCEPT ![x] = Tail(old)]))
              = Cardinality(Places(d.table[0])) - 1
      BY <1>2, <1>3, <1>4, <1>10, PlacesTake
    <2> QED
      BY <1>7, <2>1
  <1>13. \A t \in Tables : t = 0 \/ t = 1
    BY DEF Tables
  <1>14. /\ Cardinality(Places(d.table[0])) = d.used[0]
         /\ Cardinality(Places(d.table[1])) = d.used[1]
    BY <1>2 DEF Exact, Entries
  <1>15. \A t \in Tables : Cardinality(Places(T2[t])) = u[t]
    BY <1>8, <1>11, <1>12, <1>13, <1>14
  <1> QED
    BY <1>1, <1>9, <1>15 DEF Exact, Entries

LEMMA ExactSwitched ==
    ASSUME NEW d, Sound(d), Exact(d)
    PROVE  Exact(Switched(d))
  <1> DEFINE e == Switched(d)
  <1>1. /\ NewDict.table = [t \in Tables |-> EmptyTable(0)]
        /\ NewDict.used = [t \in Tables |-> 0]
    BY DEF NewDict, Tables
  <1>2. /\ e.table = [NewDict.table EXCEPT ![0] = d.table[1]]
        /\ e.used = [NewDict.used EXCEPT ![0] = d.used[1]]
    BY DEF Switched
  <1>3. 0 \in Tables /\ 1 \in Tables /\ \A t \in Tables : t = 0 \/ t = 1
    BY DEF Tables
  <1>4. /\ e.table[0] = d.table[1] /\ e.used[0] = d.used[1]
        /\ e.table[1] = EmptyTable(0) /\ e.used[1] = 0
    BY <1>1, <1>2, <1>3
  <1>5. Places(EmptyTable(0)) = {}
    BY DEF Places, EmptyTable
  <1> HIDE DEF e
  <1> QED
    BY <1>3, <1>4, <1>5, FS_EmptySet DEF Exact, Entries, e

LEMMA ExactAddCall ==
    ASSUME Sound(dict), Exact(dict), NEW op, NEW k \in Key, NEW v \in Val, AddCall(op, k, v)
    PROVE  Exact(dict')
  <1>1. ASSUME NEW d, Sound(d), Exact(d), d.size[0] # 0, Insert(op, d, k, v)
        PROVE  Exact(dict')
    BY <1>1, ExactInserted DEF Insert
  <1>2. CASE NeedsExpand(dict)
    <2>1. PICK s \in SuitableSizes(GrowthTarget(dict)) :
              IF MayExpand(dict, GrowthTarget(dict), s)
              THEN Insert(op, Expanded(dict, s), k, v)
              ELSE Refuse(op, k)
      BY <1>2 DEF AddCall
    <2>2. CASE MayExpand(dict, GrowthTarget(dict), s)
      <3>1. s \in TableSizes /\ s > dict.size[0] /\ ~Rehashing(dict)
        BY <2>2 DEF MayExpand, SuitableSizes
      <3>2. Sound(Expanded(dict, s)) /\ Expanded(dict, s).size[0] # 0
        BY <3>1, ExpandedSound
      <3>3. Exact(Expanded(dict, s))
        BY <3>1, ExactExpanded
      <3> QED
        BY <1>1, <2>1, <2>2, <3>2, <3>3
    <2>3. CASE ~ MayExpand(dict, GrowthTarget(dict), s)
      BY <2>1, <2>3 DEF Refuse
    <2> QED
      BY <2>2, <2>3
  <1>3. CASE ~ NeedsExpand(dict)
    BY <1>1, <1>3 DEF AddCall, NeedsExpand, Sound, Good, Shaped
  <1> QED
    BY <1>2, <1>3

(* used stays the number of entries, whatever the API is used for, until a *)
(* delete empties a chain of several entries (hdict.c:260).                *)
THEOREM ExactUntilLoss == ApiSpec => UsedExactKept
  <1>1. Invariant /\ [ApiNext]_vars =>
            [Exact(dict) /\ ~Exact(dict') =>
                \E k \in Key : Delete(k) /\ LosesChain(dict, k)]_vars
    <2> SUFFICES ASSUME Invariant, [ApiNext]_vars, Exact(dict), ~Exact(dict')
                 PROVE  \E k \in Key : Delete(k) /\ LosesChain(dict, k)
      OBVIOUS
    <2>1. Sound(dict)
      BY DEF Invariant
    <2>2. ASSUME NEW e, e.table = dict.table, e.used = dict.used
          PROVE  Exact(e)
      BY <2>2 DEF Exact, Entries
    <2>3. ASSUME NEW k \in Key, NEW v \in Val, Add(k, v)
          PROVE  FALSE
      BY <2>1, <2>3, ExactAddCall DEF Add
    <2>4. ASSUME NEW k \in Key, NEW v \in Val, Replace(k, v)
          PROVE  FALSE
      BY <2>1, <2>4, ExactAddCall, ExactOverwritten DEF Replace
    <2>5. ASSUME NEW k \in Key, Delete(k)
          PROVE  LosesChain(dict, k)
      BY <2>1, <2>5, ExactDeleted DEF Delete
    <2>6. ~ Resize
      BY <2>1, ExactExpanded DEF Resize, SuitableSizes
    <2>7. ~ (RehashStart \/ RehashLoop \/ RehashOutOfBounds \/ RehashFound \/ RehashReturn
                \/ UNCHANGED vars)
      BY DEF RehashStart, RehashLoop, RehashOutOfBounds, RehashFound, RehashReturn, vars
    <2>8. ~ (RehashSkip \/ RehashNextBucket)
      <3>1. ASSUME RehashSkip \/ RehashNextBucket
            PROVE  dict'.table = dict.table /\ dict'.used = dict.used
        BY <2>1, <3>1 DEF RehashSkip, RehashNextBucket, Sound, Good, IsDict
      <3> QED
        BY <2>2, <3>1
    <2>9. ~ RehashMove
      BY <2>1, ExactMoved DEF RehashMove, Invariant
    <2>10. ~ RehashFinish
      BY <2>1, ExactSwitched DEF RehashFinish
    <2> QED
      BY <2>3, <2>4, <2>5, <2>6, <2>7, <2>8, <2>9, <2>10 DEF ApiNext, Rehash, RehashStep
  <1> QED
    BY <1>1, ApiInvariant, PTL DEF ApiSpec, UsedExactKept

Keys(c) == {c[i].key : i \in DOMAIN c}

DistinctChain(c) == \A i, j \in DOMAIN c : c[i].key = c[j].key => i = j

Has(d, t, k) == \E b \in Buckets(d, t) : k \in Keys(d.table[t][b])

(* UniqueKeys in the form that one operation on one chain restores: the    *)
(* bucket of a key being known, it says nothing of two chains of a table.  *)
Distinct(d) ==
    /\ \A t \in Tables : \A b \in Buckets(d, t) : DistinctChain(d.table[t][b])
    /\ \A k \in Key : ~ (Has(d, 0, k) /\ Has(d, 1, k))

-------------------------------------------------------------------------------
(* Chains. *)

LEMMA ConsKeys ==
    ASSUME NEW n \in Entry, NEW c \in Seq(Entry)
    PROVE  /\ Keys(<<n>> \o c) = Keys(c) \cup {n.key}
           /\ DistinctChain(c) /\ n.key \notin Keys(c) => DistinctChain(<<n>> \o c)
  <1> DEFINE e == <<n>> \o c
  <1>1. /\ DOMAIN e = 1 .. Len(c) + 1 /\ e[1] = n
        /\ \A i \in 2 .. Len(c) + 1 : e[i] = c[i - 1]
    BY ConsChain
  <1> HIDE DEF e
  <1>2. DOMAIN c = 1 .. Len(c) /\ Len(c) \in Nat
    OBVIOUS
  <1>3. \A i \in DOMAIN e : i = 1 \/ (i - 1 \in DOMAIN c /\ e[i] = c[i - 1])
    BY <1>1, <1>2
  <1>4. \A i \in DOMAIN c : i + 1 \in DOMAIN e /\ e[i + 1] = c[i]
    BY <1>1, <1>2
  <1>5. Keys(e) = Keys(c) \cup {n.key}
    <2>1. Keys(e) \subseteq Keys(c) \cup {n.key}
      BY <1>1, <1>3 DEF Keys
    <2>2. n.key \in Keys(e)
      BY <1>1, <1>2 DEF Keys
    <2>3. Keys(c) \subseteq Keys(e)
      BY <1>4 DEF Keys
    <2> QED
      BY <2>1, <2>2, <2>3
  <1>6. ASSUME DistinctChain(c), n.key \notin Keys(c) PROVE DistinctChain(e)
    <2> SUFFICES ASSUME NEW i \in DOMAIN e, NEW j \in DOMAIN e, e[i].key = e[j].key
                 PROVE  i = j
      BY DEF DistinctChain
    <2>1. i \in Nat /\ j \in Nat
      BY <1>1, <1>2
    <2>2. CASE i = 1 \/ j = 1
      BY <1>1, <1>3, <1>6, <2>2 DEF Keys
    <2>3. CASE i # 1 /\ j # 1
      <3>1. i - 1 = j - 1
        BY <1>3, <1>6, <2>3 DEF DistinctChain
      <3> QED
        BY <2>1, <3>1
    <2> QED
      BY <2>2, <2>3
  <1> QED
    BY <1>5, <1>6 DEF e

LEMMA TailKeys ==
    ASSUME NEW c \in Seq(Entry), c # <<>>
    PROVE  /\ Keys(c) = Keys(Tail(c)) \cup {Head(c).key}
           /\ DistinctChain(c) => /\ DistinctChain(Tail(c))
                                  /\ Head(c).key \notin Keys(Tail(c))
  <1> DEFINE e == Tail(c)
  <1>1. /\ Head(c) = c[1] /\ DOMAIN e = 1 .. Len(c) - 1
        /\ \A i \in 1 .. Len(c) - 1 : e[i] = c[i + 1]
    BY TailChain
  <1> HIDE DEF e
  <1>2. DOMAIN c = 1 .. Len(c) /\ Len(c) \in Nat \ {0}
    OBVIOUS
  <1>3. \A i \in DOMAIN e : i \in Nat \ {0} /\ i + 1 \in DOMAIN c /\ e[i] = c[i + 1]
    BY <1>1, <1>2
  <1>4. \A i \in DOMAIN c : i = 1 \/ (i - 1 \in DOMAIN e /\ e[i - 1] = c[i])
    BY <1>1, <1>2
  <1>5. Keys(c) = Keys(e) \cup {Head(c).key}
    <2>1. Keys(c) \subseteq Keys(e) \cup {Head(c).key}
      BY <1>1, <1>4 DEF Keys
    <2>2. Head(c).key \in Keys(c)
      BY <1>1, <1>2 DEF Keys
    <2>3. Keys(e) \subseteq Keys(c)
      BY <1>3 DEF Keys
    <2> QED
      BY <2>1, <2>2, <2>3
  <1>6. ASSUME DistinctChain(c) PROVE DistinctChain(e) /\ Head(c).key \notin Keys(e)
    <2>1. ASSUME NEW i \in DOMAIN e, NEW j \in DOMAIN e, e[i].key = e[j].key
          PROVE  i = j
      <3>1. i + 1 = j + 1
        BY <1>3, <1>6, <2>1 DEF DistinctChain
      <3> QED
        BY <1>3, <3>1
    <2>2. ASSUME NEW i \in DOMAIN e, e[i].key = c[1].key PROVE FALSE
      <3>1. i + 1 = 1
        BY <1>2, <1>3, <1>6, <2>2 DEF DistinctChain
      <3> QED
        BY <1>3, <3>1
    <2> QED
      BY <1>1, <2>1, <2>2 DEF DistinctChain, Keys
  <1> QED
    BY <1>5, <1>6 DEF e

(* What dictDelete leaves of a chain; all the other keys, unless the key   *)
(* was at its head.                                                        *)
LEMMA UnlinkedKeys ==
    ASSUME NEW c \in Seq(Entry), NEW k, Matches(c, k) # {}
    PROVE  /\ Keys(Unlinked(c, k)) \subseteq Keys(c)
           /\ FirstMatch(c, k) # 1 => Keys(c) \ {k} \subseteq Keys(Unlinked(c, k))
           /\ DistinctChain(c) => DistinctChain(Unlinked(c, k))
  <1> DEFINE m == FirstMatch(c, k)
             e == RemoveAt(c, m)
  <1>1. m \in DOMAIN c /\ c[m].key = k
    BY FirstMatchIsMatch DEF Matches
  <1>2. CASE m = 1
    <2>1. Unlinked(c, k) = <<>>
      BY <1>2 DEF Unlinked
    <2> QED
      BY <1>2, <2>1 DEF Keys, DistinctChain
  <1>3. CASE m # 1
    <2>1. Unlinked(c, k) = e
      BY <1>3 DEF Unlinked
    <2> HIDE DEF m
    <2>2. /\ DOMAIN e = 1 .. Len(c) - 1
          /\ \A i \in 1 .. Len(c) - 1 : e[i] = IF i < m THEN c[i] ELSE c[i + 1]
      BY <1>1, RemoveAtChain
    <2>3. DOMAIN c = 1 .. Len(c) /\ Len(c) \in Nat /\ m \in Nat
      BY <1>1
    <2> DEFINE from(i) == IF i < m THEN i ELSE i + 1
    <2>4. \A i \in DOMAIN e : i \in Nat /\ from(i) \in DOMAIN c /\ e[i] = c[from(i)]
      BY <2>2, <2>3
    <2> HIDE DEF e
    <2>5. Keys(e) \subseteq Keys(c)
      BY <2>4 DEF Keys
    <2>6. \A j \in DOMAIN c : j # m => \E i \in DOMAIN e : from(i) = j
      <3> SUFFICES ASSUME NEW j \in DOMAIN c, j # m
                   PROVE  \E i \in DOMAIN e : from(i) = j
        OBVIOUS
      <3>1. CASE j < m
        <4>1. j \in DOMAIN e /\ from(j) = j
          BY <1>1, <2>2, <2>3, <3>1
        <4> QED
          BY <4>1
      <3>2. CASE j > m
        <4>1. j - 1 \in DOMAIN e /\ from(j - 1) = j
          BY <1>1, <2>2, <2>3, <3>2
        <4> QED
          BY <4>1
      <3> QED
        BY <2>3, <3>1, <3>2
    <2>7. \A i, j \in DOMAIN e : from(i) = from(j) => i = j
      BY <2>3, <2>4
    <2> HIDE DEF from
    <2>8. Keys(c) \ {k} \subseteq Keys(e)
      BY <1>1, <2>4, <2>6 DEF Keys
    <2>9. DistinctChain(c) => DistinctChain(e)
      BY <2>4, <2>7 DEF DistinctChain
    <2> QED
      BY <2>1, <2>5, <2>8, <2>9
  <1> QED
    BY <1>2, <1>3

(* Where each key is held once, the one deleted is gone. *)
LEMMA UnlinkedKeysGone ==
    ASSUME NEW c \in Seq(Entry), NEW k, Matches(c, k) # {}, DistinctChain(c)
    PROVE  k \notin Keys(Unlinked(c, k))
  <1> DEFINE m == FirstMatch(c, k)
             e == RemoveAt(c, m)
  <1>1. m \in DOMAIN c /\ c[m].key = k
    BY FirstMatchIsMatch DEF Matches
  <1>2. CASE m = 1
    BY <1>2 DEF Unlinked, Keys
  <1>3. CASE m # 1
    <2>1. Unlinked(c, k) = e
      BY <1>3 DEF Unlinked
    <2> HIDE DEF m
    <2>2. /\ DOMAIN e = 1 .. Len(c) - 1
          /\ \A i \in 1 .. Len(c) - 1 : e[i] = IF i < m THEN c[i] ELSE c[i + 1]
      BY <1>1, RemoveAtChain
    <2> HIDE DEF e
    <2>3. ASSUME NEW i \in DOMAIN e, e[i].key = k PROVE FALSE
      <3>1. DOMAIN c = 1 .. Len(c) /\ Len(c) \in Nat /\ m \in Nat
        BY <1>1
      <3>2. CASE i < m
        <4>1. i \in DOMAIN c /\ c[i].key = k
          BY <2>2, <2>3, <3>1, <3>2
        <4>2. i = m
          BY <1>1, <4>1 DEF DistinctChain
        <4> QED
          BY <3>1, <3>2, <4>2
      <3>3. CASE ~ i < m
        <4>1. i + 1 \in DOMAIN c /\ c[i + 1].key = k
          BY <2>2, <2>3, <3>1, <3>3
        <4>2. i + 1 = m
          BY <1>1, <4>1 DEF DistinctChain
        <4> QED
          BY <2>2, <3>1, <3>3, <4>2
      <3> QED
        BY <3>2, <3>3
    <2> QED
      BY <2>1, <2>3 DEF Keys
  <1> QED
    BY <1>2, <1>3

-------------------------------------------------------------------------------
(* Keys and what dictFind makes of them. *)

LEMMA KeysAreKeys ==
    ASSUME NEW d, IsDict(d), NEW t \in Tables, NEW k, Has(d, t, k)
    PROVE  k \in Key
  <1>1. PICK b \in Buckets(d, t) : k \in Keys(d.table[t][b])
    BY DEF Has
  <1> DEFINE c == d.table[t][b]
  <1>2. c \in Seq(Entry)
    BY DEF IsDict
  <1>3. PICK i \in DOMAIN c : c[i].key = k
    BY <1>1 DEF Keys
  <1> HIDE DEF c
  <1>4. c[i] \in Entry
    BY <1>2, <1>3
  <1> QED
    BY <1>3, <1>4 DEF Entry

(* dictFind looks where the key is, if it is anywhere. *)
LEMMA HasHolder ==
    ASSUME NEW d, Good(d), NEW k \in Key, NEW t \in Tables
    PROVE  Has(d, t, k) <=> t \in Holders(d, k)
  <1>1. ASSUME Has(d, t, k) PROVE t \in Holders(d, k)
    <2>1. PICK b \in Buckets(d, t) : k \in Keys(d.table[t][b])
      BY <1>1 DEF Has
    <2>2. d.size[t] # 0 /\ d.size[t] \in Nat
      BY DictAssumption DEF Buckets, Good, IsDict
    <2>3. t \in Searched(d)
      BY <2>2 DEF Good, Shaped, Searched, Tables
    <2>4. b = Bucket(d, t, k) /\ Matches(d.table[t][b], k) # {}
      <3>1. PICK i \in DOMAIN d.table[t][b] : d.table[t][b][i].key = k
        BY <2>1 DEF Keys
      <3> QED
        BY <3>1 DEF Good, WellPlaced, Matches
    <2> QED
      BY <2>3, <2>4 DEF Holders, Chain
  <1>2. ASSUME t \in Holders(d, k) PROVE Has(d, t, k)
    <2> DEFINE b == Bucket(d, t, k)
    <2>1. b = Bucket(d, t, k)
      OBVIOUS
    <2> HIDE DEF b
    <2>2. b \in Buckets(d, t) /\ Matches(d.table[t][b], k) # {}
      BY <1>2, <2>1, HolderFacts
    <2> QED
      BY <2>2 DEF Has, Keys, Matches
  <1> QED
    BY <1>1, <1>2

LEMMA HoldersAreTables ==
    ASSUME NEW d, NEW k
    PROVE  Holders(d, k) \subseteq Tables
  BY DEF Holders, Searched, Tables

LEMMA HolderHolds ==
    ASSUME NEW d, NEW k, Holders(d, k) # {}
    PROVE  Holder(d, k) \in Holders(d, k)
  BY HoldersAreTables DEF Holder, Tables

(* dictFind fails exactly when no table has the key. *)
LEMMA ValueAbsent ==
    ASSUME NEW d, Good(d), NEW k \in Key
    PROVE  /\ Value(d, k) = NoVal <=> Holders(d, k) = {}
           /\ Value(d, k) # NoVal <=> \E t \in Tables : Has(d, t, k)
  <1>1. ASSUME Holders(d, k) # {} PROVE Value(d, k) # NoVal
    <2> DEFINE t == Holder(d, k)
               b == Bucket(d, t, k)
               c == d.table[t][b]
               m == FirstMatch(c, k)
    <2>1. Value(d, k) = c[m].val
      BY <1>1 DEF Value, Chain
    <2>2. t \in Holders(d, k)
      BY <1>1, HolderHolds
    <2> HIDE DEF t
    <2>3. b = Bucket(d, t, k)
      OBVIOUS
    <2> HIDE DEF b
    <2>4. c \in Seq(Entry) /\ m \in DOMAIN c
      BY <2>2, <2>3, HolderFacts
    <2> HIDE DEF c, m
    <2>5. c[m] \in Entry
      BY <2>4
    <2> QED
      BY <2>1, <2>5, DictAssumption DEF Entry
  <1>2. Holders(d, k) = {} => Value(d, k) = NoVal
    BY DEF Value
  <1>3. Holders(d, k) # {} <=> \E t \in Tables : Has(d, t, k)
    BY HasHolder, HoldersAreTables
  <1> QED
    BY <1>1, <1>2, <1>3

(* The form of Distinct gives the property. *)
LEMMA DistinctUnique ==
    ASSUME NEW d, Good(d), Distinct(d)
    PROVE  UniqueKeys(d)
  <1> SUFFICES ASSUME NEW t \in Tables, NEW u \in Tables,
                      NEW b \in Buckets(d, t), NEW c \in Buckets(d, u),
                      NEW i \in DOMAIN d.table[t][b], NEW j \in DOMAIN d.table[u][c],
                      d.table[t][b][i].key = d.table[u][c][j].key
               PROVE  t = u /\ b = c /\ i = j
    BY DEF UniqueKeys
  <1> DEFINE k == d.table[t][b][i].key
  <1>1. Has(d, t, k) /\ Has(d, u, k)
    BY DEF Has, Keys
  <1>2. k \in Key
    BY <1>1, KeysAreKeys DEF Good
  <1>3. t = u
    BY <1>1, <1>2 DEF Distinct, Tables
  <1>4. b = c
    BY <1>3 DEF Good, WellPlaced
  <1> QED
    BY <1>3, <1>4 DEF Distinct, DistinctChain

(* Where no key is held twice, dictFind finds every entry. *)
LEMMA UniqueFound ==
    ASSUME NEW d, Good(d), Distinct(d),
           NEW t \in Tables, NEW b \in Buckets(d, t), NEW i \in DOMAIN d.table[t][b]
    PROVE  Value(d, d.table[t][b][i].key) = d.table[t][b][i].val
  <1> DEFINE c == d.table[t][b]
             k == c[i].key
             m == FirstMatch(c, k)
  <1>1. Has(d, t, k)
    BY DEF Has, Keys
  <1>2. k \in Key
    BY <1>1, KeysAreKeys DEF Good
  <1>3. t \in Holders(d, k) /\ b = Bucket(d, t, k)
    BY <1>1, <1>2, HasHolder DEF Good, WellPlaced
  <1>4. Holder(d, k) = t
    <2>1. Holder(d, k) \in Holders(d, k)
      BY <1>3, HolderHolds
    <2>2. Holder(d, k) \in Tables
      BY <2>1, HoldersAreTables
    <2>3. Has(d, Holder(d, k), k)
      BY <1>2, <2>1, <2>2, HasHolder
    <2> QED
      BY <1>1, <1>2, <2>2, <2>3 DEF Distinct, Tables
  <1>5. Value(d, k) = c[m].val
    BY <1>3, <1>4 DEF Value, Chain
  <1>6. m \in DOMAIN c /\ c[m].key = k
    <2> HIDE DEF k
    <2> QED
      BY <1>2, <1>3, HolderFacts
  <1>7. m = i
    BY <1>6 DEF Distinct, DistinctChain
  <1> QED
    BY <1>5, <1>7

-------------------------------------------------------------------------------
(* The keys of each table after each operation. *)

(* One chain changes: the keys of its table are those of its other chains  *)
(* and its own.                                                            *)
LEMMA OneChainKeys ==
    ASSUME NEW d, Good(d), NEW e, Good(e), e.size = d.size,
           NEW t \in Tables, NEW b \in Buckets(d, t),
           \A r \in Tables : \A a \in Buckets(d, r) :
               r # t \/ a # b => e.table[r][a] = d.table[r][a],
           NEW k \in Key
    PROVE  /\ \A r \in Tables \ {t} : Has(e, r, k) <=> Has(d, r, k)
           /\ Bucket(d, t, k) # b => (Has(e, t, k) <=> Has(d, t, k))
           /\ Bucket(d, t, k) = b => /\ Has(e, t, k) <=> k \in Keys(e.table[t][b])
                                     /\ Has(d, t, k) <=> k \in Keys(d.table[t][b])
  <1>1. \A r \in Tables : Buckets(e, r) = Buckets(d, r) /\ Bucket(e, r, k) = Bucket(d, r, k)
    BY DEF Buckets, Bucket
  <1>2. \A r \in Tables : \A a \in Buckets(d, r) :
            /\ k \in Keys(d.table[r][a]) => a = Bucket(d, r, k)
            /\ k \in Keys(e.table[r][a]) => a = Bucket(d, r, k)
    BY <1>1 DEF Good, WellPlaced, Keys
  <1> QED
    BY <1>1, <1>2 DEF Has

(* dictExpand adds a table without keys. *)
LEMMA ExpandedKeys ==
    ASSUME NEW d, Good(d), ~Rehashing(d), NEW s \in TableSizes
    PROVE  /\ \A t \in Tables, k \in Key : Has(Expanded(d, s), t, k) <=> Has(d, t, k)
           /\ Distinct(d) => Distinct(Expanded(d, s))
  <1> DEFINE e == Expanded(d, s)
             n == IF d.size[0] = 0 THEN 0 ELSE 1
  <1>1. s \in Nat
    BY DictAssumption
  <1>2. /\ n \in Tables /\ d.size[n] = 0
        /\ e.table[n] = EmptyTable(s) /\ e.size[n] = s
        /\ \A r \in Tables \ {n} : e.table[r] = d.table[r] /\ e.size[r] = d.size[r]
    <2>1. d.size[1] = 0
      BY DEF Good, Shaped
    <2>2. CASE d.size[0] = 0
      BY <2>1, <2>2 DEF Expanded, Good, IsDict, Tables
    <2>3. CASE d.size[0] # 0
      BY <2>1, <2>3 DEF Expanded, Good, IsDict, Tables
    <2> QED
      BY <2>2, <2>3
  <1> HIDE DEF e, n
  <1>3. \A b \in Buckets(e, n) : e.table[n][b] = <<>>
    BY <1>1, <1>2, EmptyTableType DEF Buckets
  <1>4. Buckets(d, n) = {}
    BY <1>2 DEF Buckets
  <1>5. \A r \in Tables \ {n} : Buckets(e, r) = Buckets(d, r)
    BY <1>2 DEF Buckets
  <1>6. ASSUME NEW t \in Tables, NEW k \in Key PROVE Has(e, t, k) <=> Has(d, t, k)
    <2>1. CASE t = n
      BY <1>3, <1>4, <2>1 DEF Has, Keys
    <2>2. CASE t # n
      BY <1>2, <1>5, <2>2 DEF Has
    <2> QED
      BY <2>1, <2>2
  <1>7. ASSUME Distinct(d) PROVE Distinct(e)
    <2>1. ASSUME NEW t \in Tables, NEW b \in Buckets(e, t)
          PROVE  DistinctChain(e.table[t][b])
      <3>1. CASE t = n
        BY <1>3, <3>1, <2>1 DEF DistinctChain
      <3>2. CASE t # n
        BY <1>2, <1>5, <1>7, <2>1, <3>2 DEF Distinct
      <3> QED
        BY <3>1, <3>2
    <2> QED
      BY <1>6, <1>7, <2>1 DEF Distinct, Tables
  <1> QED
    BY <1>6, <1>7 DEF e

(* The chains after dictAdd. *)
LEMMA InsertedChains ==
    ASSUME NEW d, Good(d), NEW k \in Key, NEW v \in Val,
           Target(d) \in Tables, Bucket(d, Target(d), k) \in Buckets(d, Target(d))
    PROVE  /\ Inserted(d, k, v).size = d.size
           /\ Inserted(d, k, v).table[Target(d)][Bucket(d, Target(d), k)]
                  = <<[key |-> k, val |-> v]>>
                        \o d.table[Target(d)][Bucket(d, Target(d), k)]
           /\ \A r \in Tables : \A a \in Buckets(d, r) :
                  r # Target(d) \/ a # Bucket(d, Target(d), k)
                      => Inserted(d, k, v).table[r][a] = d.table[r][a]
  <1> DEFINE t == Target(d)
             b == Bucket(d, t, k)
             n == [key |-> k, val |-> v]
             old == d.table[t][b]
             e == Inserted(d, k, v)
  <1>1. t \in Tables /\ b \in Buckets(d, t)
    OBVIOUS
  <1> HIDE DEF t, b, n, old
  <1>2. e.table = [d.table EXCEPT ![t][b] = <<n>> \o old] /\ e.size = d.size
    BY DEF Inserted, SetHt, t, b, n, old
  <1> HIDE DEF e
  <1>3. /\ e.size = d.size
        /\ e.table[t][b] = <<n>> \o old
        /\ \A r \in Tables : \A a \in Buckets(d, r) :
                r # t \/ a # b => e.table[r][a] = d.table[r][a]
    BY <1>1, <1>2 DEF Good, IsDict
  <1> QED
    BY <1>3 DEF t, b, n, old, e

(* dictAdd adds its key to one table, which did not have it. *)
LEMMA InsertedKeys ==
    ASSUME NEW d, Sound(d), d.size[0] # 0, NEW k \in Key, NEW v \in Val
    PROVE  /\ \A t \in Tables, j \in Key :
                  Has(Inserted(d, k, v), t, j)
                      <=> Has(d, t, j) \/ (t = Target(d) /\ j = k)
           /\ Distinct(d) /\ Holders(d, k) = {} => Distinct(Inserted(d, k, v))
  <1> DEFINE t == Target(d)
             b == Bucket(d, t, k)
             n == [key |-> k, val |-> v]
             e == Inserted(d, k, v)
  <1>1. Good(d) /\ Good(e)
    BY InsertedSound DEF Sound
  <1>2. t \in Tables /\ b \in Buckets(d, t)
    BY <1>1, TargetIsTable, BucketInRange DEF Good
  <1>3. n \in Entry /\ n.key = k /\ d.table[t][b] \in Seq(Entry)
    BY <1>1, <1>2 DEF Entry, Good, IsDict
  <1>4. /\ e.size = d.size
        /\ e.table[t][b] = <<n>> \o d.table[t][b]
        /\ \A r \in Tables : \A a \in Buckets(d, r) :
                r # t \/ a # b => e.table[r][a] = d.table[r][a]
    BY <1>1, <1>2, InsertedChains
  <1>5. b = Bucket(d, t, k)
    OBVIOUS
  <1> HIDE DEF e, n, t, b
  <1>6. /\ Keys(e.table[t][b]) = Keys(d.table[t][b]) \cup {k}
        /\ DistinctChain(d.table[t][b]) /\ k \notin Keys(d.table[t][b])
               => DistinctChain(e.table[t][b])
    BY <1>3, <1>4, ConsKeys
  <1>7. ASSUME NEW r \in Tables, NEW j \in Key
        PROVE  Has(e, r, j) <=> Has(d, r, j) \/ (r = t /\ j = k)
    <2>1. /\ \A q \in Tables \ {t} : Has(e, q, j) <=> Has(d, q, j)
          /\ Bucket(d, t, j) # b => (Has(e, t, j) <=> Has(d, t, j))
          /\ Bucket(d, t, j) = b => /\ Has(e, t, j) <=> j \in Keys(e.table[t][b])
                                    /\ Has(d, t, j) <=> j \in Keys(d.table[t][b])
      BY <1>1, <1>2, <1>4, OneChainKeys
    <2>2. CASE r = t
      BY <1>5, <1>6, <2>1, <2>2
    <2>3. CASE r # t
      BY <2>1, <2>3
    <2> QED
      BY <2>2, <2>3
  <1>8. ASSUME Distinct(d), Holders(d, k) = {} PROVE Distinct(e)
    <2>1. \A r \in Tables : ~Has(d, r, k)
      BY <1>1, <1>8, HasHolder
    <2>2. ASSUME NEW r \in Tables, NEW a \in Buckets(e, r)
          PROVE  DistinctChain(e.table[r][a])
      <3>1. a \in Buckets(d, r)
        BY <1>4 DEF Buckets
      <3>2. CASE r = t /\ a = b
        <4>1. k \notin Keys(d.table[t][b])
          BY <1>2, <2>1 DEF Has
        <4> QED
          BY <1>2, <1>6, <1>8, <3>2, <4>1 DEF Distinct
      <3>3. CASE r # t \/ a # b
        BY <1>4, <1>8, <3>1, <3>3 DEF Distinct
      <3> QED
        BY <3>2, <3>3
    <2>3. ASSUME NEW j \in Key PROVE ~ (Has(e, 0, j) /\ Has(e, 1, j))
      BY <1>2, <1>7, <1>8, <2>1 DEF Distinct, Tables
    <2> QED
      BY <2>2, <2>3 DEF Distinct
  <1> QED
    BY <1>7, <1>8 DEF e, t

(* The place where dictFind finds k. *)
HolderBucket(d, k) == Bucket(d, Holder(d, k), k)

HolderPlace(d, k) == FirstMatch(d.table[Holder(d, k)][HolderBucket(d, k)], k)

(* The chains after dictReplace has found its key. *)
LEMMA OverwrittenChains ==
    ASSUME NEW d, Good(d), NEW k \in Key, NEW v \in Val, Holders(d, k) # {}
    PROVE  /\ Holder(d, k) \in Tables
           /\ HolderBucket(d, k) \in Buckets(d, Holder(d, k))
           /\ d.table[Holder(d, k)][HolderBucket(d, k)] \in Seq(Entry)
           /\ HolderPlace(d, k) \in DOMAIN d.table[Holder(d, k)][HolderBucket(d, k)]
           /\ d.table[Holder(d, k)][HolderBucket(d, k)][HolderPlace(d, k)].key = k
           /\ Overwritten(d, k, v).size = d.size
           /\ Overwritten(d, k, v).table[Holder(d, k)][HolderBucket(d, k)] =
                  [d.table[Holder(d, k)][HolderBucket(d, k)]
                      EXCEPT ![HolderPlace(d, k)].val = v]
           /\ \A r \in Tables : \A a \in Buckets(d, r) :
                  r # Holder(d, k) \/ a # HolderBucket(d, k) =>
                      Overwritten(d, k, v).table[r][a] = d.table[r][a]
  <1> DEFINE t == Holder(d, k)
             b == HolderBucket(d, k)
             m == HolderPlace(d, k)
             e == Overwritten(d, k, v)
  <1>1. /\ e.table = [d.table EXCEPT ![t][b][m].val = v] /\ e.size = d.size
        /\ b = Bucket(d, t, k) /\ m = FirstMatch(d.table[t][b], k)
    BY DEF Overwritten, SetHt, HolderBucket, HolderPlace
  <1>2. t \in Holders(d, k)
    BY HolderHolds
  <1> HIDE DEF t, b, m, e
  <1>3. /\ t \in Tables /\ b \in Buckets(d, t) /\ d.table[t][b] \in Seq(Entry)
        /\ m \in DOMAIN d.table[t][b] /\ d.table[t][b][m].key = k
    BY <1>1, <1>2, HolderFacts
  <1>4. /\ e.table[t][b] = [d.table[t][b] EXCEPT ![m].val = v]
        /\ \A r \in Tables : \A a \in Buckets(d, r) :
               r # t \/ a # b => e.table[r][a] = d.table[r][a]
    BY <1>1, <1>3 DEF Good, IsDict
  <1> QED
    BY <1>1, <1>3, <1>4 DEF t, b, m, e

(* dictReplace of a key that is there changes no key. *)
LEMMA OverwrittenKeys ==
    ASSUME NEW d, Sound(d), NEW k \in Key, NEW v \in Val, Holders(d, k) # {}
    PROVE  /\ \A t \in Tables, j \in Key :
                  Has(Overwritten(d, k, v), t, j) <=> Has(d, t, j)
           /\ Distinct(d) => Distinct(Overwritten(d, k, v))
  <1> DEFINE t == Holder(d, k)
             b == HolderBucket(d, k)
             old == d.table[t][b]
             m == HolderPlace(d, k)
             e == Overwritten(d, k, v)
  <1>1. /\ old \in Seq(Entry) /\ m \in DOMAIN old /\ e.size = d.size
        /\ e.table[t][b] = [old EXCEPT ![m].val = v]
        /\ \A r \in Tables : \A a \in Buckets(d, r) :
               r # t \/ a # b => e.table[r][a] = d.table[r][a]
    BY OverwrittenChains DEF Sound
  <1>2. old = d.table[t][b]
    OBVIOUS
  <1> HIDE DEF t, b, m, e, old
  <1>3. \A r \in Tables : \A a \in Buckets(d, r) :
            /\ DOMAIN e.table[r][a] = DOMAIN d.table[r][a]
            /\ \A i \in DOMAIN d.table[r][a] :
                   e.table[r][a][i].key = d.table[r][a][i].key
    <2> DEFINE c == [old EXCEPT ![m].val = v]
    <2>1. \A i \in DOMAIN old : old[i] \in Entry
      BY <1>1
    <2>2. DOMAIN c = DOMAIN old /\ \A i \in DOMAIN old : c[i].key = old[i].key
      BY <1>1, <2>1 DEF Entry
    <2> HIDE DEF c
    <2>3. e.table[t][b] = c
      BY <1>1 DEF c
    <2> QED
      BY <1>1, <1>2, <2>2, <2>3
  <1>4. \A r \in Tables : Buckets(e, r) = Buckets(d, r)
    BY <1>1 DEF Buckets
  <1>5. ASSUME NEW r \in Tables, NEW a \in Buckets(d, r)
        PROVE  /\ Keys(e.table[r][a]) = Keys(d.table[r][a])
               /\ DistinctChain(d.table[r][a]) => DistinctChain(e.table[r][a])
    BY <1>3 DEF Keys, DistinctChain
  <1>6. \A r \in Tables, j \in Key : Has(e, r, j) <=> Has(d, r, j)
    BY <1>4, <1>5 DEF Has
  <1>7. Distinct(d) => Distinct(e)
    BY <1>4, <1>5, <1>6 DEF Distinct, Tables
  <1> QED
    BY <1>6, <1>7 DEF e

(* dictDelete adds no key, and takes another one than k only with a chain  *)
(* that k heads.                                                           *)
LEMMA DeletedKeys ==
    ASSUME NEW d, Sound(d), NEW k \in Key
    PROVE  /\ \A t \in Tables, j \in Key :
                  /\ Has(Deleted(d, k), t, j) => Has(d, t, j)
                  /\ Has(d, t, j) /\ j # k /\ ~Has(Deleted(d, k), t, j) =>
                         /\ t \in Holders(d, k)
                         /\ Bucket(d, t, k) = Bucket(d, t, j)
                         /\ FirstMatch(Chain(d, t, k), k) = 1
           /\ Distinct(d) => /\ Distinct(Deleted(d, k))
                             /\ \A t \in Tables : ~Has(Deleted(d, k), t, k)
  <1> DEFINE e == Deleted(d, k)
             H == Holders(d, k)
  <1>1. Good(d) /\ Good(e) /\ IsDict(d)
    BY DeletedSound DEF Sound, Good
  <1>2. /\ e.size = d.size
        /\ \A t \in Tables : e.table[t] =
               IF t \in H
               THEN [d.table[t] EXCEPT ![Bucket(d, t, k)] = Unlinked(@, k)]
               ELSE d.table[t]
    BY DEF Deleted, SetHt, Tables
  <1>3. \A t \in Tables : Buckets(e, t) = Buckets(d, t)
    BY <1>2 DEF Buckets
  <1> HIDE DEF e, H
  <1>4. ASSUME NEW t \in H, NEW b, b = Bucket(d, t, k)
        PROVE  /\ t \in Tables /\ b \in Buckets(d, t)
               /\ d.table[t][b] \in Seq(Entry) /\ Matches(d.table[t][b], k) # {}
               /\ e.table[t][b] = Unlinked(d.table[t][b], k)
               /\ \A a \in Buckets(d, t) : a # b => e.table[t][a] = d.table[t][a]
    <2>1. /\ t \in Tables /\ b \in Buckets(d, t)
          /\ d.table[t][b] \in Seq(Entry) /\ Matches(d.table[t][b], k) # {}
      BY <1>1, <1>4, HolderFacts DEF H
    <2>2. e.table[t] = [d.table[t] EXCEPT ![b] = Unlinked(@, k)]
      BY <1>2, <1>4, <2>1
    <2> QED
      BY <1>1, <2>1, <2>2 DEF IsDict
  <1>5. ASSUME NEW t \in Tables, t \notin H
        PROVE  \A a \in Buckets(d, t) : e.table[t][a] = d.table[t][a]
    BY <1>2, <1>5
  <1>6. ASSUME NEW t \in Tables, NEW a \in Buckets(d, t)
        PROVE  /\ Keys(e.table[t][a]) \subseteq Keys(d.table[t][a])
               /\ DistinctChain(d.table[t][a]) => DistinctChain(e.table[t][a])
    <2>1. CASE t \in H /\ a = Bucket(d, t, k)
      BY <1>4, <2>1, UnlinkedKeys
    <2>2. CASE ~ (t \in H /\ a = Bucket(d, t, k))
      <3>1. e.table[t][a] = d.table[t][a]
        BY <1>4, <1>5, <2>2
      <3> QED
        BY <3>1
    <2> QED
      BY <2>1, <2>2
  <1>7. ASSUME NEW t \in Tables, NEW j \in Key PROVE Has(e, t, j) => Has(d, t, j)
    BY <1>3, <1>6 DEF Has
  <1>8. ASSUME NEW t \in Tables, NEW j \in Key, Has(d, t, j), j # k, ~Has(e, t, j)
        PROVE  /\ t \in H /\ Bucket(d, t, k) = Bucket(d, t, j)
               /\ FirstMatch(Chain(d, t, k), k) = 1
    <2>1. PICK a \in Buckets(d, t) : j \in Keys(d.table[t][a])
      BY <1>8 DEF Has
    <2>2. j \notin Keys(e.table[t][a])
      BY <1>3, <1>8, <2>1 DEF Has
    <2>3. t \in H /\ a = Bucket(d, t, k)
      BY <1>4, <1>5, <2>1, <2>2
    <2>4. a = Bucket(d, t, j)
      BY <1>1, <2>1 DEF Good, WellPlaced, Keys
    <2>5. FirstMatch(d.table[t][a], k) = 1
      BY <1>4, <1>8, <2>1, <2>2, <2>3, UnlinkedKeys
    <2> QED
      BY <2>3, <2>4, <2>5 DEF Chain
  <1>9. ASSUME Distinct(d) PROVE Distinct(e)
    <2>1. \A t \in Tables : \A a \in Buckets(e, t) : DistinctChain(e.table[t][a])
      BY <1>3, <1>6, <1>9 DEF Distinct
    <2> QED
      BY <1>7, <1>9, <2>1 DEF Distinct, Tables
  <1>10. ASSUME Distinct(d), NEW t \in Tables, Has(e, t, k) PROVE FALSE
    <2>1. t \in H
      BY <1>1, <1>7, <1>10, HasHolder DEF H
    <2>2. PICK a \in Buckets(d, t) : k \in Keys(e.table[t][a])
      BY <1>3, <1>10 DEF Has
    <2> DEFINE b == Bucket(d, t, k)
    <2>3. a = b
      <3>1. k \in Keys(d.table[t][a])
        BY <1>6, <2>2
      <3> QED
        BY <1>1, <3>1 DEF Good, WellPlaced, Keys
    <2>4. /\ d.table[t][a] \in Seq(Entry) /\ Matches(d.table[t][a], k) # {}
          /\ e.table[t][a] = Unlinked(d.table[t][a], k)
      BY <1>4, <2>1, <2>3
    <2>5. DistinctChain(d.table[t][a])
      BY <1>10 DEF Distinct
    <2> QED
      BY <2>2, <2>4, <2>5, UnlinkedKeysGone
  <1> QED
    BY <1>7, <1>8, <1>9, <1>10 DEF e, H

(* The entry that dictRehash moves next, its bucket and its new bucket. *)
Mover(d) == Head(d.table[0][d.rehashidx])

MoverFrom(d) == d.rehashidx

MoverTo(d) == Bucket(d, 1, Mover(d).key)

(* The chains after dictRehash has moved one entry. *)
LEMMA MovedChains ==
    ASSUME NEW d, Sound(d), Rehashing(d), d.rehashidx < d.size[0],
           d.table[0][d.rehashidx] # <<>>
    PROVE  /\ Good(d) /\ Good(Moved(d)) /\ Mover(d) \in Entry
           /\ MoverFrom(d) \in Buckets(d, 0) /\ MoverTo(d) \in Buckets(d, 1)
           /\ d.table[0][MoverFrom(d)] \in Seq(Entry)
           /\ d.table[0][MoverFrom(d)] # <<>>
           /\ Mover(d) = Head(d.table[0][MoverFrom(d)])
           /\ d.table[1][MoverTo(d)] \in Seq(Entry)
           /\ Moved(d).size = d.size
           /\ Moved(d).table[1][MoverTo(d)] = <<Mover(d)>> \o d.table[1][MoverTo(d)]
           /\ Moved(d).table[0][MoverFrom(d)] = Tail(d.table[0][MoverFrom(d)])
           /\ \A a \in Buckets(d, 1) :
                  a # MoverTo(d) => Moved(d).table[1][a] = d.table[1][a]
           /\ \A a \in Buckets(d, 0) :
                  a # MoverFrom(d) => Moved(d).table[0][a] = d.table[0][a]
  <1> DEFINE x == MoverFrom(d)
             n == Mover(d)
             b == MoverTo(d)
             old == d.table[0][x]
             e == Moved(d)
  <1>1. Good(d) /\ Good(e) /\ IsDict(d)
    BY MovedSound DEF Sound, Good
  <1>2. d.size[1] # 0 /\ x \in Buckets(d, 0) /\ 0 \in Tables /\ 1 \in Tables
    BY <1>1, DictAssumption
       DEF Good, Shaped, Rehashing, IsDict, Buckets, Tables, MoverFrom
  <1>3. old \in Seq(Entry) /\ old # <<>>
    BY <1>1, <1>2 DEF IsDict, MoverFrom
  <1>4. /\ e.size = d.size
        /\ e.table = [d.table EXCEPT ![1][b] = <<n>> \o @, ![0][x] = Tail(old)]
        /\ b = Bucket(d, 1, n.key)
        /\ n = Head(old)
    BY DEF Moved, SetHt, Mover, MoverFrom, MoverTo
  <1> HIDE DEF x, n, b, e, old
  <1>5. n \in Entry
    BY <1>3, <1>4, TailChain
  <1>6. b \in Buckets(d, 1)
    BY <1>1, <1>2, <1>4, <1>5, BucketInRange DEF Entry
  <1>7. d.table[1][b] \in Seq(Entry)
    BY <1>1, <1>2, <1>6 DEF IsDict
  <1>8. /\ e.table[1][b] = <<n>> \o d.table[1][b]
        /\ e.table[0][x] = Tail(old)
        /\ \A a \in Buckets(d, 1) : a # b => e.table[1][a] = d.table[1][a]
        /\ \A a \in Buckets(d, 0) : a # x => e.table[0][a] = d.table[0][a]
    <2> DEFINE p == Tail(old)
               q == <<n>> \o d.table[1][b]
               T == d.table
               S == e.table
    <2>1. DOMAIN T = Tables
      BY <1>1 DEF IsDict
    <2>2. S = [T EXCEPT ![1][b] = q, ![0][x] = p]
      BY <1>4
    <2> HIDE DEF p, q, S, T
    <2>3. S[0] = [T[0] EXCEPT ![x] = p] /\ S[1] = [T[1] EXCEPT ![b] = q]
      BY <2>1, <2>2 DEF Tables
    <2>4. DOMAIN d.table[0] = Buckets(d, 0) /\ DOMAIN d.table[1] = Buckets(d, 1)
      BY <1>1, <1>2 DEF IsDict
    <2> QED
      BY <1>2, <1>6, <2>3, <2>4 DEF p, q, S, T
  <1> QED
    BY <1>1, <1>2, <1>3, <1>4, <1>5, <1>6, <1>7, <1>8 DEF x, n, b, e, old

(* dictRehash moves one key from ht[0] to ht[1]. *)
LEMMA MovedKeys ==
    ASSUME NEW d, Sound(d), Rehashing(d), d.rehashidx < d.size[0],
           d.table[0][d.rehashidx] # <<>>,
           NEW k, k = Mover(d).key
    PROVE  /\ \A j : /\ Has(d, 0, j) <=> Has(Moved(d), 0, j) \/ j = k
                     /\ Has(Moved(d), 1, j) <=> Has(d, 1, j) \/ j = k
           /\ Distinct(d) => Distinct(Moved(d))
  <1> DEFINE x == MoverFrom(d)
             n == Mover(d)
             b == MoverTo(d)
             old == d.table[0][x]
             e == Moved(d)
  <1>1. n.key = k
    OBVIOUS
  <1>2. 0 \in Tables /\ 1 \in Tables
    BY DEF Tables
  <1>3. /\ Good(d) /\ Good(e) /\ n \in Entry
        /\ x \in Buckets(d, 0) /\ b \in Buckets(d, 1)
        /\ old \in Seq(Entry) /\ old # <<>> /\ n = Head(old)
        /\ d.table[1][b] \in Seq(Entry)
        /\ e.size = d.size
        /\ e.table[1][b] = <<n>> \o d.table[1][b]
        /\ e.table[0][x] = Tail(old)
        /\ \A a \in Buckets(d, 1) : a # b => e.table[1][a] = d.table[1][a]
        /\ \A a \in Buckets(d, 0) : a # x => e.table[0][a] = d.table[0][a]
    BY MovedChains
  <1> HIDE DEF e, old, x, n, b
  <1>4. k \in Key
    BY <1>1, <1>3 DEF Entry
  <1>5. /\ Keys(e.table[1][b]) = Keys(d.table[1][b]) \cup {k}
        /\ DistinctChain(d.table[1][b]) /\ k \notin Keys(d.table[1][b])
               => DistinctChain(e.table[1][b])
    BY <1>1, <1>3, ConsKeys
  <1>6. /\ Keys(d.table[0][x]) = Keys(e.table[0][x]) \cup {k}
        /\ DistinctChain(d.table[0][x]) => /\ DistinctChain(e.table[0][x])
                                           /\ k \notin Keys(e.table[0][x])
    <2>1. /\ Keys(old) = Keys(Tail(old)) \cup {Head(old).key}
          /\ DistinctChain(old) => /\ DistinctChain(Tail(old))
                                   /\ Head(old).key \notin Keys(Tail(old))
      BY <1>3, TailKeys
    <2> QED
      BY <1>1, <1>3, <2>1 DEF old
  <1>7. Buckets(e, 0) = Buckets(d, 0) /\ Buckets(e, 1) = Buckets(d, 1)
    BY <1>3 DEF Buckets
  <1>8. ASSUME NEW j PROVE Has(e, 1, j) <=> Has(d, 1, j) \/ j = k
    BY <1>3, <1>5, <1>7 DEF Has
  <1>9. ASSUME NEW j PROVE Has(d, 0, j) <=> Has(e, 0, j) \/ j = k
    BY <1>2, <1>3, <1>6, <1>7 DEF Has
  <1>10. ASSUME Distinct(d) PROVE Distinct(e)
    <2>1. /\ \A a \in Buckets(d, 0) : DistinctChain(d.table[0][a])
          /\ \A a \in Buckets(d, 1) : DistinctChain(d.table[1][a])
      BY <1>2, <1>10 DEF Distinct
    <2>2. ~ Has(e, 0, k)
      <3> SUFFICES ASSUME NEW a \in Buckets(e, 0), k \in Keys(e.table[0][a]) PROVE FALSE
        BY DEF Has
      <3>1. x = Bucket(d, 0, k)
        <4>1. PICK i \in DOMAIN d.table[0][x] : d.table[0][x][i].key = k
          BY <1>6 DEF Keys
        <4>2. Bucket(d, 0, d.table[0][x][i].key) = x
          BY <1>2, <1>3 DEF Good, WellPlaced
        <4> QED
          BY <4>1, <4>2
      <3>2. a = Bucket(e, 0, k)
        <4>1. PICK i \in DOMAIN e.table[0][a] : e.table[0][a][i].key = k
          BY DEF Keys
        <4>2. Bucket(e, 0, e.table[0][a][i].key) = a
          BY <1>2, <1>3 DEF Good, WellPlaced
        <4> QED
          BY <4>1, <4>2
      <3>3. a = x
        BY <1>3, <3>1, <3>2 DEF Bucket
      <3> QED
        BY <1>3, <1>6, <2>1, <3>3
    <2>3. ~ Has(d, 1, k)
      BY <1>4, <1>9, <1>10 DEF Distinct
    <2>4. \A a \in Buckets(e, 0) : DistinctChain(e.table[0][a])
      BY <1>2, <1>3, <1>6, <1>7, <2>1
    <2>5. \A a \in Buckets(e, 1) : DistinctChain(e.table[1][a])
      BY <1>3, <1>5, <1>7, <2>1, <2>3 DEF Has
    <2>6. ASSUME NEW j \in Key PROVE ~ (Has(e, 0, j) /\ Has(e, 1, j))
      BY <1>8, <1>9, <1>10, <2>2 DEF Distinct
    <2> QED
      BY <2>4, <2>5, <2>6 DEF Distinct, Tables
  <1> QED
    BY <1>8, <1>9, <1>10 DEF e

(* Once all is moved, ht[1] becomes ht[0], with its keys. *)
LEMMA SwitchedKeys ==
    ASSUME NEW d, Sound(d)
    PROVE  /\ \A k : (Has(Switched(d), 0, k) <=> Has(d, 1, k)) /\ ~Has(Switched(d), 1, k)
           /\ Distinct(d) => Distinct(Switched(d))
  <1> DEFINE e == Switched(d)
  <1>1. /\ e.table[0] = d.table[1] /\ e.size[0] = d.size[1] /\ e.size[1] = 0
    BY DEF Switched, NewDict
  <1> HIDE DEF e
  <1>2. Buckets(e, 1) = {} /\ Buckets(e, 0) = Buckets(d, 1)
    BY <1>1 DEF Buckets
  <1>3. \A k : (Has(e, 0, k) <=> Has(d, 1, k)) /\ ~Has(e, 1, k)
    BY <1>1, <1>2 DEF Has
  <1>4. Distinct(d) => Distinct(e)
    BY <1>1, <1>2, <1>3 DEF Distinct, Tables
  <1> QED
    BY <1>3, <1>4 DEF e

(* Nothing is left behind in the table that is freed. *)
LEMMA NoneLeft ==
    ASSUME NEW d, Sound(d), d.used[0] = 0, NEW k
    PROVE  ~Has(d, 0, k)
  <1>1. 0 \in Tables
    BY DEF Tables
  <1>2. Entries(d, 0) = 0
    BY <1>1, EntriesInNat DEF Sound, Covered
  <1>3. \A b \in Buckets(d, 0) : d.table[0][b] = <<>>
    BY <1>1, <1>2, ChainsOfDict, PlacesNone DEF Sound, Good, Covered, Entries
  <1> QED
    BY <1>3 DEF Has, Keys

LEMMA SkippedKeys ==
    ASSUME NEW d, Sound(d), NEW e, e = [d EXCEPT !.rehashidx = @ + 1]
    PROVE  /\ \A t \in Tables : \A k : Has(e, t, k) <=> Has(d, t, k)
           /\ Distinct(d) => Distinct(e)
  <1>1. e.table = d.table /\ e.size = d.size
    BY DEF Sound, Good, IsDict
  <1>2. \A t \in Tables : Buckets(e, t) = Buckets(d, t)
    BY <1>1 DEF Buckets
  <1>3. \A t \in Tables : \A k : Has(e, t, k) <=> Has(d, t, k)
    BY <1>1, <1>2 DEF Has
  <1>4. Distinct(d) => Distinct(e)
    BY <1>1, <1>2, <1>3 DEF Distinct, Tables
  <1> QED
    BY <1>3, <1>4

(* dictAdd, growth included: no key goes, and one that dictFind did not    *)
(* find is not there twice afterwards.                                     *)
LEMMA AddCallKeys ==
    ASSUME Sound(dict), NEW op, NEW k \in Key, NEW v \in Val, AddCall(op, k, v)
    PROVE  /\ \A t \in Tables, j \in Key : Has(dict, t, j) => Has(dict', t, j)
           /\ Distinct(dict) /\ Holders(dict, k) = {} => Distinct(dict')
  <1>1. ASSUME NEW d, Sound(d), d.size[0] # 0, Insert(op, d, k, v)
        PROVE  /\ \A t \in Tables, j \in Key : Has(d, t, j) => Has(dict', t, j)
               /\ Distinct(d) /\ Holders(d, k) = {} => Distinct(dict')
    BY <1>1, InsertedKeys DEF Insert
  <1>2. CASE NeedsExpand(dict)
    <2>1. PICK s \in SuitableSizes(GrowthTarget(dict)) :
              IF MayExpand(dict, GrowthTarget(dict), s)
              THEN Insert(op, Expanded(dict, s), k, v)
              ELSE Refuse(op, k)
      BY <1>2 DEF AddCall
    <2>2. CASE MayExpand(dict, GrowthTarget(dict), s)
      <3>1. s \in TableSizes /\ s > dict.size[0] /\ ~Rehashing(dict)
        BY <2>2 DEF MayExpand, SuitableSizes
      <3> DEFINE d == Expanded(dict, s)
      <3>2. Sound(d) /\ d.size[0] # 0
        BY <3>1, ExpandedSound
      <3>3. /\ \A t \in Tables, j \in Key : Has(d, t, j) <=> Has(dict, t, j)
            /\ Distinct(dict) => Distinct(d)
        BY <3>1, ExpandedKeys DEF Sound
      <3>4. Insert(op, d, k, v)
        BY <2>1, <2>2
      <3> HIDE DEF d
      <3>5. Holders(dict, k) = {} => Holders(d, k) = {}
        BY <3>2, <3>3, HasHolder, HoldersAreTables DEF Sound
      <3> QED
        BY <1>1, <3>2, <3>3, <3>4, <3>5
    <2>3. CASE ~ MayExpand(dict, GrowthTarget(dict), s)
      BY <2>1, <2>3 DEF Refuse
    <2> QED
      BY <2>2, <2>3
  <1>3. CASE ~ NeedsExpand(dict)
    <2>1. Insert(op, dict, k, v)
      BY <1>3 DEF AddCall
    <2>2. dict.size[0] # 0
      BY <1>3 DEF NeedsExpand, Sound, Good, Shaped
    <2> QED
      BY <1>1, <2>1, <2>2
  <1> QED
    BY <1>2, <1>3

-------------------------------------------------------------------------------
(* The server's keys. *)

LEMMA DistinctInvariant == Spec => []Distinct(dict)
  <1>1. Init => Distinct(dict)
    BY DEF Init, NewDict, Distinct, Has, Buckets, Tables
  <1>2. Invariant /\ Distinct(dict) /\ [Next]_vars => Distinct(dict)'
    <2> SUFFICES ASSUME Invariant, Distinct(dict), [Next]_vars PROVE Distinct(dict')
      OBVIOUS
    <2>1. Sound(dict) /\ Good(dict)
      BY DEF Invariant, Sound
    <2>2. ASSUME NEW k \in Key, NEW v \in Val, AddAbsent(k, v) PROVE Distinct(dict')
      <3>1. Holders(dict, k) = {}
        BY <2>1, <2>2, ValueAbsent DEF AddAbsent
      <3> QED
        BY <2>1, <2>2, <3>1, AddCallKeys DEF AddAbsent, Add
    <2>3. ASSUME NEW k \in Key, NEW v \in Val, Replace(k, v) PROVE Distinct(dict')
      <3>1. CASE Holders(dict, k) = {}
        BY <2>1, <2>3, <3>1, AddCallKeys DEF Replace
      <3>2. CASE Holders(dict, k) # {}
        BY <2>1, <2>3, <3>2, OverwrittenKeys DEF Replace
      <3> QED
        BY <3>1, <3>2
    <2>4. ASSUME NEW k \in Key, Delete(k) PROVE Distinct(dict')
      BY <2>1, <2>4, DeletedKeys DEF Delete
    <2>5. CASE Resize
      BY <2>1, <2>5, ExpandedKeys DEF Resize, MayExpand, SuitableSizes
    <2>6. CASE RehashStart \/ RehashLoop \/ RehashOutOfBounds \/ RehashFound
               \/ RehashReturn \/ UNCHANGED vars
      BY <2>6 DEF RehashStart, RehashLoop, RehashOutOfBounds, RehashFound,
                  RehashReturn, vars
    <2>7. CASE RehashSkip \/ RehashNextBucket
      BY <2>1, <2>7, SkippedKeys DEF RehashSkip, RehashNextBucket
    <2>8. CASE RehashMove
      BY <2>1, <2>8, MovedKeys DEF RehashMove, Invariant
    <2>9. CASE RehashFinish
      BY <2>1, <2>9, SwitchedKeys DEF RehashFinish
    <2> QED
      BY <2>2, <2>3, <2>4, <2>5, <2>6, <2>7, <2>8, <2>9 DEF Next, Rehash, RehashStep
  <1> QED
    BY <1>1, <1>2, ApiInvariant, ServerUsesApi, PTL DEF Spec

(* The server never holds a key twice: dictFind before dictAdd makes up    *)
(* for the table that dictAdd does not search.                             *)
THEOREM NoDuplicateCorrect == Spec => []NoDuplicateKeys
  <1>1. Invariant /\ Distinct(dict) => NoDuplicateKeys
    BY DistinctUnique DEF NoDuplicateKeys, Invariant, Sound
  <1> QED
    BY <1>1, DistinctInvariant, ApiInvariant, ServerUsesApi, PTL

(* dictFind returns every entry that is in a table, half way through a     *)
(* rehash as well.                                                         *)
THEOREM EntriesFound == Spec => []EveryEntryFound
  <1>1. Invariant /\ Distinct(dict) => EveryEntryFound
    BY UniqueFound DEF EveryEntryFound, Invariant, Sound
  <1> QED
    BY <1>1, DistinctInvariant, ApiInvariant, ServerUsesApi, PTL

(* No use of the API loses a key but a delete, of that key or of the one   *)
(* that heads its chain: not growing, not a rehash stopped anywhere.       *)
THEOREM KeptCorrect == ApiSpec => KeptUntilDeleted
  <1> DEFINE Lost(j) == Value(dict, j) # NoVal /\ Value(dict', j) = NoVal
             Cause(j) == \E k \in Key :
                            /\ Delete(k)
                            /\ k = j \/ \E t \in Holders(dict, k) :
                                  /\ Bucket(dict, t, k) = Bucket(dict, t, j)
                                  /\ FirstMatch(Chain(dict, t, k), k) = 1
  <1>1. Invariant /\ Invariant' /\ [ApiNext]_vars =>
            [\A j \in Key : Lost(j) => Cause(j)]_vars
    <2> SUFFICES ASSUME Invariant, Invariant', [ApiNext]_vars,
                        NEW j \in Key, Lost(j)
                 PROVE  Cause(j)
      OBVIOUS
    <2>1. Sound(dict) /\ Good(dict) /\ Good(dict')
      BY DEF Invariant, Sound
    <2>2. PICK t \in Tables : Has(dict, t, j)
      BY <2>1, ValueAbsent
    <2>3. \A u \in Tables : ~Has(dict', u, j)
      BY <2>1, ValueAbsent
    <2> HIDE DEF Lost
    <2>4. ASSUME NEW k \in Key, NEW v \in Val, Add(k, v) PROVE FALSE
      BY <2>1, <2>2, <2>3, <2>4, AddCallKeys DEF Add
    <2>5. ASSUME NEW k \in Key, NEW v \in Val, Replace(k, v) PROVE FALSE
      <3>1. CASE Holders(dict, k) = {}
        BY <2>1, <2>2, <2>3, <2>5, <3>1, AddCallKeys DEF Replace
      <3>2. CASE Holders(dict, k) # {}
        BY <2>1, <2>2, <2>3, <2>5, <3>2, OverwrittenKeys DEF Replace
      <3> QED
        BY <3>1, <3>2
    <2>6. ASSUME NEW k \in Key, Delete(k) PROVE Cause(j)
      <3>1. CASE k = j
        BY <2>6, <3>1
      <3>2. CASE k # j
        <4>1. /\ t \in Holders(dict, k)
              /\ Bucket(dict, t, k) = Bucket(dict, t, j)
              /\ FirstMatch(Chain(dict, t, k), k) = 1
          BY <2>1, <2>2, <2>3, <2>6, <3>2, DeletedKeys DEF Delete
        <4> QED
          BY <2>6, <4>1
      <3> QED
        BY <3>1, <3>2
    <2>7. ~Resize
      BY <2>1, <2>2, <2>3, ExpandedKeys DEF Resize, MayExpand, SuitableSizes
    <2>8. ~ (RehashStart \/ RehashLoop \/ RehashOutOfBounds \/ RehashFound
               \/ RehashReturn \/ UNCHANGED vars)
      BY <2>2, <2>3 DEF RehashStart, RehashLoop, RehashOutOfBounds, RehashFound,
                        RehashReturn, vars
    <2>9. ~ (RehashSkip \/ RehashNextBucket)
      BY <2>1, <2>2, <2>3, SkippedKeys DEF RehashSkip, RehashNextBucket
    <2>10. ~ RehashMove
      BY <2>1, <2>2, <2>3, MovedKeys DEF RehashMove, Invariant, Tables
    <2>11. ~ RehashFinish
      BY <2>1, <2>2, <2>3, SwitchedKeys, NoneLeft DEF RehashFinish, Tables
    <2> QED
      BY <2>4, <2>5, <2>6, <2>7, <2>8, <2>9, <2>10, <2>11 DEF ApiNext, Rehash, RehashStep
  <1> QED
    BY <1>1, ApiInvariant, PTL DEF ApiSpec, KeptUntilDeleted

-------------------------------------------------------------------------------
(* The entries after each operation are those before it, but the one that  *)
(* the operation writes.                                                   *)

EntriesOf(c) == {c[i] : i \in DOMAIN c}

In(d, n) == \E t \in Tables : \E b \in Buckets(d, t) : n \in EntriesOf(d.table[t][b])

LEMMA ExpandedEntries ==
    ASSUME NEW d, Good(d), ~Rehashing(d), NEW s \in TableSizes,
           NEW n, In(Expanded(d, s), n)
    PROVE  In(d, n)
  <1> DEFINE e == Expanded(d, s)
             r == IF d.size[0] = 0 THEN 0 ELSE 1
  <1>1. s \in Nat
    BY DictAssumption
  <1>2. /\ e.table[r] = EmptyTable(s) /\ e.size[r] = s
        /\ \A t \in Tables \ {r} : e.table[t] = d.table[t] /\ e.size[t] = d.size[t]
    <2>1. CASE d.size[0] = 0
      BY <2>1 DEF Expanded, Good, IsDict, Tables
    <2>2. CASE d.size[0] # 0
      BY <2>2 DEF Expanded, Good, IsDict, Tables
    <2> QED
      BY <2>1, <2>2
  <1>3. PICK t \in Tables : \E b \in Buckets(e, t) : n \in EntriesOf(e.table[t][b])
    BY DEF In
  <1> HIDE DEF e, r
  <1>4. \A b \in Buckets(e, r) : e.table[r][b] = <<>>
    BY <1>1, <1>2, EmptyTableType DEF Buckets
  <1>5. t # r
    BY <1>3, <1>4 DEF EntriesOf
  <1>6. Buckets(e, t) = Buckets(d, t) /\ e.table[t] = d.table[t]
    BY <1>2, <1>5 DEF Buckets
  <1> QED
    BY <1>3, <1>6 DEF In

(* One chain changes. *)
LEMMA OneChainEntries ==
    ASSUME NEW d, NEW e, e.size = d.size,
           NEW t \in Tables, NEW b \in Buckets(d, t),
           \A r \in Tables : \A a \in Buckets(d, r) :
               r # t \/ a # b => e.table[r][a] = d.table[r][a],
           NEW n, In(e, n)
    PROVE  In(d, n) \/ n \in EntriesOf(e.table[t][b])
  <1>1. \A r \in Tables : Buckets(e, r) = Buckets(d, r)
    BY DEF Buckets
  <1> QED
    BY <1>1 DEF In

LEMMA ConsEntries ==
    ASSUME NEW m \in Entry, NEW c \in Seq(Entry)
    PROVE  EntriesOf(<<m>> \o c) = EntriesOf(c) \cup {m}
  <1> DEFINE e == <<m>> \o c
  <1>1. /\ DOMAIN e = 1 .. Len(c) + 1 /\ e[1] = m
        /\ \A i \in 2 .. Len(c) + 1 : e[i] = c[i - 1]
    BY ConsChain
  <1> HIDE DEF e
  <1>2. DOMAIN c = 1 .. Len(c) /\ Len(c) \in Nat
    OBVIOUS
  <1>3. \A i \in DOMAIN e : i = 1 \/ (i - 1 \in DOMAIN c /\ e[i] = c[i - 1])
    BY <1>1, <1>2
  <1>4. /\ 1 \in DOMAIN e
        /\ \A i \in DOMAIN c : i + 1 \in DOMAIN e /\ e[i + 1] = c[i]
    BY <1>1, <1>2
  <1>5. EntriesOf(e) \subseteq EntriesOf(c) \cup {m}
    BY <1>1, <1>3 DEF EntriesOf
  <1>6. EntriesOf(c) \cup {m} \subseteq EntriesOf(e)
    BY <1>1, <1>4 DEF EntriesOf
  <1> QED
    BY <1>5, <1>6 DEF e

LEMMA InsertedEntries ==
    ASSUME NEW d, Good(d), d.size[0] # 0, NEW k \in Key, NEW v \in Val
    PROVE  /\ In(Inserted(d, k, v), [key |-> k, val |-> v])
           /\ \A n : In(Inserted(d, k, v), n) =>
                        In(d, n) \/ n = [key |-> k, val |-> v]
  <1> DEFINE t == Target(d)
             b == Bucket(d, t, k)
             old == d.table[t][b]
             e == Inserted(d, k, v)
             w == [key |-> k, val |-> v]
  <1>1. t \in Tables /\ b \in Buckets(d, t)
    BY TargetIsTable, BucketInRange DEF Good
  <1>2. old \in Seq(Entry) /\ w \in Entry
    BY <1>1 DEF Good, IsDict, Entry
  <1>3. /\ e.size = d.size
        /\ e.table[t][b] = <<w>> \o old
        /\ \A r \in Tables : \A a \in Buckets(d, r) :
                r # t \/ a # b => e.table[r][a] = d.table[r][a]
    BY <1>1, InsertedChains
  <1> HIDE DEF t, b, old, e, w
  <1>4. EntriesOf(e.table[t][b]) = EntriesOf(old) \cup {w}
    BY <1>2, <1>3, ConsEntries
  <1>5. In(e, w)
    BY <1>1, <1>3, <1>4 DEF In, Buckets
  <1>6. ASSUME NEW n, In(e, n) PROVE In(d, n) \/ n = w
    <2>1. In(d, n) \/ n \in EntriesOf(e.table[t][b])
      BY <1>1, <1>3, <1>6, OneChainEntries
    <2>2. n \in EntriesOf(old) => In(d, n)
      BY <1>1 DEF In, old
    <2> QED
      BY <1>4, <2>1, <2>2
  <1> QED
    BY <1>5, <1>6 DEF e, w

LEMMA OverwrittenEntries ==
    ASSUME NEW d, Good(d), NEW k \in Key, NEW v \in Val, Holders(d, k) # {}
    PROVE  /\ In(Overwritten(d, k, v), [key |-> k, val |-> v])
           /\ \A n : In(Overwritten(d, k, v), n) =>
                        In(d, n) \/ n = [key |-> k, val |-> v]
  <1> DEFINE t == Holder(d, k)
             b == HolderBucket(d, k)
             m == HolderPlace(d, k)
             old == d.table[t][b]
             e == Overwritten(d, k, v)
             w == [key |-> k, val |-> v]
  <1>1. /\ t \in Tables /\ b \in Buckets(d, t)
        /\ old \in Seq(Entry) /\ m \in DOMAIN old /\ old[m].key = k
        /\ e.size = d.size
        /\ e.table[t][b] = [old EXCEPT ![m].val = v]
        /\ \A r \in Tables : \A a \in Buckets(d, r) :
               r # t \/ a # b => e.table[r][a] = d.table[r][a]
    BY OverwrittenChains
  <1> HIDE DEF t, b, m, e, old
  <1>2. old[m] \in Entry
    BY <1>1
  <1>3. [old[m] EXCEPT !.val = v] = w
    BY <1>1, <1>2 DEF Entry
  <1>4. e.table[t][b] = [old EXCEPT ![m] = w]
    BY <1>1, <1>3
  <1> HIDE DEF w
  <1>5. EntriesOf(e.table[t][b]) \subseteq EntriesOf(old) \cup {w}
    BY <1>1, <1>4 DEF EntriesOf
  <1>6. w \in EntriesOf(e.table[t][b])
    BY <1>1, <1>4 DEF EntriesOf
  <1>7. In(e, w)
    BY <1>1, <1>6 DEF In, Buckets
  <1>8. ASSUME NEW n, In(e, n) PROVE In(d, n) \/ n = w
    <2>1. In(d, n) \/ n \in EntriesOf(e.table[t][b])
      BY <1>1, <1>8, OneChainEntries
    <2>2. n \in EntriesOf(old) => In(d, n)
      BY <1>1 DEF In, old
    <2> QED
      BY <1>5, <2>1, <2>2
  <1> QED
    BY <1>7, <1>8 DEF e, w

LEMMA DeletedEntries ==
    ASSUME NEW d, Sound(d), NEW k \in Key, NEW n, In(Deleted(d, k), n)
    PROVE  In(d, n)
  <1> DEFINE e == Deleted(d, k)
             H == Holders(d, k)
  <1>1. e.size = d.size
    BY DEF Deleted, SetHt
  <1>2. PICK t \in Tables : \E a \in Buckets(e, t) : n \in EntriesOf(e.table[t][a])
    BY DEF In
  <1>3. e.table[t] = IF t \in H
                     THEN [d.table[t] EXCEPT
                             ![Bucket(d, t, k)] = Unlinked(d.table[t][Bucket(d, t, k)], k)]
                     ELSE d.table[t]
    BY DEF Deleted, SetHt, Tables
  <1> HIDE DEF e, H
  <1>4. PICK a \in Buckets(d, t) : n \in EntriesOf(e.table[t][a])
    BY <1>1, <1>2 DEF Buckets
  <1>5. CASE t \in H
    <2>1. \A i \in DOMAIN e.table[t][a] :
              \E j \in DOMAIN d.table[t][a] : e.table[t][a][i] = d.table[t][a][j]
      BY <1>3, <1>5, DeletedTable DEF H
    <2>2. n \in EntriesOf(d.table[t][a])
      BY <1>4, <2>1 DEF EntriesOf
    <2> QED
      BY <2>2 DEF In
  <1>6. CASE t \notin H
    BY <1>3, <1>4, <1>6 DEF In
  <1> QED
    BY <1>5, <1>6

LEMMA MovedEntries ==
    ASSUME NEW d, Sound(d), Rehashing(d), d.rehashidx < d.size[0],
           d.table[0][d.rehashidx] # <<>>, NEW n, In(Moved(d), n)
    PROVE  In(d, n)
  <1> DEFINE x == MoverFrom(d)
             m == Mover(d)
             b == MoverTo(d)
             old == d.table[0][x]
             into == d.table[1][b]
             e == Moved(d)
  <1>1. /\ m \in Entry
        /\ x \in Buckets(d, 0) /\ b \in Buckets(d, 1)
        /\ old \in Seq(Entry) /\ old # <<>> /\ m = Head(old)
        /\ into \in Seq(Entry)
        /\ e.size = d.size
        /\ e.table[1][b] = <<m>> \o into
        /\ e.table[0][x] = Tail(old)
        /\ \A a \in Buckets(d, 1) : a # b => e.table[1][a] = d.table[1][a]
        /\ \A a \in Buckets(d, 0) : a # x => e.table[0][a] = d.table[0][a]
    BY MovedChains
  <1>2. In(e, n)
    OBVIOUS
  <1>3. old = d.table[0][x] /\ into = d.table[1][b]
    OBVIOUS
  <1> HIDE DEF e, old, x, m, b, into
  <1>4. 0 \in Tables /\ 1 \in Tables /\ \A t \in Tables : t = 0 \/ t = 1
    BY DEF Tables
  <1>5. \A t \in Tables : Buckets(e, t) = Buckets(d, t)
    BY <1>1 DEF Buckets
  <1>6. EntriesOf(Tail(old)) \subseteq EntriesOf(old) /\ m \in EntriesOf(old)
    <2>1. /\ DOMAIN Tail(old) = 1 .. Len(old) - 1 /\ m = old[1]
          /\ \A i \in 1 .. Len(old) - 1 : Tail(old)[i] = old[i + 1]
      BY <1>1, TailChain
    <2>2. DOMAIN old = 1 .. Len(old) /\ Len(old) \in Nat \ {0}
      BY <1>1
    <2>3. 1 \in DOMAIN old /\ \A i \in 1 .. Len(old) - 1 : i + 1 \in DOMAIN old
      BY <2>2
    <2> QED
      BY <2>1, <2>3 DEF EntriesOf
  <1>7. EntriesOf(<<m>> \o into) \subseteq EntriesOf(into) \cup {m}
    BY <1>1, ConsEntries
  <1>8. PICK t \in Tables : \E a \in Buckets(d, t) : n \in EntriesOf(e.table[t][a])
    BY <1>2, <1>5 DEF In
  <1>9. CASE t = 0
    <2>1. PICK a \in Buckets(d, 0) : n \in EntriesOf(e.table[0][a])
      BY <1>8, <1>9
    <2>2. n \in EntriesOf(d.table[0][a])
      BY <1>1, <1>3, <1>6, <2>1
    <2> QED
      BY <1>4, <2>2 DEF In
  <1>10. CASE t = 1
    <2>1. PICK a \in Buckets(d, 1) : n \in EntriesOf(e.table[1][a])
      BY <1>8, <1>10
    <2>2. n \in EntriesOf(d.table[1][a]) \/ n \in EntriesOf(d.table[0][x])
      <3>1. CASE a = b
        BY <1>1, <1>3, <1>6, <1>7, <2>1, <3>1
      <3>2. CASE a # b
        BY <1>1, <2>1, <3>2
      <3> QED
        BY <3>1, <3>2
    <2> QED
      BY <1>1, <1>4, <2>2 DEF In
  <1> QED
    BY <1>4, <1>9, <1>10

LEMMA SwitchedEntries ==
    ASSUME NEW d, NEW n, In(Switched(d), n)
    PROVE  In(d, n)
  <1> DEFINE e == Switched(d)
  <1>1. e.table[0] = d.table[1] /\ e.size[0] = d.size[1] /\ e.size[1] = 0
    BY DEF Switched, NewDict
  <1>2. In(e, n)
    OBVIOUS
  <1> HIDE DEF e
  <1>3. Buckets(e, 1) = {} /\ Buckets(e, 0) = Buckets(d, 1)
    BY <1>1 DEF Buckets
  <1> QED
    BY <1>1, <1>2, <1>3 DEF In, Tables

LEMMA SkippedEntries ==
    ASSUME NEW d, Sound(d), NEW e, e = [d EXCEPT !.rehashidx = @ + 1],
           NEW n, In(e, n)
    PROVE  In(d, n)
  <1>1. e.table = d.table /\ e.size = d.size
    BY DEF Sound, Good, IsDict
  <1> QED
    BY <1>1 DEF In, Buckets

-------------------------------------------------------------------------------
(* The value that dictFind returns. *)

(* Where no key is held twice, that of any entry of the key. *)
LEMMA ValueOfEntry ==
    ASSUME NEW d, Good(d), Distinct(d), NEW n, In(d, n)
    PROVE  Value(d, n.key) = n.val
  BY UniqueFound DEF In, EntriesOf

(* A key that is there has an entry. *)
LEMMA EntryOfKey ==
    ASSUME NEW d, NEW t \in Tables, NEW k, Has(d, t, k)
    PROVE  \E n : n.key = k /\ In(d, n)
  BY DEF Has, Keys, In, EntriesOf

(* A step that adds no entry of a key either loses the key or keeps its    *)
(* value.                                                                  *)
LEMMA SameValue ==
    ASSUME NEW d, Good(d), Distinct(d), NEW e, Good(e), Distinct(e), NEW k \in Key,
           \A n : n.key = k /\ In(e, n) => In(d, n)
    PROVE  /\ Value(e, k) # NoVal => Value(e, k) = Value(d, k)
           /\ (\A t \in Tables : Has(d, t, k) => \E u \in Tables : Has(e, u, k)) =>
                  Value(e, k) = Value(d, k)
  <1>1. ASSUME Value(e, k) # NoVal PROVE Value(e, k) = Value(d, k)
    <2>1. PICK t \in Tables : Has(e, t, k)
      BY <1>1, ValueAbsent
    <2>2. PICK n : n.key = k /\ In(e, n)
      BY <2>1, EntryOfKey
    <2>3. In(d, n)
      BY <2>2
    <2> QED
      BY <2>2, <2>3, ValueOfEntry
  <1>2. ASSUME \A t \in Tables : Has(d, t, k) => \E u \in Tables : Has(e, u, k)
        PROVE  Value(e, k) = Value(d, k)
    <2>1. Value(d, k) # NoVal => Value(e, k) # NoVal
      BY <1>2, ValueAbsent
    <2> QED
      BY <1>1, <2>1
  <1> QED
    BY <1>1, <1>2

-------------------------------------------------------------------------------
(* Each step of the server's use is a step of the map, or invisible.       *)

MapInvariant == Invariant /\ Distinct(dict) /\ GrowthNeverRefused

(* dictAdd of a key that is not there: it succeeds, and the entry is new.  *)
LEMMA AddCallEntries ==
    ASSUME MapInvariant, NEW op, NEW k \in Key, NEW v \in Val,
           Holders(dict, k) = {}, AddCall(op, k, v)
    PROVE  /\ ret' = Result(op, k, "ok")
           /\ In(dict', [key |-> k, val |-> v])
           /\ \A n : In(dict', n) => In(dict, n) \/ n = [key |-> k, val |-> v]
  <1> USE DEF MapInvariant
  <1>1. ASSUME NEW d, Sound(d), d.size[0] # 0, Holders(d, k) = {}, Insert(op, d, k, v)
        PROVE  /\ ret' = Result(op, k, "ok")
               /\ In(dict', [key |-> k, val |-> v])
               /\ \A n : In(dict', n) => In(d, n) \/ n = [key |-> k, val |-> v]
    <2> DEFINE t == Target(d)
    <2>1. t \in Tables /\ d.size[t] # 0 /\ Good(d)
      BY <1>1, TargetIsTable DEF Sound
    <2>2. Bucket(d, t, k) \in Buckets(d, t) /\ ~Has(d, t, k)
      BY <1>1, <2>1, BucketInRange, HasHolder DEF Good
    <2>3. Matches(Chain(d, t, k), k) = {}
      BY <2>2 DEF Has, Keys, Matches, Chain
    <2>4. dict' = Inserted(d, k, v) /\ ret' = Result(op, k, "ok")
      BY <1>1, <2>3 DEF Insert
    <2> QED
      BY <1>1, <2>1, <2>4, InsertedEntries
  <1>2. CASE NeedsExpand(dict)
    <2>1. PICK s \in SuitableSizes(GrowthTarget(dict)) :
              IF MayExpand(dict, GrowthTarget(dict), s)
              THEN Insert(op, Expanded(dict, s), k, v)
              ELSE Refuse(op, k)
      BY <1>2 DEF AddCall
    <2>2. MayExpand(dict, GrowthTarget(dict), s)
      BY <1>2 DEF GrowthNeverRefused
    <2>3. s \in TableSizes /\ s > dict.size[0] /\ ~Rehashing(dict)
      BY <2>2 DEF MayExpand, SuitableSizes
    <2> DEFINE d == Expanded(dict, s)
    <2>4. Sound(d) /\ d.size[0] # 0
      BY <2>3, ExpandedSound DEF Invariant
    <2>5. Sound(dict) /\ Good(dict)
      BY DEF Invariant, Sound
    <2>6. /\ \A t \in Tables : Has(d, t, k) <=> Has(dict, t, k)
          /\ \A n : In(d, n) => In(dict, n)
      BY <2>3, <2>5, ExpandedKeys, ExpandedEntries
    <2>7. Insert(op, d, k, v)
      BY <2>1, <2>2
    <2> HIDE DEF d
    <2>8. Holders(d, k) = {}
      BY <2>4, <2>5, <2>6, HasHolder, HoldersAreTables DEF Sound
    <2> QED
      BY <1>1, <2>4, <2>6, <2>7, <2>8
  <1>3. CASE ~ NeedsExpand(dict)
    <2>1. Insert(op, dict, k, v)
      BY <1>3 DEF AddCall
    <2>2. Sound(dict) /\ dict.size[0] # 0
      BY <1>3 DEF NeedsExpand, Invariant, Sound, Good, Shaped
    <2> QED
      BY <1>1, <2>1, <2>2
  <1> QED
    BY <1>2, <1>3

(* A step that writes one entry and loses no key sets one value. *)
LEMMA OneValueSet ==
    ASSUME NEW d, Good(d), Distinct(d), NEW e, Good(e), Distinct(e),
           NEW k \in Key, NEW v \in Val,
           In(e, [key |-> k, val |-> v]),
           \A n : In(e, n) => In(d, n) \/ n = [key |-> k, val |-> v],
           \A t \in Tables, j \in Key : Has(d, t, j) => Has(e, t, j)
    PROVE  [j \in Key |-> Value(e, j)] = [[j \in Key |-> Value(d, j)] EXCEPT ![k] = v]
  <1> DEFINE w == [key |-> k, val |-> v]
  <1>1. w.key = k /\ w.val = v
    OBVIOUS
  <1>2. In(e, w) /\ \A n : In(e, n) => In(d, n) \/ n = w
    OBVIOUS
  <1> HIDE DEF w
  <1>3. Value(e, k) = v
    BY <1>1, <1>2, ValueOfEntry
  <1>4. ASSUME NEW j \in Key, j # k PROVE Value(e, j) = Value(d, j)
    <2>1. \A n : n.key = j /\ In(e, n) => In(d, n)
      BY <1>1, <1>2, <1>4
    <2> QED
      BY <2>1, SameValue
  <1> QED
    BY <1>3, <1>4

(* A step that adds no entry and loses no key is not seen. *)
LEMMA NoValueSet ==
    ASSUME NEW d, Good(d), Distinct(d), NEW e, Good(e), Distinct(e),
           \A n : In(e, n) => In(d, n),
           \A t \in Tables, j \in Key :
               Has(d, t, j) => \E u \in Tables : Has(e, u, j)
    PROVE  [j \in Key |-> Value(e, j)] = [j \in Key |-> Value(d, j)]
  BY SameValue

LEMMA MapStep ==
    ASSUME MapInvariant, MapInvariant', [Next]_vars
    PROVE  [Map!Next]_(Map!vars)
  <1> DEFINE M == [k \in Key |-> Value(dict, k)]
             N == [k \in Key |-> Value(dict', k)]
             Near(k) == {j \in Key : \E s \in TableSizes : Hash[j] % s = Hash[k] % s}
  <1>1. /\ Sound(dict) /\ Good(dict) /\ Distinct(dict)
        /\ Good(dict') /\ Distinct(dict')
    BY DEF MapInvariant, Invariant, Sound
  <1>2. ASSUME NEW k \in Key, NEW v \in Val, AddAbsent(k, v)
        PROVE  ret' = Result("add", k, "ok") /\ M[k] = NoVal /\ N = [M EXCEPT ![k] = v]
    <2>1. Value(dict, k) = NoVal /\ AddCall("add", k, v)
      BY <1>2 DEF AddAbsent, Add
    <2>2. Holders(dict, k) = {}
      BY <1>1, <2>1, ValueAbsent
    <2>3. /\ ret' = Result("add", k, "ok")
          /\ In(dict', [key |-> k, val |-> v])
          /\ \A n : In(dict', n) => In(dict, n) \/ n = [key |-> k, val |-> v]
      BY <2>1, <2>2, AddCallEntries
    <2>4. \A t \in Tables, j \in Key : Has(dict, t, j) => Has(dict', t, j)
      BY <1>1, <2>1, AddCallKeys
    <2> QED
      BY <1>1, <2>1, <2>3, <2>4, OneValueSet
  <1>3. ASSUME NEW k \in Key, NEW v \in Val, Replace(k, v)
        PROVE  ret' = Result("replace", k, "ok") /\ N = [M EXCEPT ![k] = v]
    <2>1. CASE Holders(dict, k) = {}
      <3>1. AddCall("replace", k, v)
        BY <1>3, <2>1 DEF Replace
      <3>2. /\ ret' = Result("replace", k, "ok")
            /\ In(dict', [key |-> k, val |-> v])
            /\ \A n : In(dict', n) => In(dict, n) \/ n = [key |-> k, val |-> v]
        BY <2>1, <3>1, AddCallEntries
      <3>3. \A t \in Tables, j \in Key : Has(dict, t, j) => Has(dict', t, j)
        BY <1>1, <3>1, AddCallKeys
      <3> QED
        BY <1>1, <3>2, <3>3, OneValueSet
    <2>2. CASE Holders(dict, k) # {}
      <3>1. dict' = Overwritten(dict, k, v) /\ ret' = Result("replace", k, "ok")
        BY <1>3, <2>2 DEF Replace
      <3>2. /\ In(dict', [key |-> k, val |-> v])
            /\ \A n : In(dict', n) => In(dict, n) \/ n = [key |-> k, val |-> v]
        BY <1>1, <2>2, <3>1, OverwrittenEntries
      <3>3. \A t \in Tables, j \in Key : Has(dict, t, j) => Has(dict', t, j)
        BY <1>1, <2>2, <3>1, OverwrittenKeys
      <3> QED
        BY <1>1, <3>1, <3>2, <3>3, OneValueSet
    <2> QED
      BY <2>1, <2>2
  <1>4. ASSUME NEW k \in Key, Delete(k)
        PROVE  \/ ret' = Result("delete", k, "err") /\ M[k] = NoVal /\ N = M
               \/ /\ ret' = Result("delete", k, "ok") /\ M[k] # NoVal
                  /\ \E lost \in SUBSET (Near(k) \ {k}) :
                        N = [j \in Key |-> IF j = k \/ j \in lost THEN NoVal ELSE M[j]]
    <2>1. /\ dict' = Deleted(dict, k)
          /\ ret' = Result("delete", k, IF Holders(dict, k) = {} THEN "err" ELSE "ok")
      BY <1>4 DEF Delete
    <2>2. \A n : In(dict', n) => In(dict, n)
      BY <1>1, <2>1, DeletedEntries
    <2>3. \A t \in Tables, j \in Key :
              Has(dict, t, j) /\ j # k /\ ~Has(dict', t, j) =>
                  t \in Holders(dict, k) /\ Bucket(dict, t, k) = Bucket(dict, t, j)
      BY <1>1, <2>1, DeletedKeys
    <2>4. \A t \in Tables : ~Has(dict', t, k)
      BY <1>1, <2>1, DeletedKeys
    <2>5. \A j \in Key : N[j] # NoVal => N[j] = M[j]
      BY <1>1, <2>2, SameValue
    <2>6. N[k] = NoVal
      BY <1>1, <2>4, ValueAbsent
    <2>7. CASE Holders(dict, k) = {}
      <3>1. ret' = Result("delete", k, "err")
        BY <2>1, <2>7
      <3>2. M[k] = NoVal
        BY <1>1, <2>7, ValueAbsent
      <3>3. \A t \in Tables, j \in Key : Has(dict, t, j) => Has(dict', t, j)
        BY <1>1, <2>3, <2>7, HasHolder
      <3>4. N = M
        BY <1>1, <2>2, <3>3, NoValueSet
      <3> QED
        BY <3>1, <3>2, <3>4
    <2>8. CASE Holders(dict, k) # {}
      <3>1. ret' = Result("delete", k, "ok")
        BY <2>1, <2>8
      <3>2. M[k] # NoVal
        BY <1>1, <2>8, ValueAbsent
      <3> DEFINE lost == {j \in Key \ {k} : M[j] # NoVal /\ N[j] = NoVal}
      <3>3. ASSUME NEW j \in lost PROVE j \in Near(k)
        <4>1. j \in Key /\ j # k /\ Value(dict, j) # NoVal /\ Value(dict', j) = NoVal
          BY <3>3
        <4>2. PICK t \in Tables : Has(dict, t, j)
          BY <1>1, <4>1, ValueAbsent
        <4>3. ~Has(dict', t, j)
          BY <1>1, <4>1, ValueAbsent
        <4>4. t \in Holders(dict, k) /\ Bucket(dict, t, k) = Bucket(dict, t, j)
          BY <2>3, <4>1, <4>2, <4>3
        <4>5. dict.size[t] \in TableSizes
          <5>1. t \in Searched(dict)
            BY <4>4 DEF Holders
          <5>2. dict.size[t] # 0
            BY <1>1, <5>1, SearchedTables
          <5>3. dict.size \in [Tables -> {0} \cup TableSizes]
            BY <1>1 DEF Good, IsDict
          <5> QED
            BY <5>2, <5>3
        <4> QED
          BY <4>1, <4>4, <4>5 DEF Bucket
      <3>4. lost \in SUBSET (Near(k) \ {k})
        BY <3>3
      <3> HIDE DEF Near
      <3>5. N = [j \in Key |-> IF j = k \/ j \in lost THEN NoVal ELSE M[j]]
        BY <2>5, <2>6
      <3> QED
        BY <3>1, <3>2, <3>4, <3>5
    <2> QED
      BY <2>7, <2>8
  <1>5. CASE Resize \/ Rehash \/ UNCHANGED vars
    <2>1. \A n : In(dict', n) => In(dict, n)
      <3>1. CASE Resize
        BY <1>1, <3>1, ExpandedEntries DEF Resize, MayExpand, SuitableSizes
      <3>2. CASE RehashMove
        BY <1>1, <3>2, MovedEntries DEF RehashMove, MapInvariant, Invariant
      <3>3. CASE RehashFinish
        BY <3>3, SwitchedEntries DEF RehashFinish
      <3>4. CASE RehashSkip \/ RehashNextBucket
        BY <1>1, <3>4, SkippedEntries DEF RehashSkip, RehashNextBucket
      <3>5. CASE RehashStart \/ RehashLoop \/ RehashOutOfBounds \/ RehashFound
                 \/ RehashReturn \/ UNCHANGED vars
        BY <3>5 DEF RehashStart, RehashLoop, RehashOutOfBounds, RehashFound,
                    RehashReturn, vars
      <3> QED
        BY <1>5, <3>1, <3>2, <3>3, <3>4, <3>5 DEF Rehash, RehashStep
    <2>2. \A t \in Tables, j \in Key :
              Has(dict, t, j) => \E u \in Tables : Has(dict', u, j)
      <3>1. CASE Resize
        BY <1>1, <3>1, ExpandedKeys DEF Resize, MayExpand, SuitableSizes
      <3>2. CASE RehashMove
        BY <1>1, <3>2, MovedKeys DEF RehashMove, MapInvariant, Invariant, Tables
      <3>3. CASE RehashFinish
        BY <1>1, <3>3, SwitchedKeys, NoneLeft DEF RehashFinish, Tables
      <3>4. CASE RehashSkip \/ RehashNextBucket
        BY <1>1, <3>4, SkippedKeys DEF RehashSkip, RehashNextBucket
      <3>5. CASE RehashStart \/ RehashLoop \/ RehashOutOfBounds \/ RehashFound
                 \/ RehashReturn \/ UNCHANGED vars
        BY <3>5 DEF RehashStart, RehashLoop, RehashOutOfBounds, RehashFound,
                    RehashReturn, vars
      <3> QED
        BY <1>5, <3>1, <3>2, <3>3, <3>4, <3>5 DEF Rehash, RehashStep
    <2>3. N = M
      BY <1>1, <2>1, <2>2, NoValueSet
    <2>4. ret' = ret
      BY <1>5 DEF Resize, Rehash, RehashStep, RehashStart, RehashLoop, RehashSkip,
                  RehashOutOfBounds, RehashFound, RehashMove, RehashNextBucket,
                  RehashReturn, RehashFinish, vars
    <2> QED
      BY <2>3, <2>4 DEF Map!vars
  <1>6. ASSUME NEW k \in Key, NEW v \in Val, AddAbsent(k, v) PROVE Map!Next
    BY <1>2, <1>6 DEF Map!Next, Map!Add, Map!Result, Result
  <1>7. ASSUME NEW k \in Key, NEW v \in Val, Replace(k, v) PROVE Map!Next
    BY <1>3, <1>7 DEF Map!Next, Map!Replace, Map!Result, Result
  <1>8. ASSUME NEW k \in Key, Delete(k) PROVE Map!Next
    BY <1>4, <1>8 DEF Map!Next, Map!Delete, Map!Result, Result
  <1> QED
    BY <1>5, <1>6, <1>7, <1>8 DEF Next

(* As the server uses it, the dictionary is the lossy map, for any keys,   *)
(* hash function and table sizes: no step of growth or rehash shows, an    *)
(* add of an absent key succeeds, and a delete takes only keys that may    *)
(* share a bucket with its own.                                            *)
THEOREM DictImplementsLossyMap == Spec => ImplementsLossyMap
  <1>1. Init => Map!Init
    <2>1. \A k \in Key : Value(NewDict, k) = NoVal
      BY DEF Value, Holders, Searched, NewDict
    <2> QED
      BY <2>1 DEF Init, Map!Init
  <1>2. MapInvariant /\ MapInvariant' /\ [Next]_vars => [Map!Next]_(Map!vars)
    BY MapStep
  <1>3. Spec => []MapInvariant
    <2>1. Invariant /\ Distinct(dict) /\ GrowthNeverRefused => MapInvariant
      BY DEF MapInvariant
    <2> QED
      BY <2>1, ApiInvariant, ServerUsesApi, DistinctInvariant, GrowthCorrect, PTL
  <1> QED
    BY <1>1, <1>2, <1>3, PTL DEF Spec, ImplementsLossyMap, Map!Spec
===============================================================================
