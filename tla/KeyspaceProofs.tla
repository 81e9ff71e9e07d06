---------------------------- MODULE KeyspaceProofs ----------------------------
(***************************************************************************)
(* Proofs about Keyspace: reference counts and the strings of the objects, *)
(* for any number of keys, values and objects, whatever dictDelete loses,  *)
(* as long as no value is shared with a reply list; deadlines; and that    *)
(* the keyspace implements the abstract store.                             *)
(***************************************************************************)
EXTENDS Keyspace, Recursion, FiniteSetTheorems

Dicts == [Key -> DictEntry \cup {NoEntry}]

Expires == [Key -> ExpireEntry \cup {NoEntry}]

Counts == [Obj -> Int]

Databases == [dicts : Dicts, expires : Expires, rc : Counts]

-------------------------------------------------------------------------------
(* The inductive invariant. *)

(* A value that fits the reply buffer is copied; see the finding about the *)
(* others.                                                                 *)
NoneListed == \A o \in Obj : listed[o] = 0

(* The references of argv, while a command runs. *)
Held(held, o) == IF o \in held THEN 1 ELSE 0

(* Every reference is counted. *)
Counted(s, held) ==
    \A o \in Obj : Cardinality(DictReferences(s, o)) + Held(held, o) <= s.rc[o]

(* Each object in a dictionary holds the string it was put there for. *)
Intact(s, strings) ==
    \A k \in Key :
        /\ s.dicts[k] # NoEntry => strings[s.dicts[k].key] = k
        /\ s.dicts[k] # NoEntry => strings[s.dicts[k].val] \in Val
        /\ s.expires[k] # NoEntry => strings[s.expires[k].key] = k

Types ==
    /\ db \in Databases
    /\ content \in [Obj -> Key \cup Val \cup {NoVal}]
    /\ now \in Nat
    /\ promised \in [Key -> Nat \cup {Never}]
    /\ listed \in [Obj -> Nat]

Invariant ==
    /\ Types
    /\ Counted(db, {})
    /\ Intact(db, content)
    /\ server \in {"up", "wild", "down"}

-------------------------------------------------------------------------------
(* Sets of references. *)

LEMMA ReferenceMember ==
    ASSUME NEW s, NEW o, NEW r
    PROVE  r \in DictReferences(s, o) <=>
               \E k \in Key :
                   \/ s.dicts[k] # NoEntry /\ s.dicts[k].key = o /\ r = <<"key", k>>
                   \/ s.dicts[k] # NoEntry /\ s.dicts[k].val = o /\ r = <<"val", k>>
                   \/ s.expires[k] # NoEntry /\ s.expires[k].key = o /\ r = <<"expire", k>>
  BY DEF DictReferences

LEMMA FinitelyManyReferences ==
    ASSUME NEW s, NEW o
    PROVE  /\ IsFiniteSet(DictReferences(s, o))
           /\ Cardinality(DictReferences(s, o)) \in Nat
  <1> DEFINE all == {"key", "val", "expire"} \X Key
  <1>1. IsFiniteSet({"key", "val", "expire"})
    <2>1. IsFiniteSet({"key"})
      BY FS_Singleton
    <2>2. IsFiniteSet({"key"} \cup {"val"})
      BY <2>1, FS_AddElement
    <2>3. IsFiniteSet(({"key"} \cup {"val"}) \cup {"expire"})
      BY <2>2, FS_AddElement
    <2>4. ({"key"} \cup {"val"}) \cup {"expire"} = {"key", "val", "expire"}
      OBVIOUS
    <2> QED
      BY <2>3, <2>4
  <1>2. IsFiniteSet(all)
    BY <1>1, FS_Product, KeyspaceAssumption
  <1>3. DictReferences(s, o) \subseteq all
    BY ReferenceMember
  <1> HIDE DEF all
  <1> QED
    BY <1>2, <1>3, FS_Subset, FS_CardinalityType

(* No more references, one less, and at most one more. *)
LEMMA NoMore ==
    ASSUME NEW A, IsFiniteSet(A), NEW B, B \subseteq A
    PROVE  Cardinality(B) <= Cardinality(A)
  BY FS_Subset

LEMMA OneLess ==
    ASSUME NEW A, IsFiniteSet(A), NEW B, B \subseteq A, NEW x \in A, x \notin B
    PROVE  Cardinality(B) <= Cardinality(A) - 1
  <1>1. B \subseteq A \ {x}
    OBVIOUS
  <1>2. IsFiniteSet(A \ {x}) /\ Cardinality(A \ {x}) = Cardinality(A) - 1
    BY FS_RemoveElement
  <1> QED
    BY <1>1, <1>2, FS_Subset

LEMMA OneMore ==
    ASSUME NEW A, IsFiniteSet(A), NEW x, NEW B, B \subseteq A \cup {x}
    PROVE  Cardinality(B) <= Cardinality(A) + 1
  <1>1. IsFiniteSet(A \cup {x}) /\ Cardinality(A \cup {x}) <= Cardinality(A) + 1
    <2>1. CASE x \in A
      BY <2>1, FS_AddElement, FS_CardinalityType
    <2>2. CASE x \notin A
      <3>1. Cardinality(A \cup {x}) = Cardinality(A) + 1 /\ IsFiniteSet(A \cup {x})
        BY <2>2, FS_AddElement
      <3> QED
        BY <3>1, FS_CardinalityType
    <2> QED
      BY <2>1, <2>2
  <1>2. Cardinality(B) <= Cardinality(A \cup {x})
    BY <1>1, FS_Subset
  <1>3. Cardinality(A) \in Nat /\ Cardinality(B) \in Nat /\ Cardinality(A \cup {x}) \in Nat
    BY <1>1, FS_CardinalityType, FS_Subset
  <1> QED
    BY <1>1, <1>2, <1>3

(* An object whose count is used up is in no dictionary. *)
LEMMA UnusedUnreferenced ==
    ASSUME NEW s \in Databases, NEW held, Counted(s, held),
           NEW o \in Obj, s.rc[o] = Held(held, o), NEW k \in Key
    PROVE  /\ s.dicts[k] # NoEntry => s.dicts[k].key # o /\ s.dicts[k].val # o
           /\ s.expires[k] # NoEntry => s.expires[k].key # o
  <1>1. Cardinality(DictReferences(s, o)) = 0
    BY FinitelyManyReferences DEF Counted, Held
  <1>2. DictReferences(s, o) = {}
    BY <1>1, FinitelyManyReferences, FS_EmptySet
  <1> QED
    BY <1>2, ReferenceMember

-------------------------------------------------------------------------------
(* The operations of db.c keep every reference counted. *)

(* g is f without k, and perhaps without others. *)
Lost(f, g, k) ==
    /\ g[k] = NoEntry
    /\ f[k] = NoEntry => g = f
    /\ \A j \in Key : g[j] \in {f[j], NoEntry}
    /\ \A j \in Key \ (Collides[k] \cup {k}) : g[j] = f[j]

LEMMA ExpireRemoved ==
    ASSUME NEW s \in Databases, NEW k \in Key, NEW t \in RemoveExpire(s, k)
    PROVE  /\ t \in Databases /\ t.dicts = s.dicts /\ Lost(s.expires, t.expires, k)
           /\ IF s.expires[k] = NoEntry THEN t = s
              ELSE t.rc = Release(s.rc, {s.expires[k].key})
  <1>1. CASE s.expires[k] = NoEntry
    BY <1>1 DEF RemoveExpire, Databases, Expires, Lost
  <1>2. CASE s.expires[k] # NoEntry
    <2>1. PICK f \in Without(s.expires, k) :
              t = [s EXCEPT !.expires = f, !.rc = Release(@, {s.expires[k].key})]
      BY <1>2 DEF RemoveExpire
    <2>2. f \in Expires /\ Lost(s.expires, f, k)
      BY <1>2 DEF Without, Lost, Databases, Expires
    <2>3. Release(s.rc, {s.expires[k].key}) \in Counts
      BY DEF Release, Databases, Counts
    <2> QED
      BY <1>2, <2>1, <2>2, <2>3 DEF Databases
  <1> QED
    BY <1>1, <1>2

LEMMA ValueDeleted ==
    ASSUME NEW s \in Databases, NEW k \in Key, NEW t \in DbDelete(s, k)
    PROVE  /\ t \in Databases /\ t.expires = s.expires /\ Lost(s.dicts, t.dicts, k)
           /\ IF s.dicts[k] = NoEntry THEN t = s
              ELSE t.rc = Release(s.rc, {s.dicts[k].key, s.dicts[k].val})
  <1>1. CASE s.dicts[k] = NoEntry
    BY <1>1 DEF DbDelete, Databases, Dicts, Lost
  <1>2. CASE s.dicts[k] # NoEntry
    <2>1. PICK f \in Without(s.dicts, k) :
              t = [s EXCEPT !.dicts = f,
                            !.rc = Release(@, {s.dicts[k].key, s.dicts[k].val})]
      BY <1>2 DEF DbDelete
    <2>2. f \in Dicts /\ Lost(s.dicts, f, k)
      BY <1>2 DEF Without, Lost, Databases, Dicts
    <2>3. Release(s.rc, {s.dicts[k].key, s.dicts[k].val}) \in Counts
      BY DEF Release, Databases, Counts
    <2> QED
      BY <1>2, <2>1, <2>2, <2>3 DEF Databases
  <1> QED
    BY <1>1, <1>2

LEMMA ExpireRemovedCounted ==
    ASSUME NEW s \in Databases, NEW held, Counted(s, held),
           NEW k \in Key, NEW t \in RemoveExpire(s, k)
    PROVE  Counted(t, held)
  <1> SUFFICES ASSUME NEW o \in Obj
               PROVE  Cardinality(DictReferences(t, o)) + Held(held, o) <= t.rc[o]
    BY DEF Counted
  <1> DEFINE A == DictReferences(s, o)
             B == DictReferences(t, o)
  <1>1. /\ IsFiniteSet(A) /\ Cardinality(A) \in Nat /\ Cardinality(B) \in Nat
        /\ Cardinality(A) + Held(held, o) <= s.rc[o] /\ s.rc[o] \in Int
        /\ Held(held, o) \in Nat
    BY FinitelyManyReferences DEF Counted, Databases, Counts, Held
  <1>2. /\ t.dicts = s.dicts /\ t.expires[k] = NoEntry
        /\ \A j \in Key : t.expires[j] \in {s.expires[j], NoEntry}
    BY ExpireRemoved DEF Lost
  <1>3. B \subseteq A
    BY <1>2, ReferenceMember
  <1>4. CASE s.expires[k] # NoEntry /\ s.expires[k].key = o
    <2>1. <<"expire", k>> \in A
      BY <1>4, ReferenceMember
    <2>2. <<"expire", k>> \notin B
      BY <1>2, ReferenceMember
    <2>3. t.rc[o] = s.rc[o] - 1
      <3>1. t.rc = Release(s.rc, {s.expires[k].key})
        BY <1>4, ExpireRemoved
      <3> QED
        BY <1>4, <3>1 DEF Release
    <2> HIDE DEF A, B
    <2>4. Cardinality(B) <= Cardinality(A) - 1
      BY <1>1, <1>3, <2>1, <2>2, OneLess
    <2> QED
      BY <1>1, <2>3, <2>4 DEF A, B
  <1>5. CASE ~(s.expires[k] # NoEntry /\ s.expires[k].key = o)
    <2>1. t.rc[o] = s.rc[o]
      <3>1. t = s \/ (s.expires[k] # NoEntry /\ t.rc = Release(s.rc, {s.expires[k].key}))
        BY ExpireRemoved
      <3> QED
        BY <1>5, <3>1 DEF Release
    <2> HIDE DEF A, B
    <2>2. Cardinality(B) <= Cardinality(A)
      BY <1>1, <1>3, NoMore
    <2> QED
      BY <1>1, <2>1, <2>2 DEF A, B
  <1> QED
    BY <1>4, <1>5

LEMMA ValueDeletedCounted ==
    ASSUME NEW s \in Databases, NEW held, Counted(s, held),
           NEW k \in Key, NEW t \in DbDelete(s, k)
    PROVE  Counted(t, held)
  <1> SUFFICES ASSUME NEW o \in Obj
               PROVE  Cardinality(DictReferences(t, o)) + Held(held, o) <= t.rc[o]
    BY DEF Counted
  <1> DEFINE A == DictReferences(s, o)
             B == DictReferences(t, o)
  <1>1. /\ IsFiniteSet(A) /\ Cardinality(A) \in Nat /\ Cardinality(B) \in Nat
        /\ Cardinality(A) + Held(held, o) <= s.rc[o] /\ s.rc[o] \in Int
        /\ Held(held, o) \in Nat
    BY FinitelyManyReferences DEF Counted, Databases, Counts, Held
  <1>2. /\ t.expires = s.expires /\ t.dicts[k] = NoEntry
        /\ \A j \in Key : t.dicts[j] \in {s.dicts[j], NoEntry}
    BY ValueDeleted DEF Lost
  <1>3. B \subseteq A
    BY <1>2, ReferenceMember
  <1>4. CASE s.dicts[k] # NoEntry /\ o \in {s.dicts[k].key, s.dicts[k].val}
    <2>1. \E r \in {<<"key", k>>, <<"val", k>>} : r \in A
      BY <1>4, ReferenceMember
    <2>2. <<"key", k>> \notin B /\ <<"val", k>> \notin B
      BY <1>2, ReferenceMember
    <2>3. t.rc[o] = s.rc[o] - 1
      <3>1. t.rc = Release(s.rc, {s.dicts[k].key, s.dicts[k].val})
        BY <1>4, ValueDeleted
      <3> QED
        BY <1>4, <3>1 DEF Release
    <2> HIDE DEF A, B
    <2>4. Cardinality(B) <= Cardinality(A) - 1
      BY <1>1, <1>3, <2>1, <2>2, OneLess
    <2> QED
      BY <1>1, <2>3, <2>4 DEF A, B
  <1>5. CASE ~(s.dicts[k] # NoEntry /\ o \in {s.dicts[k].key, s.dicts[k].val})
    <2>1. t.rc[o] = s.rc[o]
      <3>1. t = s \/ (s.dicts[k] # NoEntry /\ t.rc = Release(s.rc, {s.dicts[k].key, s.dicts[k].val}))
        BY ValueDeleted
      <3> QED
        BY <1>5, <3>1 DEF Release
    <2> HIDE DEF A, B
    <2>2. Cardinality(B) <= Cardinality(A)
      BY <1>1, <1>3, NoMore
    <2> QED
      BY <1>1, <2>1, <2>2 DEF A, B
  <1> QED
    BY <1>4, <1>5

(* What Stored and SetExpire make of s. *)
HasValue(s, t, k, ko, vo) ==
    /\ t \in Databases /\ t.expires = s.expires
    /\ \A j \in Key \ {k} : t.dicts[j] = s.dicts[j]
    /\ s.dicts[k] = NoEntry =>
           /\ t.dicts[k] = [key |-> ko, val |-> vo]
           /\ t.rc = Retain(s.rc, {ko, vo})
    /\ s.dicts[k] # NoEntry =>
           /\ t.dicts[k] = [key |-> s.dicts[k].key, val |-> vo]
           /\ t.rc = Retain(Release(s.rc, {s.dicts[k].val}), {vo})

HasLifetime(s, t, k, ko, life) ==
    /\ t \in Databases /\ t.dicts = s.dicts
    /\ \A j \in Key \ {k} : t.expires[j] = s.expires[j]
    /\ t.expires[k] = [key  |-> IF s.expires[k] = NoEntry THEN ko ELSE s.expires[k].key,
                      when |-> now + life]
    /\ t.expires[k].key = IF s.expires[k] = NoEntry THEN ko ELSE s.expires[k].key
    /\ t.rc = Retain(s.rc, {ko})

LEMMA ValueStored ==
    ASSUME NEW s \in Databases, NEW k \in Key, NEW ko \in Obj, NEW vo \in Obj
    PROVE  HasValue(s, Stored(s, k, ko, vo), k, ko, vo)
  <1> DEFINE t == Stored(s, k, ko, vo)
  <1>1. CASE s.dicts[k] = NoEntry
    <2> DEFINE f == [s.dicts EXCEPT ![k] = [key |-> ko, val |-> vo]]
               c == Retain(s.rc, {ko, vo})
    <2>1. t = [s EXCEPT !.dicts = f, !.rc = c]
      BY <1>1 DEF Stored, Databases
    <2>2. f \in Dicts /\ c \in Counts
      BY DEF Databases, Dicts, DictEntry, Counts, Retain
    <2>3. f[k] = [key |-> ko, val |-> vo] /\ \A j \in Key \ {k} : f[j] = s.dicts[j]
      BY DEF Databases, Dicts
    <2> HIDE DEF t, f, c
    <2>4. t \in Databases /\ t.dicts = f /\ t.expires = s.expires /\ t.rc = c
      BY <2>1, <2>2 DEF Databases
    <2> QED
      BY <1>1, <2>3, <2>4 DEF t, c, HasValue
  <1>2. CASE s.dicts[k] # NoEntry
    <2> DEFINE f == [s.dicts EXCEPT ![k] = [@ EXCEPT !.val = vo]]
               c == Retain(Release(s.rc, {s.dicts[k].val}), {vo})
    <2>1. t = [s EXCEPT !.dicts = f, !.rc = c]
      BY <1>2 DEF Stored, Databases
    <2>2. s.dicts[k] \in DictEntry
      BY <1>2 DEF Databases, Dicts
    <2>3. f[k] = [key |-> s.dicts[k].key, val |-> vo]
          /\ \A j \in Key \ {k} : f[j] = s.dicts[j]
      BY <2>2 DEF Databases, Dicts, DictEntry
    <2>4. f \in Dicts
      BY <2>2 DEF Databases, Dicts, DictEntry
    <2>5. c \in Counts
      BY DEF Databases, Counts, Retain, Release
    <2> HIDE DEF t, f, c
    <2>6. t \in Databases /\ t.dicts = f /\ t.expires = s.expires /\ t.rc = c
      BY <2>1, <2>4, <2>5 DEF Databases
    <2> QED
      BY <1>2, <2>3, <2>6 DEF t, c, HasValue
  <1> QED
    BY <1>1, <1>2

LEMMA LifetimeSet ==
    ASSUME NEW s \in Databases, NEW k \in Key, NEW ko \in Obj, NEW life \in Nat,
           now \in Nat
    PROVE  HasLifetime(s, SetExpire(s, k, ko, life), k, ko, life)
  <1> DEFINE t == SetExpire(s, k, ko, life)
             e == IF s.expires[k] = NoEntry THEN [key |-> ko, when |-> now + life]
                  ELSE [s.expires[k] EXCEPT !.when = now + life]
             f == [s.expires EXCEPT ![k] = e]
             c == Retain(s.rc, {ko})
  <1>1. t = [s EXCEPT !.expires = f, !.rc = c]
    BY DEF SetExpire, Databases
  <1>2. e = [key  |-> IF s.expires[k] = NoEntry THEN ko ELSE s.expires[k].key,
             when |-> now + life]
        /\ e \in ExpireEntry
    <2>1. now + life \in Nat
      OBVIOUS
    <2>2. CASE s.expires[k] = NoEntry
      BY <2>1, <2>2 DEF ExpireEntry
    <2>3. CASE s.expires[k] # NoEntry
      <3>1. s.expires[k] \in ExpireEntry
        BY <2>3 DEF Databases, Expires
      <3> QED
        BY <2>1, <2>3, <3>1 DEF ExpireEntry
    <2> QED
      BY <2>2, <2>3
  <1>3. f \in Expires /\ c \in Counts
    BY <1>2 DEF Databases, Expires, Counts, Retain
  <1>4. f[k] = e /\ \A j \in Key \ {k} : f[j] = s.expires[j]
    BY DEF Databases, Expires
  <1> HIDE DEF t, e, f, c
  <1>5. t \in Databases /\ t.dicts = s.dicts /\ t.expires = f /\ t.rc = c
    BY <1>1, <1>3 DEF Databases
  <1>6. t.expires[k].key = IF s.expires[k] = NoEntry THEN ko ELSE s.expires[k].key
    BY <1>2, <1>4, <1>5
  <1> QED
    BY <1>2, <1>4, <1>5, <1>6 DEF t, c, HasLifetime

LEMMA ValueStoredCounted ==
    ASSUME NEW s \in Databases, NEW held, Counted(s, held), NEW k \in Key,
           NEW ko \in Obj, NEW vo \in Obj, ko # vo
    PROVE  Counted(Stored(s, k, ko, vo), held)
  <1> DEFINE t == Stored(s, k, ko, vo)
  <1>t. /\ t.expires = s.expires
        /\ \A j \in Key \ {k} : t.dicts[j] = s.dicts[j]
        /\ s.dicts[k] = NoEntry =>
               t.dicts[k] = [key |-> ko, val |-> vo] /\ t.rc = Retain(s.rc, {ko, vo})
        /\ s.dicts[k] # NoEntry =>
               /\ t.dicts[k] = [key |-> s.dicts[k].key, val |-> vo]
               /\ t.rc = Retain(Release(s.rc, {s.dicts[k].val}), {vo})
    <2>1. HasValue(s, t, k, ko, vo)
      BY ValueStored
    <2> QED
      BY <2>1 DEF HasValue
  <1> HIDE DEF t
  <1> SUFFICES ASSUME NEW o \in Obj
               PROVE  Cardinality(DictReferences(t, o)) + Held(held, o) <= t.rc[o]
    BY DEF Counted, t
  <1> DEFINE A == DictReferences(s, o)
             B == DictReferences(t, o)
  <1>1. /\ IsFiniteSet(A) /\ Cardinality(A) \in Nat /\ Cardinality(B) \in Nat
        /\ Cardinality(A) + Held(held, o) <= s.rc[o] /\ s.rc[o] \in Int
        /\ Held(held, o) \in Nat
    BY FinitelyManyReferences DEF Counted, Databases, Counts, Held
  <1>2. CASE s.dicts[k] = NoEntry /\ o \in {ko, vo}
    <2>1. t.rc[o] = s.rc[o] + 1
      BY <1>t, <1>2 DEF Retain
    <2>2. \E r : B \subseteq A \cup {r}
      <3>1. CASE o = ko
        <4>1. B \subseteq A \cup {<<"key", k>>}
          BY <1>t, <1>2, <3>1, ReferenceMember
        <4> QED
          BY <4>1
      <3>2. CASE o = vo
        <4>1. B \subseteq A \cup {<<"val", k>>}
          BY <1>t, <1>2, <3>2, ReferenceMember
        <4> QED
          BY <4>1
      <3> QED
        BY <1>2, <3>1, <3>2
    <2> HIDE DEF A, B
    <2>3. Cardinality(B) <= Cardinality(A) + 1
      BY <1>1, <2>2, OneMore
    <2> QED
      BY <1>1, <2>1, <2>3 DEF A, B
  <1>3. CASE s.dicts[k] # NoEntry /\ o = s.dicts[k].val /\ o # vo
    <2>1. t.rc[o] = s.rc[o] - 1
      BY <1>t, <1>3 DEF Retain, Release
    <2>2. B \subseteq A /\ <<"val", k>> \in A /\ <<"val", k>> \notin B
      BY <1>t, <1>3, ReferenceMember
    <2> HIDE DEF A, B
    <2>3. Cardinality(B) <= Cardinality(A) - 1
      BY <1>1, <2>2, OneLess
    <2> QED
      BY <1>1, <2>1, <2>3 DEF A, B
  <1>4. CASE s.dicts[k] # NoEntry /\ o = vo /\ o # s.dicts[k].val
    <2>1. t.rc[o] = s.rc[o] + 1
      BY <1>t, <1>4 DEF Retain, Release
    <2>2. B \subseteq A \cup {<<"val", k>>}
      BY <1>t, <1>4, ReferenceMember
    <2> HIDE DEF A, B
    <2>3. Cardinality(B) <= Cardinality(A) + 1
      BY <1>1, <2>2, OneMore
    <2> QED
      BY <1>1, <2>1, <2>3 DEF A, B
  <1>5. CASE \/ s.dicts[k] = NoEntry /\ o \notin {ko, vo}
             \/ s.dicts[k] # NoEntry /\ (o = s.dicts[k].val <=> o = vo)
    <2>1. t.rc[o] = s.rc[o]
      BY <1>1, <1>t, <1>5 DEF Retain, Release
    <2>2. B \subseteq A
      BY <1>t, <1>5, ReferenceMember
    <2> HIDE DEF A, B
    <2>3. Cardinality(B) <= Cardinality(A)
      BY <1>1, <2>2, NoMore
    <2> QED
      BY <1>1, <2>1, <2>3 DEF A, B
  <1> QED
    BY <1>2, <1>3, <1>4, <1>5

LEMMA LifetimeSetCounted ==
    ASSUME NEW s \in Databases, NEW held, Counted(s, held), NEW k \in Key,
           NEW ko \in Obj, NEW life \in Nat, now \in Nat
    PROVE  Counted(SetExpire(s, k, ko, life), held)
  <1> DEFINE t == SetExpire(s, k, ko, life)
  <1>t. /\ t.dicts = s.dicts
        /\ \A j \in Key \ {k} : t.expires[j] = s.expires[j]
        /\ t.expires[k].key = IF s.expires[k] = NoEntry THEN ko ELSE s.expires[k].key
        /\ t.rc = Retain(s.rc, {ko})
    <2>1. HasLifetime(s, t, k, ko, life)
      BY LifetimeSet
    <2> QED
      BY <2>1 DEF HasLifetime
  <1> HIDE DEF t
  <1> SUFFICES ASSUME NEW o \in Obj
               PROVE  Cardinality(DictReferences(t, o)) + Held(held, o) <= t.rc[o]
    BY DEF Counted, t
  <1> DEFINE A == DictReferences(s, o)
             B == DictReferences(t, o)
  <1>1. /\ IsFiniteSet(A) /\ Cardinality(A) \in Nat /\ Cardinality(B) \in Nat
        /\ Cardinality(A) + Held(held, o) <= s.rc[o] /\ s.rc[o] \in Int
        /\ Held(held, o) \in Nat
    BY FinitelyManyReferences DEF Counted, Databases, Counts, Held
  <1>2. CASE o = ko
    <2>1. t.rc[o] = s.rc[o] + 1
      BY <1>t, <1>2 DEF Retain
    <2>2. B \subseteq A \cup {<<"expire", k>>}
      BY <1>t, ReferenceMember
    <2> HIDE DEF A, B
    <2>3. Cardinality(B) <= Cardinality(A) + 1
      BY <1>1, <2>2, OneMore
    <2> QED
      BY <1>1, <2>1, <2>3 DEF A, B
  <1>3. CASE o # ko
    <2>1. t.rc[o] = s.rc[o]
      BY <1>t, <1>3 DEF Retain
    <2>2. B \subseteq A
      BY <1>t, <1>3, ReferenceMember
    <2> HIDE DEF A, B
    <2>3. Cardinality(B) <= Cardinality(A)
      BY <1>1, <2>2, NoMore
    <2> QED
      BY <1>1, <2>1, <2>3 DEF A, B
  <1> QED
    BY <1>2, <1>3

(* argv takes references of its own, and gives them back. *)
LEMMA ArgumentsRetained ==
    ASSUME NEW s \in Databases, Counted(s, {}), NEW objs \in SUBSET Obj
    PROVE  LET t == [s EXCEPT !.rc = Retain(@, objs)]
           IN  /\ t \in Databases /\ t.dicts = s.dicts /\ t.expires = s.expires
               /\ Counted(t, objs)
  <1> DEFINE t == [s EXCEPT !.rc = Retain(@, objs)]
  <1>1. Retain(s.rc, objs) \in Counts
    BY DEF Databases, Counts, Retain
  <1>2. /\ t \in Databases /\ t.dicts = s.dicts /\ t.expires = s.expires
        /\ t.rc = Retain(s.rc, objs)
    BY <1>1 DEF Databases
  <1> HIDE DEF t
  <1>3. ASSUME NEW o \in Obj
        PROVE  Cardinality(DictReferences(t, o)) + Held(objs, o) <= t.rc[o]
    <2>1. DictReferences(t, o) = DictReferences(s, o)
      BY <1>2 DEF DictReferences
    <2>2. Cardinality(DictReferences(s, o)) \in Nat
      BY FinitelyManyReferences
    <2>3. Cardinality(DictReferences(s, o)) + Held({}, o) <= s.rc[o] /\ s.rc[o] \in Int
      BY DEF Counted, Databases, Counts
    <2> QED
      BY <1>2, <2>1, <2>2, <2>3 DEF Retain, Held
  <1> QED
    BY <1>2, <1>3 DEF Counted, t

LEMMA ArgumentsReleased ==
    ASSUME NEW s \in Databases, NEW objs \in SUBSET Obj, Counted(s, objs)
    PROVE  LET t == [s EXCEPT !.rc = Release(@, objs)]
           IN  /\ t \in Databases /\ t.dicts = s.dicts /\ t.expires = s.expires
               /\ Counted(t, {})
  <1> DEFINE t == [s EXCEPT !.rc = Release(@, objs)]
  <1>1. Release(s.rc, objs) \in Counts
    BY DEF Databases, Counts, Release
  <1>2. /\ t \in Databases /\ t.dicts = s.dicts /\ t.expires = s.expires
        /\ t.rc = Release(s.rc, objs)
    BY <1>1 DEF Databases
  <1> HIDE DEF t
  <1>3. ASSUME NEW o \in Obj
        PROVE  Cardinality(DictReferences(t, o)) + Held({}, o) <= t.rc[o]
    <2>1. DictReferences(t, o) = DictReferences(s, o)
      BY <1>2 DEF DictReferences
    <2>2. Cardinality(DictReferences(s, o)) \in Nat
      BY FinitelyManyReferences
    <2>3. Cardinality(DictReferences(s, o)) + Held(objs, o) <= s.rc[o] /\ s.rc[o] \in Int
      BY DEF Counted, Databases, Counts
    <2> QED
      BY <1>2, <2>1, <2>2, <2>3 DEF Release, Held
  <1> QED
    BY <1>2, <1>3 DEF Counted, t

-------------------------------------------------------------------------------
(* ... and every object its string. *)

LEMMA RemovedShape ==
    ASSUME NEW s \in Databases, NEW k \in Key, NEW t \in Removed(s, k)
    PROVE  t \in Databases /\ Lost(s.dicts, t.dicts, k) /\ Lost(s.expires, t.expires, k)
  <1>1. PICK e \in RemoveExpire(s, k) : t \in DbDelete(e, k)
    BY DEF Removed
  <1>2. e \in Databases /\ e.dicts = s.dicts /\ Lost(s.expires, e.expires, k)
    BY <1>1, ExpireRemoved
  <1>3. t \in Databases /\ t.expires = e.expires /\ Lost(e.dicts, t.dicts, k)
    BY <1>1, <1>2, ValueDeleted
  <1> QED
    BY <1>2, <1>3

LEMMA RemovedCounted ==
    ASSUME NEW s \in Databases, NEW held, Counted(s, held), NEW k \in Key,
           NEW t \in Removed(s, k)
    PROVE  Counted(t, held)
  <1>1. PICK e \in RemoveExpire(s, k) : t \in DbDelete(e, k)
    BY DEF Removed
  <1>2. e \in Databases /\ Counted(e, held)
    BY <1>1, ExpireRemoved, ExpireRemovedCounted
  <1> QED
    BY <1>1, <1>2, ValueDeletedCounted

LEMMA ExpiredShape ==
    ASSUME NEW s \in Databases, NEW k \in Key, NEW t \in ExpireIfNeeded(s, k)
    PROVE  /\ t \in Databases
           /\ Overdue(s, k) => Lost(s.dicts, t.dicts, k) /\ Lost(s.expires, t.expires, k)
           /\ ~Overdue(s, k) => t = s
  BY RemovedShape DEF ExpireIfNeeded

LEMMA ExpiredCounted ==
    ASSUME NEW s \in Databases, NEW held, Counted(s, held), NEW k \in Key,
           NEW t \in ExpireIfNeeded(s, k)
    PROVE  Counted(t, held)
  BY RemovedCounted DEF ExpireIfNeeded

LEMMA LostIntact ==
    ASSUME NEW s, NEW t, NEW strings, Intact(s, strings), NEW k \in Key,
           Lost(s.dicts, t.dicts, k), Lost(s.expires, t.expires, k)
    PROVE  Intact(t, strings)
  BY DEF Intact, Lost

LEMMA ValueStoredIntact ==
    ASSUME NEW s \in Databases, NEW strings, Intact(s, strings), NEW k \in Key,
           NEW ko \in Obj, NEW vo \in Obj, strings[ko] = k, strings[vo] \in Val
    PROVE  Intact(Stored(s, k, ko, vo), strings)
  <1> DEFINE t == Stored(s, k, ko, vo)
  <1>1. /\ t.expires = s.expires
        /\ \A j \in Key \ {k} : t.dicts[j] = s.dicts[j]
        /\ s.dicts[k] = NoEntry => t.dicts[k] = [key |-> ko, val |-> vo]
        /\ s.dicts[k] # NoEntry => t.dicts[k] = [key |-> s.dicts[k].key, val |-> vo]
    <2>1. HasValue(s, t, k, ko, vo)
      BY ValueStored
    <2> QED
      BY <2>1 DEF HasValue
  <1> HIDE DEF t
  <1>2. t.dicts[k].val = vo /\ strings[t.dicts[k].key] = k
    BY <1>1 DEF Intact
  <1>3. Intact(t, strings)
    BY <1>1, <1>2 DEF Intact
  <1> QED
    BY <1>3 DEF t

LEMMA LifetimeSetIntact ==
    ASSUME NEW s \in Databases, NEW strings, Intact(s, strings), NEW k \in Key,
           NEW ko \in Obj, strings[ko] = k, NEW life \in Nat, now \in Nat
    PROVE  Intact(SetExpire(s, k, ko, life), strings)
  <1> DEFINE t == SetExpire(s, k, ko, life)
  <1>1. /\ t.dicts = s.dicts
        /\ \A j \in Key \ {k} : t.expires[j] = s.expires[j]
        /\ t.expires[k] = [key  |-> IF s.expires[k] = NoEntry THEN ko
                                   ELSE s.expires[k].key,
                           when |-> now + life]
    <2>1. HasLifetime(s, t, k, ko, life)
      BY LifetimeSet
    <2> QED
      BY <2>1 DEF HasLifetime
  <1> HIDE DEF t
  <1>2. strings[t.expires[k].key] = k
    BY <1>1 DEF Intact
  <1>3. Intact(t, strings)
    BY <1>1, <1>2 DEF Intact
  <1> QED
    BY <1>3 DEF t

(* Freeing the strings that are not used leaves the others. *)
LEMMA KeptIntact ==
    ASSUME NEW s \in Databases, Counted(s, {}), NEW strings, Intact(s, strings)
    PROVE  Intact(s, Kept(strings, s.rc))
  <1>1. \A o \in Obj : s.rc[o] # 0 => Kept(strings, s.rc)[o] = strings[o]
    BY DEF Kept
  <1>2. \A k \in Key :
            /\ s.dicts[k] # NoEntry => /\ s.dicts[k].key \in Obj /\ s.rc[s.dicts[k].key] # 0
                                       /\ s.dicts[k].val \in Obj /\ s.rc[s.dicts[k].val] # 0
            /\ s.expires[k] # NoEntry => /\ s.expires[k].key \in Obj
                                         /\ s.rc[s.expires[k].key] # 0
    <2>1. \A o \in Obj : s.rc[o] = 0 => s.rc[o] = Held({}, o)
      BY DEF Held
    <2>2. \A k \in Key : /\ s.dicts[k] # NoEntry => s.dicts[k] \in DictEntry
                         /\ s.expires[k] # NoEntry => s.expires[k] \in ExpireEntry
      BY DEF Databases, Dicts, Expires
    <2> QED
      BY <2>1, <2>2, UnusedUnreferenced DEF DictEntry, ExpireEntry
  <1> QED
    BY <1>1, <1>2 DEF Intact

LEMMA FateUp ==
    ASSUME NEW s \in Databases, Counted(s, {})
    PROVE  Fate(s) = "up" /\ s.rc \in [Obj -> Nat]
  <1>1. ASSUME NEW o \in Obj
        PROVE  s.rc[o] \in Nat /\ (s.rc[o] = 0 => DictReferences(s, o) = {})
    <2>1. /\ Cardinality(DictReferences(s, o)) \in Nat
          /\ Cardinality(DictReferences(s, o)) <= s.rc[o] /\ s.rc[o] \in Int
      BY FinitelyManyReferences DEF Counted, Held, Databases, Counts
    <2>2. s.rc[o] = 0 => Cardinality(DictReferences(s, o)) = 0
      BY <2>1
    <2>3. s.rc[o] = 0 => DictReferences(s, o) = {}
      BY <2>2, FinitelyManyReferences, FS_EmptySet
    <2> QED
      BY <2>1, <2>3
  <1> QED
    BY <1>1 DEF Fate, Databases, Counts

-------------------------------------------------------------------------------
(* The actions. *)

LEMMA MinIsMember ==
    ASSUME NEW S, S \subseteq Nat, S # {}
    PROVE  Min(S) \in S
  BY LeastNumber DEF Min

KeyArg == Min(Free)

ValArg == Min(Free \ {KeyArg})

LEMMA ArgumentsAreFree ==
    ASSUME Types, Cardinality(Free) >= 2
    PROVE  /\ KeyArg \in Obj /\ ValArg \in Obj /\ KeyArg # ValArg
           /\ db.rc[KeyArg] = 0 /\ db.rc[ValArg] = 0
  <1>1. Free \subseteq Obj /\ Obj \subseteq Nat
    BY KeyspaceAssumption DEF Free, Obj
  <1>2. IsFiniteSet(Free)
    <2>1. Pool \in Int
      BY KeyspaceAssumption
    <2>2. IsFiniteSet(1 .. Pool)
      BY <2>1, FS_Interval
    <2> QED
      BY <1>1, <2>2, FS_Subset DEF Obj
  <1>3. Free # {}
    BY FS_EmptySet
  <1>4. KeyArg \in Free
    BY <1>1, <1>3, MinIsMember DEF KeyArg
  <1>5. Cardinality(Free \ {KeyArg}) = Cardinality(Free) - 1
    BY <1>2, <1>4, FS_RemoveElement
  <1>6. Free \ {KeyArg} # {}
    <2>1. Cardinality(Free) \in Nat
      BY <1>2, FS_CardinalityType
    <2>2. Cardinality(Free \ {KeyArg}) # 0
      BY <1>5, <2>1
    <2> QED
      BY <2>2, FS_EmptySet
  <1>7. ValArg \in Free \ {KeyArg}
    BY <1>1, <1>6, MinIsMember DEF ValArg
  <1> QED
    BY <1>1, <1>4, <1>7 DEF Free

(* Set in steps: the arguments, the value and the deadline, the end of the *)
(* command.                                                                *)
Prepared == [db EXCEPT !.rc = Retain(@, {KeyArg, ValArg})]

Timed(s, k, life) ==
    IF life = NoLife THEN Stored(s, k, KeyArg, ValArg)
    ELSE SetExpire(Stored(s, k, KeyArg, ValArg), k, KeyArg, life)

Finished(s, k, life) == [Timed(s, k, life) EXCEPT !.rc = Release(@, {KeyArg, ValArg})]

Strings(k, v) == [content EXCEPT ![KeyArg] = k, ![ValArg] = v]

LEMMA SetInSteps ==
    ASSUME NEW k \in Key, NEW v \in Val, NEW life \in Lifetimes \cup {NoLife},
           Set(k, v, life)
    PROVE  /\ Cardinality(Free) >= 2 /\ server = "up" /\ server' = Fate(db')
           /\ content' = Kept(Strings(k, v), db'.rc)
           /\ UNCHANGED <<now, listed>>
           /\ \E s \in ExpireIfNeeded(Prepared, k) :
                  /\ db' = Finished(s, k, life)
                  /\ promised' = [promised EXCEPT ![k] =
                         IF life # NoLife THEN now + life
                         ELSE IF s.dicts[k] = NoEntry THEN Never ELSE @]
  BY DEF Set, KeyArg, ValArg, Prepared, Timed, Finished, Strings

(* The entries that SET leaves of those of s. *)
HasSet(s, t, k, life) ==
    /\ \A j \in Key \ {k} : t.dicts[j] = s.dicts[j] /\ t.expires[j] = s.expires[j]
    /\ t.dicts[k] \in DictEntry /\ t.dicts[k].val = ValArg
    /\ life = NoLife => t.expires[k] = s.expires[k]
    /\ life # NoLife => t.expires[k] \in ExpireEntry /\ t.expires[k].when = now + life

LEMMA FinishedShape ==
    ASSUME Types, Cardinality(Free) >= 2, NEW s \in Databases, NEW k \in Key,
           NEW life \in Lifetimes \cup {NoLife}
    PROVE  /\ Timed(s, k, life) \in Databases
           /\ Finished(s, k, life) \in Databases
           /\ HasSet(s, Finished(s, k, life), k, life)
  <1> DEFINE stored == Stored(s, k, KeyArg, ValArg)
             timed == Timed(s, k, life)
             t == Finished(s, k, life)
  <1>1. KeyArg \in Obj /\ ValArg \in Obj /\ now \in Nat
    BY ArgumentsAreFree DEF Types
  <1>2. HasValue(s, stored, k, KeyArg, ValArg)
    BY <1>1, ValueStored
  <1>3. stored \in Databases /\ stored.expires = s.expires
        /\ \A j \in Key \ {k} : stored.dicts[j] = s.dicts[j]
    BY <1>2 DEF HasValue
  <1>4. stored.dicts[k] \in DictEntry /\ stored.dicts[k].val = ValArg
    <2>1. CASE s.dicts[k] = NoEntry
      <3>1. stored.dicts[k] = [key |-> KeyArg, val |-> ValArg]
        BY <1>2, <2>1 DEF HasValue
      <3> QED
        BY <1>1, <3>1 DEF DictEntry
    <2>2. CASE s.dicts[k] # NoEntry
      <3>1. s.dicts[k] \in DictEntry
        BY <2>2 DEF Databases, Dicts
      <3>2. stored.dicts[k] = [key |-> s.dicts[k].key, val |-> ValArg]
        BY <1>2, <2>2 DEF HasValue
      <3> QED
        BY <1>1, <3>1, <3>2 DEF DictEntry
    <2> QED
      BY <2>1, <2>2
  <1> HIDE DEF stored
  <1>5. /\ timed \in Databases /\ timed.dicts = stored.dicts
        /\ \A j \in Key \ {k} : timed.expires[j] = s.expires[j]
        /\ life = NoLife => timed.expires[k] = s.expires[k]
        /\ life # NoLife =>
               timed.expires[k] \in ExpireEntry /\ timed.expires[k].when = now + life
    <2>1. CASE life = NoLife
      <3>1. timed = stored
        BY <2>1 DEF Timed, stored
      <3> QED
        BY <1>3, <2>1, <3>1
    <2>2. CASE life # NoLife
      <3>1. life \in Nat
        BY <2>2, KeyspaceAssumption
      <3>2. timed = SetExpire(stored, k, KeyArg, life)
        BY <2>2 DEF Timed, stored
      <3>3. HasLifetime(stored, timed, k, KeyArg, life)
        BY <1>1, <1>3, <3>1, <3>2, LifetimeSet
      <3> HIDE DEF timed
      <3>4. timed \in Databases /\ timed.expires[k].when = now + life
        BY <3>3 DEF HasLifetime
      <3>5. timed.expires[k] \in ExpireEntry
        <4>1. timed.expires[k].key \in Obj
          <5>1. stored.expires[k] # NoEntry => stored.expires[k] \in ExpireEntry
            BY <1>3 DEF Databases, Expires
          <5> QED
            BY <1>1, <3>3, <5>1 DEF HasLifetime, ExpireEntry
        <4>2. timed.expires[k] = [key |-> timed.expires[k].key, when |-> now + life]
          BY <3>3 DEF HasLifetime
        <4>3. now + life \in Nat
          BY <1>1, <3>1
        <4> QED
          BY <4>1, <4>2, <4>3 DEF ExpireEntry
      <3> QED
        BY <1>3, <2>2, <3>3, <3>4, <3>5 DEF HasLifetime
    <2> QED
      BY <2>1, <2>2
  <1> HIDE DEF timed
  <1>6. t \in Databases /\ t.dicts = timed.dicts /\ t.expires = timed.expires
    <2>1. Release(timed.rc, {KeyArg, ValArg}) \in Counts
      BY <1>5 DEF Databases, Counts, Release
    <2> QED
      BY <1>5, <2>1 DEF Finished, Databases, timed
  <1> HIDE DEF t
  <1>7. HasSet(s, t, k, life)
    BY <1>3, <1>4, <1>5, <1>6 DEF HasSet
  <1> QED
    BY <1>5, <1>6, <1>7 DEF t, timed

LEMMA SetDictionaries ==
    ASSUME Types, NEW k \in Key, NEW v \in Val, NEW life \in Lifetimes \cup {NoLife},
           Set(k, v, life)
    PROVE  \E s \in ExpireIfNeeded(Prepared, k) :
               /\ s \in Databases
               /\ db' = Finished(s, k, life) /\ db' \in Databases
               /\ HasSet(s, db', k, life)
               /\ promised' = [promised EXCEPT ![k] =
                      IF life # NoLife THEN now + life
                      ELSE IF s.dicts[k] = NoEntry THEN Never ELSE @]
  <1>1. PICK s \in ExpireIfNeeded(Prepared, k) :
            /\ db' = Finished(s, k, life)
            /\ promised' = [promised EXCEPT ![k] =
                   IF life # NoLife THEN now + life
                   ELSE IF s.dicts[k] = NoEntry THEN Never ELSE @]
    BY SetInSteps
  <1>2. Prepared \in Databases
    <2>1. Retain(db.rc, {KeyArg, ValArg}) \in Counts
      BY DEF Types, Databases, Counts, Retain
    <2> QED
      BY <2>1 DEF Prepared, Types, Databases
  <1>3. s \in Databases
    BY <1>2, ExpiredShape
  <1>4. Finished(s, k, life) \in Databases /\ HasSet(s, Finished(s, k, life), k, life)
    BY <1>3, SetInSteps, FinishedShape
  <1> QED
    BY <1>1, <1>3, <1>4

(* What a command leaves, once it has released what it held. *)
Left(s, strings) ==
    /\ db' = s
    /\ content' = Kept(strings, s.rc)
    /\ server' = Fate(s)

LEMMA LeftCorrect ==
    ASSUME NEW s \in Databases, Counted(s, {}), NEW strings, Intact(s, strings),
           Left(s, strings), strings \in [Obj -> Key \cup Val \cup {NoVal}]
    PROVE  /\ db' \in Databases /\ Counted(db', {}) /\ Intact(db', content')
           /\ content' \in [Obj -> Key \cup Val \cup {NoVal}]
           /\ server' = "up"
  <1>1. Kept(strings, s.rc) \in [Obj -> Key \cup Val \cup {NoVal}]
    BY DEF Kept
  <1> QED
    BY <1>1, KeptIntact, FateUp DEF Left

(* Between the arguments' retention and their release. *)
LEMMA ArgumentsIntact ==
    ASSUME Invariant, Cardinality(Free) >= 2, NEW k \in Key, NEW v \in Val
    PROVE  /\ Prepared \in Databases /\ Counted(Prepared, {KeyArg, ValArg})
           /\ Prepared.dicts = db.dicts /\ Prepared.expires = db.expires
           /\ Strings(k, v) \in [Obj -> Key \cup Val \cup {NoVal}]
           /\ Strings(k, v)[KeyArg] = k /\ Strings(k, v)[ValArg] = v
           /\ \A j \in Key : db.dicts[j] # NoEntry =>
                  Strings(k, v)[db.dicts[j].val] = content[db.dicts[j].val]
           /\ Intact(Prepared, Strings(k, v))
  <1> DEFINE args == {KeyArg, ValArg}
             strings == Strings(k, v)
  <1>1. /\ KeyArg \in Obj /\ ValArg \in Obj /\ KeyArg # ValArg
        /\ db.rc[KeyArg] = 0 /\ db.rc[ValArg] = 0
    BY ArgumentsAreFree DEF Invariant
  <1>3. Prepared \in Databases /\ Counted(Prepared, args)
        /\ Prepared.dicts = db.dicts /\ Prepared.expires = db.expires
    BY <1>1, ArgumentsRetained DEF Prepared, Invariant, Types
  <1>4. /\ strings \in [Obj -> Key \cup Val \cup {NoVal}]
        /\ strings[KeyArg] = k /\ strings[ValArg] = v
        /\ \A o \in Obj \ args : strings[o] = content[o]
    BY <1>1 DEF Strings, Invariant, Types
  <1>5. /\ Intact(Prepared, strings)
        /\ \A j \in Key : db.dicts[j] # NoEntry =>
               strings[db.dicts[j].val] = content[db.dicts[j].val]
    <2>1. db.rc[KeyArg] = Held({}, KeyArg) /\ db.rc[ValArg] = Held({}, ValArg)
      BY <1>1 DEF Held
    <2>2. ASSUME NEW j \in Key
          PROVE  /\ db.dicts[j] # NoEntry => /\ db.dicts[j].key \in Obj \ args
                                             /\ db.dicts[j].val \in Obj \ args
                 /\ db.expires[j] # NoEntry => db.expires[j].key \in Obj \ args
      <3>1. /\ db.dicts[j] # NoEntry => db.dicts[j].key # KeyArg /\ db.dicts[j].val # KeyArg
            /\ db.expires[j] # NoEntry => db.expires[j].key # KeyArg
        BY <1>1, <2>1, UnusedUnreferenced DEF Invariant, Types
      <3>2. /\ db.dicts[j] # NoEntry => db.dicts[j].key # ValArg /\ db.dicts[j].val # ValArg
            /\ db.expires[j] # NoEntry => db.expires[j].key # ValArg
        BY <1>1, <2>1, UnusedUnreferenced DEF Invariant, Types
      <3>3. /\ db.dicts[j] # NoEntry => db.dicts[j] \in DictEntry
            /\ db.expires[j] # NoEntry => db.expires[j] \in ExpireEntry
        BY DEF Invariant, Types, Databases, Dicts, Expires
      <3> QED
        BY <3>1, <3>2, <3>3 DEF DictEntry, ExpireEntry
    <2> HIDE DEF args, strings
    <2> QED
      BY <1>3, <1>4, <2>2 DEF Invariant, Intact
  <1> QED
    BY <1>3, <1>4, <1>5

LEMMA SetReferences ==
    ASSUME Invariant, NEW k \in Key, NEW v \in Val, NEW life \in Lifetimes \cup {NoLife},
           Set(k, v, life)
    PROVE  /\ db' \in Databases /\ Counted(db', {}) /\ Intact(db', content')
           /\ content' \in [Obj -> Key \cup Val \cup {NoVal}]
           /\ server' = "up"
  <1> DEFINE args == {KeyArg, ValArg}
             strings == Strings(k, v)
  <1>1. /\ KeyArg \in Obj /\ ValArg \in Obj /\ KeyArg # ValArg
        /\ db.rc[KeyArg] = 0 /\ db.rc[ValArg] = 0
    BY SetInSteps, ArgumentsAreFree DEF Invariant
  <1>2. PICK s \in ExpireIfNeeded(Prepared, k) : db' = Finished(s, k, life)
    BY SetInSteps
  <1>3. Cardinality(Free) >= 2
    BY SetInSteps
  <1>4. /\ Prepared \in Databases /\ Counted(Prepared, args)
        /\ strings \in [Obj -> Key \cup Val \cup {NoVal}]
        /\ strings[KeyArg] = k /\ strings[ValArg] \in Val
    BY <1>3, ArgumentsIntact
  <1>5. Intact(Prepared, strings)
    BY <1>3, ArgumentsIntact
  <1>6. s \in Databases /\ Counted(s, args) /\ Intact(s, strings)
    <2>1. s \in Databases /\ Counted(s, args)
      BY <1>4, ExpiredShape, ExpiredCounted
    <2>2. CASE Overdue(Prepared, k)
      <3>1. Lost(Prepared.dicts, s.dicts, k) /\ Lost(Prepared.expires, s.expires, k)
        BY <1>4, <2>2, ExpiredShape
      <3> HIDE DEF strings
      <3> QED
        BY <1>5, <2>1, <3>1, LostIntact
    <2>3. CASE ~Overdue(Prepared, k)
      BY <1>4, <1>5, <2>3, ExpiredShape
    <2> QED
      BY <2>1, <2>2, <2>3
  <1> HIDE DEF args, strings
  <1>7. Timed(s, k, life) \in Databases /\ Counted(Timed(s, k, life), args)
        /\ Intact(Timed(s, k, life), strings)
    <2> DEFINE stored == Stored(s, k, KeyArg, ValArg)
    <2>1. stored \in Databases /\ Counted(stored, args) /\ Intact(stored, strings)
      <3>1. HasValue(s, stored, k, KeyArg, ValArg)
        BY <1>1, <1>6, ValueStored
      <3> QED
        BY <1>1, <1>4, <1>6, <3>1, ValueStoredCounted, ValueStoredIntact DEF HasValue
    <2>2. CASE life = NoLife
      BY <2>1, <2>2 DEF Timed
    <2>3. CASE life # NoLife
      <3>1. life \in Nat /\ now \in Nat
        BY <2>3, KeyspaceAssumption DEF Invariant, Types
      <3>2. Timed(s, k, life) = SetExpire(stored, k, KeyArg, life)
        BY <2>3 DEF Timed
      <3> HIDE DEF stored
      <3>3. HasLifetime(stored, Timed(s, k, life), k, KeyArg, life)
        BY <1>1, <2>1, <3>1, <3>2, LifetimeSet
      <3> QED
        BY <1>1, <1>4, <2>1, <3>1, <3>2, <3>3, LifetimeSetCounted, LifetimeSetIntact
        DEF HasLifetime
    <2> QED
      BY <2>2, <2>3
  <1>8. /\ Finished(s, k, life) \in Databases /\ Counted(Finished(s, k, life), {})
        /\ Intact(Finished(s, k, life), strings)
    <2>1. args \in SUBSET Obj
      BY <1>1 DEF args
    <2>2. Finished(s, k, life) = [Timed(s, k, life) EXCEPT !.rc = Release(@, args)]
      BY DEF Finished, args
    <2> QED
      BY <1>7, <2>1, <2>2, ArgumentsReleased DEF Intact
  <1>9. Left(Finished(s, k, life), strings)
    BY <1>2, SetInSteps DEF Left, strings
  <1> QED
    BY <1>4, <1>8, <1>9, LeftCorrect

(* What is left of a database after an expiry or a deletion. *)
LEMMA GetReferences ==
    ASSUME Invariant, NoneListed, NoneListed', NEW k \in Key, Get(k)
    PROVE  /\ db' \in ExpireIfNeeded(db, k) /\ UNCHANGED <<now, promised, listed>>
           /\ db' \in Databases /\ Counted(db', {}) /\ Intact(db', content')
           /\ content' \in [Obj -> Key \cup Val \cup {NoVal}]
           /\ server' = "up"
  <1>1. db' \in ExpireIfNeeded(db, k) /\ content' = Kept(content, db'.rc)
        /\ server' = Fate(db') /\ UNCHANGED <<now, promised>>
        /\ (UNCHANGED listed \/ \E o \in Obj : listed' = [listed EXCEPT ![o] = @ + 1])
    <2>1. PICK s \in ExpireIfNeeded(db, k) :
             /\ db' = s
             /\ IF s.dicts[k] # NoEntry /\ content[s.dicts[k].val] \in BigVal
                THEN listed' = [listed EXCEPT ![s.dicts[k].val] = @ + 1]
                ELSE UNCHANGED listed
             /\ content' = Kept(content, s.rc)
      BY DEF Get
    <2>2. s \in Databases
      BY ExpiredShape DEF Invariant, Types
    <2>3. s.dicts[k] # NoEntry => s.dicts[k].val \in Obj
      BY <2>2 DEF Databases, Dicts, DictEntry
    <2> QED
      BY <2>1, <2>3 DEF Get
  <1>2. UNCHANGED listed
    <2>1. ASSUME NEW o \in Obj, listed' = [listed EXCEPT ![o] = @ + 1]
          PROVE  FALSE
      <3>1. listed'[o] = listed[o] + 1
        BY <2>1 DEF Invariant, Types
      <3>2. listed[o] = 0 /\ listed'[o] = 0
        BY DEF NoneListed
      <3> QED
        BY <3>1, <3>2
    <2> QED
      BY <1>1, <2>1
  <1>3. db' \in Databases /\ Counted(db', {})
    BY <1>1, ExpiredShape, ExpiredCounted DEF Invariant, Types
  <1>4. Intact(db', content)
    <2>1. CASE Overdue(db, k)
      <3>1. Lost(db.dicts, db'.dicts, k) /\ Lost(db.expires, db'.expires, k)
        BY <1>1, <2>1, ExpiredShape DEF Invariant, Types
      <3> QED
        BY <3>1, LostIntact DEF Invariant
    <2>2. CASE ~Overdue(db, k)
      BY <1>1, <2>2, ExpiredShape DEF Invariant, Types
    <2> QED
      BY <2>1, <2>2
  <1>5. Left(db', content)
    BY <1>1 DEF Left
  <1>6. content \in [Obj -> Key \cup Val \cup {NoVal}]
    BY DEF Invariant, Types
  <1> QED
    BY <1>1, <1>2, <1>3, <1>4, <1>5, <1>6, LeftCorrect

LEMMA RemovalReferences ==
    ASSUME Invariant, NEW k \in Key, db' \in Removed(db, k),
           content' = Kept(content, db'.rc), server' = Fate(db')
    PROVE  /\ db' \in Databases /\ Counted(db', {}) /\ Intact(db', content')
           /\ content' \in [Obj -> Key \cup Val \cup {NoVal}]
           /\ server' = "up"
  <1>1. db' \in Databases /\ Counted(db', {})
        /\ Lost(db.dicts, db'.dicts, k) /\ Lost(db.expires, db'.expires, k)
    BY RemovedShape, RemovedCounted DEF Invariant, Types
  <1>2. Intact(db', content)
    BY <1>1, LostIntact DEF Invariant
  <1>3. Left(db', content)
    BY DEF Left
  <1>4. content \in [Obj -> Key \cup Val \cup {NoVal}]
    BY DEF Invariant, Types
  <1> QED
    BY <1>1, <1>2, <1>3, <1>4, LeftCorrect

LEMMA CronRemoves ==
    ASSUME Cron
    PROVE  /\ EmptyKey \in Key /\ Overdue(db, EmptyKey) /\ db' \in Removed(db, EmptyKey)
           /\ content' = Kept(content, db'.rc) /\ server' = Fate(db')
           /\ UNCHANGED <<now, reply, promised, listed>>
  BY DEF Cron, ExpireIfNeeded

LEMMA InitInvariant == Init => Invariant
  <1> SUFFICES ASSUME Init PROVE Invariant
    OBVIOUS
  <1>1. db \in Databases
    BY DEF Init, Databases, Dicts, Expires, Counts
  <1>2. Counted(db, {})
    <2>1. ASSUME NEW o \in Obj
          PROVE  Cardinality(DictReferences(db, o)) + Held({}, o) <= db.rc[o]
      <3>1. DictReferences(db, o) = {}
        BY ReferenceMember DEF Init
      <3>2. db.rc[o] = 0
        BY DEF Init
      <3> QED
        BY <3>1, <3>2, FS_EmptySet DEF Held
    <2> QED
      BY <2>1 DEF Counted
  <1>3. Intact(db, content)
    BY DEF Init, Intact
  <1> QED
    BY <1>1, <1>2, <1>3 DEF Invariant, Types, Init

LEMMA NextInvariant ==
    Invariant /\ NoneListed /\ NoneListed' /\ [Next]_vars => Invariant'
  <1> SUFFICES ASSUME Invariant, NoneListed, NoneListed', [Next]_vars
               PROVE  Invariant'
    OBVIOUS
  <1>1. ASSUME NEW k \in Key, NEW v \in Val, NEW life \in Lifetimes \cup {NoLife},
               Set(k, v, life)
        PROVE  Invariant'
    <2>1. /\ db' \in Databases /\ Counted(db', {}) /\ Intact(db', content')
          /\ content' \in [Obj -> Key \cup Val \cup {NoVal}] /\ server' = "up"
      BY <1>1, SetReferences
    <2>2. promised' \in [Key -> Nat \cup {Never}] /\ UNCHANGED <<now, listed>>
      <3>1. PICK s : promised' = [promised EXCEPT ![k] =
                         IF life # NoLife THEN now + life
                         ELSE IF s.dicts[k] = NoEntry THEN Never ELSE @]
        BY <1>1, SetInSteps
      <3>2. life # NoLife => now + life \in Nat
        BY KeyspaceAssumption DEF Invariant, Types
      <3> QED
        BY <1>1, <3>1, <3>2, SetInSteps DEF Invariant, Types
    <2> QED
      BY <2>1, <2>2 DEF Invariant, Types
  <1>2. ASSUME NEW k \in Key, Get(k)
        PROVE  Invariant'
    BY <1>2, GetReferences DEF Invariant, Types
  <1>3. ASSUME NEW k \in Key, Del(k)
        PROVE  Invariant'
    <2>1. /\ db' \in Removed(db, k) /\ content' = Kept(content, db'.rc)
          /\ server' = Fate(db') /\ UNCHANGED <<now, listed>>
          /\ promised' = [promised EXCEPT ![k] = Never]
      BY <1>3 DEF Del
    <2> QED
      BY <2>1, RemovalReferences DEF Invariant, Types
  <1>4. ASSUME NEW k \in Key, Exists(k)
        PROVE  Invariant'
    BY <1>4 DEF Exists, Invariant, Types
  <1>5. ASSUME NEW o \in Obj, Sent(o)
        PROVE  Invariant'
    BY <1>5 DEF Sent, NoneListed
  <1>6. CASE Cron
    BY <1>6, CronRemoves, RemovalReferences DEF Invariant, Types
  <1>7. CASE Crash
    BY <1>7 DEF Crash, Invariant, Types
  <1>8. CASE Tick
    BY <1>8 DEF Tick, Invariant, Types
  <1>9. CASE UNCHANGED vars
    BY <1>9 DEF vars, Invariant, Types
  <1> QED
    BY <1>1, <1>2, <1>3, <1>4, <1>5, <1>6, <1>7, <1>8, <1>9 DEF Next

LEMMA InvariantHolds == Spec /\ []NoneListed => []Invariant
  BY InitInvariant, NextInvariant, PTL DEF Spec

-------------------------------------------------------------------------------
(* The theorems.  NoneListed holds throughout when no value is longer than *)
(* the reply buffer, and in every other behaviour until such a value is    *)
(* read.                                                                   *)

LEMMA NothingToList == ASSUME BigVal = {} PROVE Spec => []NoneListed
  <1> USE DEF NoneListed
  <1>1. Init => NoneListed
    BY DEF Init
  <1>2. NoneListed /\ [Next]_vars => NoneListed'
    <2> SUFFICES ASSUME NoneListed, [Next]_vars PROVE NoneListed'
      OBVIOUS
    <2>1. ASSUME NEW k \in Key, Get(k) PROVE UNCHANGED listed
      BY <2>1 DEF Get
    <2>2. ASSUME NEW o \in Obj, Sent(o) PROVE FALSE
      <3>1. listed[o] = 0 /\ listed[o] > 0
        BY <2>2 DEF Sent
      <3> QED
        BY <3>1
    <2> QED
      BY <2>1, <2>2 DEF Next, vars, Set, Del, Exists, Cron, Crash, Tick
  <1> QED
    BY <1>1, <1>2, PTL DEF Spec

(* No object is released more often than it was retained (Server.h:13),    *)
(* and none is freed while an entry holds it, up to the first time that a  *)
(* value is put on a reply list without being counted.                     *)
THEOREM TypeCorrect == Spec /\ []NoneListed => [](TypeOK /\ server # "undefined")
  <1>1. ASSUME Invariant
        PROVE  TypeOK /\ server # "undefined"
    <2>1. db.rc \in [Obj -> Nat]
      BY <1>1, FateUp DEF Invariant, Types
    <2>2. /\ db.dicts \in [Key -> DictEntry \cup {NoEntry}]
          /\ db.expires \in [Key -> ExpireEntry \cup {NoEntry}]
      BY <1>1 DEF Invariant, Types, Databases, Dicts, Expires
    <2> QED
      BY <1>1, <2>1, <2>2 DEF Invariant, Types, TypeOK
  <1> QED
    BY <1>1, InvariantHolds, PTL

(* The count of every object covers the references the dictionaries hold,  *)
(* whatever dictDelete loses, up to the first time that a value is put on  *)
(* a reply list without being counted (Server.h:13).                       *)
THEOREM ReferencesCorrect == Spec /\ []NoneListed => []ReferencesCounted
  <1>1. ASSUME Invariant, NoneListed
        PROVE  ReferencesCounted
    <2>1. ASSUME NEW o \in Obj
          PROVE  Cardinality(DictReferences(db, o)) + listed[o] <= db.rc[o]
      <3>1. listed[o] = Held({}, o)
        BY <1>1 DEF NoneListed, Held
      <3> QED
        BY <1>1, <3>1 DEF Invariant, Counted
    <2> QED
      BY <2>1 DEF ReferencesCounted, References
  <1> QED
    BY <1>1, InvariantHolds, PTL

(* The key objects hold the strings under which they are filed, although   *)
(* each is shared by two dictionaries or not, as the order of the commands *)
(* had it, and objects are recycled (Server.c:32-53).                      *)
THEOREM KeysCorrect == Spec /\ []NoneListed => []KeysIntact
  <1>1. Invariant => KeysIntact
    BY DEF Invariant, Intact, KeysIntact
  <1> QED
    BY <1>1, InvariantHolds, PTL

(* When every value fits the reply buffer, that is all behaviours. *)
THEOREM SmallValuesCorrect ==
    ASSUME BigVal = {}
    PROVE  Spec => [](TypeOK /\ ReferencesCounted /\ KeysIntact /\ server # "undefined")
  BY NothingToList, TypeCorrect, ReferencesCorrect, KeysCorrect, PTL

-------------------------------------------------------------------------------
(* The clock starts late enough for a deadline never to be 0, which        *)
(* expireIfNeeded takes for none.  This holds of every behaviour, with big *)
(* values or without.                                                      *)

Positive(s) == \A k \in Key : s.expires[k] # NoEntry => s.expires[k].when >= 1

Dated == Types /\ now >= 1 /\ Positive(db)

LEMMA KeptTyped ==
    ASSUME NEW strings \in [Obj -> Key \cup Val \cup {NoVal}], NEW rc
    PROVE  Kept(strings, rc) \in [Obj -> Key \cup Val \cup {NoVal}]
  BY DEF Kept

LEMMA GetShape ==
    ASSUME Types, NEW k \in Key, Get(k)
    PROVE  /\ db' \in ExpireIfNeeded(db, k)
           /\ content' = Kept(content, db'.rc)
           /\ listed' \in [Obj -> Nat]
           /\ reply' = [cmd |-> "get", key |-> k,
                        val |-> IF db'.dicts[k] = NoEntry THEN NoVal
                                ELSE content[db'.dicts[k].val]]
           /\ UNCHANGED <<now, promised>>
  <1>1. PICK s \in ExpireIfNeeded(db, k) :
            /\ db' = s
            /\ \/ listed' = [listed EXCEPT ![s.dicts[k].val] = @ + 1]
               \/ UNCHANGED listed
            /\ content' = Kept(content, s.rc)
            /\ reply' = [cmd |-> "get", key |-> k,
                         val |-> IF s.dicts[k] = NoEntry THEN NoVal
                                 ELSE content[s.dicts[k].val]]
    BY DEF Get
  <1>2. listed' \in [Obj -> Nat]
    BY <1>1 DEF Types
  <1> QED
    BY <1>1, <1>2 DEF Get

LEMMA SentShape ==
    ASSUME Types, NEW o \in Obj, Sent(o)
    PROVE  /\ db' \in Databases /\ db'.dicts = db.dicts /\ db'.expires = db.expires
           /\ content' = Kept(content, db'.rc)
           /\ listed' \in [Obj -> Nat]
           /\ UNCHANGED <<now, reply, promised>>
  <1>1. Release(db.rc, {o}) \in Counts
    BY DEF Types, Databases, Counts, Release
  <1>2. db' = [db EXCEPT !.rc = Release(@, {o})]
    BY DEF Sent
  <1>3. db' \in Databases /\ db'.dicts = db.dicts /\ db'.expires = db.expires
    BY <1>1, <1>2 DEF Types, Databases
  <1>4. listed' \in [Obj -> Nat]
    <2>1. listed[o] - 1 \in Nat
      BY DEF Sent, Types
    <2> QED
      BY <2>1 DEF Sent, Types
  <1> QED
    BY <1>3, <1>4 DEF Sent

LEMMA LostPositive ==
    ASSUME NEW s, NEW t, NEW k \in Key, Lost(s.expires, t.expires, k), Positive(s)
    PROVE  Positive(t)
  BY DEF Lost, Positive

LEMMA ExpiredPositive ==
    ASSUME NEW s \in Databases, Positive(s), NEW k \in Key, NEW t \in ExpireIfNeeded(s, k)
    PROVE  Positive(t)
  BY ExpiredShape, LostPositive

LEMMA PreparedShape ==
    ASSUME Types
    PROVE  /\ Prepared \in Databases
           /\ Prepared.dicts = db.dicts /\ Prepared.expires = db.expires
  <1>1. Retain(db.rc, {KeyArg, ValArg}) \in Counts
    BY DEF Types, Databases, Counts, Retain
  <1> QED
    BY <1>1 DEF Prepared, Types, Databases

LEMMA SetShape ==
    ASSUME Types, NEW k \in Key, NEW v \in Val, NEW life \in Lifetimes \cup {NoLife},
           Set(k, v, life)
    PROVE  /\ KeyArg \in Obj /\ ValArg \in Obj
           /\ promised' \in [Key -> Nat \cup {Never}]
           /\ content' \in [Obj -> Key \cup Val \cup {NoVal}]
           /\ life # NoLife => life \in Nat /\ now + life \in Nat /\ now + life >= now
           /\ UNCHANGED <<now, listed>>
  <1>1. KeyArg \in Obj /\ ValArg \in Obj
    BY SetInSteps, ArgumentsAreFree
  <1>2. life # NoLife => life \in Nat /\ now + life \in Nat /\ now + life >= now
    BY KeyspaceAssumption DEF Types
  <1>3. Strings(k, v) \in [Obj -> Key \cup Val \cup {NoVal}]
    BY <1>1 DEF Strings, Types
  <1>4. content' \in [Obj -> Key \cup Val \cup {NoVal}]
    BY <1>3, SetInSteps, KeptTyped
  <1>5. PICK s : promised' = [promised EXCEPT ![k] =
                     IF life # NoLife THEN now + life
                     ELSE IF s.dicts[k] = NoEntry THEN Never ELSE @]
    BY SetInSteps
  <1>6. promised' \in [Key -> Nat \cup {Never}]
    BY <1>2, <1>5 DEF Types
  <1> QED
    BY <1>1, <1>2, <1>4, <1>6, SetInSteps

LEMMA InitDated == Init => Dated
  BY InitInvariant DEF Invariant, Dated, Positive, Init

LEMMA NextDated == Dated /\ [Next]_vars => Dated'
  <1> SUFFICES ASSUME Dated, [Next]_vars PROVE Dated'
    OBVIOUS
  <1> USE DEF Dated
  <1>1. ASSUME NEW k \in Key, NEW v \in Val, NEW life \in Lifetimes \cup {NoLife},
               Set(k, v, life)
        PROVE  Dated'
    <2>1. PICK s \in ExpireIfNeeded(Prepared, k) :
              db' \in Databases /\ HasSet(s, db', k, life)
      BY <1>1, SetDictionaries
    <2>2. Positive(s)
      <3>1. Positive(Prepared)
        BY PreparedShape DEF Positive
      <3> QED
        BY <3>1, PreparedShape, ExpiredPositive
    <2>3. /\ promised' \in [Key -> Nat \cup {Never}]
          /\ content' \in [Obj -> Key \cup Val \cup {NoVal}]
          /\ life # NoLife => now + life >= 1
          /\ UNCHANGED <<now, listed>>
      BY <1>1, SetShape DEF Types
    <2>4. Positive(db')
      BY <2>1, <2>2, <2>3 DEF HasSet, Positive
    <2> QED
      BY <2>1, <2>3, <2>4 DEF Types, Positive
  <1>2. ASSUME NEW k \in Key, Get(k)
        PROVE  Dated'
    <2>1. db' \in Databases /\ Positive(db')
      BY <1>2, GetShape, ExpiredShape, ExpiredPositive DEF Types
    <2>2. content' \in [Obj -> Key \cup Val \cup {NoVal}]
      BY <1>2, GetShape, KeptTyped DEF Types
    <2>3. listed' \in [Obj -> Nat] /\ UNCHANGED <<now, promised>>
      BY <1>2, GetShape
    <2> QED
      BY <2>1, <2>2, <2>3 DEF Types, Positive
  <1>3. ASSUME NEW k \in Key, db' \in Removed(db, k), content' = Kept(content, db'.rc),
               promised' \in [Key -> Nat \cup {Never}], UNCHANGED <<now, listed>>
        PROVE  Dated'
    <2>1. db' \in Databases /\ Positive(db')
      BY <1>3, RemovedShape, LostPositive DEF Types
    <2>2. content' \in [Obj -> Key \cup Val \cup {NoVal}]
      BY <1>3, KeptTyped DEF Types
    <2> QED
      BY <1>3, <2>1, <2>2 DEF Types, Positive
  <1>4. ASSUME NEW k \in Key, Del(k)
        PROVE  Dated'
    <2>1. /\ db' \in Removed(db, k) /\ content' = Kept(content, db'.rc)
          /\ promised' \in [Key -> Nat \cup {Never}] /\ UNCHANGED <<now, listed>>
      BY <1>4 DEF Del, Types
    <2> QED
      BY <1>3, <2>1
  <1>5. CASE Cron
    <2>1. promised' \in [Key -> Nat \cup {Never}]
      BY <1>5, CronRemoves DEF Types
    <2> QED
      BY <1>3, <1>5, <2>1, CronRemoves
  <1>6. ASSUME NEW o \in Obj, Sent(o)
        PROVE  Dated'
    <2>1. content' \in [Obj -> Key \cup Val \cup {NoVal}]
      BY <1>6, SentShape, KeptTyped DEF Types
    <2> QED
      BY <1>6, <2>1, SentShape DEF Types, Positive
  <1>7. ASSUME NEW k \in Key, Exists(k)
        PROVE  Dated'
    BY <1>7 DEF Exists, Types, Positive
  <1>8. CASE Crash
    BY <1>8 DEF Crash, Types, Positive
  <1>9. CASE Tick
    BY <1>9 DEF Tick, Types, Positive
  <1>10. CASE UNCHANGED vars
    BY <1>10 DEF vars, Types, Positive
  <1> QED
    BY <1>1, <1>2, <1>4, <1>5, <1>6, <1>7, <1>8, <1>9, <1>10 DEF Next

LEMMA DatedHolds == Spec => []Dated
  BY InitDated, NextDated, PTL DEF Spec

-------------------------------------------------------------------------------
(* Deadlines, when dictDelete loses nothing but what it is asked to.       *)

NothingLost == \A k \in Key : Collides[k] = {}

Within(s) == \A k \in Key : s.expires[k] # NoEntry => s.dicts[k] # NoEntry

(* The deadline of a key that has a value is the one promised. *)
Promises(s, p) ==
    \A k \in Key : p[k] # Never /\ s.dicts[k] # NoEntry =>
        s.expires[k] # NoEntry /\ s.expires[k].when = p[k]

Timely == Within(db) /\ Promises(db, promised)

(* Both survive the end of a key, and the end of its promise. *)
LEMMA LostTimely ==
    ASSUME NothingLost, NEW s, NEW t, NEW k \in Key, NEW p,
           Lost(s.dicts, t.dicts, k), Lost(s.expires, t.expires, k),
           Within(s), Promises(s, p)
    PROVE  Within(t) /\ Promises(t, p)
  <1>1. t.dicts[k] = NoEntry /\ t.expires[k] = NoEntry
    BY DEF Lost
  <1>2. \A j \in Key \ {k} : t.dicts[j] = s.dicts[j] /\ t.expires[j] = s.expires[j]
    BY DEF Lost, NothingLost
  <1> QED
    BY <1>1, <1>2 DEF Within, Promises

LEMMA ExpiredTimely ==
    ASSUME NothingLost, NEW s \in Databases, NEW k \in Key, NEW t \in ExpireIfNeeded(s, k),
           NEW p, Within(s), Promises(s, p)
    PROVE  Within(t) /\ Promises(t, p)
  BY ExpiredShape, LostTimely

LEMMA InitTimely == Init => Timely
  BY DEF Init, Timely, Within, Promises

LEMMA NextTimely ==
    ASSUME NothingLost, Dated, Timely, [Next]_vars
    PROVE  Timely'
  <1> USE DEF Dated, Timely
  <1>1. ASSUME NEW k \in Key, NEW v \in Val, NEW life \in Lifetimes \cup {NoLife},
               Set(k, v, life)
        PROVE  Timely'
    <2>1. PICK s \in ExpireIfNeeded(Prepared, k) :
              /\ s \in Databases /\ db' \in Databases
              /\ HasSet(s, db', k, life)
              /\ promised' = [promised EXCEPT ![k] =
                     IF life # NoLife THEN now + life
                     ELSE IF s.dicts[k] = NoEntry THEN Never ELSE @]
      BY <1>1, SetDictionaries
    <2>2. Within(s) /\ Promises(s, promised)
      <3>1. Within(Prepared) /\ Promises(Prepared, promised)
        BY PreparedShape DEF Within, Promises
      <3> QED
        BY <3>1, PreparedShape, ExpiredTimely
    <2>3. /\ \A j \in Key \ {k} : promised'[j] = promised[j]
          /\ promised'[k] = IF life # NoLife THEN now + life
                            ELSE IF s.dicts[k] = NoEntry THEN Never ELSE promised[k]
      BY <2>1 DEF Types
    <2>4. /\ db'.dicts[k] # NoEntry
          /\ life # NoLife => db'.expires[k] # NoEntry /\ db'.expires[k].when = now + life
      BY <2>1, KeyspaceAssumption DEF HasSet, DictEntry, ExpireEntry
    <2>5. Within(db')
      BY <2>1, <2>2, <2>4 DEF HasSet, Within
    <2>6. ASSUME NEW j \in Key, promised'[j] # Never, db'.dicts[j] # NoEntry
          PROVE  db'.expires[j] # NoEntry /\ db'.expires[j].when = promised'[j]
      <3>1. CASE j # k
        BY <2>1, <2>2, <2>3, <2>6, <3>1 DEF HasSet, Promises
      <3>2. CASE j = k /\ life # NoLife
        BY <2>3, <2>4, <3>2
      <3>3. CASE j = k /\ life = NoLife
        BY <2>1, <2>2, <2>3, <2>6, <3>3 DEF HasSet, Promises
      <3> QED
        BY <3>1, <3>2, <3>3
    <2> QED
      BY <2>5, <2>6 DEF Within, Promises
  <1>2. ASSUME NEW k \in Key, Get(k)
        PROVE  Timely'
    <2>1. db' \in ExpireIfNeeded(db, k) /\ promised' = promised /\ db \in Databases
      BY <1>2, GetShape DEF Types
    <2>2. Within(db') /\ Promises(db', promised)
      BY <2>1, ExpiredTimely
    <2> QED
      BY <2>1, <2>2 DEF Within, Promises
  <1>3. ASSUME NEW k \in Key, db' \in Removed(db, k),
               \A j \in Key : promised'[j] \in {promised[j], Never}
        PROVE  Timely'
    <2>1. Within(db') /\ Promises(db', promised)
      BY <1>3, RemovedShape, LostTimely DEF Types
    <2> QED
      BY <1>3, <2>1 DEF Within, Promises
  <1>4. ASSUME NEW k \in Key, Del(k)
        PROVE  Timely'
    <2>1. /\ db' \in Removed(db, k)
          /\ \A j \in Key : promised'[j] \in {promised[j], Never}
      BY <1>4 DEF Del, Types
    <2> QED
      BY <1>3, <2>1
  <1>5. CASE Cron
    BY <1>3, <1>5, CronRemoves
  <1>6. ASSUME NEW o \in Obj, Sent(o)
        PROVE  Timely'
    <2>1. db'.dicts = db.dicts /\ db'.expires = db.expires /\ promised' = promised
      BY <1>6, SentShape
    <2> QED
      BY <2>1 DEF Within, Promises
  <1>7. CASE UNCHANGED <<db, promised>>
    BY <1>7 DEF Within, Promises
  <1> QED
    BY <1>1, <1>2, <1>4, <1>5, <1>6, <1>7 DEF Next, vars, Exists, Crash, Tick

LEMMA TimelyHolds == ASSUME NothingLost PROVE Spec => []Timely
  <1>1. Init => Timely
    BY InitTimely
  <1>2. Dated /\ Timely /\ [Next]_vars => Timely'
    BY NextTimely
  <1> QED
    BY <1>1, <1>2, DatedHolds, PTL DEF Spec

(* A key has a deadline only while it has a value, so that a new key never *)
(* inherits the deadline of an old one (db.c, removeExpire before dbDelete *)
(* in every place), when dictDelete loses no other key.                    *)
THEOREM DeadlinesWithValues == ASSUME NothingLost PROVE Spec => []ExpiresWithinDicts
  <1>1. Timely => ExpiresWithinDicts
    BY DEF Timely, Within, ExpiresWithinDicts
  <1> QED
    BY <1>1, TimelyHolds, PTL

(* A GET later than the deadline last promised finds nothing, whatever the *)
(* cron, other commands and overwrites did in between (Server.h:104), with *)
(* big values too, when dictDelete loses no other key.                     *)
THEOREM LifetimesHonoured == ASSUME NothingLost PROVE Spec => LifetimeHonoured
  <1>1. ASSUME Dated, Timely
        PROVE  \A k \in Key : Get(k) /\ promised[k] # Never /\ now > promised[k]
                   => reply'.val = NoVal
    <2> SUFFICES ASSUME NEW k \in Key, Get(k), promised[k] # Never, now > promised[k]
                 PROVE  reply'.val = NoVal
      OBVIOUS
    <2>1. db \in Databases /\ db' \in ExpireIfNeeded(db, k)
          /\ reply' = [cmd |-> "get", key |-> k,
                       val |-> IF db'.dicts[k] = NoEntry THEN NoVal
                               ELSE content[db'.dicts[k].val]]
      BY <1>1, GetShape DEF Dated, Types
    <2>2. db'.dicts[k] = NoEntry
      <3>1. CASE db.dicts[k] = NoEntry
        BY <2>1, <3>1, ExpiredShape DEF Lost
      <3>2. CASE db.dicts[k] # NoEntry
        <4>1. db.expires[k] # NoEntry /\ db.expires[k].when = promised[k]
              /\ db.expires[k].when >= 1
          BY <1>1, <3>2 DEF Timely, Promises, Dated, Positive
        <4>2. db.expires[k].when \in Nat
          BY <2>1, <4>1 DEF Databases, Expires, ExpireEntry
        <4>3. Overdue(db, k)
          BY <4>1, <4>2 DEF Overdue, GetExpire
        <4> QED
          BY <2>1, <4>3, ExpiredShape DEF Lost
      <3> QED
        BY <3>1, <3>2
    <2> QED
      BY <2>1, <2>2
  <1>2. Dated /\ Timely => [\A k \in Key : Get(k) /\ promised[k] # Never /\ now > promised[k]
                                => reply'.val = NoVal]_vars
    BY <1>1
  <1> QED
    BY <1>2, TimelyHolds, DatedHolds, PTL DEF LifetimeHonoured

-------------------------------------------------------------------------------
(* The abstract store, in terms of a database and the strings of the       *)
(* objects.                                                                *)

Vals(s, strings) == [k \in Key |-> IF s.dicts[k] = NoEntry THEN NoVal
                                  ELSE strings[s.dicts[k].val]]

Dues(s) == [k \in Key |-> IF s.expires[k] = NoEntry THEN Never ELSE s.expires[k].when]

StoreInvariant == Invariant /\ Dated

Dropped(f, k, none) ==
    IF f[k] = none
    THEN {f}
    ELSE {[j \in Key |-> IF j = k \/ j \in lost THEN none ELSE f[j]] :
             lost \in SUBSET Collides[k]}

LEMMA LostVals ==
    ASSUME NEW s, NEW t, NEW strings, Intact(s, strings), NEW k \in Key,
           Lost(s.dicts, t.dicts, k)
    PROVE  Vals(t, strings) \in Dropped(Vals(s, strings), k, NoVal)
  <1>1. Vals(s, strings)[k] = NoVal <=> s.dicts[k] = NoEntry
    BY KeyspaceAssumption DEF Vals, Intact
  <1>2. CASE s.dicts[k] = NoEntry
    BY <1>1, <1>2 DEF Lost, Dropped, Vals
  <1>3. CASE s.dicts[k] # NoEntry
    <2> DEFINE lost == {j \in Collides[k] : t.dicts[j] = NoEntry}
    <2>1. \A j \in Key : Vals(t, strings)[j] =
              IF j = k \/ j \in lost THEN NoVal ELSE Vals(s, strings)[j]
      BY DEF Lost, Vals
    <2>2. Vals(t, strings) = [j \in Key |-> IF j = k \/ j \in lost THEN NoVal
                                           ELSE Vals(s, strings)[j]]
      BY <2>1 DEF Vals
    <2>3. lost \in SUBSET Collides[k]
      OBVIOUS
    <2> HIDE DEF lost
    <2> QED
      BY <1>1, <1>3, <2>2, <2>3 DEF Dropped
  <1> QED
    BY <1>2, <1>3

LEMMA LostDues ==
    ASSUME NEW s \in Databases, NEW t, NEW k \in Key, Lost(s.expires, t.expires, k)
    PROVE  Dues(t) \in Dropped(Dues(s), k, Never)
  <1>1. Dues(s)[k] = Never <=> s.expires[k] = NoEntry
    BY KeyspaceAssumption DEF Dues, Databases, Expires, ExpireEntry
  <1>2. CASE s.expires[k] = NoEntry
    BY <1>1, <1>2 DEF Lost, Dropped, Dues
  <1>3. CASE s.expires[k] # NoEntry
    <2> DEFINE lost == {j \in Collides[k] : t.expires[j] = NoEntry}
    <2>1. \A j \in Key : Dues(t)[j] =
              IF j = k \/ j \in lost THEN Never ELSE Dues(s)[j]
      BY DEF Lost, Dues
    <2>2. Dues(t) = [j \in Key |-> IF j = k \/ j \in lost THEN Never ELSE Dues(s)[j]]
      BY <2>1 DEF Dues
    <2>3. lost \in SUBSET Collides[k]
      OBVIOUS
    <2> HIDE DEF lost
    <2> QED
      BY <1>1, <1>3, <2>2, <2>3 DEF Dropped
  <1> QED
    BY <1>2, <1>3

(* Whether a key is overdue is seen in the abstract store. *)
LEMMA OverdueSeen ==
    ASSUME NEW s \in Databases, Positive(s), NEW k \in Key, now \in Nat
    PROVE  Overdue(s, k) <=> Dues(s)[k] # Never /\ now > Dues(s)[k]
  BY KeyspaceAssumption DEF Overdue, GetExpire, Dues, Positive, Databases, Expires, ExpireEntry

(* What a command sees of s, in the abstract store. *)
Seen(s, strings, k) ==
    IF Dues(s)[k] # Never /\ now > Dues(s)[k]
    THEN Dropped(Vals(s, strings), k, NoVal) \X Dropped(Dues(s), k, Never)
    ELSE {<<Vals(s, strings), Dues(s)>>}

LEMMA RemovedSeen ==
    ASSUME NEW s \in Databases, NEW strings, Intact(s, strings), NEW k \in Key,
           NEW t \in Removed(s, k)
    PROVE  <<Vals(t, strings), Dues(t)>> \in
               Dropped(Vals(s, strings), k, NoVal) \X Dropped(Dues(s), k, Never)
  BY RemovedShape, LostVals, LostDues

LEMMA ExpiredSeen ==
    ASSUME NEW s \in Databases, Positive(s), NEW strings, Intact(s, strings),
           NEW k \in Key, NEW t \in ExpireIfNeeded(s, k), now \in Nat
    PROVE  <<Vals(t, strings), Dues(t)>> \in Seen(s, strings, k)
  <1>1. CASE Overdue(s, k)
    <2>1. t \in Removed(s, k)
      BY <1>1 DEF ExpireIfNeeded
    <2>2. <<Vals(t, strings), Dues(t)>> \in
              Dropped(Vals(s, strings), k, NoVal) \X Dropped(Dues(s), k, Never)
      BY <2>1, RemovedSeen
    <2> QED
      BY <1>1, <2>2, OverdueSeen DEF Seen
  <1>2. CASE ~Overdue(s, k)
    <2>1. t = s
      BY <1>2 DEF ExpireIfNeeded
    <2> QED
      BY <1>2, <2>1, OverdueSeen DEF Seen
  <1> QED
    BY <1>1, <1>2

(* The strings that are freed are not seen. *)
LEMMA KeptVals ==
    ASSUME NEW s \in Databases, Counted(s, {}), NEW strings
    PROVE  Vals(s, Kept(strings, s.rc)) = Vals(s, strings)
  <1>1. ASSUME NEW k \in Key, s.dicts[k] # NoEntry
        PROVE  s.dicts[k].val \in Obj /\ s.rc[s.dicts[k].val] # 0
    <2>1. s.dicts[k].val \in Obj
      BY <1>1 DEF Databases, Dicts, DictEntry
    <2>2. s.rc[s.dicts[k].val] = 0 => s.rc[s.dicts[k].val] = Held({}, s.dicts[k].val)
      BY DEF Held
    <2> QED
      BY <1>1, <2>1, <2>2, UnusedUnreferenced
  <1> QED
    BY <1>1 DEF Vals, Kept

-------------------------------------------------------------------------------
(* The commands, in the abstract store. *)

LEMMA GetSeen ==
    ASSUME StoreInvariant, NoneListed, NoneListed', NEW k \in Key, Get(k)
    PROVE  /\ <<Vals(db', content'), Dues(db')>> \in Seen(db, content, k)
           /\ reply' = [cmd |-> "get", key |-> k, val |-> Vals(db', content')[k]]
           /\ UNCHANGED now
  <1>1. db \in Databases /\ Positive(db) /\ Intact(db, content) /\ now \in Nat
    BY DEF StoreInvariant, Dated, Invariant, Types
  <1>2. db' \in ExpireIfNeeded(db, k) /\ content' = Kept(content, db'.rc)
        /\ reply' = [cmd |-> "get", key |-> k,
                     val |-> IF db'.dicts[k] = NoEntry THEN NoVal
                             ELSE content[db'.dicts[k].val]]
        /\ UNCHANGED now
    BY GetShape DEF StoreInvariant, Dated
  <1>3. db' \in Databases /\ Counted(db', {})
    BY GetReferences DEF StoreInvariant
  <1>4. Vals(db', content') = Vals(db', content)
    BY <1>2, <1>3, KeptVals
  <1>5. <<Vals(db', content), Dues(db')>> \in Seen(db, content, k)
    BY <1>1, <1>2, ExpiredSeen
  <1>6. reply' = [cmd |-> "get", key |-> k, val |-> Vals(db', content)[k]]
    BY <1>2 DEF Vals
  <1> QED
    BY <1>2, <1>4, <1>5, <1>6

LEMMA RemovalSeen ==
    ASSUME StoreInvariant, NEW k \in Key, db' \in Removed(db, k),
           content' = Kept(content, db'.rc), server' = Fate(db')
    PROVE  <<Vals(db', content'), Dues(db')>> \in
               Dropped(Vals(db, content), k, NoVal) \X Dropped(Dues(db), k, Never)
  <1>1. db \in Databases /\ Intact(db, content)
    BY DEF StoreInvariant, Invariant, Types
  <1>2. db' \in Databases /\ Counted(db', {})
    BY RemovalReferences DEF StoreInvariant
  <1>3. Vals(db', content') = Vals(db', content)
    BY <1>2, KeptVals
  <1> QED
    BY <1>1, <1>3, RemovedSeen

LEMMA SetSeen ==
    ASSUME StoreInvariant, NEW k \in Key, NEW v \in Val,
           NEW life \in Lifetimes \cup {NoLife}, Set(k, v, life)
    PROVE  \E p \in Seen(db, content, k) :
               /\ Vals(db', content') = [p[1] EXCEPT ![k] = v]
               /\ Dues(db') = IF life = NoLife THEN p[2] ELSE [p[2] EXCEPT ![k] = now + life]
  <1> DEFINE strings == Strings(k, v)
  <1>1. PICK s \in ExpireIfNeeded(Prepared, k) :
            s \in Databases /\ HasSet(s, db', k, life)
    BY SetDictionaries DEF StoreInvariant, Dated
  <1>2. Cardinality(Free) >= 2 /\ content' = Kept(strings, db'.rc)
    BY SetInSteps
  <1>3. /\ Prepared \in Databases
        /\ Prepared.dicts = db.dicts /\ Prepared.expires = db.expires
        /\ strings[ValArg] = v
        /\ \A j \in Key : db.dicts[j] # NoEntry =>
               strings[db.dicts[j].val] = content[db.dicts[j].val]
        /\ Intact(Prepared, strings)
    BY <1>2, ArgumentsIntact DEF StoreInvariant
  <1> HIDE DEF strings
  <1>4. Vals(Prepared, strings) = Vals(db, content) /\ Dues(Prepared) = Dues(db)
    BY <1>3 DEF Vals, Dues
  <1>5. Positive(Prepared) /\ now \in Nat
    BY <1>3 DEF StoreInvariant, Dated, Types, Positive
  <1>6. <<Vals(s, strings), Dues(s)>> \in Seen(db, content, k)
    <2>1. <<Vals(s, strings), Dues(s)>> \in Seen(Prepared, strings, k)
      BY <1>1, <1>3, <1>5, ExpiredSeen
    <2> QED
      BY <1>4, <2>1 DEF Seen
  <1>7. Vals(db', content') = Vals(db', strings)
    <2>1. db' \in Databases /\ Counted(db', {})
      BY SetReferences DEF StoreInvariant
    <2> QED
      BY <1>2, <2>1, KeptVals
  <1>8. Vals(db', strings) = [Vals(s, strings) EXCEPT ![k] = v]
    <2>1. db'.dicts[k] # NoEntry /\ db'.dicts[k].val = ValArg
      BY <1>1, KeyspaceAssumption DEF HasSet, DictEntry
    <2>2. Vals(db', strings)[k] = v
      BY <1>3, <2>1 DEF Vals
    <2>3. \A j \in Key \ {k} : Vals(db', strings)[j] = Vals(s, strings)[j]
      BY <1>1 DEF HasSet, Vals
    <2> QED
      BY <2>2, <2>3 DEF Vals
  <1>9. Dues(db') = IF life = NoLife THEN Dues(s) ELSE [Dues(s) EXCEPT ![k] = now + life]
    <2>1. \A j \in Key \ {k} : Dues(db')[j] = Dues(s)[j]
      BY <1>1 DEF HasSet, Dues
    <2>2. Dues(db')[k] = IF life = NoLife THEN Dues(s)[k] ELSE now + life
      BY <1>1, KeyspaceAssumption DEF HasSet, Dues, ExpireEntry
    <2> QED
      BY <2>1, <2>2 DEF Dues
  <1> QED
    BY <1>6, <1>7, <1>8, <1>9

-------------------------------------------------------------------------------
(* The steps of the keyspace are steps of the store. *)

LEMMA AbstractState ==
    /\ Abstract!Init <=> /\ Vals(db, content) = [k \in Key |-> NoVal]
                         /\ Dues(db) = [k \in Key |-> Never]
                         /\ now = 1 /\ reply = [cmd |-> "none"]
    /\ \A k \in Key :
           /\ Abstract!Current(k) = Seen(db, content, k)
           /\ Abstract!Removed(k) =
                  Dropped(Vals(db, content), k, NoVal) \X Dropped(Dues(db), k, Never)
           /\ Abstract!Overdue(k) <=> Dues(db)[k] # Never /\ now > Dues(db)[k]
  BY DEF Abstract!Init, Abstract!Current, Abstract!Removed, Abstract!Overdue,
         Abstract!Dropped, Seen, Dropped, Vals, Dues

LEMMA PresenceSeen ==
    ASSUME StoreInvariant, NEW k \in Key
    PROVE  Vals(db, content)[k] # NoVal <=> db.dicts[k] # NoEntry
  BY KeyspaceAssumption DEF Vals, StoreInvariant, Invariant, Intact

LEMMA StoreSet ==
    ASSUME StoreInvariant, NEW k \in Key, NEW v \in Val,
           NEW life \in Lifetimes \cup {NoLife}, Set(k, v, life)
    PROVE  Abstract!Set(k, v, life)
  <1>1. PICK p \in Abstract!Current(k) :
            /\ Vals(db', content') = [p[1] EXCEPT ![k] = v]
            /\ Dues(db') = IF life = NoLife THEN p[2] ELSE [p[2] EXCEPT ![k] = now + life]
    BY SetSeen, AbstractState
  <1>2. reply' = [cmd |-> "set", key |-> k, val |-> v, life |-> life] /\ UNCHANGED now
    BY DEF Set
  <1> QED
    BY <1>1, <1>2 DEF Abstract!Set, Vals, Dues

LEMMA StoreGet ==
    ASSUME StoreInvariant, NoneListed, NoneListed', NEW k \in Key, Get(k)
    PROVE  Abstract!Get(k)
  <1>1. /\ <<Vals(db', content'), Dues(db')>> \in Abstract!Current(k)
        /\ reply' = [cmd |-> "get", key |-> k, val |-> Vals(db', content')[k]]
        /\ UNCHANGED now
    BY GetSeen, AbstractState
  <1>2. PICK p \in Abstract!Current(k) :
            /\ Vals(db', content') = p[1] /\ Dues(db') = p[2]
            /\ reply' = [cmd |-> "get", key |-> k, val |-> p[1][k]]
    BY <1>1
  <1> QED
    BY <1>1, <1>2 DEF Abstract!Get, Vals, Dues

LEMMA StoreDel ==
    ASSUME StoreInvariant, NEW k \in Key, Del(k)
    PROVE  Abstract!Del(k)
  <1>1. /\ db' \in Removed(db, k) /\ content' = Kept(content, db'.rc)
        /\ server' = Fate(db') /\ UNCHANGED now
        /\ reply' = [cmd |-> "del", key |-> k, found |-> db.dicts[k] # NoEntry]
    BY DEF Del
  <1>2. <<Vals(db', content'), Dues(db')>> \in Abstract!Removed(k)
    BY <1>1, RemovalSeen, AbstractState
  <1>3. PICK p \in Abstract!Removed(k) : Vals(db', content') = p[1] /\ Dues(db') = p[2]
    BY <1>2
  <1>4. reply' = [cmd |-> "del", key |-> k, found |-> Vals(db, content)[k] # NoVal]
    BY <1>1, PresenceSeen
  <1> QED
    BY <1>1, <1>3, <1>4 DEF Abstract!Del, Vals, Dues

LEMMA StoreExists ==
    ASSUME StoreInvariant, NEW k \in Key, Exists(k)
    PROVE  Abstract!Exists(k)
  <1>1. reply' = [cmd |-> "exists", key |-> k, found |-> Vals(db, content)[k] # NoVal]
    BY PresenceSeen DEF Exists
  <1> QED
    BY <1>1 DEF Exists, Abstract!Exists, Vals, Dues

LEMMA StoreExpire ==
    ASSUME StoreInvariant, Cron
    PROVE  Abstract!Expire(EmptyKey)
  <1>1. /\ EmptyKey \in Key /\ Overdue(db, EmptyKey) /\ db' \in Removed(db, EmptyKey)
        /\ content' = Kept(content, db'.rc) /\ server' = Fate(db')
        /\ UNCHANGED <<now, reply>>
    BY CronRemoves
  <1>2. <<Vals(db', content'), Dues(db')>> \in Abstract!Removed(EmptyKey)
    BY <1>1, RemovalSeen, AbstractState
  <1>3. PICK p \in Abstract!Removed(EmptyKey) :
            Vals(db', content') = p[1] /\ Dues(db') = p[2]
    BY <1>2
  <1>4. Abstract!Overdue(EmptyKey)
    BY <1>1, OverdueSeen, AbstractState DEF StoreInvariant, Dated, Types
  <1> QED
    BY <1>1, <1>3, <1>4 DEF Abstract!Expire, Vals, Dues

LEMMA StoreStep ==
    StoreInvariant /\ NoneListed /\ NoneListed' /\ [Next]_vars
        => [Abstract!Next]_(Abstract!vars)
  <1> SUFFICES ASSUME StoreInvariant, NoneListed, NoneListed', [Next]_vars
               PROVE  [Abstract!Next]_(Abstract!vars)
    OBVIOUS
  <1>1. ASSUME NEW k \in Key, NEW v \in Val, NEW life \in Lifetimes \cup {NoLife},
               Set(k, v, life)
        PROVE  Abstract!Next
    BY <1>1, StoreSet DEF Abstract!Next
  <1>2. ASSUME NEW k \in Key, Get(k)
        PROVE  Abstract!Next
    BY <1>2, StoreGet DEF Abstract!Next
  <1>3. ASSUME NEW k \in Key, Del(k)
        PROVE  Abstract!Next
    BY <1>3, StoreDel DEF Abstract!Next
  <1>4. ASSUME NEW k \in Key, Exists(k)
        PROVE  Abstract!Next
    BY <1>4, StoreExists DEF Abstract!Next
  <1>5. CASE Cron
    <2>1. EmptyKey \in Key
      BY <1>5 DEF Cron
    <2> QED
      BY <1>5, <2>1, StoreExpire DEF Abstract!Next
  <1>6. CASE Tick
    BY <1>6 DEF Tick, Abstract!Tick, Abstract!Next
  <1>7. ASSUME NEW o \in Obj, Sent(o)
        PROVE  FALSE
    <2>1. listed[o] = 0 /\ listed[o] > 0
      BY <1>7 DEF Sent, NoneListed
    <2> QED
      BY <2>1
  <1>8. CASE UNCHANGED <<db, content, now, reply>>
    BY <1>8 DEF Abstract!vars
  <1> QED
    BY <1>1, <1>2, <1>3, <1>4, <1>5, <1>6, <1>7, <1>8 DEF Next, vars, Crash

(* Reference counts, shared and recycled objects never show in a reply:    *)
(* as long as no value is shared with a reply list, every step of the      *)
(* keyspace is one step of the abstract store or invisible, whatever       *)
(* dictDelete loses (Server.c, db.c).                                      *)
THEOREM KeyspaceImplementsStore == Spec /\ []NoneListed => ImplementsStore
  <1>1. Init => Abstract!Init
    <2>1. ASSUME Init
          PROVE  /\ Vals(db, content) = [k \in Key |-> NoVal]
                 /\ Dues(db) = [k \in Key |-> Never]
      BY <2>1 DEF Init, Vals, Dues
    <2> QED
      BY <2>1, AbstractState DEF Init
  <1>2. StoreInvariant /\ NoneListed /\ NoneListed' /\ [Next]_vars
            => [Abstract!Next]_(Abstract!vars)
    BY StoreStep
  <1>3. Spec /\ []NoneListed => []StoreInvariant
    BY InvariantHolds, DatedHolds, PTL DEF StoreInvariant
  <1> QED
    BY <1>1, <1>2, <1>3, PTL DEF Spec, ImplementsStore, Abstract!Spec

(* When every value fits the reply buffer, that is all behaviours. *)
THEOREM SmallValuesImplementStore == ASSUME BigVal = {} PROVE Spec => ImplementsStore
  BY NothingToList, KeyspaceImplementsStore, PTL
===============================================================================
