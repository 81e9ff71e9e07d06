--------------------------------- MODULE Dict ---------------------------------
(***************************************************************************)
(* The hash dictionary of base_struct/hdict.c: two chained hash tables and *)
(* the incremental rehash that moves the entries of ht[0] to ht[1].        *)
(*                                                                         *)
(* Every API call of a single-threaded program is one step, except         *)
(* dictRehash, which is one step per bucket visited and per entry moved:   *)
(* its loop can leave the table, so its control is kept.  A read past the  *)
(* end of ht[0].table is undefined behaviour in C; the model stops there,  *)
(* with pc = "undefined".                                                  *)
(*                                                                         *)
(* ApiNext is any use of the API (as structTest/HdictTest.c drives it);    *)
(* Next is the use the server makes of it (server/db.c, server/Server.c):  *)
(* dictAdd only after dictFind failed.  The server never calls dictResize; *)
(* Next allows it all the same.                                            *)
(***************************************************************************)
EXTENDS Integers, Sequences, FiniteSets, SequencesExt

CONSTANTS
    Key,            \* the keys
    Val,            \* the values
    NoVal,          \* "no entry", the NULL of dictFind
    Hash,           \* dictHashKey, a number for each key
    TableSizes,     \* the sizes GetNextSuitableSzie can return: 4 * 2^i
    InitialSize,    \* 4, the least of them
    UsedUp,         \* USED_UP_NUMBER, 2
    RehashSteps,    \* the n a caller passes to dictRehash; the server's is 100
    MaxUsed         \* bound of the model: no dictAdd beyond this many entries

ASSUME DictAssumption ==
    /\ NoVal \notin Val
    /\ Hash \in [Key -> Nat]
    /\ TableSizes \subseteq Nat \ {0}
    /\ InitialSize \in TableSizes
    /\ UsedUp \in Nat
    /\ RehashSteps \subseteq Nat \ {0}
    /\ MaxUsed \in Nat

VARIABLES
    dict,       \* the struct: table, size and used of ht[0..1], and rehashidx
    pc,         \* where dictRehash is; "idle" between two calls
    budget,     \* the n of dictRehash
    ret         \* the last call on the map, and what it returned

vars == <<dict, pc, budget, ret>>

-------------------------------------------------------------------------------
(* The data structure. *)

Entry == [key : Key, val : Val]

EmptyTable(size) == [b \in 0 .. size - 1 |-> <<>>]

(* initDictht, dictCreate *)
NewDict ==
    [table     |-> [t \in 0..1 |-> EmptyTable(0)],
     size      |-> [t \in 0..1 |-> 0],
     used      |-> [t \in 0..1 |-> 0],
     rehashidx |-> -1]

Rehashing(d) == d.rehashidx # -1

Bucket(d, t, k) == Hash[k] % d.size[t]

Chain(d, t, k) == d.table[t][Bucket(d, t, k)]

Matches(chain, k) == {i \in DOMAIN chain : chain[i].key = k}

FirstMatch(chain, k) ==
    CHOOSE i \in Matches(chain, k) : \A j \in Matches(chain, k) : i <= j

(* Mutant of Searched: ht[1] is forgotten. *)
SearchedMainOnly(d) == IF d.size[0] = 0 THEN {} ELSE {0}

(* The tables dictFind and dictDelete visit, in order. *)
Searched(d) ==
    IF d.size[0] = 0 THEN {} ELSE IF Rehashing(d) THEN {0, 1} ELSE {0}

Holders(d, k) == {t \in Searched(d) : Matches(Chain(d, t, k), k) # {}}

(* The table in which dictFind finds k: ht[0] goes first. *)
Holder(d, k) == IF 0 \in Holders(d, k) THEN 0 ELSE 1

(* dictFind, dictFetchValue *)
Value(d, k) ==
    IF Holders(d, k) = {}
    THEN NoVal
    ELSE LET chain == Chain(d, Holder(d, k), k)
         IN  chain[FirstMatch(chain, k)].val

(* The struct with other chains and counters. *)
SetHt(d, table, used) ==
    [table |-> table, size |-> d.size, used |-> used, rehashidx |-> d.rehashidx]

-------------------------------------------------------------------------------
(* Growing. *)

(* GetNextSuitableSzie: the least size that is large enough. *)
SuitableSizes(want) ==
    {s \in TableSizes : s >= want /\ \A r \in TableSizes : r >= want => s <= r}

(* dictExpand, the call that is not refused *)
MayExpand(d, want, s) ==
    /\ ~Rehashing(d)
    /\ d.used[0] <= want
    /\ s > d.size[0]

(* Mutant of Expanded: the rehash begins at the second bucket. *)
ExpandedFromOne(d, s) ==
    IF d.size[0] = 0
    THEN [d EXCEPT !.table[0] = EmptyTable(s), !.size[0] = s, !.used[0] = 0]
    ELSE [d EXCEPT !.table[1] = EmptyTable(s), !.size[1] = s, !.used[1] = 0,
                   !.rehashidx = 1]

Expanded(d, s) ==
    IF d.size[0] = 0
    THEN [d EXCEPT !.table[0] = EmptyTable(s), !.size[0] = s, !.used[0] = 0]
    ELSE [d EXCEPT !.table[1] = EmptyTable(s), !.size[1] = s, !.used[1] = 0,
                   !.rehashidx = 0]

(* isNeedExpandSize *)
NeedsExpand(d) ==
    /\ ~Rehashing(d)
    /\ d.size[0] = 0 \/ d.used[0] \div d.size[0] > UsedUp

(* Mutant of GrowthTarget: not doubled. *)
GrowthTargetUsed(d) == IF d.size[0] = 0 THEN InitialSize ELSE d.used[0]

GrowthTarget(d) == IF d.size[0] = 0 THEN InitialSize ELSE 2 * d.used[0]

-------------------------------------------------------------------------------
(* The operations on the map. *)

Init ==
    /\ dict = NewDict
    /\ pc = "idle"
    /\ budget = 0
    /\ ret = [op |-> "none"]

Result(op, k, code) == [op |-> op, key |-> k, code |-> code]

(* The end of dictAdd: the entry goes to the head of its chain, in ht[1]   *)
(* during a rehash.  Only that chain is searched for the key.              *)
Target(d) == IF Rehashing(d) THEN 1 ELSE 0

(* Mutant of Inserted: the entry is counted in ht[0]. *)
InsertedCountedInMain(d, k, v) ==
    LET t == Target(d)
        b == Bucket(d, t, k)
    IN  SetHt(d, [d.table EXCEPT ![t][b] = <<[key |-> k, val |-> v]>> \o @],
                 [d.used EXCEPT ![0] = @ + 1])

Inserted(d, k, v) ==
    LET t == Target(d)
        b == Bucket(d, t, k)
    IN  SetHt(d, [d.table EXCEPT ![t][b] = <<[key |-> k, val |-> v]>> \o @],
                 [d.used EXCEPT ![t] = @ + 1])

Insert(op, d, k, v) ==
    IF Matches(Chain(d, Target(d), k), k) # {}
    THEN dict' = d /\ ret' = Result(op, k, "err")
    ELSE dict' = Inserted(d, k, v) /\ ret' = Result(op, k, "ok")

Refuse(op, k) == dict' = dict /\ ret' = Result(op, k, "err")

(* dictAdd, called as op *)
AddCall(op, k, v) ==
    /\ dict.used[0] + dict.used[1] < MaxUsed
    /\ IF NeedsExpand(dict)
       THEN \E s \in SuitableSizes(GrowthTarget(dict)) :
                IF MayExpand(dict, GrowthTarget(dict), s)
                THEN Insert(op, Expanded(dict, s), k, v)
                ELSE Refuse(op, k)
       ELSE Insert(op, dict, k, v)

Add(k, v) ==
    /\ pc = "idle"
    /\ AddCall("add", k, v)
    /\ UNCHANGED <<pc, budget>>

(* Mutant of AddAbsent: the key is not looked up first. *)
AddUnchecked(k, v) == Add(k, v)

(* dbAdd, which its callers reach only after lookupkey failed *)
AddAbsent(k, v) == Value(dict, k) = NoVal /\ Add(k, v)

(* Mutant of Overwritten: the head of the chain gets the value. *)
OverwrittenHead(d, k, v) ==
    LET t == Holder(d, k)
    IN  SetHt(d, [d.table EXCEPT ![t][Bucket(d, t, k)][1].val = v], d.used)

Overwritten(d, k, v) ==
    LET t == Holder(d, k)
        b == Bucket(d, t, k)
    IN  SetHt(d, [d.table EXCEPT ![t][b][FirstMatch(d.table[t][b], k)].val = v],
                 d.used)

(* dictReplace *)
Replace(k, v) ==
    /\ pc = "idle"
    /\ IF Holders(dict, k) = {}
       THEN AddCall("replace", k, v)
       ELSE dict' = Overwritten(dict, k, v) /\ ret' = Result("replace", k, "ok")
    /\ UNCHANGED <<pc, budget>>

(* The unlinking of dictDelete: a match inside the chain is taken out; a   *)
(* match at its head empties the bucket.                                   *)
Unlinked(chain, k) ==
    IF FirstMatch(chain, k) = 1 THEN <<>>
    ELSE RemoveAt(chain, FirstMatch(chain, k))

(* Mutant of Deleted: counted where no entry was found, too. *)
DeletedAlwaysCounted(d, k) ==
    SetHt(d,
        [t \in 0..1 |->
            IF t \in Holders(d, k)
            THEN [d.table[t] EXCEPT ![Bucket(d, t, k)] = Unlinked(@, k)]
            ELSE d.table[t]],
        [t \in 0..1 |-> IF t \in Searched(d) THEN d.used[t] - 1 ELSE d.used[t]])

(* dictDelete: one entry in each table searched. *)
Deleted(d, k) ==
    SetHt(d,
        [t \in 0..1 |->
            IF t \in Holders(d, k)
            THEN [d.table[t] EXCEPT ![Bucket(d, t, k)] = Unlinked(@, k)]
            ELSE d.table[t]],
        [t \in 0..1 |->
            IF t \in Holders(d, k) THEN d.used[t] - 1 ELSE d.used[t]])

Delete(k) ==
    /\ pc = "idle"
    /\ dict' = Deleted(dict, k)
    /\ ret' = Result("delete", k, IF Holders(dict, k) = {} THEN "err" ELSE "ok")
    /\ UNCHANGED <<pc, budget>>

(* dictResize: expand to hold what is used, refused when that is no growth *)
Resize ==
    /\ pc = "idle"
    /\ LET want == IF dict.used[0] < InitialSize THEN InitialSize ELSE dict.used[0]
       IN  \E s \in SuitableSizes(want) :
               /\ MayExpand(dict, want, s)
               /\ dict' = Expanded(dict, s)
    /\ UNCHANGED <<pc, budget, ret>>

-------------------------------------------------------------------------------
(* dictRehash. *)

(* The call: refused unless a rehash is under way. *)
RehashStart ==
    /\ pc = "idle"
    /\ Rehashing(dict)
    /\ budget' \in RehashSteps
    /\ pc' = "loop"
    /\ UNCHANGED <<dict, ret>>

(* while (n-- && used > 0) *)
RehashLoop ==
    /\ pc = "loop"
    /\ budget > 0 /\ dict.used[0] > 0
    /\ budget' = budget - 1
    /\ pc' = "bucket"
    /\ UNCHANGED <<dict, ret>>

(* Mutant of RehashSkip: rehashidx does not move on. *)
RehashSkipStuck ==
    /\ pc = "bucket"
    /\ dict.rehashidx < dict.size[0]
    /\ dict.table[0][dict.rehashidx] = <<>>
    /\ UNCHANGED vars

(* The search for a bucket that is not empty, within the table ... *)
RehashSkip ==
    /\ pc = "bucket"
    /\ dict.rehashidx < dict.size[0]
    /\ dict.table[0][dict.rehashidx] = <<>>
    /\ dict' = [dict EXCEPT !.rehashidx = @ + 1]
    /\ UNCHANGED <<pc, budget, ret>>

(* ... and past its end: nothing bounds rehashidx. *)
RehashOutOfBounds ==
    /\ pc = "bucket"
    /\ dict.rehashidx >= dict.size[0]
    /\ pc' = "undefined"
    /\ UNCHANGED <<dict, budget, ret>>

RehashFound ==
    /\ pc = "bucket"
    /\ dict.rehashidx < dict.size[0]
    /\ dict.table[0][dict.rehashidx] # <<>>
    /\ pc' = "chain"
    /\ UNCHANGED <<dict, budget, ret>>

(* Mutant of Moved: ht[0] still counts the entry. *)
MovedStillCounted(d) ==
    LET chain == d.table[0][d.rehashidx]
    IN  SetHt(d,
            [d.table EXCEPT
                ![1][Bucket(d, 1, Head(chain).key)] = <<Head(chain)>> \o @,
                ![0][d.rehashidx] = Tail(chain)],
            [d.used EXCEPT ![1] = @ + 1])

(* One entry moves from the head of its chain to the head of its new one. *)
Moved(d) ==
    LET chain == d.table[0][d.rehashidx]
    IN  SetHt(d,
            [d.table EXCEPT
                ![1][Bucket(d, 1, Head(chain).key)] = <<Head(chain)>> \o @,
                ![0][d.rehashidx] = Tail(chain)],
            [d.used EXCEPT ![0] = @ - 1, ![1] = @ + 1])

RehashMove ==
    /\ pc = "chain"
    /\ dict.table[0][dict.rehashidx] # <<>>
    /\ dict' = Moved(dict)
    /\ UNCHANGED <<pc, budget, ret>>

RehashNextBucket ==
    /\ pc = "chain"
    /\ dict.table[0][dict.rehashidx] = <<>>
    /\ dict' = [dict EXCEPT !.rehashidx = @ + 1]
    /\ pc' = "loop"
    /\ UNCHANGED <<budget, ret>>

(* The return: ht[1] becomes ht[0] when used says that all has been moved. *)
Switched(d) ==
    [table     |-> [NewDict.table EXCEPT ![0] = d.table[1]],
     size      |-> [NewDict.size EXCEPT ![0] = d.size[1]],
     used      |-> [NewDict.used EXCEPT ![0] = d.used[1]],
     rehashidx |-> -1]

RehashReturn ==
    /\ pc = "loop"
    /\ budget = 0 /\ dict.used[0] > 0
    /\ pc' = "idle"
    /\ UNCHANGED <<dict, budget, ret>>

(* Mutant of RehashFinish: the tables are switched when n is used up. *)
RehashFinishEarly ==
    /\ pc = "loop"
    /\ budget = 0
    /\ dict' = Switched(dict)
    /\ pc' = "idle"
    /\ budget' = 0
    /\ UNCHANGED ret

RehashFinish ==
    /\ pc = "loop"
    /\ dict.used[0] = 0
    /\ dict' = Switched(dict)
    /\ pc' = "idle"
    /\ budget' = 0
    /\ UNCHANGED ret

RehashStep ==
    \/ RehashLoop \/ RehashSkip \/ RehashOutOfBounds \/ RehashFound
    \/ RehashMove \/ RehashNextBucket \/ RehashReturn \/ RehashFinish

Rehash == RehashStart \/ RehashStep

-------------------------------------------------------------------------------
(* The server's use of the dictionary, and any use of it. *)

Next ==
    \/ \E k \in Key, v \in Val : AddAbsent(k, v) \/ Replace(k, v)
    \/ \E k \in Key : Delete(k)
    \/ Resize
    \/ Rehash

ApiNext ==
    \/ \E k \in Key, v \in Val : Add(k, v) \/ Replace(k, v)
    \/ \E k \in Key : Delete(k)
    \/ Resize
    \/ Rehash

Spec == Init /\ [][Next]_vars

ApiSpec == Init /\ [][ApiNext]_vars

(* serverCron calls dictRehashMilliseconeds on every dictionary once a     *)
(* second, and dictRehash is a loop that only stops by returning.          *)
RehashFairness == WF_vars(RehashStart) /\ WF_vars(RehashStep)

FairSpec == Spec /\ RehashFairness

-------------------------------------------------------------------------------
(* The properties.  Those of the struct alone are operators on it, so that *)
(* they can be stated of the dictionary half way through a dictAdd.        *)

Tables == 0..1

Buckets(d, t) == 0 .. d.size[t] - 1

IsDict(d) ==
    /\ d = [table |-> d.table, size |-> d.size, used |-> d.used,
            rehashidx |-> d.rehashidx]
    /\ d.size \in [Tables -> {0} \cup TableSizes]
    /\ d.used \in [Tables -> Nat]
    /\ d.rehashidx \in Nat \cup {-1}
    /\ d.table = [t \in Tables |-> d.table[t]]
    /\ \A t \in Tables : d.table[t] \in [Buckets(d, t) -> Seq(Entry)]

Calls == {"add", "replace", "delete"}

Results == {[op |-> "none"]} \cup [op : Calls, key : Key, code : {"ok", "err"}]

(* The type invariant. *)
TypeOK ==
    /\ IsDict(dict)
    /\ pc \in {"idle", "loop", "bucket", "chain", "undefined"}
    /\ budget \in Nat
    /\ ret \in Results

(* ht[1] exists exactly while a rehash is under way, it is the larger      *)
(* table, and rehashidx has not passed the end of ht[0]: no % size divides *)
(* by zero, neither in dictFind, dictAdd and dictDelete nor in dictRehash. *)
Shaped(d) ==
    /\ Rehashing(d) <=> d.size[1] # 0
    /\ Rehashing(d) => /\ 0 < d.size[0] /\ d.size[0] < d.size[1]
                       /\ d.rehashidx <= d.size[0]

RehashShape ==
    /\ Shaped(dict)
    /\ pc # "idle" => Rehashing(dict)
    /\ pc = "chain" => dict.rehashidx < dict.size[0]

(* Every entry sits in the bucket its key hashes to in its own table: a    *)
(* rehash that computed the index for the wrong table, or left entries     *)
(* behind, would break it.                                                 *)
WellPlaced(d) ==
    \A t \in Tables : \A b \in Buckets(d, t) : \A i \in DOMAIN d.table[t][b] :
        Bucket(d, t, d.table[t][b][i].key) = b

Placed == WellPlaced(dict)

(* The buckets of ht[0] that a rehash has passed are empty and stay so:    *)
(* dictAdd writes to ht[1] meanwhile.                                      *)
EmptyBehind(d) ==
    Rehashing(d) =>
        \A b \in Buckets(d, 0) : b < d.rehashidx => d.table[0][b] = <<>>

MigratedEmpty == EmptyBehind(dict)

(* The server never holds a key twice, although dictAdd looks for it in    *)
(* one table only (hdict.c:170).                                           *)
UniqueKeys(d) ==
    \A t, u \in Tables : \A b \in Buckets(d, t), c \in Buckets(d, u) :
        \A i \in DOMAIN d.table[t][b], j \in DOMAIN d.table[u][c] :
            d.table[t][b][i].key = d.table[u][c][j].key
                => t = u /\ b = c /\ i = j

NoDuplicateKeys == UniqueKeys(dict)

(* Whatever is in a table is what dictFind returns for its key, half way   *)
(* through a rehash as well (hdict.c:186).                                 *)
EveryEntryFound ==
    \A t \in Tables : \A b \in Buckets(dict, t) :
        \A i \in DOMAIN dict.table[t][b] :
            Value(dict, dict.table[t][b][i].key) = dict.table[t][b][i].val

(* The places of a table that hold an entry. *)
Places(table) == UNION {{b} \X DOMAIN table[b] : b \in DOMAIN table}

Entries(d, t) == Cardinality(Places(d.table[t]))

(* used never falls short of the entries in the table, so that dictRehash, *)
(* which frees ht[0] once used is 0, never frees one that holds an entry.  *)
UsedCoversEntries == \A t \in Tables : Entries(dict, t) <= dict.used[t]

(* dictRehash leaves the table only when a delete has made used larger     *)
(* than the number of entries, and then only after all have been moved.    *)
OutOfBoundsOnlyAfterLoss ==
    pc = "undefined" => Entries(dict, 0) = 0 /\ dict.used[0] > 0

Exact(d) == \A t \in Tables : Entries(d, t) = d.used[t]

(* A delete of k that empties a chain of several entries. *)
LosesChain(d, k) ==
    \E t \in Holders(d, k) :
        FirstMatch(Chain(d, t, k), k) = 1 /\ Len(Chain(d, t, k)) > 1

(* used stays exact, through growing, moving and deleting, until a delete  *)
(* empties a chain of several entries.                                     *)
UsedExactKept ==
    [][Exact(dict) /\ ~Exact(dict') =>
          \E k \in Key : Delete(k) /\ LosesChain(dict, k)]_vars

(* isNeedExpandSize never asks for a growth that dictExpand refuses: a     *)
(* table that is due to grow can grow, so dictAdd never fails for it.      *)
GrowthNeverRefused ==
    NeedsExpand(dict) =>
        \A s \in SuitableSizes(GrowthTarget(dict)) :
            MayExpand(dict, GrowthTarget(dict), s)

(* A key disappears only when it is deleted, or when the head of its own   *)
(* chain is: never by a rehash step, by growing, by adding another key.    *)
KeptUntilDeleted ==
    [][\A j \in Key :
          Value(dict, j) # NoVal /\ Value(dict', j) = NoVal =>
              \E k \in Key :
                  /\ Delete(k)
                  /\ k = j \/ \E t \in Holders(dict, k) :
                                  /\ Bucket(dict, t, k) = Bucket(dict, t, j)
                                  /\ FirstMatch(Chain(dict, t, k), k) = 1]_vars

(* The dictionary, as the server uses it, is the lossy map. *)
Map == INSTANCE LossyMap WITH
           map      <- [k \in Key |-> Value(dict, k)],
           Collides <- [k \in Key |->
                           {j \in Key : \E s \in TableSizes : Hash[j] % s = Hash[k] % s}]

ImplementsLossyMap == Map!Spec

(* A rehash that has begun is finished, unless it runs off the table. *)
RehashEnds == Rehashing(dict) ~> (~Rehashing(dict) \/ pc = "undefined")

(* "chaining resolves collisions" (hdict.h:8): deleting a key leaves the   *)
(* others, those of the same bucket included.                              *)
DeleteKeepsOthers ==
    [][\A k \in Key : Delete(k) =>
          \A j \in Key \ {k} : Value(dict', j) = Value(dict, j)]_vars

===============================================================================
