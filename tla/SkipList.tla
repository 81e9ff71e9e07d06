------------------------------ MODULE SkipList ------------------------------
(***************************************************************************)
(* The skip list of base_struct/hskiplist.c, with its pointers.  The order *)
(* is by power, a number SetPower computes from a value; two values may    *)
(* have the same.  rand() chooses the level of a node.                     *)
(***************************************************************************)
EXTENDS Integers, Sequences, FiniteSets, FiniteSetsExt, Functions

CONSTANTS
    Powers,         \* the values, as their powers
    MaxLevel,       \* MAXLEVEL, 12
    MaxNodes        \* bound of the model on the nodes of a list

VARIABLES
    next,           \* nextArr of the head and of every node that is not freed
    power,          \* power
    count,          \* history: of each power, how often it was added less how
                    \* often it was deleted
    twice           \* history: the powers that were added to a list with them

vars == <<next, power, count, twice>>

Nil == -1
Start == 0
Ids == 1 .. MaxNodes
Levels == 1 .. MaxLevel
Empty == [n \in {Start} |-> [i \in Levels |-> Nil]]

Init ==
    /\ next = Empty
    /\ power = [n \in {Start} |-> 0]
    /\ count = [p \in Powers |-> 0]
    /\ twice = {}

-------------------------------------------------------------------------------
(* The node where the search on a level ends, from a node of that level.   *)
(* What it follows is Nil or a node: SkipListIntact says so.               *)
Along(p, i, from) ==
    LET walk[n \in DOMAIN next] ==
            IF next[n][i] \in DOMAIN next /\ power[next[n][i]] < p THEN walk[next[n][i]] ELSE n
    IN  walk[from]

(* Mutant of GetPreptrArr: every level is searched from its second node. *)
GetPreptrArrSecond(p) ==
    [i \in Levels |-> Along(p, i, IF next[Start][i] = Nil THEN Start ELSE next[Start][i])]

(* The node before the place of the power, on each level *)
GetPreptrArr(p) ==
    LET down[i \in Levels] == Along(p, i, IF i = MaxLevel THEN Start ELSE down[i + 1])
    IN  down

(* SkipListFind: the first of the power on the highest level that has one *)
Find(p) ==
    LET after == [i \in Levels |-> next[GetPreptrArr(p)[i]][i]]
        hits  == {i \in Levels : after[i] # Nil /\ power[after[i]] = p}
    IN  IF hits = {} THEN Nil ELSE after[Max(hits)]

(* SkipListAdd *)
Add(p) ==
    /\ DOMAIN next # Ids \cup {Start}
    /\ \E level \in Levels :
           LET new  == Min(Ids \ DOMAIN next)
               prev == GetPreptrArr(p)
           IN  next' = [n \in DOMAIN next \cup {new} |->
                           IF n = new THEN [i \in 1 .. level |-> next[prev[i]][i]]
                           ELSE [i \in DOMAIN next[n] |->
                                    IF i <= level /\ prev[i] = n THEN new ELSE next[n][i]]]
               /\ power' = [n \in DOMAIN power \cup {new} |-> IF n = new THEN p ELSE power[n]]
    /\ count' = [count EXCEPT ![p] = @ + 1]
    /\ twice' = IF count[p] > 0 THEN twice \cup {p} ELSE twice

(* SkipListDelete.  The pointers before the place of the power pass over   *)
(* every node of that power up to the one that was found.                  *)
Delete(p) ==
    LET found == Find(p)
        prev  == GetPreptrArr(p)
    IN  /\ found # Nil
        /\ next' = [n \in DOMAIN next \ {found} |->
                       [i \in DOMAIN next[n] |->
                           IF i \in DOMAIN next[found] /\ prev[i] = n
                           THEN next[found][i] ELSE next[n][i]]]
        /\ power' = Restrict(power, DOMAIN power \ {found})
        /\ count' = [count EXCEPT ![p] = @ - 1]
        /\ UNCHANGED twice

(* FreeSkipList, and CreateSkipList of the next list *)
FreeSkipList ==
    /\ next # Empty
    /\ next' = Empty /\ power' = [n \in {Start} |-> 0]
    /\ count' = [p \in Powers |-> 0] /\ twice' = {}

Next == \/ \E p \in Powers : Add(p) \/ Delete(p)
        \/ FreeSkipList

-------------------------------------------------------------------------------
(* The nodes of a level, which every set has that the head leads into and  *)
(* no pointer of the level out of                                          *)
OnLevel(i) ==
    LET closed == {S \in SUBSET DOMAIN next :
                       \A n \in S \cup {Start} :
                           i \in DOMAIN next[n] => next[n][i] \in S \cup {Nil}}
    IN  {n \in DOMAIN next : \A S \in closed : n \in S}

(* Every level is an ordered list, as the comment at hskiplist.c:73 says,  *)
(* of the nodes of the level below that are high enough; so Find misses no *)
(* value.  No pointer of it leads to a freed node.  A list that never held *)
(* a power twice has lost no value: what is on the lowest level was added  *)
(* and not deleted.                                                        *)
SkipListIntact ==
    /\ \A i \in Levels, n \in DOMAIN next \ {Start} :
           n \in OnLevel(i) =>
               /\ i \in DOMAIN next[n] /\ next[n][i] \in DOMAIN next \cup {Nil}
               /\ next[n][i] # Nil => power[n] <= power[next[n][i]]
               /\ n \in OnLevel(1)
    /\ \A i \in Levels : next[Start][i] \in DOMAIN next \cup {Nil}
    /\ \A n \in OnLevel(1), i \in Levels : i <= Len(next[n]) => n \in OnLevel(i)
    /\ \A p \in Powers :
           /\ (Find(p) # Nil) = (\E n \in OnLevel(1) : power[n] = p)
           /\ Cardinality({n \in OnLevel(1) : power[n] = p}) <= count[p]
           /\ p \notin twice =>
                  Cardinality({n \in OnLevel(1) : power[n] = p}) = count[p]
=============================================================================
