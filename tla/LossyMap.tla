------------------------------- MODULE LossyMap -------------------------------
(***************************************************************************)
(* What the dictionary of base_struct/hdict.c promises to the server: a    *)
(* finite map.  One step is one API call.  Growing and rehashing are       *)
(* invisible here.                                                         *)
(*                                                                         *)
(* The promise is weaker than a map's in one place: dictDelete of a key    *)
(* may take other keys with it, those that share a bucket with it          *)
(* (hdict.c:259-260 unlinks the whole chain when the key heads it).  Which *)
(* keys those are is the relation Collides.                                *)
(***************************************************************************)

CONSTANTS
    Key,        \* the keys
    Val,        \* the values
    NoVal,      \* "no entry", the NULL of dictFind
    Collides    \* Collides[k]: the keys that may share a bucket with k

VARIABLES
    map,        \* the value of each key, NoVal when it has none
    ret         \* the last call: what it was and what it returned

vars == <<map, ret>>

Init ==
    /\ map = [k \in Key |-> NoVal]
    /\ ret = [op |-> "none"]

Result(op, k, code) == [op |-> op, key |-> k, code |-> code]

(* dictAdd: refused when the key is there. *)
Add(k, v) ==
    \/ /\ ret' = Result("add", k, "ok")
       /\ map[k] = NoVal
       /\ map' = [map EXCEPT ![k] = v]
    \/ /\ ret' = Result("add", k, "err")
       /\ map[k] # NoVal
       /\ map' = map

(* dictReplace: always succeeds. *)
Replace(k, v) ==
    /\ ret' = Result("replace", k, "ok")
    /\ map' = [map EXCEPT ![k] = v]

(* dictDelete: a key that is not there is reported, and nothing changes;   *)
(* a key that is there goes, and some that collide with it may go too.     *)
Delete(k) ==
    \/ /\ ret' = Result("delete", k, "err")
       /\ map[k] = NoVal
       /\ map' = map
    \/ /\ ret' = Result("delete", k, "ok")
       /\ map[k] # NoVal
       /\ \E lost \in SUBSET (Collides[k] \ {k}) :
            map' = [j \in Key |-> IF j = k \/ j \in lost THEN NoVal ELSE map[j]]

Next ==
    \E k \in Key :
        \/ \E v \in Val : Add(k, v) \/ Replace(k, v)
        \/ Delete(k)

Spec == Init /\ [][Next]_vars
===============================================================================
