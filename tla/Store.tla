-------------------------------- MODULE Store ---------------------------------
(***************************************************************************)
(* What a client may rely on: a key has a value and perhaps a deadline; a  *)
(* command sees no key that is past its deadline, except EXISTS and DEL,   *)
(* which do not look at deadlines (server/Server.c:69-81, 55-67).          *)
(*                                                                         *)
(* Removing a key may take others with it, see LossyMap: Collides[k] are   *)
(* the keys, or the deadlines of the keys, that may go with k.  With       *)
(* Collides[k] = {} for every k this is an exact store.                    *)
(***************************************************************************)
EXTENDS Naturals

CONSTANTS
    Key, Val, NoVal,
    Collides,
    Lifetimes,      \* the lifetimes a client asks for
    NoLife,         \* SET without a lifetime
    Never,          \* the deadline of a key without one
    MaxNow          \* bound of the model on the clock

VARIABLES
    val,            \* the value of each key
    due,            \* the deadline of each key
    now,            \* the clock, in milliseconds
    reply           \* the last command with its arguments, and the answer

vars == <<val, due, now, reply>>

Init ==
    /\ val = [k \in Key |-> NoVal]
    /\ due = [k \in Key |-> Never]
    /\ now = 1
    /\ reply = [cmd |-> "none"]

Overdue(k) == due[k] # Never /\ now > due[k]

(* The outcomes of removing k from f. *)
Dropped(f, k, none) ==
    IF f[k] = none
    THEN {f}
    ELSE {[j \in Key |-> IF j = k \/ j \in lost THEN none ELSE f[j]] :
             lost \in SUBSET Collides[k]}

Removed(k) == Dropped(val, k, NoVal) \X Dropped(due, k, Never)

(* What is left when a deadline that has passed is acted upon. *)
Current(k) == IF Overdue(k) THEN Removed(k) ELSE {<<val, due>>}

(* A SET without a lifetime leaves the deadline of the key as it is. *)
Set(k, v, life) ==
    \E s \in Current(k) :
        /\ val' = [s[1] EXCEPT ![k] = v]
        /\ due' = IF life = NoLife THEN s[2] ELSE [s[2] EXCEPT ![k] = now + life]
        /\ reply' = [cmd |-> "set", key |-> k, val |-> v, life |-> life]
        /\ UNCHANGED now

Get(k) ==
    \E s \in Current(k) :
        /\ val' = s[1]
        /\ due' = s[2]
        /\ reply' = [cmd |-> "get", key |-> k, val |-> s[1][k]]
        /\ UNCHANGED now

Del(k) ==
    \E s \in Removed(k) :
        /\ val' = s[1]
        /\ due' = s[2]
        /\ reply' = [cmd |-> "del", key |-> k, found |-> val[k] # NoVal]
        /\ UNCHANGED now

Exists(k) ==
    /\ reply' = [cmd |-> "exists", key |-> k, found |-> val[k] # NoVal]
    /\ UNCHANGED <<val, due, now>>

(* The server may act on a deadline of its own accord. *)
Expire(k) ==
    /\ Overdue(k)
    /\ \E s \in Removed(k) : val' = s[1] /\ due' = s[2]
    /\ UNCHANGED <<now, reply>>

Tick == now < MaxNow /\ now' = now + 1 /\ UNCHANGED <<val, due, reply>>

Next ==
    \/ \E k \in Key :
          \/ \E v \in Val, life \in Lifetimes \cup {NoLife} : Set(k, v, life)
          \/ Get(k) \/ Del(k) \/ Exists(k) \/ Expire(k)
    \/ Tick

Spec == Init /\ [][Next]_vars
===============================================================================
