------------------------------- MODULE Keyspace -------------------------------
(***************************************************************************)
(* The keyspace of the server: the commands of server/Server.c, the access *)
(* functions of server/db.c, and the reference counts of the objects that  *)
(* the two dictionaries of a redisDb share.                                *)
(*                                                                         *)
(* The server is one thread, and a command runs from the parsed request to *)
(* resetClient without a break: it is one action.  The dictionaries are    *)
(* lossy maps, which is what module Dict is shown to implement; their      *)
(* entries hold objects, by number, as the C entries hold pointers.  An    *)
(* object whose count is 0 is free memory, and the next one to be handed   *)
(* out.  The key argument of GET, DEL and EXISTS never outlives the        *)
(* command and is not modelled.                                            *)
(*                                                                         *)
(* A reply is a copy in the client's buffer, unless the value is longer    *)
(* than that buffer: then the value itself is put on the client's reply    *)
(* list, uncounted, and released when it has been sent.  An object that is *)
(* freed while an entry holds it, or sent after it was freed, is undefined *)
(* behaviour; the model stops there, with server = "undefined".            *)
(*                                                                         *)
(* CreateRedisDb has no return statement (Server.c:291-296).  What its     *)
(* caller gets depends on the compiler: the redisDb, or the pointer that   *)
(* was last computed.  In the second case ("wild") the first command that  *)
(* reaches the keyspace ends the process.                                  *)
(***************************************************************************)
EXTENDS Integers, FiniteSets, FiniteSetsExt, Functions

CONSTANTS
    Key,            \* the key strings
    Val,            \* the value strings
    BigVal,         \* those longer than the reply buffer, 16K
    MaxListed,      \* the most values on reply lists: bound of the model
    NoVal,          \* the NULL of lookupkey
    EmptyKey,       \* the empty string, which may be one of the keys
    Collides,       \* Collides[k]: the keys dictDelete of k may lose
    NoEntry,        \* no entry in a dictionary
    Lifetimes,      \* the lifetimes of SET, in milliseconds; 0 when the text
                    \* is no number: string2ll fails, and is not checked
    NoLife,         \* SET without a lifetime
    Never,          \* no deadline, in the abstract store
    Pool,           \* the most objects there can be: bound of the model
    MaxNow          \* bound of the model on the clock

Obj == 1 .. Pool

(* The key strings in use are finitely many; the constants that stand for  *)
(* nothing are nothing else.                                               *)
ASSUME KeyspaceAssumption ==
    /\ IsFiniteSet(Key)
    /\ NoVal \notin Val
    /\ NoEntry \notin [key : Obj, val : Obj] \cup [key : Obj, when : Nat]
    /\ Never \notin Nat
    /\ BigVal \subseteq Val
    /\ MaxListed \in Nat
    /\ Collides \in [Key -> SUBSET Key]
    /\ \A k \in Key : k \notin Collides[k]
    /\ Lifetimes \subseteq Nat
    /\ NoLife \notin Lifetimes
    /\ Pool \in Nat
    /\ MaxNow \in Nat

VARIABLES
    db,             \* dicts, expires, and the reference count of each object
    content,        \* the string each object holds
    now,            \* gettimeofday, in milliseconds
    reply,          \* the last command and its reply
    promised,       \* history: the deadline the client was last promised
    listed,         \* how often each object is on a reply list
    server          \* "up", "wild", "down" or "undefined" (see above)

vars == <<db, content, now, reply, promised, listed, server>>

-------------------------------------------------------------------------------
(* Objects. *)

Free == {o \in Obj : db.rc[o] = 0}

(* FreeSdsObj of each of a set of objects *)
Release(rc, objs) == [o \in Obj |-> IF o \in objs THEN rc[o] - 1 ELSE rc[o]]

Retain(rc, objs) == [o \in Obj |-> IF o \in objs THEN rc[o] + 1 ELSE rc[o]]

(* The references to an object from the two dictionaries. *)
DictReferences(s, o) ==
    {<<"key", k>> : k \in {j \in Key : s.dicts[j] # NoEntry /\ s.dicts[j].key = o}}
    \cup
    {<<"val", k>> : k \in {j \in Key : s.dicts[j] # NoEntry /\ s.dicts[j].val = o}}
    \cup
    {<<"expire", k>> :
        k \in {j \in Key : s.expires[j] # NoEntry /\ s.expires[j].key = o}}

(* What becomes of the server when an object is released once too often,   *)
(* or freed while an entry holds it: see above.                            *)
Fate(s) ==
    IF \E o \in Obj : s.rc[o] < 0 \/ (s.rc[o] = 0 /\ DictReferences(s, o) # {})
    THEN "undefined" ELSE "up"

(* The strings of the objects that are left: the last release of an object *)
(* frees its string with it.                                               *)
Kept(strings, rc) ==
    [o \in Obj |-> IF rc[o] = 0 THEN NoVal ELSE strings[o]]

-------------------------------------------------------------------------------
(* server/db.c, as functions from a database to the set of its outcomes. *)

(* What dictDelete leaves of a dictionary. *)
Without(f, k) ==
    {[j \in Key |-> IF j = k \/ j \in lost THEN NoEntry ELSE f[j]] :
        lost \in SUBSET Collides[k]}

(* The entry found is unlinked and its key released; those lost with it    *)
(* are not.                                                                *)
RemoveExpire(s, k) ==
    IF s.expires[k] = NoEntry
    THEN {s}
    ELSE {[s EXCEPT !.expires = f, !.rc = Release(@, {s.expires[k].key})] :
             f \in Without(s.expires, k)}

(* Mutant of DbDelete: the value is released twice. *)
DbDeleteTwice(s, k) ==
    IF s.dicts[k] = NoEntry
    THEN {s}
    ELSE {[s EXCEPT !.dicts = f,
                    !.rc = Release(Release(@, {s.dicts[k].key, s.dicts[k].val}),
                                   {s.dicts[k].val})] :
             f \in Without(s.dicts, k)}

DbDelete(s, k) ==
    IF s.dicts[k] = NoEntry
    THEN {s}
    ELSE {[s EXCEPT !.dicts = f,
                    !.rc = Release(@, {s.dicts[k].key, s.dicts[k].val})] :
             f \in Without(s.dicts, k)}

(* Mutant of Removed: the deadline stays. *)
RemovedValueOnly(s, k) == DbDelete(s, k)

(* removeExpire and then dbDelete *)
Removed(s, k) == UNION {DbDelete(e, k) : e \in RemoveExpire(s, k)}

GetExpire(s, k) == IF s.expires[k] = NoEntry THEN 0 ELSE s.expires[k].when

(* Mutant of Overdue: a millisecond late. *)
OverdueLate(s, k) == GetExpire(s, k) # 0 /\ now > GetExpire(s, k) + 1

Overdue(s, k) == GetExpire(s, k) # 0 /\ now > GetExpire(s, k)

(* Mutant of ExpireIfNeeded: the deadline stays. *)
ExpireValueOnly(s, k) == IF Overdue(s, k) THEN DbDelete(s, k) ELSE {s}

ExpireIfNeeded(s, k) == IF Overdue(s, k) THEN Removed(s, k) ELSE {s}

(* Mutant of SetExpire: the reference to the key is not counted. *)
SetExpireUncounted(s, k, ko, life) ==
    [s EXCEPT !.expires[k] = IF @ = NoEntry
                             THEN [key |-> ko, when |-> now + life]
                             ELSE [@ EXCEPT !.when = now + life]]

(* Mutant of SetExpire: a deadline that is there stays. *)
SetExpireOnce(s, k, ko, life) ==
    [s EXCEPT !.expires[k] = IF @ = NoEntry
                             THEN [key |-> ko, when |-> now + life]
                             ELSE @,
              !.rc = Retain(@, {ko})]

(* dictReplace in expires.  An entry that is there keeps its own key; the  *)
(* caller counts one more reference to the new key in either case          *)
(* (Server.c:49-50).                                                       *)
SetExpire(s, k, ko, life) ==
    [s EXCEPT !.expires[k] = IF @ = NoEntry
                             THEN [key |-> ko, when |-> now + life]
                             ELSE [@ EXCEPT !.when = now + life],
              !.rc = Retain(@, {ko})]

(* Mutant of Stored: overwriting releases the key as well. *)
StoredReleasesKey(s, k, ko, vo) ==
    IF s.dicts[k] = NoEntry
    THEN [s EXCEPT !.dicts[k] = [key |-> ko, val |-> vo],
                   !.rc = Retain(@, {ko, vo})]
    ELSE [s EXCEPT !.dicts[k].val = vo,
                   !.rc = Retain(Release(@, {s.dicts[k].key, s.dicts[k].val}), {vo})]

(* dbAdd or dbOverwrite, with the counting of setCommand: an entry that is *)
(* there keeps its key and releases its value.                             *)
Stored(s, k, ko, vo) ==
    IF s.dicts[k] = NoEntry
    THEN [s EXCEPT !.dicts[k] = [key |-> ko, val |-> vo],
                   !.rc = Retain(@, {ko, vo})]
    ELSE [s EXCEPT !.dicts[k].val = vo,
                   !.rc = Retain(Release(@, {s.dicts[k].val}), {vo})]

-------------------------------------------------------------------------------
(* The commands. *)

Init ==
    /\ db = [dicts   |-> [k \in Key |-> NoEntry],
             expires |-> [k \in Key |-> NoEntry],
             rc      |-> [o \in Obj |-> 0]]
    /\ content = [o \in Obj |-> NoVal]
    /\ now = 1
    /\ reply = [cmd |-> "none"]
    /\ promised = [k \in Key |-> Never]
    /\ listed = [o \in Obj |-> 0]
    /\ server \in {"up", "wild"}

(* setCommand.  ko and vo are argv[1] and argv[2]; resetClient releases    *)
(* them at the end.                                                        *)
Set(k, v, life) ==
    /\ server = "up"
    /\ Cardinality(Free) >= 2
    /\ LET ko == Min(Free)
           vo == Min(Free \ {ko})
       IN  \E s \in ExpireIfNeeded([db EXCEPT !.rc = Retain(@, {ko, vo})], k) :
               LET stored == Stored(s, k, ko, vo)
                   timed  == IF life = NoLife THEN stored
                             ELSE SetExpire(stored, k, ko, life)
               IN  /\ db' = [timed EXCEPT !.rc = Release(@, {ko, vo})]
                   /\ content' = Kept([content EXCEPT ![ko] = k, ![vo] = v], db'.rc)
                   /\ promised' = [promised EXCEPT ![k] =
                          IF life # NoLife THEN now + life
                          ELSE IF s.dicts[k] = NoEntry THEN Never ELSE @]
    /\ reply' = [cmd |-> "set", key |-> k, val |-> v, life |-> life]
    /\ server' = Fate(db')
    /\ UNCHANGED <<now, listed>>

(* getCommand and addReplyfull *)
Get(k) ==
    /\ server = "up"
    /\ \E s \in ExpireIfNeeded(db, k) :
           /\ db' = s
           /\ IF s.dicts[k] # NoEntry /\ content[s.dicts[k].val] \in BigVal
              THEN /\ FoldFunction(+, 0, listed) < MaxListed
                   /\ listed' = [listed EXCEPT ![s.dicts[k].val] = @ + 1]
              ELSE UNCHANGED listed
           /\ content' = Kept(content, s.rc)
           /\ reply' = [cmd |-> "get", key |-> k,
                        val |-> IF s.dicts[k] = NoEntry THEN NoVal
                                ELSE content[s.dicts[k].val]]
    /\ server' = Fate(db')
    /\ UNCHANGED <<now, promised>>

(* sendReplyToClient has sent a value from the reply list, and listFreeFrist *)
(* releases it.                                                            *)
Sent(o) ==
    /\ server = "up"
    /\ listed[o] > 0
    /\ listed' = [listed EXCEPT ![o] = @ - 1]
    /\ db' = [db EXCEPT !.rc = Release(@, {o})]
    /\ content' = Kept(content, db'.rc)
    /\ server' = Fate(db')
    /\ UNCHANGED <<now, reply, promised>>

(* delCommand *)
Del(k) ==
    /\ server = "up"
    /\ db' \in Removed(db, k)
    /\ content' = Kept(content, db'.rc)
    /\ promised' = [promised EXCEPT ![k] = Never]
    /\ reply' = [cmd |-> "del", key |-> k, found |-> db.dicts[k] # NoEntry]
    /\ server' = Fate(db')
    /\ UNCHANGED <<now, listed>>

(* existsCommand: it does not look at the deadline. *)
Exists(k) ==
    /\ server = "up"
    /\ reply' = [cmd |-> "exists", key |-> k, found |-> db.dicts[k] # NoEntry]
    /\ UNCHANGED <<db, content, now, promised, listed, server>>

(* serverCron.  Every key of expires can be the random entry, but what is  *)
(* looked up is the text sdsdup reads where the key OBJECT is, not its     *)
(* string (Server.c:282): the byte before it, the top byte of the size     *)
(* field of its heap block, makes it an empty string in every case.  After *)
(* the first of the thousand rounds the key is not overdue any more.       *)
Cron ==
    /\ server = "up"
    /\ \E k \in Key : db.expires[k] # NoEntry
    /\ EmptyKey \in Key
    /\ Overdue(db, EmptyKey)
    /\ db' \in ExpireIfNeeded(db, EmptyKey)
    /\ content' = Kept(content, db'.rc)
    /\ server' = Fate(db')
    /\ UNCHANGED <<now, reply, promised, listed>>

(* The first command on a wild database pointer. *)
Crash ==
    /\ server = "wild"
    /\ server' = "down"
    /\ UNCHANGED <<db, content, now, reply, promised, listed>>

Tick ==
    /\ now < MaxNow
    /\ now' = now + 1
    /\ UNCHANGED <<db, content, reply, promised, listed, server>>

Next ==
    \/ \E k \in Key, v \in Val, life \in Lifetimes \cup {NoLife} : Set(k, v, life)
    \/ \E k \in Key : Get(k) \/ Del(k) \/ Exists(k)
    \/ \E o \in Obj : Sent(o)
    \/ Cron
    \/ Crash
    \/ Tick

Spec == Init /\ [][Next]_vars

(* Time passes and serverCron runs every second (initServer). *)
FairSpec == Spec /\ WF_vars(Cron) /\ WF_vars(Tick)

-------------------------------------------------------------------------------
(* The properties. *)

DictEntry == [key : Obj, val : Obj]

ExpireEntry == [key : Obj, when : Nat]

(* The type invariant: no object is released more often than retained. *)
TypeOK ==
    /\ db.dicts \in [Key -> DictEntry \cup {NoEntry}]
    /\ db.expires \in [Key -> ExpireEntry \cup {NoEntry}]
    /\ db.rc \in [Obj -> Nat]
    /\ content \in [Obj -> Key \cup Val \cup {NoVal}]
    /\ now \in Nat
    /\ promised \in [Key -> Nat \cup {Never}]
    /\ listed \in [Obj -> Nat]
    /\ server \in {"up", "wild", "down", "undefined"}

(* "whoever uses reference counts must use them wherever the object is     *)
(* used" (Server.h:13).  No object is freed while a dictionary or a reply  *)
(* list refers to it: its count is at least the number of the references.  *)
(* A key is one object in two dictionaries or two objects, as the order of *)
(* the SETs had it.                                                        *)
References(o) == Cardinality(DictReferences(db, o)) + listed[o]

ReferencesCounted == \A o \in Obj : References(o) <= db.rc[o]

(* The key objects still hold the string under which they are filed, after *)
(* any number of overwrites, deletes and expiries of the other entry.      *)
KeysIntact ==
    \A k \in Key :
        /\ db.dicts[k] # NoEntry => content[db.dicts[k].key] = k
        /\ db.expires[k] # NoEntry => content[db.expires[k].key] = k

(* A key has a deadline only while it has a value, so that a new key never *)
(* inherits the deadline of an old one.                                    *)
ExpiresWithinDicts ==
    \A k \in Key : db.expires[k] # NoEntry => db.dicts[k] # NoEntry

(* "lifetime: the life span of the key in milliseconds" (Server.h:104): a  *)
(* GET later than the deadline last promised finds nothing.                *)
LifetimeHonoured ==
    [][\A k \in Key :
          Get(k) /\ promised[k] # Never /\ now > promised[k]
              => reply'.val = NoVal]_vars

(* The keyspace is the abstract store: reference counts, shared and        *)
(* recycled objects never show in a reply.                                 *)
Abstract == INSTANCE Store WITH
    val <- [k \in Key |-> IF db.dicts[k] = NoEntry THEN NoVal
                          ELSE content[db.dicts[k].val]],
    due <- [k \in Key |-> IF db.expires[k] = NoEntry THEN Never
                          ELSE db.expires[k].when]

ImplementsStore == Abstract!Spec

(* The key whose string is empty is deleted after its deadline although no *)
(* client asks for it.                                                     *)
EmptyKeyExpires ==
    (EmptyKey \in Key /\ Overdue(db, EmptyKey))
        ~> (~Overdue(db, EmptyKey) \/ server # "up")

(* "the timed task of the server: for now it only deletes the keys that    *)
(* have expired" (Server.c:274): so is every key.                          *)
CronExpires ==
    \A k \in Key : Overdue(db, k) ~> (~Overdue(db, k) \/ server # "up")
===============================================================================
