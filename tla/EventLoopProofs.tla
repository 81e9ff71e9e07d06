--------------------------- MODULE EventLoopProofs ---------------------------
(***************************************************************************)
(* Proofs about EventLoop, for any number of connections and descriptors.  *)
(***************************************************************************)
EXTENDS EventLoop, Recursion, SequenceTheorems, FiniteSetTheorems

Masks == SUBSET {R, W}

Interests == Masks \cup {Unregistered}

Events == [mask : Masks, client : Conn \cup {None}]

Loops == [events : [Fd -> Events], interest : [Fd -> Interests], failed : BOOLEAN]

Entries == [fd : Fd, mask : Masks, conn : Conn \cup {None}]

-------------------------------------------------------------------------------
(* The inductive invariant. *)

Types ==
    /\ peer \in [Conn -> {"new", "backlog", "open", "closed"}]
    /\ request \in [Conn -> {"none", "unread", "due", "rest"}]
    /\ room \in [Conn -> BOOLEAN]
    /\ sock \in [Fds -> Conn \cup {None}]
    /\ clients \subseteq Conn
    /\ cfd \in [Conn -> Fd]
    /\ ae \in Loops
    /\ fired \in Seq(Entries)
    /\ phase \in {"poll", "read", "write", "timers", "killed"}
    /\ phase \in {"read", "write"} => fired # <<>>

(* The listening socket is registered for reading from the beginning. *)
Listening == ae.events[ListenFd].mask = {R} /\ ae.interest[ListenFd] = {R}

(* A connection that is open on a descriptor knows it, and was accepted;   *)
(* one that was not accepted has no descriptor and no reply to get.        *)
Sockets ==
    /\ \A fd \in Fds : sock[fd] # None =>
           /\ cfd[sock[fd]] = fd
           /\ sock[fd] \in clients
           /\ ae.events[fd].client = sock[fd]
           /\ peer[sock[fd]] \in {"open", "closed"}
    /\ \A c \in clients : cfd[c] \in Fds /\ sock[cfd[c]] = c
    /\ \A c \in Conn : peer[c] \in {"new", "backlog"} => request[c] \in {"none", "unread"}

(* Each descriptor was fired once.  Its connection is still open there,    *)
(* unless it was closed by the entry that is being dispatched.             *)
Dispatching ==
    /\ \A i, j \in DOMAIN fired : i # j => fired[i].fd # fired[j].fd
    /\ \A i \in DOMAIN fired : fired[i].fd # ListenFd =>
           \/ sock[fired[i].fd] # None /\ sock[fired[i].fd] = fired[i].conn
           \/ i = 1 /\ phase = "write" /\ sock[fired[i].fd] = None

Invariant ==
    /\ Types
    /\ Listening
    /\ RegistrationAgrees
    /\ Sockets
    /\ Dispatching

-------------------------------------------------------------------------------
(* What the operations do to the event table and to epoll's interest. *)

(* m differs from l at fd alone, and no call of epoll_ctl failed. *)
Changed(l, m, fd, mask, c, interest) ==
    /\ m \in Loops /\ ~m.failed
    /\ m.events[fd].mask = mask /\ m.events[fd].client = c
    /\ m.interest[fd] = interest
    /\ \A g \in Fd : g # fd =>
           m.events[g] = l.events[g] /\ m.interest[g] = l.interest[g]

LEMMA InterestIsNoMask == \A mask \in Masks : mask # Unregistered
  BY DEF Masks, Unregistered, R, W

(* One assignment to interest, and one to events. *)
WithInterest(l, fd, i) == [l EXCEPT !.interest[fd] = i]

WithEvents(l, fd, e) == [l EXCEPT !.events[fd] = e]

LEMMA SetInterest ==
    ASSUME NEW l \in Loops, NEW fd \in Fd, NEW i \in Interests
    PROVE  /\ WithInterest(l, fd, i) \in Loops
           /\ WithInterest(l, fd, i).events = l.events
           /\ WithInterest(l, fd, i).failed = l.failed
           /\ WithInterest(l, fd, i).interest = [l.interest EXCEPT ![fd] = i]
  <1> DEFINE m == WithInterest(l, fd, i)
  <1>1. m = [events |-> l.events, interest |-> [l.interest EXCEPT ![fd] = i],
             failed |-> l.failed]
    BY DEF Loops, WithInterest
  <1> HIDE DEF m
  <1>2. [l.interest EXCEPT ![fd] = i] \in [Fd -> Interests]
    BY DEF Loops
  <1> QED
    BY <1>1, <1>2 DEF m, Loops

LEMMA SetEvents ==
    ASSUME NEW l \in Loops, NEW fd \in Fd, NEW e \in Events
    PROVE  /\ WithEvents(l, fd, e) \in Loops
           /\ WithEvents(l, fd, e).events = [l.events EXCEPT ![fd] = e]
           /\ WithEvents(l, fd, e).interest = l.interest
           /\ WithEvents(l, fd, e).failed = l.failed
  <1> DEFINE m == WithEvents(l, fd, e)
  <1>1. m = [events |-> [l.events EXCEPT ![fd] = e], interest |-> l.interest,
             failed |-> l.failed]
    BY DEF Loops, WithEvents
  <1> HIDE DEF m
  <1>2. [l.events EXCEPT ![fd] = e] \in [Fd -> Events]
    BY DEF Loops
  <1> QED
    BY <1>1, <1>2 DEF m, Loops

LEMMA SetBoth ==
    ASSUME NEW l \in Loops, ~l.failed, NEW fd \in Fd,
           NEW i \in Interests, NEW e \in Events
    PROVE  Changed(l, WithEvents(WithInterest(l, fd, i), fd, e), fd, e.mask, e.client, i)
  <1> DEFINE m == WithInterest(l, fd, i)
             n == WithEvents(m, fd, e)
  <1>1. /\ m \in Loops
        /\ m.events = l.events /\ m.failed = l.failed
        /\ m.interest = [l.interest EXCEPT ![fd] = i]
    BY SetInterest
  <1> HIDE DEF m
  <1>2. /\ n \in Loops
        /\ n.events = [m.events EXCEPT ![fd] = e]
        /\ n.interest = m.interest /\ n.failed = m.failed
    BY <1>1, SetEvents
  <1> HIDE DEF n
  <1>3. n.events[fd] = e /\ n.interest[fd] = i
    BY <1>1, <1>2 DEF Loops
  <1> QED
    BY <1>1, <1>2, <1>3 DEF Changed, Loops, n, m

(* A descriptor of which nothing is known is added. *)
LEMMA CreateFirst ==
    ASSUME NEW l \in Loops, ~l.failed, NEW fd \in Fd, NEW c \in Conn \cup {None},
           l.events[fd].mask = {}, l.interest[fd] = Unregistered
    PROVE  Changed(l, CreateFileEvent(l, fd, {R}, c), fd, {R}, c, {R})
  <1> DEFINE m == WithInterest(l, fd, {R})
             e == [mask |-> m.events[fd].mask \cup {R}, client |-> c]
  <1>1. EpollCtl(l, AddOp(l.events[fd].mask), fd, {R}) = m
    BY DEF EpollCtl, AddOp, WithInterest
  <1>2. {R} \in Interests
    BY DEF Masks, Interests
  <1>3. m.events = l.events /\ m.failed = l.failed
    BY <1>2, SetInterest
  <1> HIDE DEF m
  <1>4. CreateFileEvent(l, fd, {R}, c) = WithEvents(m, fd, e)
    BY <1>1, <1>3 DEF CreateFileEvent, WithEvents
  <1>5. e.mask = {R} /\ e.client = c /\ e \in Events
    BY <1>3 DEF Masks, Events
  <1> HIDE DEF e
  <1> QED
    BY <1>2, <1>4, <1>5, SetBoth DEF m

(* One that waits for requests waits for room. *)
LEMMA CreateForWriting ==
    ASSUME NEW l \in Loops, ~l.failed, NEW fd \in Fd, NEW c \in Conn \cup {None},
           l.events[fd].mask = {R}, l.interest[fd] = {R}
    PROVE  Changed(l, CreateFileEvent(l, fd, {W}, c), fd, {R, W}, c, {W})
  <1> DEFINE m == WithInterest(l, fd, {W})
             e == [mask |-> m.events[fd].mask \cup {W}, client |-> c]
  <1>1. EpollCtl(l, AddOp(l.events[fd].mask), fd, {W}) = m
    BY InterestIsNoMask DEF EpollCtl, AddOp, WithInterest, Masks
  <1>2. {W} \in Interests
    BY DEF Masks, Interests
  <1>3. m.events = l.events /\ m.failed = l.failed
    BY <1>2, SetInterest
  <1> HIDE DEF m
  <1>4. CreateFileEvent(l, fd, {W}, c) = WithEvents(m, fd, e)
    BY <1>1, <1>3 DEF CreateFileEvent, WithEvents
  <1>5. e.mask = {R, W} /\ e.client = c /\ e \in Events
    BY <1>3 DEF Masks, Events
  <1> HIDE DEF e
  <1>6. Changed(l, WithEvents(m, fd, e), fd, e.mask, e.client, {W})
    BY <1>2, <1>5, SetBoth DEF m
  <1> QED
    BY <1>4, <1>5, <1>6

(* Deleting events: a call of epoll_ctl that does not fail, and the mask.  *)
LEMMA DeleteEvents ==
    ASSUME NEW l \in Loops, ~l.failed, NEW fd \in Fd, NEW delmask \in Masks,
           l.interest[fd] # Unregistered,
           NEW mask, mask = l.events[fd].mask,
           NEW i, i = IF DelOp(mask, delmask) = "DEL" THEN Unregistered ELSE mask \ delmask
    PROVE  Changed(l, DeleteFileEvent(l, fd, delmask), fd, mask \ delmask,
                   l.events[fd].client, i)
  <1> DEFINE m == WithInterest(l, fd, i)
             e == [m.events[fd] EXCEPT !.mask = @ \ delmask]
  <1>1. EpollCtl(l, DelOp(mask, delmask), fd, mask \ delmask) = m
    BY DEF EpollCtl, DelOp, WithInterest
  <1>2. l.events[fd] \in Events
    BY DEF Loops
  <1>3. i \in Interests
    BY <1>2 DEF Masks, Interests, Events
  <1>4. m.events = l.events /\ m.failed = l.failed
    <2>1. \A j \in Interests : /\ WithInterest(l, fd, j).events = l.events
                             /\ WithInterest(l, fd, j).failed = l.failed
      BY SetInterest, Zenon
    <2> QED
      BY <1>3, <2>1, Zenon
  <1> HIDE DEF m
  <1>5. DeleteFileEvent(l, fd, delmask) = WithEvents(m, fd, e)
    BY <1>1, <1>4 DEF DeleteFileEvent, WithEvents
  <1>6. e.mask = mask \ delmask /\ e.client = l.events[fd].client /\ e \in Events
    BY <1>2, <1>4 DEF Events, Masks
  <1> HIDE DEF e
  <1> QED
    BY <1>3, <1>5, <1>6, SetBoth DEF m

(* A descriptor waits for requests again when the reply has been sent. *)
LEMMA DeleteWriting ==
    ASSUME NEW l \in Loops, ~l.failed, NEW fd \in Fd,
           l.events[fd].mask = {R, W}, l.interest[fd] = {W}
    PROVE  Changed(l, DeleteFileEvent(l, fd, {W}), fd, {R}, l.events[fd].client, {R})
  <1>1. /\ {R, W} \ {W} = {R} /\ {W} \in Masks /\ {W} # Unregistered
        /\ DelOp({R, W}, {W}) = "MOD"
    BY InterestIsNoMask DEF R, W, Masks, DelOp
  <1>2. Changed(l, DeleteFileEvent(l, fd, {W}), fd, {R, W} \ {W}, l.events[fd].client,
                {R, W} \ {W})
    BY <1>1, DeleteEvents
  <1> QED
    BY <1>1, <1>2

(* Deleting both events leaves an entry without any. *)
LEMMA DeleteBoth ==
    ASSUME NEW l \in Loops, ~l.failed, NEW fd \in Fd, l.interest[fd] # Unregistered
    PROVE  \E i \in Interests :
               /\ Changed(l, DeleteFileEvent(l, fd, {R, W}), fd, {}, l.events[fd].client, i)
               /\ l.events[fd].mask # {R} => i = {}
  <1> DEFINE mask == l.events[fd].mask
             i == IF DelOp(mask, {R, W}) = "DEL" THEN Unregistered ELSE mask \ {R, W}
  <1>1. mask \ {R, W} = {} /\ {R, W} \in Masks
    BY DEF Loops, Masks, Events
  <1>2. i \in Interests /\ (mask # {R} => i = {})
    BY <1>1 DEF Interests, Masks, DelOp
  <1> HIDE DEF i
  <1>3. Changed(l, DeleteFileEvent(l, fd, {R, W}), fd, mask \ {R, W}, l.events[fd].client, i)
    BY <1>1, DeleteEvents DEF i
  <1> QED
    BY <1>1, <1>2, <1>3

LEMMA CloseFree ==
    ASSUME NEW l \in Loops, NEW m, NEW fd \in Fd, NEW c, NEW i, Changed(l, m, fd, {}, c, i)
    PROVE  Changed(l, Closed(m, fd), fd, {}, c, Unregistered)
  <1>1. Closed(m, fd) = WithInterest(m, fd, Unregistered) /\ Unregistered \in Interests
    BY DEF Closed, WithInterest, Interests
  <1>2. /\ Closed(m, fd) \in Loops
        /\ Closed(m, fd).events = m.events /\ Closed(m, fd).failed = m.failed
        /\ Closed(m, fd).interest = [m.interest EXCEPT ![fd] = Unregistered]
    BY <1>1, SetInterest DEF Changed
  <1> QED
    BY <1>2 DEF Changed, Loops

(* freeClient leaves nothing, whether the handler has deleted the events   *)
(* before it or not.                                                       *)
LEMMA FreedClean ==
    ASSUME NEW l \in Loops, ~l.failed, NEW fd \in Fd, l.interest[fd] # Unregistered
    PROVE  Changed(l, FreedEvents(l, fd), fd, {}, l.events[fd].client, Unregistered)
  BY DeleteBoth, CloseFree DEF FreedEvents

LEMMA FreedTwiceClean ==
    ASSUME NEW l \in Loops, ~l.failed, NEW fd \in Fd, l.interest[fd] # Unregistered,
           l.events[fd].mask # {R}
    PROVE  Changed(l, FreedEvents(DeleteFileEvent(l, fd, {R, W}), fd), fd, {},
                   l.events[fd].client, Unregistered)
  <1> DEFINE m == DeleteFileEvent(l, fd, {R, W})
  <1>1. Changed(l, m, fd, {}, l.events[fd].client, {})
    BY DeleteBoth
  <1>2. m \in Loops /\ ~m.failed /\ m.interest[fd] # Unregistered
        /\ m.events[fd].client = l.events[fd].client
    BY <1>1, InterestIsNoMask DEF Changed, Masks
  <1>3. Changed(m, FreedEvents(m, fd), fd, {}, l.events[fd].client, Unregistered)
    BY <1>2, FreedClean
  <1> QED
    BY <1>1, <1>3 DEF Changed

-------------------------------------------------------------------------------
(* The invariant holds initially and under every action. *)

LEMMA MinIsMember ==
    ASSUME NEW S, S \subseteq Nat, S # {}
    PROVE  Min(S) \in S
  BY LeastNumber DEF Min

LEMMA FdFacts == Fds \subseteq Nat /\ ListenFd \notin Fds /\ Fd = Fds \cup {ListenFd}
  BY EventLoopAssumption DEF Fd

LEMMA InitInvariant == Init => Invariant
  <1> SUFFICES ASSUME Init PROVE Invariant
    OBVIOUS
  <1> USE FdFacts, EventLoopAssumption
  <1> DEFINE l == [events   |-> [fd \in Fd |-> [mask |-> {}, client |-> None]],
                   interest |-> [fd \in Fd |-> Unregistered],
                   failed   |-> FALSE]
  <1>1. l \in Loops /\ ~l.failed /\ l.events[ListenFd].mask = {}
        /\ l.interest[ListenFd] = Unregistered
    BY DEF Loops, Events, Interests, Masks
  <1>2. Changed(l, ae, ListenFd, {R}, None, {R})
    BY <1>1, CreateFirst DEF Init
  <1>3. \A fd \in Fds : ae.events[fd].mask = {} /\ ae.interest[fd] = Unregistered
    BY <1>2 DEF Changed
  <1>4. Types
    BY <1>2, EmptySeq DEF Types, Init, Changed
  <1>5. Listening
    BY <1>2 DEF Listening, Changed
  <1>6. RegistrationAgrees
    BY <1>2, <1>3 DEF RegistrationAgrees, Changed, Init
  <1>7. Sockets
    BY DEF Sockets, Init
  <1>8. Dispatching
    BY DEF Dispatching, Init
  <1> QED
    BY <1>4, <1>5, <1>6, <1>7, <1>8 DEF Invariant

(* A peer changes its own connection only, and never to one that is new or *)
(* waits for its reply.                                                    *)
LEMMA PeerInvariant ==
    ASSUME Invariant, NEW c \in Conn, Connect(c) \/ Ask(c) \/ Drain(c) \/ Hangup(c)
    PROVE  Invariant'
  <1> USE DEF PeerStep, Connect, Ask, Drain, Hangup
  <1>1. Types'
    BY DEF Invariant, Types
  <1>2. Listening'
    BY DEF Invariant, Listening
  <1>3. RegistrationAgrees'
    <2>1. \A d \in Conn : request'[d] \in {"due", "rest"} <=> request[d] \in {"due", "rest"}
      BY DEF Invariant, Types
    <2> QED
      BY <2>1 DEF Invariant, Types, RegistrationAgrees
  <1>4. Sockets'
    <2>1. \A d \in Conn : /\ peer[d] \in {"open", "closed"} => peer'[d] \in {"open", "closed"}
                          /\ peer'[d] \in {"new", "backlog"} => peer[d] \in {"new", "backlog"}
                          /\ request[d] \in {"none", "unread"} => request'[d] \in {"none", "unread"}
      BY DEF Invariant, Types
    <2> QED
      BY <2>1 DEF Invariant, Types, Sockets
  <1>5. Dispatching'
    BY DEF Invariant, Dispatching
  <1> QED
    BY <1>1, <1>2, <1>3, <1>4, <1>5 DEF Invariant

LEMMA PollInvariant ==
    ASSUME Invariant, Poll
    PROVE  Invariant'
  <1> USE FdFacts, EventLoopAssumption DEF Invariant
  <1> DEFINE S == {fd \in Fd : EventsOf(fd) # {}}
  <1>1. PICK order \in SetToSeqs(S) :
            /\ fired' = [i \in DOMAIN order |->
                  [fd |-> order[i], mask |-> EventsOf(order[i]),
                   conn |-> IF order[i] = ListenFd THEN None ELSE sock[order[i]]]]
            /\ phase' = IF order = <<>> THEN "timers" ELSE "read"
    BY DEF Poll
  <1>2. \A fd \in S : /\ fd \in Fd /\ EventsOf(fd) \in Masks
                      /\ fd # ListenFd => fd \in Fds /\ sock[fd] # None
    BY DEF EventsOf, Masks, Interests, Types, Loops, Unregistered, R, W, Readable, Writable
  <1>3. PICK n \in Nat : Cardinality(S) = n
    <2>1. IsFiniteSet(Fd)
      BY FS_AddElement
    <2>2. IsFiniteSet(S)
      BY <2>1, FS_Subset
    <2> QED
      BY <2>2, FS_CardinalityType
  <1>4. /\ order \in [1 .. n -> S]
        /\ \A i, j \in 1 .. n : i # j => order[i] # order[j]
    BY <1>1, <1>3 DEF SetToSeqs
  <1> HIDE DEF S
  <1>5. /\ DOMAIN fired' = 1 .. n
        /\ \A i \in 1 .. n :
               /\ fired'[i] \in Entries
               /\ fired'[i].fd = order[i]
               /\ order[i] # ListenFd => fired'[i].conn = sock[order[i]]
                                         /\ sock[order[i]] # None
    BY <1>1, <1>2, <1>4 DEF Types, Entries
  <1>6. fired' \in Seq(Entries)
    <2>1. fired' \in [1 .. n -> Entries]
      BY <1>1, <1>4, <1>5
    <2>2. \A m \in Nat : [1 .. m -> Entries] \subseteq Seq(Entries)
      BY SeqDef
    <2> QED
      BY <1>3, <2>1, <2>2
  <1>7. phase' \in {"timers", "read"} /\ (phase' = "read" => fired' # <<>>)
    <2>1. n = 0 => order = <<>>
      BY <1>4
    <2>2. n # 0 => 1 \in 1 .. n
      BY <1>3
    <2> QED
      BY <1>1, <1>5, <2>1, <2>2
  <1>8. Types'
    BY <1>6, <1>7 DEF Poll, peers, Types
  <1>9. Listening' /\ RegistrationAgrees' /\ Sockets'
    BY DEF Poll, peers, Listening, RegistrationAgrees, Sockets
  <1>10. Dispatching'
    <2>1. \A i, j \in DOMAIN fired' : i # j => fired'[i].fd # fired'[j].fd
      BY <1>4, <1>5
    <2>2. \A i \in DOMAIN fired' : fired'[i].fd # ListenFd =>
              sock[fired'[i].fd] # None /\ sock[fired'[i].fd] = fired'[i].conn
      BY <1>5
    <2> QED
      BY <2>1, <2>2 DEF Dispatching, Poll
  <1> QED
    BY <1>8, <1>9, <1>10

(* The entry that is being dispatched, and the rest of the list. *)
LEMMA HeadEntry ==
    ASSUME Types, phase \in {"read", "write"}
    PROVE  /\ fired # <<>> /\ Len(fired) \in Nat \ {0}
           /\ Entry = fired[1] /\ Entry \in Entries /\ 1 \in DOMAIN fired
           /\ Tail(fired) \in Seq(Entries)
           /\ Len(fired) # 1 => Tail(fired) # <<>>
           /\ \A i \in DOMAIN Tail(fired) :
                  i \in Nat \ {0} /\ i + 1 \in DOMAIN fired /\ Tail(fired)[i] = fired[i + 1]
  <1>1. fired \in Seq(Entries) /\ fired # <<>>
    BY DEF Types
  <1>2. /\ Len(fired) \in Nat \ {0} /\ DOMAIN fired = 1 .. Len(fired)
        /\ Head(fired) = fired[1] /\ Tail(fired) \in Seq(Entries)
        /\ Len(Tail(fired)) = Len(fired) - 1
        /\ \A i \in 1 .. Len(Tail(fired)) : Tail(fired)[i] = fired[i + 1]
    BY <1>1, EmptySeq, HeadTailProperties, LenProperties
  <1>3. DOMAIN Tail(fired) = 1 .. Len(Tail(fired))
    BY <1>2, LenProperties
  <1>4. \A i \in DOMAIN Tail(fired) : i \in Nat \ {0} /\ i + 1 \in DOMAIN fired
    BY <1>2, <1>3
  <1>5. Len(fired) # 1 => Tail(fired) # <<>>
    <2>1. Tail(fired) = <<>> => Len(Tail(fired)) = 0
      BY EmptySeq
    <2>2. Len(fired) # 1 => Len(Tail(fired)) # 0
      BY <1>2
    <2> QED
      BY <2>1, <2>2, Zenon
  <1>6. fired[1] \in Entries /\ 1 \in DOMAIN fired
    BY <1>1, <1>2, ElementOfSeq
  <1> QED
    BY <1>1, <1>2, <1>3, <1>4, <1>5, <1>6 DEF Entry

(* A handler that is called, is called with the client that is open there. *)
LEMMA EntryClient ==
    ASSUME Invariant, phase \in {"read", "write"}, Effective # {}, Entry.fd # ListenFd
    PROVE  /\ Entry.fd \in Fds /\ Client \in Conn
           /\ sock[Entry.fd] = Client /\ Client # None
           /\ Client \in clients /\ cfd[Client] = Entry.fd
           /\ peer[Client] \in {"open", "closed"}
           /\ IF request[Client] \in {"due", "rest"}
              THEN ae.events[Entry.fd].mask = {R, W} /\ ae.interest[Entry.fd] = {W}
              ELSE ae.events[Entry.fd].mask = {R} /\ ae.interest[Entry.fd] = {R}
  <1> USE FdFacts, EventLoopAssumption
  <1>1. Entry \in Entries /\ Entry = fired[1] /\ 1 \in DOMAIN fired
    BY HeadEntry DEF Invariant
  <1>2. Entry.fd \in Fds /\ ae.events[Entry.fd].mask # {}
    BY <1>1 DEF Entries, Effective
  <1>3. sock[Entry.fd] # None
    BY <1>1, <1>2 DEF Invariant, RegistrationAgrees
  <1>4. sock[Entry.fd] = Client
    BY <1>2, <1>3 DEF Invariant, Sockets, Client
  <1>5. Client \in Conn
    BY <1>2, <1>3, <1>4 DEF Invariant, Types
  <1> QED
    BY <1>2, <1>3, <1>4, <1>5 DEF Invariant, Sockets, RegistrationAgrees

LEMMA WritingIsNotListening ==
    ASSUME Invariant, W \in Effective
    PROVE  Entry.fd # ListenFd /\ Effective # {}
  BY DEF Invariant, Listening, Effective, R, W

(* The next entry is dispatched.  The last one may have lost its           *)
(* connection.                                                             *)
LEMMA NextEntryDispatching ==
    ASSUME Invariant, phase = "write", NextEntry,
           \A fd \in Fds : fd # Entry.fd => sock'[fd] = sock[fd]
    PROVE  /\ Dispatching'
           /\ fired' \in Seq(Entries)
           /\ phase' \in {"read", "timers"} /\ (phase' = "read" => fired' # <<>>)
  <1> DEFINE t == Tail(fired)
  <1>1. /\ fired' = t /\ t \in Seq(Entries)
        /\ Len(fired) # 1 => t # <<>>
        /\ Entry = fired[1] /\ 1 \in DOMAIN fired
        /\ \A i \in DOMAIN t :
               i \in Nat \ {0} /\ i + 1 \in DOMAIN fired /\ t[i] = fired[i + 1]
    BY HeadEntry DEF Invariant, NextEntry
  <1> HIDE DEF t
  <1>2. phase' \in {"read", "timers"} /\ (phase' = "read" => fired' # <<>>)
    BY <1>1 DEF NextEntry, AfterEntry
  <1>3. \A i, j \in DOMAIN t : i # j => t[i].fd # t[j].fd
    <2>1. \A i, j \in DOMAIN t : i # j => i + 1 # j + 1
      BY <1>1
    <2> QED
      BY <1>1, <2>1 DEF Invariant, Dispatching
  <1>4. ASSUME NEW i \in DOMAIN t, t[i].fd # ListenFd
        PROVE  sock'[t[i].fd] # None /\ sock'[t[i].fd] = t[i].conn
    <2>1. i + 1 # 1 /\ i + 1 \in DOMAIN fired /\ t[i] = fired[i + 1]
      BY <1>1
    <2>2. fired[i + 1].fd # fired[1].fd
      BY <1>1, <2>1 DEF Invariant, Dispatching
    <2>3. sock[t[i].fd] # None /\ sock[t[i].fd] = t[i].conn
      BY <1>4, <2>1 DEF Invariant, Dispatching
    <2>4. fired[i + 1] \in Entries
      BY <2>1, ElementOfSeq DEF Invariant, Types
    <2>5. t[i].fd \in Fds /\ t[i].fd # Entry.fd
      BY <1>1, <1>4, <2>1, <2>2, <2>4, FdFacts DEF Entries
    <2> QED
      BY <2>3, <2>5
  <1>5. Dispatching'
    BY <1>1, <1>3, <1>4 DEF Dispatching
  <1> QED
    BY <1>1, <1>2, <1>5

(* A handler changes the request of its client, and what it waits for.     *)
LEMMA RequestChanges ==
    ASSUME Invariant, NEW fd \in Fds, NEW c \in Conn, sock[fd] = c,
           UNCHANGED <<peer, sock, clients, cfd>>,
           NEW r \in {"none", "unread", "due", "rest"}, request' = [request EXCEPT ![c] = r],
           NEW mask, NEW interest,
           mask = IF r \in {"due", "rest"} THEN {R, W} ELSE {R},
           interest = IF r \in {"due", "rest"} THEN {W} ELSE {R},
           Changed(ae, ae', fd, mask, c, interest)
    PROVE  Listening' /\ RegistrationAgrees' /\ Sockets' /\ ae' \in Loops
  <1> USE FdFacts, EventLoopAssumption
  <1>1. \A g \in Fds : g # fd =>
            ae'.events[g] = ae.events[g] /\ ae'.interest[g] = ae.interest[g] /\ sock[g] # c
    BY DEF Changed, Invariant, Sockets
  <1>2. Listening' /\ ae' \in Loops
    BY DEF Changed, Invariant, Listening
  <1>3. RegistrationAgrees'
    <2>1. \A g \in Fds : g # fd /\ sock[g] # None => request'[sock[g]] = request[sock[g]]
      BY <1>1 DEF Invariant, Types
    <2>2. request'[c] = r /\ c # None
      BY DEF Invariant, Types
    <2>3. ~ae'.failed /\ ae'.events[fd].mask = mask /\ ae'.interest[fd] = interest
      BY DEF Changed
    <2> QED
      BY <1>1, <2>1, <2>2, <2>3 DEF Invariant, RegistrationAgrees
  <1>4. Sockets'
    <2>1. ae'.events[fd].client = c
      BY DEF Changed
    <2>2. \A d \in Conn : peer[d] \in {"new", "backlog"} => d # c
      BY DEF Invariant, Sockets
    <2>3. \A g \in Fds : ae'.events[g].client = IF g = fd THEN c ELSE ae.events[g].client
      BY <1>1, <2>1
    <2>4. \A d \in Conn : peer[d] \in {"new", "backlog"} => request'[d] \in {"none", "unread"}
      BY <2>2 DEF Invariant, Types, Sockets
    <2> QED
      BY <2>3, <2>4 DEF Invariant, Sockets
  <1> QED
    BY <1>2, <1>3, <1>4

(* A client is freed: its descriptor is free again. *)
LEMMA ClientFreed ==
    ASSUME Invariant, NEW fd \in Fds, NEW c \in Conn, sock[fd] = c, cfd[c] = fd,
           UNCHANGED <<peer, request, cfd>>,
           clients' = clients \ {c}, sock' = [sock EXCEPT ![fd] = None],
           NEW d, Changed(ae, ae', fd, {}, d, Unregistered)
    PROVE  Listening' /\ RegistrationAgrees' /\ Sockets' /\ ae' \in Loops
           /\ sock' \in [Fds -> Conn \cup {None}]
  <1> USE FdFacts, EventLoopAssumption
  <1>1. \A g \in Fds : g # fd =>
            /\ ae'.events[g] = ae.events[g] /\ ae'.interest[g] = ae.interest[g]
            /\ sock'[g] = sock[g] /\ sock[g] # c
    BY DEF Changed, Invariant, Sockets, Types
  <1>2. Listening' /\ ae' \in Loops /\ sock' \in [Fds -> Conn \cup {None}] /\ sock'[fd] = None
    BY DEF Changed, Invariant, Listening, Types
  <1>3. RegistrationAgrees'
    BY <1>1, <1>2 DEF Changed, Invariant, RegistrationAgrees
  <1>4. Sockets'
    <2>1. \A e \in clients' : cfd[e] \in Fds /\ cfd[e] # fd
      BY DEF Invariant, Sockets
    <2> QED
      BY <1>1, <1>2, <2>1 DEF Invariant, Types, Sockets
  <1> QED
    BY <1>2, <1>3, <1>4

-------------------------------------------------------------------------------
(* The handlers. *)

LEMMA AcceptInvariant ==
    ASSUME Invariant, Accept
    PROVE  Invariant'
  <1> USE FdFacts, EventLoopAssumption
  <1>1. CASE UNCHANGED <<peers, sock, clients, cfd, ae, fired, errno>>
    <2>1. phase' = "write"
      BY DEF Accept
    <2>2. Types'
      BY <1>1, <2>1, HeadEntry DEF Invariant, Types, peers, Accept
    <2>3. Listening' /\ RegistrationAgrees' /\ Sockets'
      BY <1>1 DEF Invariant, peers, Listening, RegistrationAgrees, Sockets
    <2>4. Dispatching'
      BY <1>1, <2>1 DEF Invariant, Dispatching, Accept
    <2> QED
      BY <2>2, <2>3, <2>4 DEF Invariant
  <1>2. CASE ~UNCHANGED <<peers, sock, clients, cfd, ae, fired, errno>>
    <2> DEFINE free == {f \in Fds : sock[f] = None}
               fd == Min(free)
    <2>1. PICK c \in Conn :
              /\ peer[c] = "backlog" /\ free # {}
              /\ peer' = [peer EXCEPT ![c] = "open"]
              /\ sock' = [sock EXCEPT ![fd] = c]
              /\ cfd' = [cfd EXCEPT ![c] = fd]
              /\ clients' = clients \cup {c}
              /\ ae' = CreateFileEvent(ae, fd, {R}, c)
              /\ UNCHANGED <<request, room, fired, errno>>
      BY <1>2 DEF Accept
    <2>2. fd \in Fds /\ sock[fd] = None
      BY <2>1, MinIsMember
    <2> HIDE DEF fd, free
    <2>3. Changed(ae, ae', fd, {R}, c, {R})
      BY <2>1, <2>2, CreateFirst DEF Invariant, Types, RegistrationAgrees
    <2>4. c \notin clients /\ \A g \in Fds : sock[g] # c
      <3>1. \A g \in Fds : sock[g] = c => peer[c] \in {"open", "closed"} /\ c # None
        BY DEF Invariant, Sockets
      <3>2. \A d \in clients : d # c
        <4>1. \A d \in clients : cfd[d] \in Fds /\ sock[cfd[d]] = d
          BY DEF Invariant, Sockets
        <4> QED
          BY <2>1, <3>1, <4>1
      <3> QED
        BY <2>1, <3>1, <3>2
    <2>5. \A g \in Fds : g # fd =>
              /\ ae'.events[g] = ae.events[g] /\ ae'.interest[g] = ae.interest[g]
              /\ sock'[g] = sock[g]
      BY <2>1, <2>3 DEF Changed, Invariant, Types
    <2>6. /\ sock'[fd] = c /\ cfd'[c] = fd /\ peer'[c] = "open"
          /\ \A d \in Conn : d # c => cfd'[d] = cfd[d] /\ peer'[d] = peer[d]
      BY <2>1, <2>2 DEF Invariant, Types
    <2>7. Types'
      <3>1. phase' = "write" /\ fired # <<>> /\ fired' = fired
        BY <2>1 DEF Accept, Invariant, Types
      <3> QED
        BY <2>1, <2>2, <2>3, <3>1 DEF Invariant, Types, Changed
    <2>8. Listening'
      BY <2>2, <2>3 DEF Changed, Invariant, Listening
    <2>9. RegistrationAgrees'
      <3>1. request'[c] \notin {"due", "rest"} /\ c # None
        BY <2>1 DEF Invariant, Sockets
      <3>2. ~ae'.failed /\ ae'.events[fd].mask = {R} /\ ae'.interest[fd] = {R}
        BY <2>3 DEF Changed
      <3> QED
        <4>1. ASSUME NEW g \in Fds, g # fd
              PROVE  IF sock[g] = None
                     THEN ae.events[g].mask = {} /\ ae.interest[g] = Unregistered
                     ELSE IF request[sock[g]] \in {"due", "rest"}
                     THEN ae.events[g].mask = {R, W} /\ ae.interest[g] = {W}
                     ELSE ae.events[g].mask = {R} /\ ae.interest[g] = {R}
          BY DEF Invariant, RegistrationAgrees
        <4>2. \A g \in Fds : g # fd =>
                  IF sock'[g] = None
                  THEN ae'.events[g].mask = {} /\ ae'.interest[g] = Unregistered
                  ELSE IF request'[sock'[g]] \in {"due", "rest"}
                  THEN ae'.events[g].mask = {R, W} /\ ae'.interest[g] = {W}
                  ELSE ae'.events[g].mask = {R} /\ ae'.interest[g] = {R}
          BY <2>1, <2>5, <4>1
        <4> QED
          BY <2>1, <2>6, <3>1, <3>2, <4>2 DEF RegistrationAgrees
    <2>10. Sockets'
      <3>1. ae'.events[fd].client = c
        BY <2>3 DEF Changed
      <3>2. \A g \in Fds : sock'[g] # None =>
                /\ cfd'[sock'[g]] = g /\ sock'[g] \in clients'
                /\ ae'.events[g].client = sock'[g]
                /\ peer'[sock'[g]] \in {"open", "closed"}
        <4> SUFFICES ASSUME NEW g \in Fds, sock'[g] # None
                     PROVE  /\ cfd'[sock'[g]] = g /\ sock'[g] \in clients'
                            /\ ae'.events[g].client = sock'[g]
                            /\ peer'[sock'[g]] \in {"open", "closed"}
          OBVIOUS
        <4>1. CASE g = fd
          BY <2>1, <2>6, <3>1, <4>1
        <4>2. CASE g # fd
          <5>1. sock[g] \in Conn /\ sock[g] # c /\ sock'[g] = sock[g]
            BY <2>4, <2>5, <4>2 DEF Invariant, Types
          <5> QED
            <6>1. /\ cfd[sock[g]] = g /\ sock[g] \in clients
                  /\ ae.events[g].client = sock[g]
                  /\ peer[sock[g]] \in {"open", "closed"}
              BY <4>2, <5>1 DEF Invariant, Sockets
            <6>2. ae'.events[g].client = sock'[g]
              BY <2>5, <4>2, <5>1, <6>1
            <6>3. sock'[g] \in clients'
              BY <2>1, <5>1, <6>1
            <6>4. cfd'[sock'[g]] = cfd[sock[g]] /\ peer'[sock'[g]] = peer[sock[g]]
              BY <2>6, <5>1
            <6> QED
              BY <5>1, <6>1, <6>2, <6>3, <6>4
        <4> QED
          BY <4>1, <4>2
      <3>3. \A d \in clients' : cfd'[d] \in Fds /\ sock'[cfd'[d]] = d
        <4> SUFFICES ASSUME NEW d \in clients'
                     PROVE  cfd'[d] \in Fds /\ sock'[cfd'[d]] = d
          OBVIOUS
        <4>1. CASE d = c
          BY <2>2, <2>6, <4>1
        <4>2. CASE d # c
          <5>1. d \in clients /\ d \in Conn
            BY <2>1, <4>2 DEF Invariant, Types
          <5>2. cfd[d] \in Fds /\ sock[cfd[d]] = d /\ d # None
            BY <5>1 DEF Invariant, Sockets
          <5> QED
            BY <2>2, <2>5, <2>6, <4>2, <5>1, <5>2
        <4> QED
          BY <4>1, <4>2
      <3>4. \A d \in Conn : peer'[d] \in {"new", "backlog"} => request'[d] \in {"none", "unread"}
        BY <2>1, <2>6 DEF Invariant, Sockets
      <3> QED
        BY <3>2, <3>3, <3>4 DEF Sockets
    <2>11. Dispatching'
      <3>1. Entry = fired[1] /\ Entry.fd = ListenFd /\ phase = "read" /\ phase' = "write"
        BY HeadEntry DEF Accept, Invariant
      <3>2. ASSUME NEW i \in DOMAIN fired, fired[i].fd # ListenFd
            PROVE  sock'[fired[i].fd] # None /\ sock'[fired[i].fd] = fired[i].conn
        <4>1. sock[fired[i].fd] # None /\ sock[fired[i].fd] = fired[i].conn
          BY <3>1, <3>2 DEF Invariant, Dispatching
        <4>2. fired[i].fd \in Fds
          <5>1. fired[i] \in Entries
            BY ElementOfSeq DEF Invariant, Types
          <5> QED
            BY <3>2, <5>1 DEF Entries
        <4> QED
          BY <2>2, <2>5, <4>1, <4>2
      <3> QED
        BY <2>1, <3>2 DEF Invariant, Dispatching
    <2> QED
      BY <2>7, <2>8, <2>9, <2>10, <2>11 DEF Invariant
  <1> QED
    BY <1>1, <1>2

(* The phase goes from reading to writing; the connections may change as   *)
(* freeing the client of the entry changes them.                           *)
LEMMA ReadingEnds ==
    ASSUME Invariant, phase = "read", phase' = "write", UNCHANGED fired,
           \A fd \in Fds : sock'[fd] = sock[fd] \/ (fd = Entry.fd /\ sock'[fd] = None)
    PROVE  Dispatching' /\ fired' \in Seq(Entries) /\ fired' # <<>>
  <1>1. fired \in Seq(Entries) /\ fired # <<>> /\ Entry = fired[1] /\ 1 \in DOMAIN fired
    BY HeadEntry DEF Invariant, Types
  <1>2. ASSUME NEW i \in DOMAIN fired, fired[i].fd # ListenFd
        PROVE  \/ sock'[fired[i].fd] # None /\ sock'[fired[i].fd] = fired[i].conn
               \/ i = 1 /\ sock'[fired[i].fd] = None
    <2>1. sock[fired[i].fd] # None /\ sock[fired[i].fd] = fired[i].conn
      BY <1>2 DEF Invariant, Dispatching
    <2>2. fired[i].fd \in Fds
      <3>1. fired[i] \in Entries
        BY <1>1, ElementOfSeq
      <3> QED
        BY <1>2, <3>1, FdFacts DEF Entries
    <2>3. fired[i].fd = Entry.fd => i = 1
      BY <1>1 DEF Invariant, Dispatching
    <2> QED
      BY <2>1, <2>2, <2>3
  <1> QED
    BY <1>1, <1>2 DEF Invariant, Dispatching

LEMMA ReadRequestInvariant ==
    ASSUME Invariant, ReadRequest
    PROVE  Invariant'
  <1> USE DEF ReadRequest
  <1> DEFINE fd == Entry.fd
             c == Client
  <1>1. /\ fd \in Fds /\ c \in Conn /\ sock[fd] = c /\ cfd[c] = fd
        /\ ae.events[fd].mask = {R} /\ ae.interest[fd] = {R}
    BY EntryClient
  <1>2. Changed(ae, ae', fd, {R, W}, c, {W})
    BY <1>1, FdFacts, CreateForWriting DEF Invariant, Types, RegistrationAgrees
  <1>3. Listening' /\ RegistrationAgrees' /\ Sockets' /\ ae' \in Loops
    BY <1>1, <1>2, RequestChanges
  <1>4. Dispatching' /\ fired' \in Seq(Entries) /\ fired' # <<>>
    BY ReadingEnds
  <1>5. Types'
    BY <1>1, <1>3, <1>4 DEF Invariant, Types
  <1> QED
    BY <1>3, <1>4, <1>5 DEF Invariant

LEMMA ReadEndInvariant ==
    ASSUME Invariant, ReadEnd
    PROVE  Invariant'
  <1> USE DEF ReadEnd, peers
  <1> DEFINE fd == Entry.fd
             c == Client
  <1>1. /\ fd \in Fds /\ c \in Conn /\ sock[fd] = c /\ cfd[c] = fd
        /\ ae.interest[fd] # Unregistered
    BY EntryClient, InterestIsNoMask DEF Masks
  <1>2. CASE UNCHANGED <<clients, ae, sock>>
    <2>1. Listening' /\ RegistrationAgrees' /\ Sockets'
      BY <1>2 DEF Invariant, Listening, RegistrationAgrees, Sockets
    <2>2. Dispatching' /\ fired' \in Seq(Entries) /\ fired' # <<>>
      BY <1>2, ReadingEnds
    <2>3. Types'
      BY <1>2, <2>2 DEF Invariant, Types
    <2> QED
      BY <2>1, <2>2, <2>3 DEF Invariant
  <1>3. CASE FreeClient(c, ae)
    <2>1. /\ clients' = clients \ {c} /\ sock' = [sock EXCEPT ![fd] = None]
          /\ ae' = FreedEvents(ae, fd)
      BY <1>1, <1>3 DEF FreeClient, Others
    <2>2. Changed(ae, ae', fd, {}, ae.events[fd].client, Unregistered)
      BY <1>1, <2>1, FdFacts, FreedClean DEF Invariant, Types, RegistrationAgrees
    <2>3. Listening' /\ RegistrationAgrees' /\ Sockets' /\ ae' \in Loops
          /\ sock' \in [Fds -> Conn \cup {None}]
      BY <1>1, <2>1, <2>2, ClientFreed
    <2>4. Dispatching' /\ fired' \in Seq(Entries) /\ fired' # <<>>
      BY <1>1, <2>1, ReadingEnds DEF Invariant, Types
    <2>5. Types'
      BY <2>1, <2>3, <2>4 DEF Invariant, Types
    <2> QED
      BY <2>3, <2>4, <2>5 DEF Invariant
  <1> QED
    BY <1>2, <1>3

LEMMA ReadNothingInvariant ==
    ASSUME Invariant, ReadNothing
    PROVE  Invariant'
  <1> USE DEF ReadNothing, peers
  <1>1. Listening' /\ RegistrationAgrees' /\ Sockets'
    BY DEF Invariant, Listening, RegistrationAgrees, Sockets
  <1>2. Dispatching' /\ fired' \in Seq(Entries) /\ fired' # <<>>
    BY ReadingEnds
  <1>3. Types'
    BY <1>2 DEF Invariant, Types
  <1> QED
    BY <1>1, <1>2, <1>3 DEF Invariant

LEMMA WriteInvariant ==
    ASSUME Invariant, Write
    PROVE  Invariant'
  <1> USE DEF Write
  <1> DEFINE fd == Entry.fd
             c == Client
  <1>1. Entry.fd # ListenFd /\ Effective # {} /\ W \in ae.events[fd].mask
    BY WritingIsNotListening DEF Effective
  <1>2. /\ fd \in Fds /\ c \in Conn /\ sock[fd] = c /\ cfd[c] = fd
        /\ ae.events[fd].client = c
        /\ ae.events[fd].mask = {R, W} /\ ae.interest[fd] = {W}
    BY <1>1, EntryClient DEF Client, R, W
  <1>3. Changed(ae, ae', fd, {R}, c, {R})
    <2>1. ae \in Loops /\ ~ae.failed /\ fd \in Fd
      BY <1>2, FdFacts DEF Invariant, Types, RegistrationAgrees
    <2>2. Changed(ae, DeleteFileEvent(ae, fd, {W}), fd, {R}, ae.events[fd].client, {R})
      BY <1>2, <2>1, DeleteWriting
    <2> QED
      BY <1>2, <2>2
  <1>4. Listening' /\ RegistrationAgrees' /\ Sockets' /\ ae' \in Loops
    BY <1>2, <1>3, RequestChanges
  <1>5. /\ Dispatching'
        /\ fired' \in Seq(Entries)
        /\ phase' \in {"read", "timers"} /\ (phase' = "read" => fired' # <<>>)
    BY NextEntryDispatching
  <1>6. Types'
    BY <1>2, <1>4, <1>5 DEF Invariant, Types
  <1> QED
    BY <1>4, <1>5, <1>6 DEF Invariant

(* While the reply is being sent nothing moves on. *)
LEMMA StillWriting ==
    ASSUME Invariant, WritePart \/ WriteBlocked
    PROVE  Invariant'
  <1> DEFINE fd == Entry.fd
             c == Client
  <1>1. W \in Effective /\ phase = "write"
    BY DEF WritePart, WriteBlocked
  <1>2. Entry.fd # ListenFd /\ Effective # {} /\ W \in ae.events[fd].mask
    BY <1>1, WritingIsNotListening DEF Effective
  <1>3. /\ fd \in Fds /\ c \in Conn /\ sock[fd] = c
        /\ ae.events[fd].client = c
        /\ ae.events[fd].mask = {R, W} /\ ae.interest[fd] = {W}
        /\ request[c] \in {"due", "rest"}
    BY <1>1, <1>2, EntryClient DEF Client, R, W
  <1>4. Changed(ae, ae, fd, {R, W}, c, {W})
    BY <1>3 DEF Changed, Invariant, Types, RegistrationAgrees
  <1>5. /\ UNCHANGED <<peer, sock, clients, cfd, ae, fired, phase>>
        /\ room' \in [Conn -> BOOLEAN]
        /\ \E r \in {"due", "rest"} : request' = [request EXCEPT ![c] = r]
    <2>1. request = [request EXCEPT ![c] = request[c]]
      BY DEF Invariant, Types
    <2> QED
      BY <1>3, <2>1 DEF WritePart, WriteBlocked, peers, Invariant, Types
  <1>6. Listening' /\ RegistrationAgrees' /\ Sockets' /\ ae' \in Loops
    BY <1>3, <1>4, <1>5, RequestChanges
  <1>7. Dispatching'
    BY <1>5 DEF Invariant, Dispatching
  <1>8. Types'
    BY <1>3, <1>5 DEF Invariant, Types
  <1> QED
    BY <1>6, <1>7, <1>8 DEF Invariant

LEMMA WriteFailsInvariant ==
    ASSUME Invariant, WriteFails
    PROVE  Invariant'
  <1> USE DEF WriteFails, peers
  <1> DEFINE fd == Entry.fd
             c == Client
  <1>1. Entry.fd # ListenFd /\ Effective # {} /\ W \in ae.events[fd].mask
    BY WritingIsNotListening DEF Effective
  <1>2. /\ fd \in Fds /\ c \in Conn /\ sock[fd] = c /\ cfd[c] = fd /\ c # None
        /\ ae.events[fd].client = c
        /\ ae.events[fd].mask # {R} /\ ae.interest[fd] # Unregistered
    BY <1>1, EntryClient, InterestIsNoMask DEF Client, R, W, Masks
  <1>3. CASE FreeClient(c, DeleteFileEvent(ae, fd, {R, W})) /\ NextEntry
    <2>1. /\ clients' = clients \ {c} /\ sock' = [sock EXCEPT ![fd] = None]
          /\ ae' = FreedEvents(DeleteFileEvent(ae, fd, {R, W}), fd)
      BY <1>2, <1>3 DEF FreeClient, Others
    <2>2. Changed(ae, ae', fd, {}, c, Unregistered)
      <3>1. ae \in Loops /\ ~ae.failed /\ fd \in Fd
        BY <1>2, FdFacts DEF Invariant, Types, RegistrationAgrees
      <3>2. Changed(ae, FreedEvents(DeleteFileEvent(ae, fd, {R, W}), fd),
                    fd, {}, ae.events[fd].client, Unregistered)
        BY <1>2, <3>1, FreedTwiceClean
      <3> QED
        BY <1>2, <2>1, <3>2
    <2>3. Listening' /\ RegistrationAgrees' /\ Sockets' /\ ae' \in Loops
          /\ sock' \in [Fds -> Conn \cup {None}]
      BY <1>2, <2>1, <2>2, ClientFreed
    <2>4. /\ Dispatching'
          /\ fired' \in Seq(Entries)
          /\ phase' \in {"read", "timers"} /\ (phase' = "read" => fired' # <<>>)
      <3>1. \A g \in Fds : g # Entry.fd => sock'[g] = sock[g]
        BY <2>1 DEF Invariant, Types
      <3> QED
        BY <1>3, <3>1, NextEntryDispatching
    <2>5. Types'
      BY <2>1, <2>3, <2>4 DEF Invariant, Types
    <2> QED
      BY <2>3, <2>4, <2>5 DEF Invariant
  <1>4. CASE phase' = "killed" /\ UNCHANGED <<clients, ae, sock, fired>>
    <2>1. Listening' /\ RegistrationAgrees' /\ Sockets'
      BY <1>4 DEF Invariant, Listening, RegistrationAgrees, Sockets
    <2>2. Types'
      BY <1>4 DEF Invariant, Types
    <2>3. \A i \in DOMAIN fired : fired[i].fd # ListenFd =>
              sock[fired[i].fd] # None /\ sock[fired[i].fd] = fired[i].conn
      <3>1. Entry = fired[1]
        BY HeadEntry DEF Invariant
      <3> QED
        BY <1>2, <3>1 DEF Invariant, Dispatching
    <2>4. Dispatching'
      BY <1>4, <2>3 DEF Invariant, Dispatching
    <2> QED
      BY <2>1, <2>2, <2>4 DEF Invariant
  <1> QED
    BY <1>3, <1>4

LEMMA WriteNothingInvariant ==
    ASSUME Invariant, WriteNothing
    PROVE  Invariant'
  <1> USE DEF WriteNothing, peers
  <1>1. Listening' /\ RegistrationAgrees' /\ Sockets'
    BY DEF Invariant, Listening, RegistrationAgrees, Sockets
  <1>2. /\ Dispatching'
        /\ fired' \in Seq(Entries)
        /\ phase' \in {"read", "timers"} /\ (phase' = "read" => fired' # <<>>)
    BY NextEntryDispatching
  <1>3. Types'
    BY <1>2 DEF Invariant, Types
  <1> QED
    BY <1>1, <1>2, <1>3 DEF Invariant

LEMMA IdleInvariant ==
    ASSUME Invariant, RunTimers \/ UNCHANGED vars
    PROVE  Invariant'
  <1>1. UNCHANGED <<peer, request, room, sock, clients, cfd, ae, fired>>
        /\ (phase' = phase \/ (phase = "timers" /\ phase' = "poll"))
    BY DEF RunTimers, vars, peers
  <1>2. Types' /\ Listening' /\ RegistrationAgrees' /\ Sockets'
    BY <1>1 DEF Invariant, Types, Listening, RegistrationAgrees, Sockets
  <1>3. Dispatching'
    BY <1>1 DEF Invariant, Dispatching
  <1> QED
    BY <1>2, <1>3 DEF Invariant

LEMMA NextInvariant == Invariant /\ [Next]_vars => Invariant'
  <1> SUFFICES ASSUME Invariant, [Next]_vars PROVE Invariant'
    OBVIOUS
  <1>1. CASE UNCHANGED vars
    BY <1>1, IdleInvariant
  <1>2. ASSUME NEW c \in Conn, Connect(c) \/ Ask(c) \/ Drain(c) \/ Hangup(c)
        PROVE  Invariant'
    BY <1>2, PeerInvariant
  <1>3. CASE Loop
    BY <1>3, PollInvariant, AcceptInvariant, ReadRequestInvariant, ReadEndInvariant,
       ReadNothingInvariant, WriteInvariant, StillWriting, WriteFailsInvariant,
       WriteNothingInvariant, IdleInvariant DEF Loop
  <1> QED
    BY <1>1, <1>2, <1>3 DEF Next

LEMMA InvariantHolds == Spec => []Invariant
  BY InitInvariant, NextInvariant, PTL DEF Spec

-------------------------------------------------------------------------------
(* The theorems. *)

(* The variables of the event loop have their types, and an entry is there *)
(* when one is dispatched (ae.c:178-190).                                  *)
THEOREM TypeCorrect == Spec => []TypeOK
  <1>1. Invariant => TypeOK
    <2>1. Types => /\ ae.events \in [Fd -> [mask : SUBSET {R, W}, client : Conn \cup {None}]]
                   /\ ae.interest \in [Fd -> (SUBSET {R, W}) \cup {Unregistered}]
      BY DEF Types, Loops, Events, Interests, Masks
    <2>2. Types => cfd \in [Conn -> Fd]
      BY DEF Types
    <2> QED
      BY <2>1, <2>2 DEF Invariant, Types, TypeOK
  <1> QED
    BY <1>1, InvariantHolds, PTL

(* The event table and epoll agree with what each client waits for, a      *)
(* descriptor that is closed leaves nothing behind, and no call of         *)
(* epoll_ctl fails, in spite of aeApiAddEvent replacing the interest and   *)
(* aeApiDelEvent testing the wrong mask (ae_epoll.c).                      *)
THEOREM RegistrationCorrect == Spec => []RegistrationAgrees
  <1>1. Invariant => RegistrationAgrees
    BY DEF Invariant
  <1> QED
    BY <1>1, InvariantHolds, PTL

(* Every open connection has one client, which alone has its descriptor:   *)
(* none leaks, and no handler gets a client that was freed                 *)
(* (networking.c, createClient and freeClient).                            *)
THEOREM ClientsCorrect == Spec => []ClientsOwnFds
  <1>1. ASSUME Invariant
        PROVE  ClientsOwnFds
    <2>1. \A c \in clients : c \in Conn /\ cfd[c] \in Fds /\ sock[cfd[c]] = c /\ c # None
      BY <1>1, EventLoopAssumption DEF Invariant, Types, Sockets
    <2>2. clients = {sock[fd] : fd \in Fds} \ {None}
      BY <1>1, <2>1 DEF Invariant, Sockets
    <2>3. \A c \in clients : ae.events[cfd[c]].client = c
      BY <1>1, <2>1 DEF Invariant, Sockets
    <2> QED
      BY <2>1, <2>2, <2>3 DEF ClientsOwnFds
  <1> QED
    BY <1>1, InvariantHolds, PTL

(* An event is delivered to the connection it was polled for: the handler  *)
(* of an earlier entry may free clients and accept may reuse descriptors   *)
(* (ae.c:178-190).                                                         *)
THEOREM FiredCorrect == Spec => []FiredCurrent
  <1>1. ASSUME Invariant
        PROVE  FiredCurrent
    <2> SUFFICES ASSUME NEW i \in DOMAIN fired, fired[i].fd # ListenFd,
                        fired[i].mask \cap ae.events[fired[i].fd].mask # {}
                 PROVE  sock[fired[i].fd] = fired[i].conn
      BY DEF FiredCurrent
    <2>1. fired[i].fd \in Fds
      <3>1. fired[i] \in Entries
        BY <1>1, ElementOfSeq DEF Invariant, Types
      <3> QED
        BY <3>1, FdFacts DEF Entries
    <2>2. sock[fired[i].fd] # None
      BY <1>1, <2>1 DEF Invariant, RegistrationAgrees
    <2> QED
      BY <1>1, <2>2 DEF Invariant, Dispatching
  <1> QED
    BY <1>1, InvariantHolds, PTL
=============================================================================
