----------------------------- MODULE EventLoop -----------------------------
(***************************************************************************)
(* The file events of the server: the table of eventloop/ae.c, the epoll   *)
(* set of eventloop/ae_epoll.c, and the handlers of server/networking.c    *)
(* that accept, read, write and free the clients registered there.         *)
(*                                                                         *)
(* One thread runs aeProcessEvents: epoll_wait fills fired, in any order,  *)
(* the handlers of each entry run, reading before writing, then the        *)
(* timers.  Peers move between the handlers.  A peer sends a request and   *)
(* waits for its answer (Client.tla has the bytes, and what goes wrong     *)
(* when it does not wait).  sendReplyToClient does not return while the    *)
(* socket is full.                                                         *)
(***************************************************************************)
EXTENDS Integers, FiniteSets, FiniteSetsExt, Sequences, SequencesExt, Functions

CONSTANTS
    Conn,           \* connections, each opened once: bound of the model
    ListenFd,       \* the listening socket
    Fds,            \* the descriptors left for connections
    None

ASSUME EventLoopAssumption ==
    /\ ListenFd \in Nat
    /\ Fds \subseteq Nat \ {ListenFd}
    /\ IsFiniteSet(Fds)
    /\ None \notin Conn

R == "AE_READ"
W == "AE_WRITE"

Fd == Fds \cup {ListenFd}
Unregistered == {"unregistered"}

VARIABLES
    peer,           \* of each connection: "new", "backlog", "open" or "closed"
    request,        \* its request: "none", "unread", "due" (reply buffered)
                    \* or "rest" (part of the reply sent)
    room,           \* whether its socket takes what is written
    sock,           \* the connection open on each descriptor, or None
    clients,        \* oredisServer.clients
    cfd,            \* fd of each client
    ae,             \* the event loop: events (mask and clientData per
                    \* descriptor), epoll's interest, and whether a call of
                    \* epoll_ctl has failed
    fired,          \* the entries of fired that are left, each with the
                    \* connection that was polled
    phase,          \* "poll", "read", "write", "timers" or "killed"
    errno

peers == <<peer, request, room>>
vars  == <<peers, sock, clients, cfd, ae, fired, phase, errno>>

-------------------------------------------------------------------------------
(* The event table and epoll. *)

(* epoll_ctl: ADD of what is not there, MOD and DEL of what is. *)
EpollCtl(l, op, fd, events) ==
    IF (op = "ADD") = (l.interest[fd] = Unregistered)
    THEN [l EXCEPT !.interest[fd] = IF op = "DEL" THEN Unregistered ELSE events]
    ELSE [l EXCEPT !.failed = TRUE]

(* Mutant of AddOp: a descriptor is always added. *)
AddOpAlways(mask) == "ADD"

AddOp(mask) == IF mask = {} THEN "ADD" ELSE "MOD"

(* aeCreateFileEvent.  aeApiAddEvent modifies the interest to the new mask *)
(* alone, not to the union with the one that is there.                     *)
CreateFileEvent(l, fd, mask, c) ==
    LET added == EpollCtl(l, AddOp(l.events[fd].mask), fd, mask)
    IN  IF added.failed THEN added
        ELSE [added EXCEPT !.events[fd] = [mask |-> @.mask \cup mask, client |-> c]]

(* Mutant of DelOp: the descriptor is always deleted. *)
DelOpAlways(mask, delmask) == "DEL"

(* What aeApiDelEvent asks of epoll.  mask ^ delmask != 0 is mask ^ 1: the *)
(* descriptor is deleted when it is registered for reading alone, whatever *)
(* is to be deleted, and modified otherwise, even to nothing.              *)
DelOp(mask, delmask) == IF mask = {R} THEN "DEL" ELSE "MOD"

DeleteFileEvent(l, fd, delmask) ==
    LET mask == l.events[fd].mask
        gone == EpollCtl(l, DelOp(mask, delmask), fd, mask \ delmask)
    IN  IF gone.failed THEN gone
        ELSE [gone EXCEPT !.events[fd].mask = @ \ delmask]

(* The kernel forgets a descriptor that is closed. *)
Closed(l, fd) == [l EXCEPT !.interest[fd] = Unregistered]

(* Mutant of FreedEvents: the events are left to close. *)
FreedEventsByClose(l, fd) == Closed(l, fd)

FreedEvents(l, fd) == Closed(DeleteFileEvent(l, fd, {R, W}), fd)

(* Mutant of Others: the client stays in the list. *)
OthersAndItself(c) == clients

Others(c) == clients \ {c}

(* freeClient, after the handler has deleted events itself or not. *)
FreeClient(c, l) ==
    /\ clients' = Others(c)
    /\ ae' = FreedEvents(l, cfd[c])
    /\ sock' = [sock EXCEPT ![cfd[c]] = None]

-------------------------------------------------------------------------------
Init ==
    /\ peer = [c \in Conn |-> "new"]
    /\ request = [c \in Conn |-> "none"]
    /\ room = [c \in Conn |-> TRUE]
    /\ sock = [fd \in Fds |-> None]
    /\ clients = {}
    /\ cfd = [c \in Conn |-> ListenFd]
    /\ ae = CreateFileEvent([events   |-> [fd \in Fd |-> [mask |-> {}, client |-> None]],
                             interest |-> [fd \in Fd |-> Unregistered],
                             failed   |-> FALSE], ListenFd, {R}, None)
    /\ fired = <<>>
    /\ phase = "poll"
    /\ errno = "none"

(* The peers. *)

PeerStep == UNCHANGED <<sock, clients, cfd, ae, fired, phase, errno>>

Connect(c) ==
    /\ peer[c] = "new"
    /\ peer' = [peer EXCEPT ![c] = "backlog"]
    /\ PeerStep /\ UNCHANGED <<request, room>>

Ask(c) ==
    /\ peer[c] \in {"backlog", "open"} /\ request[c] = "none"
    /\ request' = [request EXCEPT ![c] = "unread"]
    /\ PeerStep /\ UNCHANGED <<peer, room>>

(* The peer reads, and its socket has room again. *)
Drain(c) ==
    /\ ~room[c]
    /\ room' = [room EXCEPT ![c] = TRUE]
    /\ PeerStep /\ UNCHANGED <<peer, request>>

Hangup(c) ==
    /\ peer[c] = "open"
    /\ peer' = [peer EXCEPT ![c] = "closed"]
    /\ PeerStep /\ UNCHANGED <<request, room>>

-------------------------------------------------------------------------------
(* aeProcessEvents. *)

Readable(fd) ==
    IF fd = ListenFd
    THEN \E c \in Conn : peer[c] = "backlog"
    ELSE sock[fd] # None /\ (request[sock[fd]] = "unread" \/ peer[sock[fd]] = "closed")

Writable(fd) ==
    fd # ListenFd /\ sock[fd] # None /\ (room[sock[fd]] \/ peer[sock[fd]] = "closed")

EventsOf(fd) ==
    {m \in ae.interest[fd] : (m = R /\ Readable(fd)) \/ (m = W /\ Writable(fd))}

(* aeApiPoll: what is ready, in any order.  With nothing ready it returns  *)
(* when the next timer is due.                                             *)
Poll ==
    /\ phase = "poll"
    /\ \E order \in SetToSeqs({fd \in Fd : EventsOf(fd) # {}}) :
           /\ fired' = [i \in DOMAIN order |->
                  [fd |-> order[i], mask |-> EventsOf(order[i]),
                   conn |-> IF order[i] = ListenFd THEN None ELSE sock[order[i]]]]
           /\ phase' = IF order = <<>> THEN "timers" ELSE "read"
    /\ UNCHANGED <<peers, sock, clients, cfd, ae, errno>>

Entry == Head(fired)

(* What the table still asks for, of what was fired. *)
Effective == Entry.mask \cap ae.events[Entry.fd].mask

Client == ae.events[Entry.fd].client

Accept ==
    /\ phase = "read" /\ R \in Effective /\ Entry.fd = ListenFd
    /\ phase' = "write"
    /\ \/ \E c \in Conn :
              /\ peer[c] = "backlog"
              /\ \E fd \in Fds : sock[fd] = None
              /\ LET fd == Min({f \in Fds : sock[f] = None})
                 IN  /\ peer' = [peer EXCEPT ![c] = "open"]
                     /\ sock' = [sock EXCEPT ![fd] = c]
                     /\ cfd' = [cfd EXCEPT ![c] = fd]
                     /\ clients' = clients \cup {c}
                     /\ ae' = CreateFileEvent(ae, fd, {R}, c)
                     /\ UNCHANGED <<request, room, fired, errno>>
       \/ \* no descriptor is left: the connection stays in the backlog
          /\ \A fd \in Fds : sock[fd] # None
          /\ UNCHANGED <<peers, sock, clients, cfd, ae, fired, errno>>

(* readQueryFromClient reads a request, executes it and registers for      *)
(* writing.                                                                *)
ReadRequest ==
    /\ phase = "read" /\ R \in Effective /\ Entry.fd # ListenFd
    /\ request[Client] = "unread"
    /\ request' = [request EXCEPT ![Client] = "due"]
    /\ ae' = CreateFileEvent(ae, cfd[Client], {W}, Client)
    /\ phase' = "write"
    /\ UNCHANGED <<peer, room, sock, clients, cfd, fired, errno>>

(* The end of the stream, unless errno says otherwise; see Client. *)
ReadEnd ==
    /\ phase = "read" /\ R \in Effective /\ Entry.fd # ListenFd
    /\ request[Client] # "unread" /\ peer[Client] = "closed"
    /\ IF errno = "EAGAIN" THEN UNCHANGED <<clients, ae, sock>>
       ELSE FreeClient(Client, ae)
    /\ phase' = "write"
    /\ UNCHANGED <<peers, cfd, fired, errno>>

ReadNothing ==
    /\ phase = "read" /\ R \notin Effective
    /\ phase' = "write"
    /\ UNCHANGED <<peers, sock, clients, cfd, ae, fired, errno>>

(* Mutant of AfterEntry: there is always one more. *)
AfterEntryOneMore == IF fired = <<>> THEN "timers" ELSE "read"

(* Mutant of AfterEntry: the timers run only when nothing else happens. *)
AfterEntryPoll == IF Len(fired) = 1 THEN "poll" ELSE "read"

AfterEntry == IF Len(fired) = 1 THEN "timers" ELSE "read"

NextEntry ==
    /\ fired' = Tail(fired)
    /\ phase' = AfterEntry

(* sendReplyToClient sends all, to a peer that reads or is gone ... *)
Write ==
    /\ phase = "write" /\ W \in Effective
    /\ room[Client] \/ peer[Client] = "closed"
    /\ request' = [request EXCEPT ![Client] = "none"]
    /\ ae' = DeleteFileEvent(ae, Entry.fd, {W})
    /\ NextEntry
    /\ UNCHANGED <<peer, room, sock, clients, cfd, errno>>

(* ... or a part, until the socket is full ... *)
WritePart ==
    /\ phase = "write" /\ W \in Effective
    /\ request[Client] = "due" /\ room[Client] /\ peer[Client] = "open"
    /\ request' = [request EXCEPT ![Client] = "rest"]
    /\ room' = [room EXCEPT ![Client] = FALSE]
    /\ UNCHANGED <<peer, sock, clients, cfd, ae, fired, phase, errno>>

(* ... and then tries again at once ... *)
WriteBlocked ==
    /\ phase = "write" /\ W \in Effective
    /\ ~room[Client] /\ peer[Client] = "open"
    /\ errno' = "EAGAIN"
    /\ UNCHANGED <<peers, sock, clients, cfd, ae, fired, phase>>

(* ... or fails: the client is freed, or SIGPIPE ends the server. *)
WriteFails ==
    /\ phase = "write" /\ W \in Effective
    /\ peer[Client] = "closed"
    /\ \/ /\ FreeClient(Client, DeleteFileEvent(ae, Entry.fd, {R, W}))
          /\ NextEntry
       \/ phase' = "killed" /\ UNCHANGED <<clients, ae, sock, fired>>
    /\ UNCHANGED <<peers, cfd, errno>>

WriteNothing ==
    /\ phase = "write" /\ W \notin Effective
    /\ NextEntry
    /\ UNCHANGED <<peers, sock, clients, cfd, ae, errno>>

(* RunNowReadyTimeEvent; see TimeEvents. *)
RunTimers ==
    /\ phase = "timers"
    /\ phase' = "poll"
    /\ UNCHANGED <<peers, sock, clients, cfd, ae, fired, errno>>

Loop ==
    \/ Poll
    \/ Accept \/ ReadRequest \/ ReadEnd \/ ReadNothing
    \/ Write \/ WritePart \/ WriteBlocked \/ WriteFails \/ WriteNothing
    \/ RunTimers

Next ==
    \/ \E c \in Conn : Connect(c) \/ Ask(c) \/ Drain(c) \/ Hangup(c)
    \/ Loop

(* aeMain runs as long as the process does.  Nothing is assumed of the     *)
(* peers.                                                                  *)
Spec == Init /\ [][Next]_vars /\ WF_vars(Loop)

-------------------------------------------------------------------------------
(* Properties. *)

(* Types; an entry that is being dispatched exists. *)
TypeOK ==
    /\ peer \in [Conn -> {"new", "backlog", "open", "closed"}]
    /\ request \in [Conn -> {"none", "unread", "due", "rest"}]
    /\ room \in [Conn -> BOOLEAN]
    /\ sock \in [Fds -> Conn \cup {None}]
    /\ clients \subseteq Conn
    /\ cfd \in [Conn -> Fd]
    /\ ae.events \in [Fd -> [mask : SUBSET {R, W}, client : Conn \cup {None}]]
    /\ ae.interest \in [Fd -> (SUBSET {R, W}) \cup {Unregistered}]
    /\ phase \in {"read", "write"} => fired # <<>>

(* epoll watches what the client waits for: requests when it has no reply  *)
(* to send, and room when it has one.  A descriptor that is not open has   *)
(* no event in the table, so that the next connection that gets it starts  *)
(* clean; and no call of epoll_ctl fails, which prepareClientToWrite       *)
(* answers by freeing a client its callers go on using.                    *)
RegistrationAgrees ==
    /\ ~ae.failed
    /\ \A fd \in Fds :
           IF sock[fd] = None
           THEN ae.events[fd].mask = {} /\ ae.interest[fd] = Unregistered
           ELSE IF request[sock[fd]] \in {"due", "rest"}
           THEN ae.events[fd].mask = {R, W} /\ ae.interest[fd] = {W}
           ELSE ae.events[fd].mask = {R} /\ ae.interest[fd] = {R}

(* Every connection that is open in the server has one client, which alone *)
(* has its descriptor, in the client and in the event table: none leaks,   *)
(* and no handler is called with a client that was freed.                  *)
ClientsOwnFds ==
    /\ clients = {sock[fd] : fd \in Fds} \ {None}
    /\ \A c \in clients : sock[cfd[c]] = c /\ ae.events[cfd[c]].client = c

(* An event is delivered to the connection it was polled for, though       *)
(* handlers that run before it close descriptors and accept reuses them.   *)
FiredCurrent ==
    \A i \in DOMAIN fired :
        LET entry == fired[i]
        IN  entry.fd # ListenFd /\ entry.mask \cap ae.events[entry.fd].mask # {} =>
                sock[entry.fd] = entry.conn

(* The one place where the loop waits for a peer: it writes a reply, and   *)
(* the socket is full (networking.c:76-82).                                *)
Stalled ==
    /\ phase = "write" /\ W \in Effective
    /\ ~room[Client] /\ peer[Client] = "open"

(* As long as no peer stops reading for good while it is written to, a     *)
(* request on a connection that was accepted is answered, whatever the     *)
(* others send and however they come and go, unless its peer hangs up or   *)
(* the server is killed.                                                   *)
Served ==
    []<>~Stalled =>
        \A c \in Conn :
            (c \in clients /\ request[c] = "unread")
                ~> (request[c] = "none" \/ peer[c] = "closed" \/ phase = "killed")

(* As long as no peer stops reading for good while it is written to, the   *)
(* timers get their turn again and again: the events of one round cannot   *)
(* keep the loop from them (ae.c:171-203).          *)
TimersReached ==
    []<>~Stalled => (phase # "killed" ~> phase \in {"timers", "killed"})
=============================================================================
