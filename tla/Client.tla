------------------------------- MODULE Client -------------------------------
(***************************************************************************)
(* One connection of the server, from the bytes its peer sends to the      *)
(* bytes the peer receives: server/networking.c, and processCommand and    *)
(* the replies of the commands in server/Server.c.                         *)
(*                                                                         *)
(* The server is one thread.  readQueryFromClient reads part of what has   *)
(* arrived and processInputBuffer parses and executes it; between its      *)
(* steps only the peer moves.  sendReplyToClient does not return before    *)
(* all is sent.  What the keyspace answers is the subject of Keyspace.tla: *)
(* here GET finds any of the Values or none.                               *)
(*                                                                         *)
(* A token stands for a byte of the stream, the words "get" and "+OK"      *)
(* included; sizes count tokens.  The C code frees objects that are        *)
(* still in use in two places; what happens then is undefined, and the     *)
(* model stops there with pc = "undefined".                                *)
(***************************************************************************)
EXTENDS Integers, Sequences, SequencesExt, FiniteSets

CONSTANTS
    Requests,       \* what the peer may send: [bytes, args], where args are
                    \* the words meant, or Malformed
    Early,          \* those it may send before the last one is answered
    Malformed,      \* for requests the protocol has an error for
    Values,         \* what GET may find, as sequences of tokens
    BufSize,        \* size of the reply buffer, 16K
    InlineMax,      \* REDIS_INLINE_MAX_SIZE, 64K
    MaxCount,       \* the most arguments of a request, 1024 * 1024
    MaxBulk,        \* the longest argument, 512 * 1024 * 1024
    BigArg,         \* REDIS_MBULK_BIG_ARG, 32K
    LongBits,       \* bits of a long long: 64
    Room,           \* what the socket holds for the peer
    MaxRequests,    \* bound of the model on requests
    MaxReplies      \* bound of the model on replies

ASSUME ClientAssumption ==
    /\ \A r \in Requests : r.bytes \in Seq(ToSet(r.bytes)) /\ r.bytes # <<>>
    /\ Early \subseteq Requests
    /\ \A v \in Values : v \in Seq(ToSet(v))
    /\ BufSize \in Nat \ {0}
    /\ InlineMax \in Nat /\ MaxCount \in Nat /\ MaxBulk \in Nat /\ BigArg \in Nat
    /\ LongBits \in Nat \ {0}
    /\ Room \in Nat \ {0}
    /\ MaxRequests \in Nat
    /\ MaxReplies \in Nat

VARIABLES
    wire,           \* bytes sent by the peer and not read
    peer,           \* "open" or "closed"
    inflight,       \* bytes written to the socket and not received
    q,              \* buf, type, multibulklen, bulklen and argv of the client
    pos,            \* processMultibulkBuffer: how far it has come in buf
    pc,             \* where the server is: see PCs
    out,            \* the reply buffer and list, and the state of their memory
    errno,          \* what the last call that failed has left there
    (* history *)
    asked,          \* the requests sent
    eager,          \* a request was sent before the last was answered
    done,           \* the commands executed
    replies,        \* the number of replies made
    expected,       \* their bytes
    received,       \* the bytes the peer has received
    jumped          \* a reply was put before an older one, or dropped

history == <<asked, eager, done, replies, expected, received, jumped>>
conn    == <<wire, peer, inflight>>
vars    == <<conn, q, pos, pc, out, errno, history>>

Gone == {"freed", "killed", "undefined"}
PCs  == Gone \cup {"ready", "parse", "length", "argument", "execute", "send"}

Txt == INSTANCE Text
Num == INSTANCE Numbers WITH Width <- LongBits

(* What createClient leaves. *)
EmptyQuery == [buf |-> <<>>, type |-> "unknown", multibulklen |-> 0,
               bulklen |-> 0, argv |-> <<>>]

(* Mutant of Reset: the argument vector is kept. *)
ResetKeepsArguments == [EmptyQuery EXCEPT !.argv = q.argv]

(* resetClient *)
Reset == EmptyQuery

-------------------------------------------------------------------------------
(* The peer. *)

Init ==
    /\ wire = <<>> /\ inflight = <<>> /\ peer = "open"
    /\ q = EmptyQuery
    /\ pos = 0 /\ pc = "ready" /\ errno = "none"
    /\ out = [buf |-> <<>>, list |-> <<>>, sent |-> 0, armed |-> FALSE,
              dangling |-> FALSE, CRobj |-> "live", undefined |-> FALSE]
    /\ asked = <<>> /\ eager = FALSE /\ done = <<>> /\ replies = 0
    /\ expected = <<>> /\ received = <<>> /\ jumped = FALSE

(* A request without words has no reply. *)
Due == Cardinality({i \in DOMAIN asked : asked[i].args # <<>>})

(* All that was asked has been read, executed and answered. *)
Answered ==
    /\ wire = <<>> /\ q.buf = <<>> /\ pc = "ready"
    /\ replies = Due
    /\ received = expected

(* The peer moves while the server waits or is about to write; its parsing *)
(* and executing touch nothing the peer sees.                              *)
PeerMoves == peer = "open" /\ pc \in {"ready", "send"}

Send(r) ==
    /\ PeerMoves
    /\ Len(asked) < MaxRequests
    /\ Answered \/ r \in Early
    /\ wire' = wire \o r.bytes
    /\ asked' = Append(asked, r)
    /\ eager' = (eager \/ ~Answered)
    /\ UNCHANGED <<peer, inflight, q, pos, pc, out, errno,
                   done, replies, expected, received, jumped>>

Receive ==
    /\ PeerMoves /\ inflight # <<>>
    /\ received' = received \o inflight
    /\ inflight' = <<>>
    /\ UNCHANGED <<wire, peer, q, pos, pc, out, errno,
                   asked, eager, done, replies, expected, jumped>>

Close ==
    /\ PeerMoves
    /\ peer' = "closed"
    /\ inflight' = <<>>
    /\ UNCHANGED <<wire, q, pos, pc, out, errno, history>>

-------------------------------------------------------------------------------
(* Replies.  addReplyString copies its text to the buffer, or to the list  *)
(* when it does not fit; addReply does the same with an object, which the  *)
(* list then shares; what addReplyBulkCBuffer cannot place is dropped.     *)

Text(t)   == [kind |-> "string", bytes |-> <<t>>]
Object(v) == [kind |-> "object", bytes |-> v]
CRobj     == [kind |-> "CRobj", bytes |-> <<"\r\n">>]
Raw(t)    == [kind |-> "raw", bytes |-> <<t>>]

Fits(o, a) == Len(o.buf) + Len(a.bytes) <= BufSize

(* Mutant of Armed: the write event is not registered. *)
ArmedNever(o) == o

(* prepareClientToWrite *)
Armed(o) == [o EXCEPT !.armed = TRUE]

(* The tail pointer of a list that was emptied still points to its last    *)
(* node, and CRobj is freed when a list that shares it is sent.            *)
Added(o, a) ==
    LET used == [Armed(o) EXCEPT
                     !.undefined = @ \/ (a.kind = "CRobj" /\ o.CRobj = "freed")]
    IN  IF Fits(o, a) THEN [used EXCEPT !.buf = @ \o a.bytes]
        ELSE IF a.kind = "raw" THEN used
        ELSE [used EXCEPT !.list = Append(@, a), !.undefined = @ \/ o.dangling]

Jumps(o, a) == IF Fits(o, a) THEN o.list # <<>> ELSE a.kind = "raw"

Reply(adds) ==
    /\ out' = FoldLeft(Added, out, adds)
    /\ jumped' = (jumped \/ \E i \in DOMAIN adds :
                      Jumps(FoldLeft(Added, out, SubSeq(adds, 1, i - 1)), adds[i]))
    /\ replies' = replies + 1
    /\ expected' = expected \o FlattenSeq([i \in DOMAIN adds |-> adds[i].bytes])

OK    == <<Text("+OK"), Text("\r\n")>>
Error == <<Text("-ERR"), Text("message"), Text("\r\n")>>

(* addReplyfull, behind the length header *)
Found(v) == <<Raw("$"), Object(v), CRobj>>

-------------------------------------------------------------------------------
(* The query buffer. *)

Index(s, c) == SelectInSeq(s, LAMBDA b : b = c)

Trimmed(n) == SubSeq(q.buf, n + 1, Len(q.buf))

Continue(where) == pc' = IF out'.undefined THEN "undefined" ELSE where

(* readQueryFromClient: any part of what has arrived. *)
Read(n) ==
    /\ pc = "ready"
    /\ n \in 1 .. Len(wire)
    /\ q' = [q EXCEPT !.buf = @ \o SubSeq(wire, 1, n)]
    /\ wire' = SubSeq(wire, n + 1, Len(wire))
    /\ pc' = "parse"
    /\ UNCHANGED <<peer, inflight, pos, out, errno, history>>

(* Mutant of AtEnd: the end of the stream is taken for no data. *)
AtEndNothing == "parse"

(* read returns 0 and leaves errno as it was; or the connection was reset, *)
(* which is an error of its own.                                           *)
AtEnd == IF errno = "EAGAIN" THEN "parse" ELSE "freed"

ReadEnd ==
    /\ pc = "ready" /\ peer = "closed" /\ wire = <<>>
    /\ replies < MaxReplies
    /\ pc' \in {AtEnd, "freed"}
    /\ UNCHANGED <<conn, q, pos, out, errno, history>>

ParseEnd ==
    /\ pc = "parse" /\ q.buf = <<>>
    /\ pc' = "ready"
    /\ UNCHANGED <<conn, q, pos, out, errno, history>>

Type ==
    IF q.type # "unknown" THEN q.type
    ELSE IF Head(q.buf) = "*" THEN "multibulk" ELSE "inline"

(* A protocol error: reply and resetClient. *)
Refuse ==
    /\ Reply(Error)
    /\ q' = Reset
    /\ Continue("ready")
    /\ UNCHANGED <<conn, pos, errno, asked, eager, done, received>>

Wait(query) ==
    /\ q' = query
    /\ pc' = "ready"
    /\ UNCHANGED <<conn, pos, out, errno, history>>

(* An inline request that cannot be split, or is too long: it is reported  *)
(* and stays in the buffer (sdsrange(0, -1) removes nothing).              *)
RefuseInline ==
    /\ Reply(Error)
    /\ q' = [q EXCEPT !.type = "inline"]
    /\ Continue("ready")
    /\ UNCHANGED <<conn, pos, errno, asked, eager, done, received>>

(* A line without its end, and the words of it that are not empty *)
Line(s, newline) ==
    SubSeq(s, 1, IF newline > 1 /\ s[newline - 1] = "\r" THEN newline - 2 ELSE newline - 1)

Words(args) == SelectSeq(args, LAMBDA w : w # <<>>)

(* processInlineBuffer.  Two bytes are removed behind the line, whether it *)
(* ended in \r\n or in \n; the empty words are freed.                      *)
Inline ==
    /\ pc = "parse" /\ q.buf # <<>> /\ Type = "inline"
    /\ LET newline == Index(q.buf, "\n")
           line    == Line(q.buf, newline)
       IN  \/ /\ newline = 0
              /\ IF Len(q.buf) > InlineMax THEN RefuseInline
                 ELSE Wait([q EXCEPT !.type = "inline"])
           \/ /\ newline # 0
              /\ \E words \in {Txt!SplitArgs(line)} :
                     \/ ~words.ok /\ RefuseInline
                     \/ /\ words.ok
                        /\ q' = [q EXCEPT !.type = "inline",
                                          !.buf = Trimmed(Len(line) + 2),
                                          !.argv = Words(words.args)]
                        /\ pc' = "execute"
                        /\ UNCHANGED <<conn, pos, out, errno, history>>

Typed == [q EXCEPT !.type = "multibulk"]

GoodCount(n) == n.ok /\ n.value <= MaxCount

(* processMultibulkBuffer: the number of arguments.  A \r counts when one   *)
(* more byte is there; that byte is not looked at.                         *)
MultibulkLength ==
    /\ pc = "parse" /\ q.buf # <<>> /\ Type = "multibulk"
    /\ \E newline \in {Index(q.buf, "\r")} :
       \E count \in {Num!String2ll(SubSeq(q.buf, 2, newline - 1))} :
          \/ /\ q.multibulklen # 0
             /\ pos' = 0 /\ q' = q
             /\ pc' = IF q.bulklen = 0 THEN "length" ELSE "argument"
             /\ UNCHANGED <<conn, out, errno, history>>
          \/ /\ q.multibulklen = 0 /\ newline = 0
             /\ IF Len(q.buf) > InlineMax THEN Refuse ELSE Wait(Typed)
          \/ q.multibulklen = 0 /\ newline = Len(q.buf) /\ Wait(Typed)
          \/ /\ q.multibulklen = 0 /\ newline \in 1 .. Len(q.buf) - 1 /\ ~GoodCount(count)
             /\ Refuse
          \/ /\ q.multibulklen = 0 /\ newline \in 1 .. Len(q.buf) - 1 /\ GoodCount(count)
             /\ IF count.value <= 0
                THEN /\ q' = Reset /\ pc' = "parse" /\ pos' = 0
                ELSE /\ q' = [Typed EXCEPT !.multibulklen = count.value]
                     /\ pc' = "length" /\ pos' = newline + 1
             /\ UNCHANGED <<conn, out, errno, history>>

(* Out of the loop with arguments still to come: what was parsed goes.     *)
Break(query, p) ==
    /\ q' = [query EXCEPT !.buf = Trimmed(p)]
    /\ pc' = "ready"
    /\ UNCHANGED <<conn, pos, out, errno, history>>

GoodLength(n) == n.ok /\ n.value >= 0 /\ n.value <= MaxBulk

(* The length of the next argument; a bulklen of 0 means it is not known.  *)
(* Before a big argument the buffer is cut, so that it begins with it.     *)
BulkLength ==
    /\ pc = "length"
    /\ \E rest \in {Trimmed(pos)} :
       \E newline \in {Index(rest, "\r")} :
       \E length \in {Num!String2ll(SubSeq(rest, 2, newline - 1))} :
          \/ /\ newline = 0
             /\ IF Len(q.buf) > InlineMax THEN Refuse ELSE Break(q, pos)
          \/ newline # 0 /\ newline = Len(rest) /\ Break(q, pos)
          \/ /\ newline \in 1 .. Len(rest) - 1
             /\ rest[1] # "$" \/ ~GoodLength(length)
             /\ Refuse
          \/ /\ newline \in 1 .. Len(rest) - 1
             /\ rest[1] = "$" /\ GoodLength(length)
             /\ IF length.value >= BigArg
                THEN /\ pos' = 0
                     /\ q' = [q EXCEPT !.bulklen = length.value,
                                       !.buf = Trimmed(pos + newline + 1)]
                ELSE /\ pos' = pos + newline + 1
                     /\ q' = [q EXCEPT !.bulklen = length.value]
             /\ pc' = "argument"
             /\ UNCHANGED <<conn, out, errno, history>>

(* Mutant of Missing: it waits for a byte behind the \r\n. *)
MissingOneMore(end) == Len(q.buf) < end + 3

Missing(end) == Len(q.buf) < end + 2

(* The buffer is just one big argument, with its \r\n. *)
JustOne == pos = 0 /\ q.bulklen >= BigArg /\ Len(q.buf) = q.bulklen + 2

(* The query with one argument more, and a place in what is left of it.    *)
(* Out of the loop, the buffer is cut there.                               *)
NextArgument(query, p) ==
    /\ pos' = p
    /\ IF query.multibulklen = 0
       THEN q' = [query EXCEPT !.buf = SubSeq(@, p + 1, Len(@))] /\ pc' = "execute"
       ELSE q' = query /\ pc' = "length"
    /\ UNCHANGED <<conn, out, errno, history>>

(* The argument itself, when it and its \r\n are there.  A buffer that is  *)
(* just one big argument is not cut: an empty one takes its place.         *)
BulkArgument ==
    /\ pc = "argument"
    /\ LET end  == pos + q.bulklen
           next == [q EXCEPT !.argv = Append(@, SubSeq(q.buf, pos + 1, end)),
                             !.bulklen = 0, !.multibulklen = @ - 1]
       IN  \/ Missing(end) /\ Break(q, pos)
           \/ ~Missing(end) /\ JustOne /\ NextArgument([next EXCEPT !.buf = <<>>], 0)
           \/ ~Missing(end) /\ ~JustOne /\ NextArgument(next, end + 2)

-------------------------------------------------------------------------------
(* processCommand. *)

(* The command table; a negative arity is a least number of words. *)
Arity == [set |-> -3, del |-> -2, exists |-> 2, get |-> 2, hset |-> -4,
          hdel |-> 3, hmset |-> -5, hmget |-> 2, hlen |-> 2]

ArityRight(arity, argc) == ~(arity > 0 /\ arity > argc) /\ ~(arity < -argc)

(* The replies a command may have, whatever the keyspace answers. *)
RepliesTo(argv) ==
    LET name == argv[1][1]
        argc == Len(argv)
    IN  CASE argv[1] = <<"quit">> -> {OK}
          [] argv[1] # <<"quit">>
                /\ (Len(argv[1]) # 1 \/ name \notin DOMAIN Arity) -> {Error}
          [] Len(argv[1]) = 1 /\ name \in DOMAIN Arity ->
                IF ~ArityRight(Arity[name], argc) THEN {Error}
                ELSE CASE name = "set" -> {OK}
                       [] name = "get" -> IF argc # 2 THEN {Error}
                                          ELSE {Found(v) : v \in Values} \cup {Error}
                       [] name = "exists" -> IF argc # 2 THEN {Error} ELSE {<<Raw("exists")>>}
                       [] name = "del" -> IF argc # 2 THEN {Error} ELSE {OK, Error}
                       [] OTHER -> {Error}

(* A request without words is dropped.  resetClient follows in any case,   *)
(* and empties the query buffer.                                           *)
Execute ==
    /\ pc = "execute"
    /\ IF q.argv = <<>>
       THEN UNCHANGED <<out, replies, expected, jumped, done>> /\ pc' = "parse"
       ELSE /\ \E adds \in RepliesTo(q.argv) : Reply(adds)
            /\ done' = Append(done, q.argv)
            /\ Continue("parse")
    /\ q' = Reset
    /\ UNCHANGED <<conn, pos, errno, asked, eager, received>>

-------------------------------------------------------------------------------
(* sendReplyToClient: the buffer, then the list.                           *)

Source == IF out.buf # <<>> THEN out.buf
          ELSE IF out.list # <<>> THEN Head(out.list).bytes ELSE <<>>

(* Mutant of AtStart: sendlen stays. *)
AtStartNever(o) == o

AtStart(o) == [o EXCEPT !.sent = 0]

(* The source has been sent: the buffer is empty again, or the head of the *)
(* list is released and its node freed.                                    *)
Sent(o) ==
    IF o.buf # <<>>
    THEN [AtStart(o) EXCEPT !.buf = <<>>]
    ELSE [AtStart(o) EXCEPT
              !.list = Tail(@), !.dangling = Len(o.list) = 1,
              !.CRobj = IF Head(o.list).kind = "CRobj" THEN "freed" ELSE @]

Writable ==
    /\ pc = "ready" /\ out.armed
    /\ pc' = "send"
    /\ UNCHANGED <<conn, q, pos, out, errno, history>>

(* Mutant of Advanced: the part sent is not counted. *)
AdvancedNever(o, n) == o

Advanced(o, n) == [o EXCEPT !.sent = @ + n]

Write(n) ==
    /\ pc = "send" /\ Source # <<>>
    /\ n \in 1 .. Len(Source) - out.sent
    /\ peer = "open" => n <= Room - Len(inflight)
    /\ inflight' = IF peer = "open"
                   THEN inflight \o SubSeq(Source, out.sent + 1, out.sent + n)
                   ELSE inflight
    /\ out' = IF out.sent + n = Len(Source) THEN Sent(out)
              ELSE Advanced(out, n)
    /\ UNCHANGED <<wire, peer, q, pos, pc, errno, history>>

(* No room: the handler tries again at once. *)
WriteBlocked ==
    /\ pc = "send" /\ Source # <<>>
    /\ peer = "open" /\ Len(inflight) = Room
    /\ errno' = "EAGAIN"
    /\ UNCHANGED <<conn, q, pos, pc, out, history>>

(* The peer is gone: an error, or SIGPIPE, which the server does not       *)
(* ignore.                                                                 *)
WriteFails ==
    /\ pc = "send" /\ Source # <<>> /\ peer = "closed"
    /\ pc' \in {"freed", "killed"}
    /\ UNCHANGED <<conn, q, pos, out, errno, history>>

SendEnd ==
    /\ pc = "send" /\ Source = <<>>
    /\ out' = [out EXCEPT !.armed = FALSE]
    /\ pc' = "ready"
    /\ UNCHANGED <<conn, q, pos, errno, history>>

-------------------------------------------------------------------------------
Server ==
    \/ \E n \in 1 .. Len(wire) : Read(n)
    \/ ReadEnd
    \/ ParseEnd
    \/ Inline
    \/ MultibulkLength
    \/ BulkLength
    \/ BulkArgument
    \/ Execute
    \/ Writable
    \/ \E n \in 1 .. Len(Source) : Write(n)
    \/ WriteBlocked
    \/ WriteFails
    \/ SendEnd

Next ==
    \/ \E r \in Requests : Send(r)
    \/ Receive
    \/ Close
    \/ Server

(* The event loop goes on while there is something to read or to write.    *)
(* Nothing is assumed of the peer.                                         *)
Spec == Init /\ [][Next]_vars /\ WF_vars(Server)

-------------------------------------------------------------------------------
(* Properties. *)

(* Types.  sendlen is a position inside what is being sent, and what is    *)
(* being sent is not empty.                                                *)
TypeOK ==
    /\ pc \in PCs /\ peer \in {"open", "closed"} /\ errno \in {"none", "EAGAIN"}
    /\ q.type \in {"unknown", "inline", "multibulk"}
    /\ q.multibulklen \in Nat /\ q.bulklen \in Nat /\ pos \in Nat
    /\ Len(out.buf) <= BufSize
    /\ out.sent = 0 \/ out.sent < Len(Source)
    /\ \A i \in DOMAIN out.list : out.list[i].bytes # <<>>
    /\ out.armed \in BOOLEAN /\ eager \in BOOLEAN /\ jumped \in BOOLEAN

(* Requests the parser gets wrong are set aside: an empty argument, whose  *)
(* length of 0 is read again when the buffer ended behind it; a line with  *)
(* unbalanced quotes, which stays in the buffer; and one longer than       *)
(* InlineMax, since "too big bulk count string" is said of the length of   *)
(* the whole buffer, the arguments already parsed included.                *)
PlainRequest(r) ==
    /\ Len(r.bytes) <= InlineMax
    /\ r.args = Malformed => Head(r.bytes) = "*"
    /\ \A j \in DOMAIN r.args : r.args[j] # <<>>

Plain == \A i \in DOMAIN asked : PlainRequest(asked[i])

(* The redis protocol.  Behind a place is a line: where its \r is, and the *)
(* number in it.                                                           *)
LineEnd(s, p)   == p + Index(SubSeq(s, p + 1, Len(s)), "\r")
HasLine(s, p)   == p < LineEnd(s, p) /\ LineEnd(s, p) < Len(s)
LineValue(s, p) == Num!String2ll(SubSeq(s, p + 2, LineEnd(s, p) - 1))

(* An argument with its length is between two places. *)
IsBulk(s, p, end) ==
    /\ HasLine(s, p) /\ s[p + 1] = "$"
    /\ GoodLength(LineValue(s, p)) /\ LineValue(s, p).value > 0
    /\ end = LineEnd(s, p) + LineValue(s, p).value + 3
    /\ end <= Len(s)

Bulk(s, p) == SubSeq(s, LineEnd(s, p) + 2, LineEnd(s, p) + 1 + LineValue(s, p).value)

(* The first arguments of a request, and where each of them ends *)
AreBulks(s, k, ends) ==
    /\ ends[0] = LineEnd(s, 0) + 1
    /\ \A j \in 1 .. k : IsBulk(s, ends[j - 1], ends[j])

BulksOf(s, k, ends) == [j \in 1 .. k |-> Bulk(s, ends[j - 1])]

(* What follows is no length: the line ends the request. *)
NoBulk(s, p) ==
    /\ HasLine(s, p) /\ Len(s) = LineEnd(s, p) + 1
    /\ s[p + 1] = "$" => ~GoodLength(LineValue(s, p))

IsMultibulk(s, args) ==
    /\ Head(s) = "*" /\ HasLine(s, 0)
    /\ \E count \in {LineValue(s, 0)} :
          \/ ~GoodCount(count) /\ args = Malformed /\ Len(s) = LineEnd(s, 0) + 1
          \/ GoodCount(count) /\ count.value <= 0 /\ args = <<>> /\ Len(s) = LineEnd(s, 0) + 1
          \/ /\ GoodCount(count) /\ count.value > 0
             /\ \E k \in 0 .. count.value : \E ends \in [0 .. k -> 0 .. Len(s)] :
                   /\ AreBulks(s, k, ends)
                   /\ \/ /\ k = count.value /\ ends[k] = Len(s)
                         /\ args = BulksOf(s, k, ends) /\ args # Malformed
                      \/ k < count.value /\ NoBulk(s, ends[k]) /\ args = Malformed

IsInline(s, args) ==
    /\ Head(s) # "*" /\ Index(s, "\n") = Len(s)
    /\ \E words \in {Txt!SplitArgs(Line(s, Len(s)))} : words.ok /\ args = Words(words.args)

(* What the peer sends are requests of the protocol, an error being where  *)
(* a malformed one ends.                                                   *)
ASSUME RequestAssumption ==
    /\ Malformed # <<>>
    /\ \A r \in Requests :
           PlainRequest(r) => IsInline(r.bytes, r.args) \/ IsMultibulk(r.bytes, r.args)

(* The words of the commands sent *)
Meant ==
    FlattenSeq([i \in DOMAIN asked |->
                   IF asked[i].args \in {Malformed, <<>>} THEN <<>> ELSE <<asked[i].args>>])

(* However a request is cut into reads, the command executed is the one    *)
(* that was sent, once and in order, as long as the peer waits for each    *)
(* answer (networking.c:315-451, 252-313).                                 *)
ExecutedAsSent == Plain /\ ~eager => IsPrefix(done, Meant)

(* The comment at networking.c:291 promises that what follows a request in *)
(* the buffer is left there: when the server has read all that was sent    *)
(* and waits for more, it has executed every request, those sent without   *)
(* waiting included.                                                       *)
PipelineKept == Plain /\ pc = "ready" /\ wire = <<>> => done = Meant

(* What the peer has received, what is on its way and what is still in the *)
(* buffer and the list are together the replies made, byte for byte.       *)
RepliesInOrder ==
    peer = "open" /\ pc \notin Gone /\ ~jumped =>
        LET queued == out.buf \o FlattenSeq([i \in DOMAIN out.list |-> out.list[i].bytes])
        IN  received \o inflight \o SubSeq(queued, out.sent + 1, Len(queued)) = expected

(* When the server rests and nothing is on the wire, every request has its *)
(* reply and the query buffer is empty: no complete request waits there    *)
(* for bytes that do not come.                                             *)
NothingLeftBehind ==
    Plain /\ ~eager /\ pc = "ready" /\ wire = <<>> =>
        q.buf = <<>> /\ replies = Due

(* A peer that waits for its answers, and reads again and again what has   *)
(* come, gets each of them whole, unless a reply was too long for the      *)
(* buffer (networking.c:73-110, 315-451).                                  *)
RequestsAnswered ==
    []<>(inflight = <<>>) =>
        ((asked # <<>> /\ Plain /\ ~eager)
            ~> (Answered \/ eager \/ ~Plain \/ jumped \/ peer = "closed" \/ pc \in Gone))

(* A connection the peer has closed is freed, unless an earlier call left  *)
(* EAGAIN in errno: then it is read for ever.                              *)
ClosedReaped == peer = "closed" ~> (pc \in Gone \/ errno = "EAGAIN" \/ replies >= MaxReplies)
=============================================================================
