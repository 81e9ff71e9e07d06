------------------------------ MODULE Sockets -------------------------------
(***************************************************************************)
(* The sockets of base_net/hnet.c: connecting, listening, accepting, and   *)
(* the transfers of netRead and netWrite, one system call a step.  Every   *)
(* call may fail.  Setting an option of a socket that is open, and         *)
(* resolving a name for its own sake, are left out; so is the retry        *)
(* without the source address, for a flag no function passes.              *)
(***************************************************************************)
EXTENDS Integers, FiniteSets, FiniteSetsExt

CONSTANTS
    Descriptors,    \* the descriptors of the process
    MaxAddresses,   \* bound of the model on what getaddrinfo returns
    Count           \* count, the bytes to transfer

VARIABLES
    call,           \* the call: its function, its step, whether it has a
                    \* source_addr
    left,           \* p: how many addresses are left
    s,              \* the socket, or NET_ERR
    open,           \* the descriptors that are open
    lists,          \* how many results of getaddrinfo are not freed
    held,           \* history: the sockets returned and not closed since
    moved           \* the transfer: doneCount, buf (from 0), the number of
                    \* parts, and the bytes of buf that were transferred

vars == <<call, left, s, open, lists, held, moved>>

NetErr == -1
Idle == [fn |-> "none", step |-> "idle", source |-> FALSE]
NothingMoved == [done |-> 0, buf |-> 0, parts |-> 0, bytes |-> {}]

Init ==
    /\ call = Idle /\ left = 0 /\ s = NetErr
    /\ open = {} /\ lists = 0 /\ held = {} /\ moved = NothingMoved

At(step) == call.step = step
Goto(step) == call' = [call EXCEPT !.step = step]

-------------------------------------------------------------------------------
(* netTcpConnect, netTcpNonBlockConnect, netTcpNonBlockBindConnect and     *)
(* netTcpServer; netTcpAccept; netRead and netWrite *)
Enter ==
    /\ At("idle")
    /\ \/ \E source \in BOOLEAN :
              call' = [fn |-> "connect", step |-> "resolve", source |-> source]
       \/ call' = [Idle EXCEPT !.fn = "server", !.step = "resolve"]
       \/ call' = [Idle EXCEPT !.fn = "accept", !.step = "accept"]
       \/ call' = [Idle EXCEPT !.fn = "transfer", !.step = "transfer"]
    /\ s' = NetErr /\ moved' = NothingMoved
    /\ UNCHANGED <<left, open, lists, held>>

Return(socket) ==
    /\ call' = Idle /\ s' = NetErr
    /\ held' = held \cup ({socket} \ {NetErr})

Resolve ==
    /\ At("resolve")
    /\ \/ Return(NetErr) /\ UNCHANGED <<left, lists>>
       \/ /\ left' \in 1 .. MaxAddresses /\ lists' = lists + 1
          /\ Goto("address")
          /\ UNCHANGED <<s, held>>
    /\ UNCHANGED <<open, moved>>

(* socket(), for the next address; the lowest descriptor that is free *)
Address ==
    /\ At("address")
    /\ \/ /\ left > 0 /\ open # Descriptors
          /\ s' = Min(Descriptors \ open) /\ open' = open \cup {s'}
          /\ Goto(IF call.fn = "server" THEN "listen" ELSE "reuse")
          /\ UNCHANGED left
       \/ left > 0 /\ left' = left - 1 /\ s' = NetErr /\ UNCHANGED <<call, open>>
       \/ left = 0 /\ Goto("error") /\ UNCHANGED <<left, s, open>>
    /\ UNCHANGED <<lists, held, moved>>

(* netSetReuseAddr *)
Reuse ==
    /\ At("reuse")
    /\ \/ Goto("error")
       \/ Goto(IF call.source THEN "source" ELSE "connect")
    /\ UNCHANGED <<left, s, open, lists, held, moved>>

(* The source address is resolved, bound, and its list freed. *)
Source ==
    /\ At("source")
    /\ Goto("error") \/ Goto("connect")
    /\ UNCHANGED <<left, s, open, lists, held, moved>>

(* Mutant of Refused: the socket of an address that refuses stays open. *)
RefusedOpen == s' = NetErr /\ UNCHANGED open

(* connect() has failed: the next address. *)
Refused == s' = NetErr /\ open' = open \ {s}

(* Connected, or under way when NET_CONNECT_NONBLOCK is set; or refused. *)
Connect ==
    /\ At("connect")
    /\ \/ Goto("end") /\ UNCHANGED <<left, s, open>>
       \/ Refused /\ left' = left - 1 /\ Goto("address")
    /\ UNCHANGED <<lists, held, moved>>

(* netListen closes the socket it fails for; no other address is tried. *)
Listen ==
    /\ At("listen")
    /\ \/ Goto("end") /\ UNCHANGED <<s, open>>
       \/ Goto("end") /\ s' = NetErr /\ open' = open \ {s}
    /\ UNCHANGED <<left, lists, held, moved>>

Error ==
    /\ At("error")
    /\ s' = NetErr /\ open' = open \ {s}
    /\ Goto("end")
    /\ UNCHANGED <<left, lists, held, moved>>

End ==
    /\ At("end")
    /\ lists' = lists - 1
    /\ left' = 0
    /\ Return(s)
    /\ UNCHANGED <<open, moved>>

(* netGenericAccept: again after EINTR *)
Accept ==
    /\ At("accept")
    /\ \/ UNCHANGED <<call, s, open, held>>
       \/ Return(NetErr) /\ UNCHANGED open
       \/ /\ open # Descriptors
          /\ open' = open \cup {Min(Descriptors \ open)}
          /\ Return(Min(Descriptors \ open))
    /\ UNCHANGED <<left, lists, moved>>

(* doneCount += nowCount; buf += doneCount, which is the sum so far. *)
Advanced(m, n) == [m EXCEPT !.done = @ + n, !.buf = @ + m.done + n]

(* read() or write(): all that is left, or a part, or nothing, or an error *)
Transfer ==
    /\ At("transfer")
    /\ \/ moved.done < Count /\ \E n \in 1 .. Count - moved.done :
              /\ moved' = [Advanced(moved, n) EXCEPT
                              !.parts = @ + 1,
                              !.bytes = @ \cup (moved.buf + 1 .. moved.buf + n)]
              /\ UNCHANGED <<call, s, held>>
       \/ Return(NetErr) /\ UNCHANGED moved
    /\ UNCHANGED <<left, open, lists>>

(* The caller closes a socket. *)
Close ==
    /\ At("idle")
    /\ \E fd \in held : held' = held \ {fd} /\ open' = open \ {fd}
    /\ UNCHANGED <<call, left, s, lists, moved>>

Next ==
    \/ Enter \/ Resolve \/ Address \/ Reuse \/ Source \/ Connect \/ Listen
    \/ Error \/ End \/ Accept \/ Transfer \/ Close

-------------------------------------------------------------------------------
(* Whichever call fails, a socket that is open belongs to the call under   *)
(* way or was returned to the caller, and every list of addresses is freed *)
(* once when the call is over.                                             *)
NoSocketLost ==
    /\ held \subseteq open /\ s \notin held
    /\ open = held \cup ({s} \ {NetErr})
    /\ lists = (IF At("idle") \/ call.step \in {"resolve", "accept", "transfer"} THEN 0 ELSE 1)

(* A transfer in one part or two has its bytes where they belong.  With a  *)
(* third part it skips bytes and runs past the end of what was asked for.  *)
TransferPlaced ==
    /\ moved.parts <= 2 => moved.bytes = 1 .. moved.done
    /\ moved.parts > 2 => Max(moved.bytes) > moved.done

SocketsRight == NoSocketLost /\ TransferPlaced
=============================================================================
