----------------------------- MODULE TimeEvents -----------------------------
(***************************************************************************)
(* The timers of eventloop/ae.c: aeCreateTimeEvent, aeDelTimeEvent, the    *)
(* sleep of aeProcessEvents and RunNowReadyTimeEvent, on the heap of       *)
(* module Heap.                                                            *)
(*                                                                         *)
(* The clock counts microseconds; a time of the program is a pair tv_sec,  *)
(* tv_usec.  gettimeofday keeps tv_usec below a second, but the deadline   *)
(* of a timer is the sum of two such pairs and is not normalised.          *)
(*                                                                         *)
(* The server has one timer, whose callback leaves the timers alone; the   *)
(* interface allows more, and a callback that creates and deletes timers.  *)
(* A callback that deletes its own timer leaves RunNowReadyTimeEvent with  *)
(* freed memory: phase = "undefined", and the model stops.                 *)
(***************************************************************************)
EXTENDS Integers, Sequences, SequencesExt, FiniteSets, Heap

CONSTANTS
    MsPerSec,       \* 1000
    UsPerMs,        \* 1000
    Delays,         \* howlong, in milliseconds
    MaxNodes,       \* MAX_NODE_NUM, 10000
    MaxTimers,      \* bound of the model on timers created
    MaxNow          \* bound of the model on the clock when a sleep begins

ASSUME TimeAssumption ==
    /\ MsPerSec \in Nat \ {0}
    /\ UsPerMs \in Nat \ {0}
    /\ Delays \subseteq Nat
    /\ MaxNodes \in Nat /\ MaxTimers \in Nat /\ MaxNow \in Nat

Sec == MsPerSec * UsPerMs

VARIABLES
    now,            \* the clock
    timers,         \* every timer created: when, delay, interval
    heap,           \* timeEvents
    live,           \* history: the timers that were created and neither
                    \* deleted nor, being for once, run
    ordered,        \* history: no deletion has left the heap out of order
    tvl,            \* the time RunNowReadyTimeEvent goes by
    phase           \* "handlers", "poll", "run" or "undefined"

vars == <<now, timers, heap, live, ordered, tvl, phase>>

Pair(t) == [sec |-> t \div Sec, usec |-> t % Sec]

(* The pair in milliseconds, as timeCompare and compareTimeVal see it. *)
Ms(tv) == tv.sec * MsPerSec + tv.usec \div UsPerMs

(* What the pair means, in microseconds. *)
Us(tv) == tv.sec * Sec + tv.usec

(* The deadline of a timer of so many milliseconds that is set at a time. *)
Later(tv, ms) ==
    [sec  |-> tv.sec + ms \div MsPerSec,
     usec |-> tv.usec + (ms % MsPerSec) * UsPerMs]

Keys(ts) == [id \in DOMAIN ts |-> Ms(ts[id].when)]

Init ==
    /\ now = 0 /\ timers = <<>> /\ heap = <<>> /\ live = {} /\ ordered = TRUE
    /\ tvl = Pair(0) /\ phase = "handlers"

-------------------------------------------------------------------------------
(* The interface, as functions from a state of timers to the next.  A      *)
(* timer the heap has no room for is leaked; it keeps its number.          *)

Gone == [when |-> Pair(0), delay |-> 0, interval |-> FALSE]

State == [timers |-> timers, heap |-> heap, live |-> live, ordered |-> ordered]

(* Mutant of HasRoom: one too many. *)
HasRoomForOneMore(h) == Len(h) <= MaxNodes

(* addHeapVal takes one more. *)
HasRoom(h) == Len(h) < MaxNodes

Create(s, delay, interval) ==
    LET id    == Len(s.timers) + 1
        added == Append(s.timers, [when     |-> Later(Pair(now), delay),
                                   delay    |-> delay,
                                   interval |-> interval])
    IN  IF HasRoom(s.heap)
        THEN [s EXCEPT !.timers = added,
                       !.heap = AddHeapVal(@, Keys(added), id),
                       !.live = @ \cup {id}]
        ELSE [s EXCEPT !.timers = added]

Delete(s, id) ==
    LET left == DelMatch(s.heap, Keys(s.timers), id)
    IN  [s EXCEPT !.heap = left, !.live = @ \ {id},
                  !.ordered = @ /\ IsMinHeap(left, Keys(s.timers))]

(* A timer that was freed, or leaked, is forgotten. *)
Becomes(state) ==
    \E s \in {state} :
        /\ timers' = [id \in DOMAIN s.timers |->
                          IF id \in s.live THEN s.timers[id] ELSE Gone]
        /\ heap' = s.heap
        /\ live' = s.live
        /\ ordered' = s.ordered

Creations == {c \in [delay : Delays, interval : BOOLEAN] : c.interval => c.delay > 0}

(* What a handler or a callback may do. *)
Uses(s) ==
    {s}
    \cup {Create(s, c.delay, c.interval) :
              c \in IF Len(s.timers) < MaxTimers THEN Creations ELSE {}}
    \cup {Delete(s, id) : id \in ToSet(s.heap)}

-------------------------------------------------------------------------------
(* File handlers, or the program before aeMain, use the interface. *)
Handler ==
    /\ phase = "handlers"
    /\ \E s \in Uses(State) : s # State /\ Becomes(s)
    /\ UNCHANGED <<now, tvl, phase>>

HandlersEnd ==
    /\ phase = "handlers"
    /\ tvl' = Pair(now)
    /\ phase' = "run"
    /\ UNCHANGED <<now, timers, heap, live, ordered>>

Positive(n) == IF n > 0 THEN n ELSE 0

(* Mutant of Timeout: microseconds where epoll_wait takes milliseconds. *)
TimeoutMicroseconds(when) ==
    Positive(when.sec - Pair(now).sec) * Sec + Positive(when.usec - Pair(now).usec)

(* getTimeVal and the argument of epoll_wait: the seconds and the          *)
(* microseconds that are left, each cut at 0, in milliseconds.             *)
Timeout(when) ==
    LET sec  == Positive(when.sec - Pair(now).sec)
        usec == Positive(when.usec - Pair(now).usec)
    IN  sec * MsPerSec + usec \div UsPerMs

(* The sleep ends with its timeout, or early with a file event; without a  *)
(* timer there is no timeout.                                              *)
Poll ==
    /\ phase = "poll"
    /\ now <= MaxNow
    /\ now' \in IF heap = <<>> THEN {now, now + 1}
                ELSE now .. now + Timeout(timers[heap[1]].when) * UsPerMs
    /\ phase' = "handlers"
    /\ UNCHANGED <<timers, heap, live, ordered, tvl>>

(* Mutant of Again: the interval is not added. *)
AgainNow(ts, id) == [ts EXCEPT ![id].when = tvl]

(* The next deadline of an interval timer, from the time of the run. *)
Again(ts, id) == [ts EXCEPT ![id].when = Later(tvl, ts[id].delay)]

(* Mutant of Requeued: the timer is added without the head being removed. *)
RequeuedTwice(s, id) ==
    LET set == Again(s.timers, id)
    IN  [s EXCEPT !.timers = set, !.heap = AddHeapVal(@, Keys(set), id)]

(* popHead, the new deadline, addHeapVal *)
Requeued(s, id) ==
    LET set == Again(s.timers, id)
    IN  [s EXCEPT !.timers = set,
                  !.heap = AddHeapVal(DelHead(s.heap, Keys(s.timers)), Keys(set), id)]

(* There is a head, and it is due by tvl. *)
HeadDue == heap # <<>> /\ Ms(tvl) >= Ms(timers[heap[1]].when)

(* One turn of the loop of RunNowReadyTimeEvent: the callback of the head, *)
(* which may use the interface, and then the head, whichever timer that is *)
(* by now, is set again or deleted.                                        *)
RunHead ==
    /\ phase = "run"
    /\ HeadDue
    /\ LET id == heap[1]
       IN  \E s \in Uses(State) :
               IF id \notin ToSet(s.heap)
               THEN phase' = "undefined" /\ UNCHANGED <<timers, heap, live, ordered>>
               ELSE /\ phase' = phase
                    /\ IF timers[id].interval
                       THEN Becomes(Requeued(s, id))
                       ELSE Becomes([s EXCEPT !.heap = DelHead(@, Keys(s.timers)),
                                              !.live = @ \ {id}])
    /\ UNCHANGED <<now, tvl>>

RunEnd ==
    /\ phase = "run"
    /\ ~HeadDue
    /\ phase' = "poll"
    /\ tvl' = Pair(0)
    /\ UNCHANGED <<now, timers, heap, live, ordered>>

Next == Handler \/ HandlersEnd \/ Poll \/ RunHead \/ RunEnd

(* The handlers return and the loop goes on. *)
Spec == Init /\ [][Next]_vars /\ WF_vars(HandlersEnd \/ Poll \/ RunHead \/ RunEnd)

-------------------------------------------------------------------------------
(* Properties. *)

(* Types. *)
TypeOK ==
    /\ now \in Nat
    /\ Len(heap) <= MaxNodes
    /\ ToSet(heap) \subseteq DOMAIN timers /\ live \subseteq DOMAIN timers
    /\ phase \in {"handlers", "poll", "run", "undefined"}

(* A timer that was created, and neither deleted nor run for good, is in   *)
(* the heap, once, and no other is: none is lost when a callback changes   *)
(* the heap between getHead and popHead or delHead, or it is freed twice.  *)
(* After a deletion that breaks the order (see MinHeap) a later one can    *)
(* bring another timer to the root under the callback: that one is popped, *)
(* and the one that ran is in the heap twice or freed there.               *)
NoTimerLost ==
    ordered /\ phase # "undefined" => ToSet(heap) = live /\ Len(heap) = Cardinality(live)

(* The timer that RunNowReadyTimeEvent runs next, and that the sleep is    *)
(* for, is one that is due first, to the millisecond, as long as no        *)
(* deletion has broken the order.                                          *)
DueOrder ==
    ordered /\ heap # <<>> => \A id \in live : Ms(timers[heap[1]].when) <= Ms(timers[id].when)

(* The comment at Hheap.c:48 and the name of the heap in ae.h:11 promise a *)
(* min heap: no timer is above one that is due before it.                  *)
MinHeap == IsMinHeap(heap, Keys(timers))

(* The loop sleeps past a deadline, because seconds and microseconds are   *)
(* subtracted apart, but never by two seconds.                             *)
SleepBounded ==
    [][now' > now /\ heap # <<>> =>
           LET due == Us(timers[heap[1]].when)
           IN  now' < (IF due > now THEN due ELSE now) + 2 * Sec]_vars

(* The run of the timers ends: an interval timer waits for the next run.   *)
RunEnds == phase = "run" ~> phase # "run"
=============================================================================
