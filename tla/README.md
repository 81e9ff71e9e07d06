# h_Redis: specification, model checking and proofs

h_Redis is a small Redis: one process, one thread, an event loop over epoll,
a hash dictionary with incremental rehash, and the commands SET, GET, DEL and
EXISTS with an optional lifetime of a key. This directory holds TLA+ modules
that model it, TLC configurations that check them on small instances, and
proofs that the TLA+ proof system checks for every value of the constants.

File and line numbers are those of the source tree (`src/`).

## 1. Inventory

| component | state | operations | who calls it |
|---|---|---|---|
| dictionary, `base_struct/hdict.c` | two chained tables `ht[0..1]` with `size` and `used`, `rehashidx` | `dictAdd`, `dictFind`, `dictReplace`, `dictDelete`, `dictResize`, `dictRehash`, `dictRandomEntry` | keyspace (two instances), command table |
| keyspace, `server/db.c` | `dicts` (key object -> value object), `expires` (key object -> deadline) | `lookupkey`, `dbAdd`, `dbOverwrite`, `dbDelete`, `setExpire`, `expireIfNeeded`, `removeExpire` | commands, cron |
| commands and objects, `server/Server.c` | `refcount` of each object, the server struct | `setCommand`, `getCommand`, `delCommand`, `existsCommand`, `serverCron`, `FreeSdsObj` | query parser, event loop |
| query parser, `server/networking.c:252-483` | `queryBuf`, `queryType`, `multibulklen`, `bulklen`, `argv` of each client | `readQueryFromClient`, `processInlineBuffer`, `processMultibulkBuffer`, `resetClient` | event loop (readable) |
| replies, `server/networking.c:73-250` | 16K `buf`, `bufpos`, `sendlen`, list `reply` of each client | `addReply*`, `prepareClientToWrite`, `sendReplyToClient` | commands; event loop (writable) |
| file events, `eventloop/ae.c`, `ae_epoll.c` | `events[fd]` mask and handlers, `fired`, the epoll set | `aeCreateFileEvent`, `aeDeleteFileEvent`, `aeApiPoll`, `aeProcessEvents` | networking |
| time events, `eventloop/ae.c` | a heap of timers | `aeCreateTimeEvent`, `aeDelTimeEvent`, `RunNowReadyTimeEvent`, `getTimeVal` | `initServer` |
| heap, `base_struct/Hheap.c` | array of 10000 pointers, `size` | `addHeapVal`, `popHead`, `delHead`, `delMatch` | time events |
| list, `base_struct/hlist.c` | doubly linked nodes, head, tail, length | add, insert, remove, free at either end | clients, reply lists |
| skip list, `base_struct/hskiplist.c` | levels of sorted nodes | add, find, delete | nobody |
| sockets, `base_net/hnet.c` | the descriptors of the process | connect, listen, accept, `netRead`, `netWrite` | networking |
| strings, `base_struct/sds.c` | header (type, `len`, `alloc`) and buffer of each string | make, append, format, cut, trim, resize; quote, split, join | everybody |
| utilities, `redis_src/util.c` | none | numbers as text: `string2ll`, `ll2string` | commands, parser, replies |

What interacts: the event loop calls `readQueryFromClient`, which parses and
runs commands until its buffer is empty; a command reads and writes the two
dictionaries of the keyspace and appends to the client's reply; the loop later
calls `sendReplyToClient`. Once a second it calls `serverCron`, which expires a
sample of keys and moves some buckets of a rehash. There are no threads: what
interleaves is calls of the dictionary with the steps of a rehash, commands of
several clients with each other, with time and with the cron, and the reading
and writing of partial data.

What makes each component correct, and what is hard about it:

- dictionary: a key is in one place and is found there at every point of a
  rehash; `used` covers the entries, because a rehash ends when it is 0; a rehash
  that begins ends. Hard: every call can fall between two rehash steps.
- keyspace: value and deadline go together; no command sees a key past its
  deadline; objects shared by `argv`, two dictionaries and reply lists are
  freed once, when nobody refers to them.
- query parser: the commands executed do not depend on how the bytes arrive.
- replies: what is sent is what was appended, in that order, to the client that
  is meant; a client that is freed is not used again.
- events: a handler runs for the descriptor and the client it was registered for;
  timers run in order, not early, and not much too late.
- heap, list, skip list: order, links and counts survive every operation.

The hazards, each at its line, are listed in `PROJECT.json`, with the property that covers
each, or the reason why none does.

## 2. Modules

| module | models |
|---|---|
| `LossyMap` | abstract: the map a dictionary promises |
| `Dict` | `hdict.c`: tables, API calls, the rehash step by step |
| `DictProofs` | theorems about the struct and the counters of `Dict`, for any use of the API, about its keys (none twice, all found, none lost), and that it implements `LossyMap` |
| `Store` | abstract: values and deadlines as a client sees them |
| `Keyspace` | `Server.c` commands, `db.c`, object reference counts |
| `KeyspaceProofs` | theorems about its objects and deadlines, and that it implements `Store` |
| `Client` | `networking.c` for one connection: reading, both protocols, `processCommand`, the replies, writing |
| `ClientProofs` | theorems about its types and the order of its replies |
| `ExecutionProofs` | theorems about what it executes: requests as they were sent, nothing left in the buffer |
| `EventLoop` | `ae.c`, `ae_epoll.c` and the handlers of `networking.c`: registration, dispatch, accept and free of several clients |
| `EventLoopProofs` | theorems about registration, clients and dispatch |
| `Heap`, `TimeEvents` | `Hheap.c`; the timers of `ae.c` on it |
| `TimeEventsProofs` | theorems about what an operation does to any heap, and about the timers |
| `HList`, `SkipList` | `hlist.c`, `hskiplist.c`, pointer by pointer |
| `Sds` | `sds.c`, `sds.h`: headers, allocation and the operations that change them |
| `Text`, `Numbers`, `Conversions` | pure functions: quoting, splitting and joining of `sds.c`; `util.c` and `addReplyLenHead`; their inputs and what they promise |
| `Sockets` | `hnet.c`, one system call a step, each failing or not |
| `Library` | the lists, strings, pure functions and sockets side by side |
| `LibraryProofs` | theorems about its list, its strings, its skip list and its sockets |
| `Recursion` | lemmas on least and greatest numbers and on tail-recursive functions, which the proof modules share |
| `MC*` | constant values for TLC |

How they fit together: `Keyspace` rests on `LossyMap`, which `Dict` implements;
`Client` uses `Text` and `Numbers` and takes for what a command finds any value, which is the
subject of `Keyspace`; `EventLoop` has of each client only its request and whether a reply is
due, which `Client` describes byte by byte, and of the timers only that they have their turn,
which `TimeEvents` describes.

### Dict

`dict` is the C struct. `dict.table[t]` is a function from bucket numbers to
chains, a chain is a sequence of entries with its head first, `dict.size[t]`,
`dict.used[t]` and `dict.rehashidx` are the C fields. `pc` and `budget` are the
place in `dictRehash` and its argument `n`; `ret` is the last call on the map and
what it returned; it is what the refinement of `LossyMap` sees of a call.

One call of the API is one step, because one thread makes the calls and nothing
observes the dictionary meanwhile. `dictRehash` is the exception: its loop can
leave the table (`hdict.c:307-310` compares `rehashidx` with nothing), so it is
modelled per bucket visited and per entry moved: `RehashStart`, `RehashLoop`,
`RehashSkip`, `RehashFound`, `RehashMove`, `RehashNextBucket`, `RehashReturn`,
`RehashFinish`. `RehashOutOfBounds` is the read past the end; C gives it no
meaning, and the model stops with `pc = "undefined"`.

`Next` is the server's use of the dictionary: `dictAdd` only after a lookup failed
(`AddAbsent`, Server.c:31-33), and no `dictResize`. `ApiNext` is any use of the
API, as `structTest/HdictTest.c` drives it. The hash function is a constant: nothing but
its being a function of the key matters. `GetNextSuitableSzie` is the least member of a constant set of sizes,
without the overflow of `int` beyond 2^30 buckets.

### LossyMap

A map from keys to values, except that a delete of `k` may take away keys that collide
with `k`. That is what `dictDelete` does (see the findings). It is stated so
weakly because everything stronger is false; `Keyspace` is built on exactly this promise.

### Keyspace

`db` holds the two dictionaries as functions from key strings to entries (or
`NoEntry`) and `rc`, the reference count of each object. Entries name objects by
number, as the C entries hold pointers; `content[o]` is the string of object `o`. An
object with count 0 is free memory and is what the next allocation returns, so
that a dangling reference would show up as a wrong string. `listed[o]` counts how
often `o` is on a reply list. `now` is the clock in milliseconds, `promised[k]` the
last deadline a client was given, a history variable for `LifetimeHonoured`.

A command is one action, with all of its effects: the lazy expiry of the key, the dictionary
operations, the reference counts, the release of the arguments by
`resetClient`. Because a delete may have several outcomes, the functions of `db.c` are
operators from a database to the set of its outcomes.

Two kinds of undefined behaviour are outcomes of the model. `CreateRedisDb` lacks its
`return`; depending on the compiler the server has its database (`server =
"up"`) or another pointer (`"wild"`), and then it ends at the first use of it (`Crash`).
And when an object is released once too often, or freed while an entry refers to it,
`Fate` says `"undefined"` and the model stops.

`Cron` is `serverCron`. It makes an object whose string is `sdsdup` of the key OBJECT, not
of the key's string (Server.c:282). The byte before the object is the top
byte of the size field of its heap block, which is 0; `sdsdup` takes it for the header of an empty string. So
the key the cron looks up is the empty one, whatever entry was drawn.

### Store

Per key a value and a deadline, the clock, the last command with its reply. GET and SET act on a deadline
that has passed before they look; DEL and EXISTS do not look at deadlines; the
server may act on a deadline at any time.

### Client

`wire` is what the peer has sent and the server has not read, `inflight` what the server has
written and the peer has not received; `q` holds the fields of `redisClient` the parser uses, `pos`
the variable of that name in `processMultibulkBuffer`, `out` the reply buffer, the reply list, `sendlen` and whether the
write event is registered. A token of the stream is one byte of the C code; only words without meaning for the
parser (a command name, a message) are one token.

`Read` takes any part of what has arrived, so that every request is cut at every byte. The parser is one action per place
where it can stop: `MultibulkLength`, `BulkLength`, `BulkArgument`, `Inline`, each with its waiting, its protocol error and its
success as disjuncts. `GoodCount` and `GoodLength` are the limits of the protocol, with the code's constants as CONSTANTS (`MaxCount`, `MaxBulk`)
and numbers of `LongBits` bits. Before an argument of `BigArg` bytes or more the buffer is cut and `pos` begins at 0 again, inside of the loop; when the buffer is then just that argument
(`JustOne`), an empty one takes its place, and otherwise the argument is cut out of it (`NextArgument`). What `sdsMakeRoomFor` reserves on that path is capacity and not content, and the old buffer, which is
not freed there (networking.c:425), is nobody's afterwards; neither is in the model. `Execute` is `processCommand` with the replies of each command. The two inputs of a
decision are computed by the operators `String2ll` and `SplitArgs` of `Numbers` and `Text`, which are
checked on their own. `Write`, `WriteBlocked`, `WriteFails` and `SendEnd` are
`sendReplyToClient`.

`Reset` empties the query buffer with the rest, as `resetClient` does. What the peer sends before it has its
answer is lost then; the properties speak of a peer that waits (`~eager`), and the run
`client_pipelined` of one that does not. Requests the parser gets wrong for other reasons are set aside by `Plain`, which
says which: an empty argument behind a cut, unbalanced quotes, a request longer than
`REDIS_INLINE_MAX_SIZE`. The replies that change places because one did not fit the buffer are set aside by `jumped`.

`RequestsAnswered` holds of a peer that reads again and again, which is its hypothesis (`[]<>(inflight = <<>>)`) and not a part of `Spec`: the server may well
wait for ever for a peer that does not. `PipelineKept`, the claim that is false, needs no cut: two complete requests are read, one is executed, and the server rests.

A read of 0 bytes does not change `errno`: `errno` is a variable of the model, set by
`WriteBlocked`, and `AtEnd` decides by it. Use of the reply list after its only node was freed, and of `CRobj` after the
list has released it, is undefined: `pc = "undefined"`.

### EventLoop

`ae.events` and `ae.interest` are the table of the loop and the set epoll keeps; `AddOp` and `DelOp` say which call of `epoll_ctl`
the code makes. `DelOp` is the expression `mask ^ delmask != 0` as C reads it, `mask ^ (delmask != 0)`: the descriptor is deleted exactly
when it is registered for reading alone. That this works out is `RegistrationAgrees`: the code deletes a direction only in states
where the wrong expression gives the right call, or is followed by a `close`.

`Poll` fills `fired` with what is ready, in any order; each entry goes through `phase = "read"` and `"write"`. The
connection an entry was polled for is kept with it, to say what `FiredCurrent` means: a descriptor can be closed by its own read
handler and be given out again by `accept` in the same round, since `fired` holds descriptors and not clients. The peers connect, ask, hang
up and read between any two steps, or never read: `WriteBlocked` is the loop of `sendReplyToClient` that tries again at once, and `Stalled` the state in which it
does. A peer that stops reading for good while it is written to keeps the server there; `Served` and `TimersReached` say what is true when none does.

### Heap, TimeEvents

`Heap` has the array as a sequence of timer numbers and a function `key`, the deadline in milliseconds as `timeCompare` computes it.
`AdjustUp` and `AdjustDown` are recursive functions of a pair, the heap and a place in it. `Cut` is what `popHead`, `delHead` and `delMatch` share: the last element goes into the hole, and
the ROOT is sifted down.

`TimeEvents` keeps times as the pairs the code keeps, with a `tv_usec` that can pass a second (`Later`), and milliseconds and seconds of a few
units (`MsPerSec`, `UsPerMs`). `Handler` is a use of the interface by a file handler, `RunHead` one turn of `RunNowReadyTimeEvent` with a callback that
may create a timer or delete one. The server's only callback does neither; the interface allows it, and
a callback that deletes its own timer makes the loop use freed memory (`"undefined"`). `ordered` is a history variable: no deletion has left
the heap out of order. Once one has (the finding of `MCHeapPriority`), a second deletion by the callback of the root can bring another timer to the
root, and `RunNowReadyTimeEvent` then removes that one: a timer is lost, the one that ran stays, and `NoTimerLost` and `DueOrder` end there.

### HList, SkipList, Sds, Sockets

`HList` and `SkipList` have nodes with their pointers, and a history variable for what the list should be. The freed pointer that
`listFreeFrist` leaves at the other end stays in the model, and following it ends the model (`defined`). In `SkipList` values of equal power can be
lost by a delete, and the property says that nothing else is.

`Sds` has header types with few bits (`Bits`), so that every change of type happens within five bytes; `room` is what was allocated,
`meant` what the string should be. `Sockets` runs one call at a time, each of its system calls with every outcome; netRead's
buffer position (`Advanced`) is the code's, which advances by the running total.

## 3. What the runs check

| run | what it shows |
|---|---|
| `MCDict` | the server's use of a dictionary: the tables stay well formed, each key is in one place and is found there at every point of a rehash, growth is never refused, keys disappear and counters go wrong only by a delete at the head of a chain, a rehash that begins ends or (only after such a delete) leaves its table, and the whole refines `LossyMap` |
| `MCKeyspace` | each delete may lose every other key: counts never fall below the references, key objects keep their strings, and the keyspace refines `Store` |
| `MCKeyspaceBig` | no two keys share a bucket, some values are longer than the reply buffer: up to the step at which behaviour becomes undefined no deadline outlives its key, lifetimes are honoured, and the empty key is deleted after its deadline without a client |
| `MCClient` | a peer that waits for its answers has each request executed once, as sent, however it is cut, and, if it reads again and again, gets each reply whole and in order; nothing stays behind in the query buffer, on the path of big arguments too; a connection that is closed is freed unless `errno` is stale |
| `MCEventLoop` | registration in the table, in epoll and of the clients agree between any two handlers; descriptors are reused without an event reaching the wrong client; each request is answered and the timers have their turn, as long as no peer stops reading for good while it is written to |
| `MCTimeEvents` | no timer is lost or freed twice while callbacks change the heap; until a deletion breaks the order of the heap the head is due first; the loop sleeps less than two seconds past a deadline; a run of the timers ends |
| `MCLibrary` | lists and strings are what their operations mean, pointer for pointer and byte for byte; quoting and splitting are inverted; numbers are read back, wide ones refused; no socket leaks when a call fails |

For each property of these runs the module of the code holds a mutant (`Mutant of ...`), a
plausible slip in one operation, that violates it; `PROJECT.json` lists them.

Findings, each a run that TLC ends with a counterexample:

| run | what the code does | what the source says |
|---|---|---|
| `MCDictDelete` | `dictDelete` of the head of a chain empties the bucket (hdict.c:260) | hdict.h:8, chaining resolves collisions |
| `MCKeyspaceShared` | a long value goes uncounted to the reply list, and is released when sent (networking.c:140) | Server.h:13 |
| `MCKeyspaceCronLost` | the cron never deletes a key that is not empty (Server.c:282) | Server.c:274, the cron deletes expired keys |
| `MCClientPipelined` | of two complete requests in one read the second is dropped: the server waits for more and has not executed it (networking.c:70) | networking.c:291, the data after the first line stays in the buffer |
| `MCHeapPriority` | after a deletion from the middle a timer is above one that is due before it (Hheap.c:122) | Hheap.c:48, a min heap |

Seen while modelling, and part of the model, but without a run of their own: `dictAdd` during a rehash adds a
key that is in `ht[0]` (hdict.c:164; the server looks a key up first); a second SET with a lifetime counts a reference that nobody
holds (Server.c:50, the key object leaks); a deadline lost with its chain leaves a key that is served
for ever (db.c:8); an unbalanced quote, a zero length behind a cut, and a large valid request stop or break a
connection (networking.c:280, 360, 363); `netRead` and `netWrite` skip bytes from the third part on (hnet.c:287, stated by
`TransferPlaced`); a length of eight digits overruns its buffer (networking.c:171, stated by `HeadsBounded`).

A consequence of the first one: after a lost chain `used` never gets to 0, and the next
rehash of that table searches past its end (hdict.c:307). `MCDict` shows that this
is the only way a rehash fails to end (`RehashEnds`, `OutOfBoundsOnlyAfterLoss`, `UsedExactKept`).

### Bounds

All bounds are constants of the configurations.

`MCDict` has tables of 2, 4, 8 and 16 buckets in place of 4, 8, 16, ... and grows when a table
is full rather than three times full (`InitialSize`, `UsedUp`). Three keys then suffice for
chains of every shape up to length 3, for two growths, and for calls at every point of a
rehash. The hash values are chosen so that two keys collide in every table but one and
a third joins them in the smallest only. `MaxUsed` bounds `used[0] + used[1]`, which a delete may leave too
large; at 6, twice the keys, behaviours with three lost entries are included, and the table grows to 8.
`RehashSteps` is {1, 2} in place of 100, so that a call of `dictRehash` returns before its end, at its end, and
with steps to spare.

`MCKeyspace` has the empty key and one other, two values, lifetimes 0 (which is also what an
argument that is no number gives) and 1, and a clock from 1 to 2 (3 in `MCKeyspaceBig`): a
deadline is set, reached, passed, and replaced by an earlier or a later one. `Pool` is the number of objects. Two
keys with values hold four, and a SET in progress needs two that are free; with five
a key is overwritten, and objects are leaked, while the other key is there. With four (`MCKeyspaceBig`)
a freed object is soon allocated again, which is the case of interest. `MaxListed`
bounds the values on reply lists. Deadlock checking is off because the bounds on the clock and on
`used`, and undefined behaviour, end the model.

`MCClient` has a request of each kind: inline (`quit`, which may also be sent before the reply to the request before it,
and `exists k`), an inline line with an unbalanced quote, multibulk `get kk`, `vv get`, `set k v` and a `del` with an empty argument, a request of no
arguments, and protocol errors in the count and in the length. A count of 3 and a length of 2 are the largest allowed (`MaxCount`, `MaxBulk`), and 4 and 3 are sent as well and refused; an argument of 2 bytes is big
(`BigArg`): it comes last, alone in the buffer or not, and first, with or without bytes of the next behind it. `LongBits` is 16, wide enough that no number of the run is affected; the theorems hold for the code's own values of all of
these. `InlineMax` is the length of `get kk` (a word is one
byte here), so that `set k v` is a request that is refused when it is cut behind that. The reply buffer holds a short reply and not a long one, so that replies go to
the list; the socket holds less than a reply, so that writes are partial and block. `MaxRequests` and `MaxReplies` let a second request meet whatever the first left.

`MCEventLoop` has three connections and two descriptors: one connection waits in the backlog for a descriptor that another gives up.

`MCTimeEvents` has a second of two milliseconds and four microseconds, delays shorter than a second and longer, four timers in all, a heap of three, and sleeps that
begin up to time 4. A heap of three keeps its order whatever is deleted, so that `ordered` does not hide what the run is about. `MCHeapPriority` needs five timers: a
deletion must move the last element to another subtree.

`MCLibrary` has lists of four nodes, skip lists of three nodes and levels, strings of five bytes with headers of 1, 2, 3, 4 and 6 bits, texts of four bytes, a
long long of 8 bits, two descriptors, two addresses and transfers of four bytes. Every boundary of a header, every overflow and every
failure of a call falls within these.

### Fairness

`Client`: the loop goes on while it can read or write (`WF(Server)`). `EventLoop`: `aeMain` never stops (`WF(Loop)`). Nothing is assumed of the peers: not that they send, not that they close, not
that they read. What depends on their reading says so in the property: one peer that does not read stops the server (networking.c:76-82), so `Served` and `TimersReached` are about behaviours in which the loop is not `Stalled` for good,
and `RequestsAnswered` about those in which the peer takes what was written again and again. Both hypotheses are met by any peer that reads what it is sent. `TimeEvents`: handlers return and the loop goes on; whether they create timers is left open.

`dictRehash` is a loop without blocking calls, so its steps are weakly fair
(`RehashStep`); the cron calls it every second (`RehashStart`). `Cron` and `Tick`
of `Keyspace` are weakly fair: the cron is an interval timer (Server.c:319) and the clock does not stop. The
random choice of the cron hits some entry in one of a thousand rounds with probability
near 1; fairness of `Cron` takes this for certain. That the event loop keeps coming
back to its timers is assumed here; `TimersReached` of `EventLoop` shows it.

## 4. What is proved

`DictProofs` proves for `ApiSpec`, so for every use of the API, every set of
keys, hash function, set of sizes and bound:

| theorem | states |
|---|---|
| `TypeCorrect` | `TypeOK` |
| `ShapeCorrect` | `RehashShape`: the second table exists exactly during a rehash and is larger; no index is taken modulo 0 |
| `PlacedCorrect` | `Placed`: every entry is in the bucket of its key in its table |
| `MigratedEmptyCorrect` | `MigratedEmpty`: what a rehash has passed stays empty |
| `CountersCoverEntries` | `UsedCoversEntries`: `used` is never too small |
| `GrowthCorrect` | `GrowthNeverRefused` |
| `ExactUntilLoss` | `UsedExactKept`: `used` is exact until a delete empties a chain of several |
| `OutOfBoundsCorrect` | `OutOfBoundsOnlyAfterLoss`: `dictRehash` leaves the table only when all has been moved |

`ServerUsesApi` carries them over to `Spec`. About the map it holds:

| theorem | of | states |
|---|---|---|
| `NoDuplicateCorrect` | `Spec` | `NoDuplicateKeys` |
| `EntriesFound` | `Spec` | `EveryEntryFound`: `dictFind` returns what is stored, half way through a rehash as well |
| `KeptCorrect` | `ApiSpec` | `KeptUntilDeleted`: only a delete loses a key, its own or one of the chain it heads |
| `DictImplementsLossyMap` | `Spec` | `ImplementsLossyMap` |

The first two need `Spec`: used directly, the API stores a key twice (section 3, hdict.c:164). The only assumption is
`DictAssumption` (sizes are positive numbers, the hash is a number, the null value is no
value).

The argument: `Invariant` is the conjunction of the type, the shape of the struct, the
placement of the entries, the emptiness of the buckets passed, the counters, and what
each `pc` adds. None of the parts is inductive by itself: that a moved entry lands in the table needs the
shape, that the table may be freed when `used[0] = 0` needs the counters, that the counters cover needs to know that a
chain whose head is deleted loses at least the one entry that is subtracted. Lemmas
show for each operator of `Dict` on the struct (`Expanded`, `Inserted`, `Overwritten`,
`Deleted`, `Moved`, `Switched`) that it keeps the struct `Sound`; the number of entries
is the cardinality of a set of places, and the lemmas `PlacesAdd`, `PlacesDrop`,
`PlacesSame` say how it changes. `GrowthCorrect` needs in addition that a dictionary without a table has no entry counted
(`NoTableNoUseInvariant`), `OutOfBoundsCorrect` what the search for a bucket knows of `used`
(`SearchUsedInvariant`).

`UniqueKeys` compares any two entries, and is not inductive by itself either: that the key
`dictAdd` puts in `ht[1]` is not in `ht[0]` is known only because `dictFind` failed, and
`dictFind` looks only where the placement says. `Distinct` splits it into what one operation on one
chain restores: the keys of a chain differ, and no key is in both tables. For each operator there
is a lemma on the keys of each table afterwards (`InsertedKeys`, `DeletedKeys`, `MovedKeys`,
...), from which `Distinct` and `KeptUntilDeleted` follow. For the refinement, a second row of lemmas
(`InsertedEntries`, ...) says that an operation brings in no entry but the one it writes. An
entry of a key that is held once is what `dictFind` returns (`ValueOfEntry`), so a step that brings in none
and loses no key is a stutter of the map (`NoValueSet`), and one that brings in one sets one value
(`OneValueSet`). That an add of an absent key cannot be refused is `GrowthNeverRefused`; that
a delete takes only keys of its own bucket is the last part of `DeletedKeys`.

`ExactUntilLoss` is about the other direction: the lemmas on places have an exact version (`PlacesTake` beside `PlacesDrop`), and the counters are the number of
entries after each operator but a delete that empties a chain of several.

### Keyspace

| theorem | of | states |
|---|---|---|
| `TypeCorrect` | `Spec /\ []NoneListed` | `TypeOK`, and the server does not reach undefined behaviour |
| `ReferencesCorrect` | `Spec /\ []NoneListed` | `ReferencesCounted` |
| `KeysCorrect` | `Spec /\ []NoneListed` | `KeysIntact` |
| `KeyspaceImplementsStore` | `Spec /\ []NoneListed` | `ImplementsStore` |
| `SmallValuesCorrect`, `SmallValuesImplementStore` | `Spec`, `BigVal = {}` | all of these |
| `DeadlinesWithValues` | `Spec`, `NothingLost` | `ExpiresWithinDicts` |
| `LifetimesHonoured` | `Spec`, `NothingLost` | `LifetimeHonoured` |

`NoneListed` says that no value is on a reply list. Without it the first four are false, as `MCKeyspaceShared` shows: a value too long for the reply buffer is
put on the list uncounted. The hypothesis is about the behaviour and not about the constants, so the theorems say something of a server with
long values too, as long as none was asked for; when no value is long it always holds (`NothingToList`). Whatever `dictDelete` loses is
allowed. The last two are the other way round: they hold with long values, up to the step at which behaviour becomes undefined, and need that no two keys share a
chain (`NothingLost`), since a value that is lost with its neighbour leaves its deadline behind, and a lost deadline leaves its value for ever.

`Counted(db, held)` is the part that is inductive: each object has at least as many counts as it has
references from entries, from the list and, while a command runs, from `argv` (`held`). An action is a chain of operators of `db.c`, so there is a lemma per
operator (`ExpireRemovedCounted`, `ValueDeletedCounted`, `ValueStoredCounted`, `LifetimeSetCounted`), and SET, which has the longest
chain, is taken apart by `SetInSteps`. `Intact` relates the key objects of entries to their strings; an object that is given out again is not referred to,
because its count is 0 (`UnusedUnreferenced`). For `Store`, `Vals` and `Dues` are what a database shows of values and deadlines, and a lemma says of each operator how it
changes them; `Dated` adds that no deadline is 0, which `expireIfNeeded` takes for none.

### EventLoop

`TypeCorrect`, `RegistrationCorrect` (`RegistrationAgrees`), `ClientsCorrect` (`ClientsOwnFds`) and `FiredCorrect` (`FiredCurrent`) hold of `Spec` for any number of connections and
descriptors; the assumption is `EventLoopAssumption`. The invariant adds three parts that the properties do not say: the listening descriptor is always registered for reading
(`Listening`); sockets and clients belong together (`Sockets`), so that a descriptor `accept` gives out has no client; and `Dispatching`, what `fired` may hold: its entries have
different descriptors, and each but that of the listening socket still has the connection it was polled for, unless the read handler of the entry being dispatched has just closed it. `DeleteWriting` and `DeleteBoth` are the two uses of `DelOp` in the server; that the code's expression is right in these and only in these is why registration agrees.

### Heap and TimeEvents

| theorem | states |
|---|---|
| `AddCorrect` | `AddHeapVal` puts one element into any heap, keeps its order, and leaves a root that is no larger than it where it is |
| `CutCorrect` | `Cut` takes one element out; it keeps the order when that is the root, and leaves the root in place when it is another |
| `NoTimerIsLost`, `HeadIsDueFirst` | `NoTimerLost`, `DueOrder` |
| `SleepIsBounded` | `SleepBounded`, for any delays |
| `TypeCorrect` | `TypeOK` |

`AdjustUp` and `AdjustDown` are recursive functions over infinitely many heaps, and the prover cannot do induction over them. Both are tail-recursive, and for such a
function more can be had: the orbit of a point is the least set that contains it and, with a point, the next one. It has one stop or none (`OrbitStops`), so the
function that maps a point to what its orbit stops with satisfies the recursion, whether it ends or not (`TailRecursion`). When a measure descends, what is
true of the stop and kept by a step is true of the result: `TailInvariant`, by a least counterexample, since the natural numbers are well founded. These three lemmas are in
`Recursion`, and the strings and the skip list rest on them too. `AdjustUpCorrect` and `AdjustDownCorrect` are
uses of it: the heap is rearranged, and the order holds but at one element, where it is restored at the stop.

The invariant of `TimeEvents` is `Good` of its state: `Typed` always, and `Sound` (the heap is in order, with each live timer once) as long as `ordered` holds. `RunHead` removes the timer that ran
only if that is still the head after its callback, which is why `AddCorrect` and `CutCorrect` say when a root stays in place. The sleep
is arithmetic on pairs of seconds and microseconds (`DivMod`, `DivBelow`, `MsIsNat`); the assumption is `TimeAssumption`.

### Client

| theorem | in | states |
|---|---|---|
| `TypeCorrect` | `ClientProofs` | `TypeOK` |
| `RepliesSentInOrder` | `ClientProofs` | `RepliesInOrder` |
| `ExecutingAlways` | `ExecutionProofs` | the inductive invariant `Executing` of the next two |
| `RequestsExecuted` | `ExecutionProofs` | `ExecutedAsSent` |
| `NothingLeft` | `ExecutionProofs` | `NothingLeftBehind` |

All hold of `Spec` for any requests, values, sizes and cuts of the stream. For the replies: `FoldSeq` and `FlattenSeq` of the community modules
recurse over sets of positions and over lengths; `FoldExists` and `FlattenExists` show that they are defined, by a least counterexample again, and `FlattenAppend`, `FlattenTail` what
an append to the reply list and the release of its head do to its text. `Queued(out)` is the text that waits, and `AddedQueued` and `ReplyQueued` say that a
reply is put behind it, unless it overtakes (`jumped`). The invariant has besides: inside the loop over the arguments there is an argument missing (`Counting`), the buffer is within its size and no
node of the list is empty (`GoodOut`), and `sendlen` points into what is being sent, and is 0 but between two writes (`Sending`).

`ExecutedAsSent` speaks of whole requests and the parser sees bytes, so `Executing` says at every moment which bytes have been taken for what. Between two requests (`Idle`) everything that was asked
is executed and answered, and buffer and wire are empty. Inside of a request (`Busy`) all but the last one are (`Answering`); the buffer and the wire hold the last one from some place on
(`Buffered`); of it nothing is parsed (`Fresh`), or the count and the first `j` arguments, possibly with the length of the next (`Parsed`, `Shape`, `Reached`), or all of it (`pc = "execute"`). After
an error or a close (`Over`) nothing has been executed that was not sent. `NothingLeftBehind` needs one thing more, that the server leaves its loop inside of a request only while there is something on the wire (`Hungry`).

What makes it hold for every cut is that the parser's decisions do not depend on how much of the rest has come: a line end seen in the part of a request that has arrived is the first one in
the request (`IndexOfPart`, `LineSeen`), and a part of a part is a part of the request (`PartOfPart`). `BulksAppend` adds one argument to those read. Each place where the parser can stop has its lemma
(`CountedBusy`, `ResumedBusy`, `BulkLengthExecuting`, `ArgumentCut`, `ArgumentTaken`, `InlineExecuting`). The cut before a big argument moves the place where the buffer begins and the position by the same
number of bytes, and the empty buffer begins where the argument ended, so that both are again `Buffered` and `Reached`.

The assumption `RequestAssumption` says what a request is: a line that does not begin with `*` and splits into the words meant, or a count and as many arguments, each with its length and its line end, or a
part of that up to the first thing that is no argument. A count above `MaxCount` or a length above `MaxBulk` is no count and no length, so a request with one is malformed, as in the code. It uses `String2ll` and `SplitArgs` for the number on a line and the words of a line; they are recursive functions, checked by
`MCLibrary` against what they promise. TLC evaluates the assumption for the requests of `MCClient`. The theorems say nothing of a peer that does not wait (`eager`, for which `MCClientPipelined` is the counterexample) and of requests that
are not `Plain`.

### List, sockets, strings and skip list

| theorem of `LibraryProofs` | states |
|---|---|
| `ListCorrect` | `ListIntact`, for lists of any length |
| `SocketsCorrect` | `SocketsRight`, for any set of numbers as descriptors and any size of a transfer |
| `StringsCorrect` | `SdsIntact`, for any types of header and any texts that the largest of them holds |
| `SkipListCorrect` | `SkipListIntact`, for any number of nodes and levels |

The assumption is `LibraryAssumption`.

Every operation of the list is one of two things done at a place of its `order`: `Put`, which brings in a node and makes its
neighbours point to it, and `Take`. `PutIsList` and `TakeIsList` say that a list remains a list, `PutSteps` and `TakeSteps` that what the code does, one pointer after the other and with a test
for NULL at either end, comes to that. `listSerchNode` follows pointers and not places, so that it finds the first node with a value is another use of `TailInvariant` (`SearchFinds`). The
invariant says of an empty list only that one end is NULL, since `listFreeFrist` and `listFreeLast` do no more; that is why an operation can follow a freed pointer, and `Ends` why it can do so in no other state. For the sockets
the invariant adds what each step of a call knows (`StepsSound`) and how far behind a transfer's position the next part is put (`PartsPlaced`).

Of a string the invariant `Holds` says that its text is the one meant, that its length has not wrapped in the width of its header, that `alloc` is below the
capacity of that header, and that the allocated block has room for `alloc`. There is a lemma per operation of `sds.c`. Most are a chain of `RoomMade` (`sdsMakeRoomFor`,
which may change the type of the header), `TextSet` and `LengthSet`; that no length wraps is where the type chosen by `sdsReqType` counts (`ReqTypeLarge`). `sdscatvprintf` doubles its buffer until
the text fits, a tail recursion (`BufferGrows`), and `sdscatfmt` is a fold over its items (`TwoItems`). The assumption asks for two or more widths, the
second no smaller than the first, and that the largest header counts to twice the longest text and a read: `sdsMakeRoomFor` (sds.c:197) does not check that its sums fit, and 64 bits give it.

The skip list has no places, only pointers, so its invariant `SkipInvariant` says that there are an order of the live nodes, by power (`Ordered`), and a height of each,
such that every pointer of a live node or of the head leads to the next live node that is high enough, or is NULL (`Leads`, `Leveled`). `SearchEnds` says, from `WalkEnds` along one level and
`TailInvariant`, where the walk of `GetPreptrArr` ends on each level: at the last node of that height with a smaller power. `AddLeads` and `DeleteLeads` say that the
pointers changed there restore `Leads`, whatever height the new node was given. `LevelNodes` turns the chain of a level into a set of nodes, and `Counted` compares the number of nodes of each power with the history:
equal as long as no two values of this power met, no larger otherwise, because a delete may then take more than one node out.

### What is only model-checked

- `TextInverted` and `NumbersRight` of `Library`: they say what recursive functions compute of every text and of every number, which takes induction over data.
- Liveness, which is out of the prover's reach: `RehashEnds` of `Dict`, `EmptyKeyExpires` of `Keyspace`, `RunEnds` of `TimeEvents`, `RequestsAnswered` and `ClosedReaped` of `Client`,
`Served` and `TimersReached` of `EventLoop`.
- The properties of the findings, which are false.

Every other property of a passing run is a theorem.
`RehashShape`, `Placed`, `MigratedEmpty`, `AddCorrect` and `CutCorrect` are proved and are not among the properties of a run.

## 5. Not modelled

See `components` in `PROJECT.json`. Not modelled for good: the contents of strings and the
wording of replies where nothing depends on them, hash functions, the setters of socket options and the resolving of names, comparison and case
mapping of strings, the functions of `util.c` nothing calls (pattern matching, memory sizes, floating point, random bytes, paths),
`aeStop`, `aeDeleteEventLoop`, `freeHeap`, `dictFree`, which nothing calls, the way the process becomes a daemon, failures of `malloc`, and the interactive test programs.
The integers of `Keyspace` and `TimeEvents` are unbounded: the overflow of a deadline (db.c:42) and of a difference of more than 24 days in
`timeCompare` (ae.c:19) are listed as hazards and not modelled.

## 6. Plan

What is left, in this order:

1. Arithmetic of a fixed width for deadlines (db.c:42) and `timeCompare` (ae.c:19).
2. A bound on descriptors in `EventLoop`, for the missing check at ae.c:79.
3. The requests that `Plain` sets aside, each with what the parser does make of it (networking.c:280, 360, 363), as runs beside `MCClientPipelined`.
