# SimpleSearchEnginer: specifications, checks and proofs

The repository is a keyword and page search server in C++ (epoll, pthreads, no
libraries beyond the vendored ones), the offline programs that make its data, and
a test client. This directory specifies the server in TLA+: the thread pool, the
event loop, the connections, the wire protocol, the caches with their timer thread,
and the queries on the dictionary and on the pages. TLC checks each on small instances; TLAPS proves
every safety property that the passing runs check, for all instances.

`PROJECT.json` says which lines of the source each definition stands for, lists the
hazards of the code with the properties that watch them, and for every property a
mutant, a plausible bug that breaks it. Paths below are relative to `src/`.

    tlasany Threadpool.tla
    tlc -workers 2 -config threadpool.cfg MCThreadpool
    tlapm ThreadpoolProofs.tla

## 1. The system

`src/test.cc` builds a `Dictionary`, a `CacheManager`, a `KeyRecommander` and a
`WebPageSearcher`, puts pointers to the last two into a `DataBag` and starts an
`EchoServer` on it. From then on these threads run:

* the **IO thread** (main): `EventLoop::loop`, every accept, every read from and
  write to a socket;
* four **workers** of the `Threadpool`, which parse and answer requests;
* the **timer thread**, which runs `CacheManager::updateCache` every ten seconds.

One request goes: client → socket → `EventLoop::handleMessage` →
`EchoServer::onMessage` (`receive`, then `addTask`) → `TaskQueue` → a worker's
`MyTask::process` → `KeyRecommander`/`WebPageSearcher` → `TcpConnection::sendInLoop`
→ `_pendingFunctors` and the eventfd → IO thread → `TcpConnection::send` → client.

| Component | State | Operations | Talks to |
|---|---|---|---|
| Threadpool, TaskQueue, Thread, MutexLock, Condition | `_que`, `_clearFlag`, `_isExit`, the mutex, two conditions | start, addTask/push, pop, wokerDoTask, stop, wakeup | IO thread pushes, workers pop; two flags are shared without the mutex |
| EventLoop | epoll set, `_eventList`, `_conns`, `_pendingFunctors`, eventfd, `_islooping` | loop, waitEpollFd, handleNewConnection, handleMessage, handleRead, runInLoop, wakeup, doPendingFunctors, unloop | workers post functors; sockets become ready |
| TcpServer, Acceptor, TcpConnection, Socket, EchoServer | descriptors, `shared_ptr`s to connections, the callbacks | accept, receive, send, sendInLoop, isClosed, close on destruction | clients; the thread pool; the event loop |
| SocketIO | none | readn, readline, writen | called by TcpConnection in the IO thread |
| MyTask, DataBag | the request line and its connection | process, parse | KeyRecommander, WebPageSearcher, sendInLoop |
| CacheManager, LRUCache | 2N caches, each `_lru`, `_umap`, `_pendingUpdateList`, `_isUpdating`; the cache file | get, put, updateP2M, updateM2M, writeToFile, readFromFile, init, updateCache | workers and the timer thread, no lock |
| KeyRecommander | `_sought` | doQuery, getRandDict, getSolitaireKeys | caches, Dictionary; one object for all workers |
| Timerfd, ThreadTimer | timerfd, `_isStarted` | start, stop | calls updateCache |
| Dictionary, MinEditDist, CandidateResult | `_dict`, `_index` | initIndex, doQuery, getRandKeys, getSolitaireKeys | read-only, but for `_index[...]` |
| WebPageSearcher | inverted index, offsets, page library | doQuery and the parts of it | read-only, but for `operator[]` |
| Configuration | one map | getInstance, getConfigMap | everybody |
| Offline producers | `_docFreq`, `_wordsFreq`, `_docWords`, none that lasts | build dictionary, index, pages, inverted index | write the data files |
| Client | its phase | connect, ask, read the answer, leave | the server |

What is hard here, and what makes each part correct:

* **Thread pool.** Flags read outside the mutex, a notify after the unlock, `if`
  and `while` around the two waits, a stop that races the workers. Correct when an
  accepted task runs exactly once, no wakeup is lost, the queue is bounded, stop()
  leaves nothing behind and returns.
* **Event loop.** A functor is pushed under a mutex and announced after it, while
  the IO thread clears the announcement and takes the functors in two more steps.
  Correct when no functor is forgotten, none runs twice, and the blocking read of
  the eventfd never blocks.
* **Connections.** Who keeps a `TcpConnection`, and with it its descriptor, alive:
  `_conns`, a task, or only a raw pointer in a functor. Descriptors are reused at
  once. Correct when answers reach the asker and the event list never names a
  connection that is no longer the one meant.
* **Framing.** A binary header in a protocol that ends requests at a newline; a
  blocking read in the only IO thread; short, broken and reset connections.
* **Caches.** No lock at all between workers and timer thread, one `_sought` for
  all workers, a file that is truncated and rewritten; lists copied front first into
  a list that grows at the front, and cleared while something may have come.
* **Page search.** A loop over an array that may be shorter, a set that compares
  nothing but scores, scores that may be NaN, unsigned arithmetic around the position
  of a word, which another program has counted.
* **Dictionary.** `top()` after a loop that may have emptied the queue, duplicates,
  characters of several bytes compared by bytes.

## 2. The modules

| Module | Models | Notes |
|---|---|---|
| `TaskPool` | what the pool promises: a bounded FIFO backlog, each task once, closed only when all is done | abstract; used by `Threadpool` (implements it) and `Server` (built on it) |
| `Threadpool` | Threadpool, TaskQueue, Thread, Condition, MutexLock | 1 IO thread, any workers |
| `Mailbox` | what `runInLoop` promises: each functor once, in order, while the loop runs | abstract; implemented by `EventLoop`, used by `Server` |
| `EventLoop` | epoll, eventfd, pending functors, the dispatching round | sockets only as readiness |
| `Server` | clients, listening socket, connections, descriptors, requests, answers | composes `TaskPool` and `Mailbox` |
| `Framing` | one connection byte by byte: pack, readline, parse | |
| `LRUCache` | the cache operations as operators on a cache value | |
| `CacheRounds` | queries and the turns of a round, caches of several entries: what is forgotten, what is lost | extends `LRUCache` |
| `CacheManager` | 2N caches, doQuery of the workers, the timer thread's rounds, file, restart | extends `LRUCache` |
| `Dictionary` | doQuery with index, queue and edit distance; getSolitaireKeys; getRandKeys; the index of DictProducer | |
| `PageIndex` | the inverted index of PagePreProcessor as operators on a page library | |
| `WebPageSearcher` | doQuery of the page search: selection, scores, excerpts | extends `PageIndex`: the index and the excerpts are of the same pages |
| `DataLemmas` | induction over numbers and finite sets; what Append, Tail and `\o` do to the elements of a sequence; what `Get`, `Put`, `PutAll`, the updates and the reading of the file do to a cache, place by place | lemmas, extends `LRUCache` |
| `ThreadpoolProofs`, `EventLoopProofs`, `ServerProofs`, `CacheManagerProofs`, `CacheRoundsProofs`, `FramingProofs`, `QueryProofs` | the theorems | section 5; each extends `DataLemmas`, whose one constant, `CacheCapacity`, says nothing outside the caches |
| `MC...` | the instances for TLC | |

**Threadpool.** `que`, `clearFlag`, `isExit` are the members of the same name; `io`
and `pc` are program counters. A step is what a thread does between two points at
which another could see or change what it uses. `push` is one step under the mutex
and `NotifyEmpty` another after it; `pop` is `PopCheck` (the test), `PopWait` or
`PopTake`/`PopNull`, because `stop` and `wakeup` write the flags without the mutex in
between. `MutexFree` is the mutex. `Spurious` is the set of threads whose
`pthread_cond_wait` may return unsignalled. `arg` and `data` are the arguments and
results in hand; `accepted` and `finished` are history. The IO thread is the only
producer and also the one that destroys the pool, as in `EchoServer`.

**EventLoop.** `RunInLoop` is the push, `Wakeup` the write of the eventfd.
`EpollWait` may return any ready descriptors up to `size`, the size of `_eventList`,
which doubles after a full return. `HandleRead`, `Swap`, `RunFunctor` are the three
parts of the eventfd's turn. `islooping` may be cleared at any time by `Unloop`.

**Server.** A request is a pair of client and number, an answer the same pair.
`fd` is the descriptor inside a client's `TcpConnection`; `Alive` says whether any
`shared_ptr` to it is left, and `OpenFds` follows from that, as the destructor of
`Socket` closes. accept takes the lowest free descriptor. `Send`, `SendToGone` and
`SendDangling` are `writen` to a client that is there, to one that has closed
(SIGPIPE is at its default), and through a pointer to a connection that is gone.
`HandleReset` is a connection reset under the read: `readline` then makes a line of
zeros of it (request 0) and `ParseOverrun` is what `parse` does to its stack with
it. `io = "down"` is a process that has ended. Patient clients wait for the answer
before they ask again or leave, as the test client does; an `Impatient` one may be
killed while it waits.

**Framing.** `wire` holds the bytes; `Peek` takes any non-empty part of what is there
as the bytes that have arrived. `GiveUp` is readline returning its full size after
an end or an error. The sizes 65536 and 4096 are `LineMax` and `ParseMax`; only their
order matters. Server assumes a request arrives as a whole and is read as itself;
Framing shows when that is so: no newline in the header, no reset.

**Caches.** The dictionary's values for a key are written as the key itself, so that a
wrong answer is a value with another key's name. `Reread` is what a start makes of a line:
`readFromFile` ends the key at the first ':' (`ReadBack`), passes over the other colons and
takes what is left up to the next blank into the first value. If nothing is left of the
key (`OnlyColons`), the line `a::v1 v2 ` of "a:" gives "a" exactly the values of "a:"; if
something is, "a" gets them with a piece of a key in front. Such pieced values are
`Garbled`, and so are those of a line cut short, by a process that ended during
`writeToFile`. `misread` is history: a start has read some line otherwise than it was
written. What a worker holds is gone with its call, and stands as `NoKey`. `get`, `put` and the updates are one step
each; that two threads are inside one list at a time is what `FlagsKeepApart` is
about, and `Restart`, possible at any moment, stands for the crash it may end in.

`CacheRounds` takes a query and a turn of a round as one step each, so that caches of
several entries and four keys are within reach. `used` is, for each cache, the
unbounded list of its keys in the order of their last use, and `inTime` the keys that
were stored before their cache's turn in the first loop, or after that in the second.

**Dictionary.** A word is a sequence of characters, however many bytes each has.
`que` counts the copies of each candidate; which of several equally good ones is on
top is left open. `at = "undefined"` is the `top()` or `pop()` of an empty queue, or a
random index into an empty vector. `op` is the operation called. `LastCh` works on the
UTF-8 bytes of a word, as `getSolitaireKeys` does; the letters of the instance share
their first two bytes. The words are in the order of their bytes, as the map of
`DictProducer` gives them; `Sorted` is that order of a set of words.

**PageIndex, WebPageSearcher.** A page is the sequence of words its description is cut
into, and a word the sizes of its characters. `InvertProcess` gives for each word and
page its weight and the place of the last occurrence; the searcher starts with that table
of the same library. Logarithms are integers with the sign and order of the real ones.
The weight, TF-IDF by the root of the sum of its squares, goes through a text: `store`
writes six digits, and unequal weights may be read back equal. `Stored` is that rounding,
any function that keeps the sign. Scores are exact fractions of the weights as read back
that grow as the code's doubles do, so that two are equal when those are, up to the rounding
of the doubles themselves; a denominator of 0 is NaN, which the text keeps, and which is
neither greater nor less than anything, and so equal to everything for the set. A read past
the end of `obwArr` gives any of the scores in `Stray`. One page and one of its descriptions
stand for all in `OutRes`. There is one description for each word, but the stream they are
taken from (`oss1`) is never emptied: the n-th is the excerpts for the first n words, one
after the other, and so a sequence of n parts. The state is called
`phase` and `nth`, and the behaviours `SearchInit`, `SearchNext` and `SearchSpec`, for
`QueryProofs` to extend both this module and `Dictionary`.

## 3. The runs

| Run | Instance | Shows |
|---|---|---|
| `threadpool` | 4 tasks, 3 workers, queue of 2, every thread wakes up spuriously | types, conservation, `TakeFindsTask`, `WakeupPerTask`, `StopDrains` |
| `threadpool_live` | the same without spurious wakeups, fair | capacity; every step one of `TaskPool`; implements it with its fairness, so that accepted tasks run; stop() returns |
| `eventloop` | 2 workers, 3 functors, 3 sockets, list of 1, fair | no functor forgotten, no blocking read, every step one of `Mailbox`; implements it with its fairness, so that functors run; unloop ends the loop |
| `server` | 3 clients of 2 requests, one impatient, 2 descriptors, 2 workers, queue of 1 | targets alive, descriptors and `_conns` agree, events current, harm only from an abandoned request |
| `server_live` | 2 patient clients, fair | every request answered, every connection released |
| `caches` | 2 workers, 4 caches of capacity 1, 3 keys, 3 queries, restarts | `WrongNeedsOverlapOrMisreading`, `FlagsKeepApart`, `RoundShares` |
| `caches_race` | the same with 2 keys without ':', 2 queries | **violated**: one worker answers with the other's values |
| `rounds` | 3 caches of 2 entries, 4 keys, 4 queries, a file of 3 lines or none | what a cache forgets, what a round loses |
| `framing` | 2 requests of length 0, 2 or 10, any operation | what is misread has a newline in its length, or was reset; readline never waits |
| `framing_newline` | 1 request of length 0, 1, 9, 10 or 11 | **violated**: length 10 is read as an empty line |
| `search` | every library of pages of up to 3, 3 and 1 words, queries of 1 to 4 words | every page with all words is found, up to equal scores and NaN; one that lacks a word needs three words; when a score is NaN; the n-th description has the excerpts of the first n words |
| `dictionary` | every dictionary of up to 4 of 8 words, every query of up to 3 characters, 3 results | edit distance is the least cost, results are the best, when the queue runs empty, when a result repeats; the words to go on with |

### Properties worth a word

* `WakeupPerTask` is the reason a notify outside the mutex is enough: as long as
  any worker sleeps, each queued task has an awake worker or an owed notify.
* `StopReturns` carries a condition: `wakeup()` sets `_clearFlag` and broadcasts
  without the mutex, so a worker between its test of the flag and its wait misses
  both, and the join never returns. Without the condition TLC finds exactly that. It
  is stated from the broadcast on.
* `QueueWithinCapacity` needs that the IO thread does not wake up spuriously:
  `push` waits with `if`, and `isFull` compares with `==`, so a queue that once
  passes its capacity is never full again. The pool's other invariants are
  free of this (`threadpool` lets every thread wake up); that it implements `TaskPool`,
  whose backlog is bounded, is not.
* `FunctorNotForgotten` rests on `handleRead` coming before the swap;
  `HandleReadNeverBlocks` on there being one reader.
* `FunctorTargetAlive` and `HarmNeedsAbandonment` say what a
  patient client buys: nothing in the code keeps a connection alive for its functor
  but that its client waits. With an impatient one TLC reaches all of: an answer to
  a closed peer (SIGPIPE), a functor whose connection is freed, an answer sent into
  another client's connection, a reset read as 65535 zero bytes and copied over
  `parse`'s stack. `HarmNeedsAbandonment` says those are the only ways to them.
  `ConnsMatchFds` and `EventsAreCurrent` hold for all: an event is of a descriptor in
  `_conns`, whose entry keeps it open; only the event's own turn removes the entry; and what
  has made the descriptor readable is read by nobody else.
* `FlagsKeepApart` says what the flags do achieve. As long as the flag of worker w
  is as w read it, the timer thread is off the cache w chose. The exception is real:
  the flag of cache 0 is up in every turn, that of cache N included, so worker 0 is
  sent to cache N while it is being updated. A flag that has changed since it was
  read is no protection; the code has no other.
* `WrongNeedsOverlapOrMisreading`: with one query at a time the timer thread, whatever it
  does between the steps of a query, gives no key another key's values, and neither does a
  start that reads the file as it was written. The exception is real: a start that meets a
  ':' in a key, or a file cut short, does. After it "a" may have the values of "a:" (the
  run reaches that answer) or pieces of those of "a:b", which the merging and the file
  hand on. The property says that it may not have whole values of a key other than these.
* `RoundShares`: a round that no query disturbs leaves all caches with the same
  entries, nothing left to merge but in cache 0, whose list is never cleared and grows with
  each round; the property makes an exception of that list. With
  one entry per cache this is about the entries; `CacheRounds` is about their order.
* `ForgetsLeastRecent`: a cache of any history is the front of an unbounded list kept
  in the order of last use, so `put` at the end of a full cache, `get`, merging and reading
  the file all agree on what to forget. The reference for a copy is the order of cache
  0 turned round, as `updateM2M` pushes front first to the front: of what a worker has not
  used since the round, the entries merged last go first.
* `OnlyLateIsLost`: between a cache's turn in the loop that merges and its turn in the one
  that copies its flag is down, and what a worker stores then is cleared, entries and
  pending list both. The property says that this is the only way for a result to get
  lost, as long as cache 0 has had room for all that came to it.
* `PartialNeedsThirdKey`: the selection takes the pages with the first word and any
  other, and the scoring loop goes to the number of words. With two words that is
  right; with three a page that lacks one is scored from memory past an array, and
  with four it may be shown twice. `MatchesAreFound` says that a page that does match
  is lost only to another of the same score, or to a NaN.
* `NaNIsAlone`: log2(N / (DF + 1)) is 0 for a word in all pages but one. A page of nothing
  else, or a query of nothing else, makes 0 / 0 of its weights or its score. The set then takes
  that page for the equal of all others: the first one in keeps the rest out. The property
  says when it comes to that, and that nothing is found beside such a page.
* `ExcerptsShowWords`: `idx - 30` wraps for a word at the beginning, and the excerpt is
  right all the same, as then it starts at 0. That it shows the word rests on `curPos`, which
  counts the words that are not indexed too; that it is whole characters is what keeps
  the json library from throwing in the worker. The bound, twice `Around` and one character, is
  one of each part: as the stream is not emptied the n-th description has n parts, and the
  page's last description is as long as all its excerpts together.
* `SolitaireGoesOn`: comparing the bytes of one character with the first bytes of a word is
  comparing characters, as no character's bytes begin another's.
* `UndefinedNeedsFew`, `RepetitionNeedsCopies`: the scan for duplicates looks at
  each earlier result once. A query with one character three times gets a word
  twice, and one with few candidates asks an empty queue for its top; the properties
  say when, and the run reaches both.

### The two disagreements

* `caches_race`: `KeyRecommander.cc:17` keeps the key in a member that all workers
  share; `MyTask` answers with its own key. Two overlapping queries for two keys
  answer one with the values of the other, and store the pair.
* `framing_newline`: the length is sent in binary, and 10 is a newline. The request
  ends after its first byte; the server answers operation 4 for an empty content,
  and goes on in the middle of the request.

## 4. Bounds and fairness

The bounds are the constants in the `.cfg` files; no definition is replaced. Where
they come from:

* Pool: three workers are the fewest where one sleeps, one takes and one runs; more
  tasks than capacity make the push wait. The theorems cover the rest.
* Event loop: the list starts with one entry for three sockets and the eventfd, so
  that it has to grow; in the code it starts with 1024.
* Server: two descriptors for three clients make accept fail and a descriptor be
  reused; a queue of one makes `addTask` keep the IO thread; two requests let an old
  answer meet a new request. Symmetry in workers and in the two patient clients,
  only in the run without liveness.
* Caches: three keys, "a", "a:" and "a:b", are one that is read back as itself, one whose
  values go to "a" whole and one whose values go to it in pieces; one entry is the fewest to evict, two
  workers the fewest with a spare cache that is not worker 0's; three queries let
  one hit what another stored and the timer merged. In `rounds`, caches of two entries with
  four keys overflow and keep an order; two caches beside cache 0 make the turns of a
  round differ; four queries fill a cache, use it and push something out.
* Framing: lengths around ten, and `LineMax > ParseMax`, both large enough for the
  longest request; four-byte numbers keep their width and sign.
* Page search: up to three pages give words that are in one, in all but one and in all
  pages, so weights positive, zero and negative, and pages that tie; weights are stored in
  thirds, rounded away from nothing, so that some that differ become equal; four words asked are
  the fewest for a page to come twice. Words of one and of two characters of three bytes
  beside `Around = 6` put the ends of an excerpt inside and outside the page.
* Dictionary: words that tie in distance and frequency, words with a character twice
  and with a digit; queries with a character up to three times. (With six words, four
  characters and four results the run takes forty seconds and says the same.)

Deadlock checking is off where the system may rest or stop: a pool that was
stopped, a loop that has ended, clients that have left, a query that is done. It is
on for the caches, whose timer never stops.

Fairness is weak fairness of each thread's steps: the scheduler of the operating
system runs a thread that can run. In `Server` also of a client reading its answer.
Nobody is obliged to connect, ask, leave, call `unloop` or destroy the server.
The mutex is taken in single steps by the IO thread and for two by a worker. Weak
fairness does not promise a thread a mutex that others take again and again, and
neither does pthread; the properties hold without such a promise because the tasks of a
run are finite in number, so that the contention ends. An endless stream of tasks
is not covered by the live runs. The live runs exclude spurious
wakeups: they would only add wakeups, but they would let the IO thread go past
the capacity. The sockets, `recv` after a positive `epoll_wait` and the functions of
tasks are assumed to return.

## 5. What is proved

For every value of the constants, under the assumptions the modules name. Most say what
the program's types do (finite and non-empty `Workers`, positive capacities, `NoTask` not
a task, the eventfd and the listening socket not among the other descriptors, `N`
positive). Two say more: `Framing` takes requests that fit into `parse`'s buffer (a longer
one is copied past its end, `MyTask.cc:113`) and buffers whose size an `int` holds, as the
4096 and 65536 of the code do; and `CacheManager` takes a set of keys that has with each
the one it is read back as, which has no ':' and so is read back as itself.

**ThreadpoolProofs.** The properties are not inductive; the invariant is built in
layers, each inductive given those before:

1. `TypeOK`, `Control` and `Guarded` together. `Control` ties the program counters to
   the flags (which are set only by the IO thread, in order) and to the task in
   hand. `Guarded` is what the mutex protects: one worker inside `pop` at a time; one
   about to wait has seen the queue empty and it still is; one about to take finds a
   task, although the flag is read twice; after the drain the queue stays empty,
   because the IO thread is the only producer and is in `stop`. From here
   `TypeCorrect` and `TakeIsSafe`.
2. `CapacityKept`, for `IO \notin Spurious`: while the IO thread waits the queue is
   full, and when it has been signalled it is not. From here `CapacityRespected`.
3. `NothingLostOrDuplicated` itself (`TasksConserved`), on `DataLemmas`; with
   `Control` it gives `StopIsClean`.
4. `WakeupPerTask` itself (`NoWakeupLost`), by counting the workers on their way.
5. `PoolImplemented`: every step is a step of `TaskPool` under the mapping
   `backlog <- que, running <- data`, or leaves what it sees unchanged. `PushResume` is the
   reason it needs `CapacityKept`.

**EventLoopProofs.** `LoopInv` is `TypeOK`, `Round` and `FunctorNotForgotten`. `Round`
says that functors taken are run before the next event, that the eventfd is
dispatched once a round, and that its counter is positive until it is read: only
the IO thread lowers it. It gives `TypeCorrect`, `NoFunctorForgotten`,
`ReadDoesNotBlock` and, with the lemmas on `\o`, `MailboxImplemented`
(`inbox <- tmp \o pending`: handing over appends, running takes the head, and the
swap changes nothing as `tmp` is empty then).

**ServerProofs.** `ServerInv` is `TypeOK`, `Owned` and `~Abandoned => Carried`.

* `Owned` holds in every behaviour. `FdsMatch`: `_conns` and the clients agree on the
  descriptors, and no two connections that are alive share one. `Registered`: a client that has a
  descriptor and has not left is in `_conns`, which is why an event for it finds it there.
  `InHand`: what each thread holds where it is, and that what is queued or running was
  accepted. With `EventsAreCurrent` it is inductive, and gives `DescriptorsOwned` and
  `EventsStayCurrent` for impatient clients as for patient ones.
* `Carried` follows one request round the system as long as no client has left while it
  waited: it is in exactly one of the wire, the IO thread's hand, the backlog, a worker that
  has not posted, the inbox, the wire back; and in each its client is waiting for
  that very request. So the client has not left, its connection is in `_conns`, and the
  plain pointer in the functor is valid (`PointersValid`); an answer that arrives is the one that
  is due, and none of the steps that end the process can be taken (`PatienceSuffices`).
  A client that leaves ends `Carried` for good, as `Abandoned` stays.

**DataLemmas.** The lists of a cache go by folds and searches; the lemmas say what
each operation does in terms of places. `At` is the place of a key, or the one past the end.
`Get` and `Put` bring a node to the front and move those before it by one (`Fronted`); `PutAll`,
`UpdateP2M` and `UpdateM2M` do so for each of a list; reading the file starts from an
empty cache. Each keeps a cache in `CachesOf(G)` for any set of nodes G: a key once, at most
the capacity, nodes of G only. What happens one node after another goes by
induction over the steps, with the set of those for which it holds.

**CacheManagerProofs.** Three invariants, for any N, keys and capacity:

* `FlagInv`: the flags that are up are those of cache 0 and of the turn, exactly
  between raising and lowering; and each worker's cache is given by the flag it read.
  `FlagsSuffice` follows. It does not look at what is in the lists.
* `DataInv`: every cache is in `CachesOf` of well-typed nodes. Unless two queries have
  overlapped, `_sought` is the key of the one worker that is asking, and all lists, the file
  and the results in hand have right nodes only: the key's own values, pieces, or the
  values of a key that is read back as it. Unless a line was misread too, they have exact
  ones only. As the lemmas take any set of nodes, all three come from the same facts, the
  start from `CutRestart` and `ExactRestart`: what reading a line gives is right, as
  `ReadBack` gives keys that are read back as themselves, and exact if no line is changed by it.
  It gives `TypeCorrect` and `OverlapOrMisreadingNeeded`.
* `RoundReached`: in a round no query has disturbed, the caches whose turn to be merged is over have
  nothing pending, and those whose turn to be copied to is over have the entries of cache 0.
  It gives `QuietRoundShares`.

**CacheRoundsProofs.** `RoundsInv` is `Sound` and `Kept`. `Sound`: each cache `Fits` its
history, that is, it is the front of the list of its keys in the order of last use, as long as
the capacity. The heart is that moving a key to the front of the whole list and
cutting it does what moving it to the front of the cut list does, evicting or not.
`Kept`: a key stored in time is in cache 0, or pending in a cache whose merging is still to
come. `LeastRecentForgotten` and `NothingInTimeIsLost` follow.

**FramingProofs.** `FramingInv`. `Typed` and `Whole` give `TypeCorrect` and `NeverBlocks`: while
the connection is open, what has been sent and not received ends in a newline, so that a
`readline` begun with a byte never needs one that has not been sent. The rest is: unless the connection
was reset or a header has a newline in it, the last request asked is in one of three
places - `OnTheWay` (what `readline` has in its buffer and what is still in the connection,
put together, are the packed request), `Queued` (its line is the only task), or answered like all before
it. `BytesRead` shows that the four bytes of a length are read back as the number, for each `int` that
is not negative; `LineServed` that a line is parsed as the request it was made of;
`ServedUnlessNewlineOrReset` follows.

**QueryProofs, the dictionary.** `QueInv` is five parts that hold of `doQuery` at every step.
`Collected`: while characters are taken, a word is in the queue as often as it shares one of those
taken so far. `Counted`: later, a word that has not come out is there as often as it was
pushed, and one that has is there less often; so the queue lacks no candidate (`Queued` is
all of them but what is popped). `Ordered`: what came out is not worse than what is still
there. `Emptied`: an empty queue at a scan means that copies were in it. From it:

* `ResultsAreTheBest`: candidates that did not come out are in the queue, and by `Ordered`
  not better.
* `EmptyQueueNeedsFew`: with `Queued = {}` and results still wanted all candidates are results, and
  there are no more values than places in a sequence.
* `RepetitionIsOfCopies`: a second invariant of the queue, about the scan (`Unrepeated`). Where no words
  have the copies of the property, only one result at a time has a copy left, and one only
  (`OneCopyLeft`); so the scan pops it at the turn of that result, or finds on top what is no result.
* `DistanceIsLeastCost` is of the algorithm alone: a matching of two words without their last
  characters is one of the words but for one pair, so every entry of the table is a cost and no
  matching costs less. It goes by induction over the places of the table, as the
  table is a recursive function and not an operator.
* `SolitaireGoes`: `Encoded` is read as places, those where each character's bytes begin (`Placed`), which
  are sums of sizes. The first byte of a character gives its length (`BytesAssumption`, true of
  UTF-8), so two characters whose bytes begin one another are one (`BeginsWith`), two words of the same
  bytes are one (`EncodedApart`), and the walk of `LastCh` from length to length stays on these
  places and ends at the last (`LastChIsLast`). `Before` is then a strict order of words: it is comparing the first
  difference of two endless sequences, with -1 after the end (`BeforeIsFirstLess`). A finite set of
  words has one `Sorted`, and what is given is the front of it.

**QueryProofs, the pages.** `SearchInv` ties the state to the library: the table is the index of it,
the selection has the pages it should have (`IdsFit`), the set is what inserting the scores of
the first `nth - 1` selected gives (`SetFits`: each of them is in it or another of the same score is, and
no two in it are the same), and what is shown is cut from one of these pages (`ShownFits`).

* `MatchesFound` and `PartialNeedsThird` are about selection and set: `multiQuery` gives the pages of
  the first word that have another as well, once for each; a page with all words has an `obwArr` of full length.
* `NaNAlone`: a score is NaN when a sum of squares is 0, a sum of squares is 0 when each
  is (`TotalOfNaturals`, `NoScore`), a square when the weight is, a stored weight when the
  logarithm is, as rounding keeps the sign, and that, by `Log2Assumption`, when N is DF + 1. As NaN is the same as anything, it is alone in the set.
* `ExcerptsShown`: the place in the index, a sum of the sizes of words, is the place in the text, a sum of
  the sizes of characters (`TotalJoined`, by which sums of a flattened sequence are sums of sums). So `idx` is
  the end of a character (`IdxIsEnd`), and so are the ends of the excerpt, the greatest and least ones
  within bounds (`WordInExcerpt`). It holds of each part of a description on its own.

The assumptions beyond types are: words and queries are not empty and made of known characters; a character is
one to four bytes, the first of which gives the number, and no two have the same; the logarithm of n / d is
positive, zero or negative as n is greater than, equal to or less than d, for the numbers of pages of each library;
a weight that was stored is positive, zero or negative as its TF-IDF is.

**Only model-checked.**

* Liveness under fairness, which is out of the prover's reach: `ImplementsPool`, `StopReturns`,
  `ImplementsMailbox`, `UnloopStops`, `RequestAnswered`, `ConnectionReleased`.
* That the mapping of `Server` onto `TaskPool` and `Mailbox` and the proofs that
  `Threadpool` and `EventLoop` implement those make one theorem: each half is proved, their
  composition is by reading.

## 6. Not modelled, and why

* The race detector's view of `_isExit`, `_clearFlag`, `_islooping`: each read goes to
  memory. The loops that poll them contain calls the compiler cannot see through.
* Lists that live on damaged after two threads relinked them at a time, and the
  shared maps that `operator[]` inserts into from several threads (`_index`,
  `_invertIndexTable`, `_offset`, the configuration): no outcome is defined.
* `writen` with partial sends, failing `epoll_ctl`, `bind`, `listen`, allocation.
* The page library, its offsets and its XML in `WebPageSearcher`; the parsing of lines in
  `Dictionary` but for the digits that end a word of the index; the rest of the offline
  producers (`PageProducer`, which does not compile as it stands, and the counting of
  words), sequential text processing around XML, regular expressions and the word
  splitter. A page without `description` element, and a title without text, end the
  programs; the data has none.
* Most of the repository's lines: `json.hpp`, three copies of `tinyxml2`, `utf8` and
  cppjieba are third-party, and the server uses them as parsers and printers. The
  repository's own code is about a tenth of its lines of C++; the models are drawn from that tenth.
* `Timerfd::stop`, and the destructors of the timer and the caches: nothing calls them while the
  server runs. A process that ends at any moment is `Restart`. That `stop` is lost when it
  comes before `start` has run, and that it may leave the thread in a read of a disarmed
  timer, is therefore without effect.

## 7. Plan

Done, in this order: `TaskPool`, `Threadpool` and proofs; `Mailbox`, `EventLoop` and
proofs; `Server`; `LRUCache`, `CacheManager` and the proof about its flags;
`Framing`; `Dictionary`; `WebPageSearcher`; the order and the losses of the caches
(`CacheRounds`); the inverted index behind the page search (`PageIndex`); the other
operations of `Dictionary`; the proofs about `Server`, the contents and the order of the
caches, and `Framing`; the proofs about both queries.

What is left is small:

1. The composition of `Threadpool` and `EventLoop` with what `Server` uses of them.
2. `WebPageSearcher` with two workers and an insertion into the shared table going on.
