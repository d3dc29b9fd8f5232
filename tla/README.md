# adtlib in TLA+

adtlib is a C++20 library of containers, allocators and concurrency primitives
(`src/include/adt`), with work in progress (`src/src/WIP`), a JSON parser
(`src/src/json`) and tests (`src/src/*.cc`). It has no other documentation:
the headers, their comments and assertions, and the tests say what is meant.
This directory holds TLA+ models of its concurrent parts, its containers, its
allocators and its text handling, TLC configurations that check them on small
instances, and TLAPS proofs, for instances of any size, that its concurrent
parts - the thread pool, the pipeline, the two lock-free queues, the logger - are
safe, and that the rings, vectors, pools, arenas and reference counts they and
everything else are built on are what they promise.

Paths below are relative to `include/adt` unless they say otherwise.

## The system

| component | state | operations | works with | what is hard |
|---|---|---|---|---|
| thread pool (`ThreadPool.hh`) | ring of tasks `m_qTasks` under `m_mtxQ`, `m_atomNActiveTasks`, `m_atomBDone`, condition variables `m_cndQ`, `m_cndWait` | `start`, `addTask`, `tryStealTask`, `wait(bHelp)`, `destroy`, the workers' `loop` | every closure calls back into the pool; `Logger::destroy` and `Log` use it | lost wakeups, a counter beside the queue, stealing on the thief's stack, shutdown |
| closures and futures (`IThreadPool.hh`, `Thread.hh`) | `m_bDone` with a mutex and a condition variable | `add`, `addRetry`, `addRetryOrDo`, `Future::wait` | the pool | join cycles, inline calls, futures that are never signalled |
| pipeline (`Pipeline.hh`) | a queue, a mutex and a condition variable per stage, `m_atomNEnqueued`, `m_atomBDone` | `add`, `wait`, `destroy`, `stageLoop` | `Queue`, `Logger` | signals without the mutex, packages dropped when a queue cannot grow |
| SPSC queue (`QueueSPSC.hh`) | array, atomic head and tail | `pushBack`, `forcePushBack`, `popFront` | its two threads | release and acquire, stale indices, a second writer of the head |
| MPMC queue (`src/WIP/QueueMPMC.hh`) | cells with sequence numbers, two positions | `emplace`, `pop`, `empty` | any number of threads | a thread that sleeps between load and exchange, wrap-around |
| logger (`Logger.hh`, `ILogger.hh`) | byte ring under a mutex, `m_bDead`, a drain buffer | `Log`, `add`, `loop`, `destroy` | the pool's arenas, `Pipeline`, everything that logs | spinning while full, start-up and shutdown races, wrapped headers |
| thread primitives (`Thread.hh`, `atomic.hh`) | the system's | mutexes, condition variables, threads, atomics | all of the above | spurious wakeups, memory order |
| ring queues (`Queue.hh`, `QueueArray.hh`) | array, head, tail | push and pop at both ends, growth | pool, pipeline | one free slot, growth while wrapped |
| map and set (`Map.hh`, `Set.hh`) | buckets with flags, count | `insert`, `tryInsert`, `search`, `remove`, `rehash` | `Vec`, `hash` | deleted buckets, default keys |
| trees and heap (`RBTree.hh`, `src/WIP/SplayTree.hh`, `Heap.hh`) | nodes, colours | `insert`, `remove`, `search`, `extract` | - | rebalancing, parent links |
| lists (`List.hh`, `SList.hh`) | links | insert, remove, `sort` | arenas' deleters, `PieceList` | links at the ends |
| vectors (`Vec.hh`, `Array.hh`, `SOA.hh`, `VecSOA.hh`) | storage, size, capacity | push and remove anywhere, spans, growing, iteration | every container | overlapping moves, columns that move when they grow |
| texts under edit (`src/WIP/Rope.hh`, `src/WIP/PieceList.hh`) | a tree or a list of pieces of counted buffers | insert, remove, split, defragment | `RefCount`, `List` | weights on the way up, failures in the middle of an edit |
| sorting (`sort.hh`) | - | insertion, quick, parallel quick sort | pool | boundaries, ranges that must not overlap |
| pools (`Pool.hh`, `PoolSOA.hh`, `PoolAllocator.hh`) | free slots, occupied flags, chunk lists | `insert`, `remove`, `malloc`, `free` | - | handles used twice, the range of a block |
| arenas (`Arena.hh`, `ArenaList.hh`, `BufferAllocator.hh`, `IArena.hh`) | position, last allocation, blocks, lists of deleters | `malloc`, `realloc`, scopes, `reset`, `freeAll` | logger, pool, strings | scopes that nest, growth in place, deleters |
| reference counts (`RefCount.hh`) | two counts beside the object | `ref`, `unref`, `refWeak`, `unrefWeak`, destructors | rope, piece list | an `unref` inside an `unref` |
| strings (`String.hh`, `String-inl.hh`) | views; buffers on the stack or allocated | compare, search, trim, numbers, words; push, assign, steal | everything that prints or parses | two representations told apart by a capacity |
| printing (`print.hh`) | a buffer that may grow; a format string and its arguments | `push`, `pushFmt`, `formatInteger` | logger, tests | the last byte, settings that are arguments |
| JSON (`src/json`) | position, row and column; a token, a tree | `next`, `parse` | arenas, maps | recursion, errors at any depth |
| command line (`ArgvParser.hh`) | the arguments and a table of handlers | `parse` | `Map`, `Vec` | values that are arguments, packs |
| vector maths (`src/WIP/math.hh`) | - | products, inverses, turns, cameras | - | formulas written out by component |
| back ends, files, small headers | the system's | | | stateless or input and output |

What makes each correct:

- pool: every accepted task runs exactly once; the counter is exact; no worker
  sleeps over a task and no client over a finished pool; `wait` returns only
  when the work is done, `destroy` only when nothing is left; threads never
  wait for each other in a circle.
- pipeline: packages keep their order, none is processed twice, the counter is
  what is in flight, `wait` is not early, `destroy` frees nothing in use and
  returns.
- queues: first in, first out, bounded, nobody touches a cell that somebody
  else touches; a refusal is justified.
- logger: what `add` accepts is written once, whole, in order, and before
  `destroy` returns; nobody spins for ever.
- containers: each behaves as the abstract collection it is named for, also for
  its iterators, and frees what it holds exactly when it should.
- allocators: what a client holds does not overlap and lies in memory there is;
  destructors run when an object dies, and once; counts are those of the
  pointers that exist.
- texts: what is shown, searched and read is the text that was put in; what is
  parsed is what was written.

## Modules

| module | models | state |
|---|---|---|
| `ThreadPool` | `ThreadPool.hh`, `IThreadPool.hh`, `details::Future` | the queue, the counter, the flag, the two wait sets, a stack of closures per thread, a place per closure, client and worker, a future per closure |
| `Pipeline` | `Pipeline.hh` | per stage its queue, its place, whether its thread sleeps, what it lost; the counter, the flag, the callers' places |
| `QueueContract` | what queues promise: first-in first-out ones, forced pushes, deques; what "room" is each queue says itself | contents and what was popped, all of it or the last |
| `QueueSPSC` | `QueueSPSC.hh` | histories of the stores to head and tail with the views they carry, slots with the number of accesses, the view of each thread |
| `QueueMPMC` | `src/WIP/QueueMPMC.hh` | sequence numbers, cells, positions of `Width` bits, a ghost ticket per thread |
| `LoggerRing` | `Logger::RingBuffer`, `MsgHeader`, the copy to `m_pDrainBuff` | the bytes of the ring, first and last index, size; the messages queued |
| `Logger` | `Logger`, `Log` | the queue of messages, `m_bDead`, places of the writers, of the drain thread and of the thread that owns the logger |
| `MapContract` | what a map promises | a partial function and the last result |
| `HashMap` | `Map.hh`, `Set.hh` | buckets with key, value and flag, the count, the load factor; `hung` when a search does not end |
| `RingQueue` | `Queue.hh`, `QueueArray.hh` | cells, capacity, size, head and tail index |
| `RBTree` | `RBTree.hh` | the root, each node's children, parent and colour; the set of nodes the client put in |
| `LinkedList` | `List.hh`, `SList.hh` | the ends, each node's links; the order the client gave the nodes |
| `BinaryHeap` | `Heap.hh` | the vector; the bag of what was pushed |
| `Sorting` | `sort.hh` | the array before and after; for `quickParallel` the stacks of calls of its strands |
| `ParallelFor` | `parallelFor` of `ThreadPool.hh` | the batches with how far their tasks are, visits per element |
| `SplayTree` | `src/WIP/SplayTree.hh` | the tree, the client's keys, the last answer |
| `Vectors` | `Vec.hh`, `Array.hh` | cells, size; the client's sequence |
| `VecSOA` | `VecSOA.hh` | the bytes of all columns, size, capacity; the client's structures |
| `Rope` | `src/WIP/Rope.hh` | nodes with parents and weights, references to leaves' buffers, freed buffers; the client's text |
| `PieceList` | `src/WIP/PieceList.hh` | pieces, counts of the buffers, references nobody will give up; the client's text |
| `IArena` | `IArena.hh` | what the arenas share: live objects with address, size and scope, open scopes, lists of deleters, which deleters ran |
| `Arena`, `ArenaList`, `BufferAllocator` | the arenas, each on top of `IArena` | the position, what is reserved and committed; the blocks and their chain; the position in a buffer |
| `Pool` | `Pool.hh`, `PoolSOA.hh` | slots, free handles, occupied flags; what the client holds |
| `PoolAllocator` | `PoolAllocator.hh` | blocks with their free lists, chunks the client holds |
| `RefCount` | `RefCount.hh` | the counts, the objects' own pointers, the call stack of an `unref` |
| `StringView` | the views of `String.hh` | a memory, a view in it, an iterator over its words |
| `OwnedString` | `String`, `VString`, `StringFixed` | bytes on the stack or allocated, capacity, size; the client's text |
| `Builder` | `print::Builder` | the buffer, size, what is allocated; the text pushed |
| `Format` | format strings and integers of `print.hh` | a format string, its arguments, what was pushed |
| `JsonLexer`, `JsonParser` | `src/json` | position, row, column and tokens; the calls open, the rest of the tokens, the nodes made |
| `ArgvParser` | `ArgvParser.hh` | the uses the client means, the arguments, the handlers called |
| `Transforms` | `src/WIP/math.hh` | a matrix and a quaternion, the moves they stand for |

`ThreadPoolProofs`, `PipelineProofs`, `QueueSPSCProofs`, `QueueMPMCProofs` and
`LoggerProofs` hold the theorems about the modules they are named for,
`ContainersProofs` those about the queues, the log ring, `parallelFor`, the
vectors and the pools, and `MemoryProofs` those about the arenas and the
reference counts, both in the specification of `MCContainers`; `ProofLemmas` what
they share: induction over the naturals and facts about remainders.

`MCThreadPool` gives the instances of the pool their trees of closures and
their symmetry; the other concurrent modules are checked as they are.
`MCContainers` composes the map, the queues, the vectors and `parallelFor` with the
memory below them: arenas, pools and reference counts. `MCLibrary` composes the
trees, lists, heaps and sorts, the parallel one included, with the texts, the
parsers and the maths. Their parts share nothing (but for the three arenas, which
share `IArena`): a behaviour picks one of them (`part`) and steps only that one,
so their state spaces add up in one run. Sizes, capacities and elements are
constants of `MCContainers`, because its properties are also proved; those of
`MCLibrary` are written in its instances.

### How steps correspond to code

A critical section is one action; an access to an atomic outside of one is an
action of its own; so is a signal sent after an unlock. A thread blocked in a
condition variable is in its wait set; leaving it, by a signal or spuriously,
takes it back to the test of its predicate. `SignalQ`, for instance, is line
309 of `ThreadPool.hh`, an action apart from `Accept`, because `addTask` has
already unlocked; `DecActive` and `Notify` are lines 203 and 205 to 211.

A frame of `ThreadPool` is a closure on a thread's call stack. Stealing and
inline calls push a frame, and only the top one runs, so a frame that waits for
a future can be buried under one it stole: that is what `NoJoinCycle` is about.
Frames add the closures `Children` gives them, under one of four policies that
stand for `addRetry`, `if (!add(cl)) cl()`, `addRetryOrDo` without a future and
`addRetryOrDo` with one, and join them before they return, as
`sort::quickParallel` and `parallelFor` do. `Detached` closures have no future.

`QueueSPSC` models release and acquire: a load may return any store its thread
has not yet seen past; a store carries its thread's view, and an acquiring load
takes it over. Two accesses to a slot race when the second thread's view does
not include the first. The other modules' atomics are sequentially consistent.

`QueueMPMC` takes one step per atomic access. Its integers wrap at `Width` bits;
`NobodyLags` bounds how many positions may be claimed while a thread sleeps,
below the range in which a number could be taken for one of another round.

The sequential containers take one step per call. Loops over links are
recursive operators, and a tree or a list is a record that the operators take
and return, so that a call's assignments can be written in their order. `RBTree`
writes every mirrored case once, with the side as a parameter. What a client
knows - which nodes it put in, in which order - is a history variable, and the
structure is compared with it. The client calls what the code asserts it may: it
does not insert in a full `Pool`, remove a handle twice or read past the end of a
vector. Where a call the code does not exclude fails, the call is an action all
the same, and the property names the case and says what happens in it; the
Findings list these. A hash map's client has a program, the set of operations it
uses, because what the map promises depends on it.

A state from which a call would run on in memory that is no longer the object's
is the last of its behaviour, and says so in a variable: `badPointer` of
`PoolAllocator`, `lack` of `Builder`, `fate` of `OwnedString`.

Memory is numbers: arenas deal in units of eight bytes, what they round to, and
in bytes where an address is compared (`PoolAllocator`); `VecSOA`, `Builder` and
`OwnedString` keep the cells of their storage, with a value for what was never
written, so that reading stale memory shows. Characters are those the code
tells apart. `RefCount`, `JsonParser` and `quickParallel` recurse in the code and
keep their call stacks as sequences, so that other calls or other threads come
between. Matrices and quaternions have integer components and turn by quarters,
for which sines and cosines are whole: equalities are exact, and rounding is
left out.

`LoggerRing` moves bytes: `push` is up to three copies, each with the object and
the offset it copies from, `pop` the header read from one or two places and the
two views it returns, as long or negative as the code makes them. `Logger` treats
the ring as the queue that `LoggerRing` implements; the length of a message and
the byte budget decide what fits.

## Runs

| run | configuration | shows | size |
|---|---|---|---|
| `pool_safe` | two clients, two workers, a fork-join tree of closures, two-slot ring, spurious wakeups | conservation, the exact counter, no worker asleep over a task, what `wait` and `destroy` promise, no join cycle | 765 000 states |
| `pool_live` | one client, two workers, a one-slot queue, a closure added by `addRetryOrDo` with a future, fairness | a blocked `wait` has its notifier; accepted tasks run; `wait`, `Future::wait` and `destroy` return, and the one thing that can keep them from it is a future that nobody will signal | 69 000 |
| `pipeline` | three stages, two packages, two callers, failing allocations, spurious wakeups | order, exact counter, no early `wait`, no use after free, packages get through | 121 000 |
| `pipeline_destroy_hangs` | two stages, one caller | `destroy` can block for ever | violation |
| `spsc` | four slots, seven pushes, forced pushes under a lock | no race, FIFO, one value lost per bump, nothing stays for ever | 238 000 |
| `spsc_force_races` | four slots, forced pushes without a lock | the ring can lose all its values | violation |
| `mpmc` | two cells, 4-bit positions, two producers, two consumers, nine pushes, `empty` with its loads in either order | exclusive cells, FIFO, justified refusals, what `empty` tells in each order | 2 520 000 |
| `logger` | two writers, one racing with `destroy`, a ring of eight bytes with headers of two, one text too long for it, spurious wakeups, fairness | what is accepted is written, in order, in time; nobody spins for ever; `destroy` returns | 17 000 |
| `logger_uninit` | leftover memory in `m_bDead` | `Log` can spin for ever | violation |
| `containers` | three keys, ring capacities to 8, a log ring of sixteen bytes, up to six elements on up to three threads with any batch up to three, vectors of six, two columns, three objects in each arena, two nested scopes, pools of four, two blocks of chunks, two counted objects | map and set answer as a dictionary, rings are deques and the log ring a queue of messages, iterations see each element once, `parallelFor` visits each once and says when it reaches further, vectors are sequences, objects live apart and die when they should, handles and chunks are one's own, counts are exact | 1 540 000 |
| `library` | nine and six tree nodes, five list nodes, heaps of seven, arrays of six, three buffers, texts of three to six characters, two fields of a format, JSON texts of four characters and of nested nodes, three options of a command line, two moves | trees stay balanced, ordered and walkable, lists agree both ways, heaps give their maximum, sorts permute into order and parallel ones share no element, rope and piece list spell their text and free their buffers, texts and numbers are those given, JSON and options are read as written, transforms compose and invert | 481 000 |
| `map_duplicates` | the map with a client of `emplace` and `remove` | a removed key can still be found | violation |

### Bounds

- Two workers and two clients are the fewest for which a signal can go to the
  wrong thread and a thief can be outside the pool; a ring of capacity two has
  one usable slot, so adders meet a full queue; the tree has a fork inside a
  fork, so a stolen closure can bury one that waits.
- Three stages give a first, a middle and a last one, which the code treats
  differently; two packages suffice to overtake.
- Seven pushes go round four slots almost twice and leave every slot written
  by two rounds. Nine pushes at four bits take positions from 7 to -8.
- A ring of sixteen bytes with headers of three meets the end of the ring with
  every split of a header and of a text.
- The map's keys 1 and 2 collide in the last bucket of every table and key 3
  starts at the first, where their chains go on; capacities go from 2 to 16, so
  a chain wraps, fills with deleted buckets and is rehashed. The ring queue
  grows three times, from every head position of a full ring of four. With nine
  tree nodes a removal's rebalancing climbs more than one level; two of them
  are equal. Five list nodes need three merge passes with a short last run.
  `SMALL` is 2 instead of 32 so that `quick` partitions arrays of three and
  more, and `ALONE` 1 instead of 8192 so that a parallel sort of six forks
  more than once. Up to six elements on up to three threads give `parallelFor` shares
  with every remainder, fewer elements than threads, and none; with `MaxBatch` of
  three a batch exceeds the share of a thread.
- The vectors grow from capacities 0, 1 and 3, so that every call meets a full
  one. Two columns of different widths suffice to misplace one. Six splay nodes
  have paths of both zig-zig and zig-zag; a rope takes
  four insertions; those of a piece list, of up to two characters, are split,
  shortened and dropped.
- Three objects in an arena: one lies between two others. Scopes nest twice;
  `ArenaList` has two blocks, one of them larger than the first, so that an inner
  scope can cut off a block that the outer one knew. A pool of four fills up and
  reuses two handles in either order. Chunks come in four shapes: a power of two
  that fills its block, one that leaves a rest, one whose block size is rounded to a
  size that is no power of two, and one whose last chunk is too short for `free`;
  two blocks make `free` look for the right one. Two counted objects can point at
  each other, and weakly at themselves.
- Texts of length three with an empty one, of a newline, a space, a sign, a digit
  and a letter, tell the comparisons and the numbers apart; buffers of one, three
  and five characters meet the zero byte at every push, and widths up to four are
  above and below the lengths of the texts; a `VString` of three bytes leaves its
  buffer with the first text that does not fit, and texts of five make it grow
  once more. Two fields suffice for one to take the other's argument, and a buffer
  with room for one push for the format to end early.
- Ten characters are those the lexer tells apart: the digits, the letters that are
  hexadecimal and those that are not, a point, quotes, escapes, blanks and
  parentheses. Four characters put any two tokens side by side and end in any
  escape; the parser's texts are nested two deep and are also given with each one of
  their commas, colons and parentheses left out. Three options: one on either side
  of the one that ends the line. In all of these the client may make any call at any
  time.
- `MaxPushes`, the finite sets of closures, packages and messages, and
  `NobodyLags` are the only bounds; counters are bounded by them.

### Fairness

Runnable threads run: weak fairness for each thread's steps. Strong fairness is
assumed where a thread asks again and again for a mutex, or retries an
exchange or a load: a mutex of the system that is released infinitely often is
acquired in the end, and a store becomes visible in finite time. Spurious
wakeups and the program's decision to call anything have no fairness: nothing
may depend on them. `pool_live` has one client, because `Notify` wakes a single
waiter and two concurrent `wait` calls are not both served (`ThreadPool.hh:209`).

`pool_live`, `containers`, `map_duplicates` and `library` do not check for deadlock:
a pool whose thread waits for a future that nobody signals stops
(`IThreadPool.hh:151`), and a client of a container stops when it is done, when the
container is full, or at one of the failures named below.

## Findings

- `Pipeline.hh:101`: `destroy` stores the flag and signals without the stage's
  mutex, the last stage signals `m_cndWait` without `m_mtxWait` (`:177`); each
  can fall between the other side's test and its sleep, and `destroy` never
  returns (`pipeline_destroy_hangs`).
- `QueueSPSC.hh:80`: `forcePushBack` writes the index `popFront` also writes; a
  late store of the consumer takes the head back and the ring counts as empty
  (`spsc_force_races`). With a lock around both the queue is sound (`spsc`).
- `Map.hh:494`: an insertion stops at a deleted bucket in front of the key it
  looks for and inserts a second copy; after `remove` the first one is found
  again (`map_duplicates`). `tryEmplace` searches first and is sound
  (`containers`). Deleted buckets stay until a rehash, which only occupied ones
  bring about: once no bucket is unused, a search for an absent key never ends.
  The module has this as the state `hung`; `SearchesEnd` says that from the default
  load factor it takes a table of which half is deleted.
- `Logger.hh:195`: the drain thread starts before `m_bDead` is initialised and
  may leave at once; loggers then spin once the ring is full (`logger_uninit`).

Modelled, and named in the properties as the cases in which a call does not do
what its name says; the runs and, where there is one, the theorem pass with just
these exceptions:

- Futures: `addRetryOrDo(pFut, cl)` that calls the closure itself never signals the
  future (`IThreadPool.hh:151`); who waits for it waits for ever, with everything
  below on its stack (`Abandoned`, in `AcceptedTasksRun` and `EveryCallReturns`).
- `parallelFor` with fewer elements than threads, none included, or with a
  `minBatchSize` above a thread's share hands out batches beyond the span
  (`ThreadPool.hh:376`; the last part of `VisitsOnce`). Every element is visited
  once also then.
- `QueueMPMC::empty` compares two loads whose order the language leaves open
  (`src/WIP/QueueMPMC.hh:186`); compiled with the enqueue position first it can
  answer that a queue is empty that never was (`AnswersAreTrue`).
- `Pool`: the reverse iterator increments (`Pool.hh:172`): it walks forward, off the
  arrays. `PoolSOA`: once the last slot is free, `end()` is a place the forward walk
  does not come by (`PoolSOA.hh:194`). `IteratesHeld` says exactly when each holds.
- `PoolAllocator`: `free` tests an address against the block's capacity from where
  the block begins, but the chunks begin a header further (`PoolAllocator.hh:167`).
  The last chunk, when it is no longer than the two headers, is found in no
  block, trips the assertion `bad pointer?`, and without it the null block is
  written to: 8 bytes in blocks of 64, for instance (`FreeFindsBlock`).
- Arenas: "Run deleters on reset()/freeAll() or state restorations"
  (`IArena.hh:105`) holds of `Arena`. The states of `ArenaList` and `BufferAllocator`
  do not restore the current list of deleters, which dangles once a scope has
  ended; `reset`, `freeAll` and `shrinkToFirstBlock` of `ArenaList` run no deleters
  (`DestructsDead`). The end of an inner scope of `ArenaList` can cut off a block
  of the outer one, which is then never freed; the objects in it are intact all
  the same (`LiveIntact`).
- Sorting: `push` with the order as an argument calls the increasing one for `DEC`
  too (`sort.hh:295`, `:304`); it leaves a decreasing array unsorted but for a value
  equal to its first (`SortsPermutation`).
- `VString`: `push` of one character writes a byte behind an allocation it fills
  (`String.hh:869`); `reallocWith` and `steal` of a shorter text on the stack leave
  the bytes of the longer one, which the next push shows (`:979`, `:759`);
  `removeNLEnd(false)` on the stack removes nothing (`:1010`); `steal` over an
  allocated string loses the allocation and, for a short text, writes into the
  pointer to it (`fate`, in `HoldsText`).
- `StringView`: `operator==` takes views of one start for equal whatever their sizes
  (`String.hh:277`); `operator-` counts down and does not end before it leaves the
  texts (`:305`) unless they are of different sizes or empty (`ComparesTexts`).
- Printing: a `Builder` given a width below the length of the text asks for too
  little room and writes past its buffer, by at most the difference
  (`print.hh:129-137`; `TypeOK` of `Builder`).
- JSON: a number with an exponent and no point, `1e5`, is lexed as a whole one and
  read as its digits before the `e`, here 1 (`src/json/Parser.cc:144`); the strings
  `"null"`, `"true"` and `"false"` in arrays become the words (`Read`, in
  `ReadsJson`).

Met while modelling, outside of what the runs allow their clients or of what is
modelled:

- pool: a closure that does nothing but retry its adds spins when every worker
  does (`IThreadPool.hh:105`); `wait` wakes one waiter (`ThreadPool.hh:209`),
  must not be called from a task, and reads the counter relaxed (`:261`).
- `QueueMPMC`: a capacity of 1 is accepted and does not work
  (`src/WIP/QueueMPMC.hh:80`).
- `Logger`: a message longer than an empty ring is retried for ever
  (`Logger.hh:291`); `destroy` may destroy the mutex under a late `add` (`:362`).
- `Map`: the default key is found in an unused bucket (`Map.hh:295`).
- `SList::insertAfter` has no return statement (`SList.hh:142`).
- `Pool`: inserting in a full one writes in front of its slots, removing a
  handle twice makes it free twice before the assertion (`Pool.hh:233`).
- `Vec`: pushing one of the vector's own elements reads it after the vector has
  moved; `VecSOA` does not align its columns.
- Arenas: an object of an outer scope that is reallocated in an inner one may move
  behind the position the inner one returns to; the models count it as the inner
  scope's from then on. `BufferAllocator::restoreAfterScope` captures nothing and
  always returns to an empty buffer: the client calls it on one.
- Strings: comparisons stop at a zero byte in the middle; numbers are read past
  the end of a view.
- Printing: a builder that grows the span it was given does not note that it
  allocated (`print.hh:257`); the least integer cannot be negated (`:640`).
- JSON: an array in an array is refused, and a comma before a closing parenthesis
  accepted.
- `ArgvParser`: the result of `-k` is overwritten by that of the next option
  (`ArgvParser.hh:156`), `pAnyData` is not copied (`:89`), and a valued option in
  a pack is called before the pack is refused.
- `PieceList`: the first insertion and a failing split keep a reference; `Rope`
  leaves its root dangling after `destroy`; `SplayTree::insert` leaks the node
  of a value it has.
- Maths: `operator/(f32, V4)` multiplies (`src/WIP/math-inl.hh:170`); turns by
  `M4RotYFrom` go the other way than those of quaternions; a matrix made of an
  `M3` has a zero in its last corner.

## Proofs

TLC checks the invariants below on the instances above; the theorems state them
for every value of the constants, from the assumptions the modules name and,
where a theorem says so, a hypothesis. Each follows from an inductive invariant,
`IInv` where nothing else is said, and each proof has a lemma per group of steps
and per part of the invariant.

### Thread pool (`ThreadPoolProofs`)

For every finite non-empty set of workers, any clients, closures, trees,
policies and queue capacity:

- `TypeCorrectness`, `Conservation`, `ActiveCount`: `TypeOK`,
  `NoTaskLostOrDoubled` and `ActiveIsCounted` are invariants;
- `WaitIsSound`: the action property `WaitMeansDone`;
- `NoLostWork`: `NoSleepOverTask` is an invariant;
- `DestroyIsSound`: `DestroyIsClean` is an invariant;
- `JoinsAreAcyclic`: `NoJoinCycle` is an invariant;
- `SoleClientIsNotified`: so is `WaiterWillBeNotified`, in programs with one
  client. With two it is false.

They follow from the invariant

    IInv == TypeOK /\ AddingIsOwn /\ ActiveIsCounted
            /\ NoTaskLostOrDoubled /\ WaitingIsIdle

which is inductive (`InitIInv`, `NextIInv`). None of its named properties is
inductive alone. A frame that retries an add must still hold a closure that is
new and its own (`AddingIsOwn`), or the add could queue it twice. The return of
a closure can lower the counter only of the worker whose stack empties, which
needs the equivalence of a worker's place and its stack (the second part of
`ActiveIsCounted`) and that a closure is on one stack only. A client that has
left the helping loop has an empty stack (`WaitingIsIdle`), so a step of
`wait` cannot be that of a buried frame. `WaitIsSound` reads off the invariant that
a closure neither new nor done is queued or on a stack, and that with an empty
queue and a zero counter the stack is another client's. `NoLostWork` adds an
argument of its own: a step that makes the queue non-empty leaves its thread at
the signal, and a worker that sleeps saw it empty.

`DestroyIsSound` needs a second invariant, `ShutdownInv`: past the `wait` of
`destroy` nothing is queued, counted or on a stack, and every other client is
outside the pool. Only the destroyer steps then, and workers that leave.
`JoinsAreAcyclic` needs a third, `JoinInv`: frames have ages, such that every
stack grows with age and a closure is younger than the frame that added it. The
youngest frame that waits, of any set of threads, then waits for a frame younger
still, which lies on none of their stacks. The ages are not a variable of the
model; the invariant says that they exist.
`SoleClientIsNotified`: the counter falls to zero in a step that leaves a worker
at `notify`, a thief that empties the queue is either counted or the client
itself, and one signal is enough for one waiter.

### Pipeline (`PipelineProofs`)

For any number of stages, packages and callers, with failing allocations and
spurious wakeups: `TypeCorrect`; `FifoBetweenStages` (`StagesAreFifo`);
`CounterIsExact` (`CountIsInFlight`); `StagesFreedUnused` (`FreedIsUnused`);
`WaitWaits` (`WaitMeansProcessed`). Order alone is not inductive: that a package is
nowhere twice rests on what a caller holds being new (`AddingIsNew`), and that
it skips no stage on `CameThrough`, which relates a stage to all those before
it. The counter is the cardinality of a set, finite because each step adds one.
`WaitWaits` is an induction over the stages: with a zero counter what has
reached one stage has left it. `FreedIsUnused` needs `StopInv`, the pipeline's
counterpart of `ShutdownInv`.

### Single-producer single-consumer queue (`QueueSPSCProofs`)

For any number of pushes and any `CAP > 1`, without forced pushes or with them
under a lock (`Forces # "unlocked"`; without one the properties are false, see
`spsc_force_races`): `SlotsAreNotShared` (`NoDataRace`), `ForcedPushCostsOne`
(`BumpDropsOne`), `ImplementsFifo` (the refinement `IsForcedFifo`). Release and
acquire enter as `ViewsAreClosed`: whoever has seen a store has seen everything
its view carries. With `FullSlots` and `EmptySlots` - the last access to a slot is
the one that a store of the tail, or one of the head a round before, has
published - every access finds the previous one in its view, however stale the
index that led to it.

### Multi-producer multi-consumer queue (`QueueMPMCProofs`)

For any threads, any number of pushes, any `Width` and any `Cap > 1`:
`CellsAreNotShared` (`ExclusiveCell`), `ImplementsFifo` (the refinement `IsFifo`),
`AnswersAreRight` (`AnswersAreTrue`, for both orders of the loads of `empty`).
`Turns` says which number each cell of the last round stands at before it wraps,
`Holders` who is inside, `Knowledge` what a thread that sleeps between load and
exchange still knows if its exchange succeeds. With one cell the number that
publishes a value is also that of the next producer's turn, so `Cap > 1` is needed;
the code accepts 1. `PowersAssumption` is what the proof uses of powers of two. That
no thread sleeps while half the range of an `int` is claimed (`NobodyLags`) is a
guard of the model, and so a condition of these theorems.

### Logger (`LoggerProofs`)

For any writers, messages and sizes, in a ring that can hold a header,
`NothingIsLost`: what `add` took is in the
file, in the drain thread's hands or in the ring, once and in order.
`DestroyWritesAll` (`OutputIsAccepted`): nothing is left once `destroy` has joined
the drain thread, under the hypothesis `StackByte = {FALSE}`, that `m_bDead` does
not start out true; without it the property is false (`Logger.hh:195`).

### Rings, batches, vectors and pools (`ContainersProofs`)

Theorems of the specification of `MCContainers`, so of the properties the run
`containers` checks, for every value of its constants.

Queues, for any elements and capacities (`QueueSizes`): `QueuesAreDeques`
(`IsDeque`), `Queue` and `QueueArray` refine the deque of `QueueContract` over all
pushes, pops, clears and growth. The invariant says that the cells from the head
on are a sequence, or that there is no array yet; growing moves a ring onto a
larger one.

The logger's ring of bytes, for any texts, capacity and size of a header
(`RingSizes`):

- `ItemsAreHeld`: between the two indices lie the queued entries, whole and in
  order (`RingHoldsItems`, which is inductive);
- `OldestIsFound`: `pop` reads the header of the oldest, also when it is cut;
- `RingIsExact` (`RingIsQueue`): the ring refines a queue of messages that refuses
  one exactly when its bytes do not fit; the bytes that reach the file are those
  of the text, also when the size of the second view is negative; and no copy or
  view leaves `m_pData`, the header or the text.

The three ways to lay out an entry and the three to read one are shown to be
the same: byte `k` of an entry that begins `n` bytes behind the first is at
`(m_firstI + n + k) % m_cap`.

`IterationIsOnce` (`IterationIsExact`), for any number of threads and elements and
any `minBatchSize` (`BatchSizes` bounds them by numbers and says no more): the two
iterations of a queue agree, and `parallelFor` visits no element twice and has
visited all when it has waited. `BatchInv` gives every future its stretch of the
data, the remainder the last, and says that an element has been visited once if the
task of its stretch has passed it and not at all otherwise. That stretches do not
overlap and together cover the data comes down to `nThreads * batch + remainder =
spSize` where there is a remainder, and to `nThreads * batch >= spSize` where there
is none. The threads' stretches then reach past the data, up to `Reach`, unless
every thread has an element and `minBatchSize` is no more than its share; that in
this case none does is the last part of the property.

`VectorsHoldSequences` (`VectorsAreSequences`), for any elements and capacities
(`VectorSizes`): `VecInv` says that the cells begin with the client's sequence, whose
length is `m_size`. A call is a composition of `memMove` and assignments to single
cells; each of these has a lemma that says how a memory begins after it if it
began with a sequence before, so that inserting a span in the middle of a vector
that has to grow is three such lemmas in a row.

`PoolsStaySound` (`PoolsAreSound`), for any capacity, sizes of chunks and number of
blocks (`PoolSizes`). `PoolInv`: the free handles are distinct, and are those that
were handed out and are not held. `ChunkInv`: in every block the chunks on the free
list and the client's are apart and together all of them, at multiples of the
chunk's size, and `used` counts the client's. `PoolSizes` asks for slots and
for blocks with room for a chunk, no more. That `free` finds a chunk's block is
then arithmetic about the last chunk; it comes out that it does for every shape in
which that chunk, with what the capacity leaves behind it, is longer than the two
headers, and the theorem says so of the others that these are the only ones in
which `free` may fail (`FreeFindsBlock`).

### Arenas and reference counts (`MemoryProofs`)

`ObjectsStayIntact` (`MemoryIntact`) and `DestructorsRunOnce` (the action property
`DeletersRun`), for any objects, sizes, pages, reservations and depths (`ArenaSizes`),
of all three arenas. The second says in which calls deleters run: in `Arena`
whenever an object dies, without a condition; in `BufferAllocator` so too, but
nothing is said once the current list dangles; in `ArenaList` at the end of a
scope, under that condition, and not at all in `reset`, `freeAll` and
`shrinkToFirstBlock`. Neither the separation of objects nor the registration of
deleters is inductive alone:

- an allocation is placed at the position, so objects must lie below it, and a
  reallocation in place moves the position, so the object that grows must be the
  last, which needs `m_pLastAlloc` to be the start of an object or of memory
  nobody lies behind (`LiesBelow`);
- a scope's end moves the position back, so all objects that outlive it must lie
  below the position it captured and, if they reach behind the last allocation it
  captured, be that allocation (`Outlive`);
- the deleters run for the current list, which holds the objects of one depth in
  the order they were made, the youngest of a block first (`ListsFor`).

`ArenaInv` and `BufferInv` say this of one block, `ArenaListInv` of a chain. There
a scope's end also cuts the chain and drops the blocks in front of the one it
captured. For every open scope the block it captured exists and, while it is in the
chain, what outlives the scope lies in it below the captured position or in the
blocks behind it (`CapturedIn`); and what an outer scope captured is the same block
as, or behind, what an inner one did (`Behind`), so that the end of an inner scope
leaves an outer one what it needs. `ScopesIn` says both of all open scopes. An outer
scope can find its block no longer in the chain; the objects in it stay where they
are.

`CountsAreThoseOfPointers` (`CountsPointers`), for any finite set of control blocks
(`RefSizes`) and any number of pointers: at every point of nested destructions a
strong count is the number of the client's pointers, of those in other objects,
and of the calls of `unref` under way, and likewise the weak count, plus one for a
living object. `RefInv` says so of blocks that live and that nothing refers to one
that does not; it adds what destructors promise: an object holds only pointers to
younger ones (`OwnsInOrder`), and every call that destroys an object has the
`weakUnref` of the same block below it (`ThenWeakUnref`), which makes its block live
until it returns. Sums over objects are cardinalities of fibres, which change by
one with each pointer taken or given up. That nothing leaks when the client has
no pointer left follows from the order: the oldest living object would have to be
held by an older one.

### What the proofs rest on

Nothing but the named assumptions, the theorems of the TLAPS library and
`ProofLemmas`. The assumptions on the constants of `MCContainers` say what the
constructors get: sizes are numbers, an object has a size, a block room for a chunk;
TLC evaluates them on every run of the module, and the theorems hold for any
`Parts`. `NatSetInduction` derives induction over the naturals, for the
members of a set, from well-foundedness; with it the recursive functions `Kept`,
`Bytes` and `Ends` (not `RECURSIVE` operators) are shown to exist and to unfold.
`%` stands for the code's `& (cap - 1)`, which is the same for powers of two; where
the proofs need no power of two they hold for other capacities as well.

Only model-checked:

- liveness: `AcceptedTasksRun`, `EveryCallReturns`, `PackagesGetThrough`,
  `EveryValuePassed`, `AcceptedIsWritten` (fairness and `ENABLED` are out of the
  prover's reach);
- `IsMap` and `EntriesAreExact` of `containers`: the buckets a hash walks, the bytes of
  a column and the slots of an iteration are given by folds and recursive
  functions over data, and what those compute for every input is an induction
  over data;
- the five properties of `library`, on trees, lists, heaps, sorts, texts,
  printing, parsing and maths: their modules walk links and texts with `RECURSIVE`
  operators, which the prover's arithmetic backend does not take.

## Not modelled

- Bounded retries, the per-thread arenas of the pool, closures that only retry
  when the queue is full, `wait` called from a task.
- Relaxed accesses in the pool and the pipeline that do not order the tasks'
  own data (`ThreadPool.hh:261`, `Pipeline.hh:175`).
- `timedWait`, `CallOnce`, read-write locks, Windows branches.
- In the containers: the key `K {}`; rings whose client mixes growing pushes
  with those that keep a slot free; ownership of nodes (`RBTree::insert` does not
  free the node when it refuses a duplicate); iterators held over a change; `SOA`
  and `FuncBuffer`, which are storage without operations of their own. What does
  not compile when instantiated is left out: `Heap::minExtract`, the heap's
  builders from a vector, `ref` of the scope guard of a weak pointer;
  and `SList::insertAfter`, which returns nothing.
- Counts of references shared between threads: they are plain integers.
- Texts: multibyte iteration and display width (`wcwidth.hh`);
  formatting of floats, containers and user types; writing
  and walking JSON trees; usage texts of the command line.
- Rounding, interpolation and projections of the maths, and the intrinsics of
  `src/WIP/simd.hh`, which are one instruction each.
- Allocator back ends, files and directories: wrappers of system calls. The
  small headers: stateless helpers.

## Plan

1. Thread pool with futures, proofs of its safety - done.
2. Pipeline; SPSC and MPMC queues, logger, its ring and the ring queues against
   `QueueContract` - done.
3. `Map` and `Set` against `MapContract`; trees, heap, lists, vectors, sorts,
   `parallelFor`, rope and piece list - done, as the parts of one run.
4. Allocators, reference counts, strings, printing, JSON, command line and
   maths - done, as the parts of a second run.
5. Proofs of every safety property of the concurrent parts, of the refinements of
   `QueueContract` by all four rings - done.
6. Proofs about the sequential components without recursive operators: vectors,
   pools, `parallelFor`, the arenas and the counts of `RefCount` - done. Open:
   `HashMap` refining `MapContract` as long as no search hangs, and the columns of
   `VecSOA`.
7. A model of the pool with the memory order its counter really has; an
   abstract pool of tasks that `ThreadPool` implements.
