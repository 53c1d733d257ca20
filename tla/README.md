# TLA+ verification of the dumbnose library

dumbnose is a header-only C++ library for Windows. This directory models the parts
of it that have state worth reasoning about, model-checks them on small instances
with TLC, and proves what matters most for every instance with TLAPS. Paths of
headers are relative to `src/lib/dumbnose/`. `PROJECT.json` maps every definition
that stands for code to the lines it stands for.

1. [The system](#1-the-system)
2. [The modules](#2-the-modules)
3. [The runs](#3-the-runs)
4. [The proofs](#4-the-proofs)
5. [Where code and comments disagree](#5-where-code-and-comments-disagree)
6. [What is not modelled](#6-what-is-not-modelled)
7. [Plan](#7-plan)

## 1. The system

The library has no main loop and no process of its own. It is a collection of
components that a program links, most of them thin wrappers of Win32. The ones that
keep state across calls, or that several threads share, are these:

| Component | State | Operations | What makes it correct |
|---|---|---|---|
| Thread pool (`thread_pool.hpp`, `safe_list.hpp`) | list of items with its own lock, semaphore, manual-reset event | `add_work_item`, `get_work_item`, `release_threads` | each item is handed out once and in order; the list and the semaphore, changed under different locks, stay in step; the release reaches everybody |
| Job queue (`job_queue.hpp`) | list, lock, semaphore of at most 1000 | `add_job`, `get_job` | the same; in addition `front()` is never called on an empty list, for `get_job` does not look |
| Semaphore (`semaphore.hpp`) | count | `acquire`, `release` | a release at the maximum is dropped in silence: whoever relies on it must account for that |
| B-tree (`btree/`) | nodes in blocks of a mapped file, parent and child block numbers, pointer to the root | `insert`, `find`, construction on an existing file | the tree is ordered over whole subtrees, all leaves at one depth, parent links match child links, and it is a dictionary; an allocation that throws half way leaves a tree, and a mapping that throws in the middle of a split loses no more than that node's subtree |
| Mapped file (`mmap_file.hpp`) | file, mapping, views, size | `allocate_block`, `get_reference` | no block is given away twice or lost, whatever fails; views are where their blocks are |
| Thread barrier (`thread_barrier.hpp`) | mutex, event and a count, all shared between processes | `wait` | threads go on in groups of exactly `threshold`, nobody is let out early and nobody forgotten |
| Event source (`event_source.hpp`) | listeners by number, next number, condition variable; cookies that own numbers | `register_listener`, `raise`, `wait`, and the life of a cookie | a cookie that holds a number can revoke it, no listener is without a cookie but by an assignment or by a registration that threw, a raise reaches everybody who was there all the time |
| Remote session channel (`remote_session_channel.hpp`) | flags `started_`, `connected_`, `is_controller_`, session and channel, list of sessions, two locks | `start_async`, `stop`, `connect`, and the handlers of join requests, added and removed sessions | the two ends of a connection agree who is who; a connection stays; handlers return |
| COM objects (`com_unknown.hpp`, `com_class_factory.hpp`) | reference count of each object | `AddRef`, `Release`, `QueryInterface`, `CreateInstance` | not deleted while referenced, and not left over |
| Service DLL (`service_dll.hpp`) | service state, stop event, registration in the registry | `ServiceMain`, control handler, `register_service` | a stop ends the service; a failed registration can be repeated |
| Locked containers (`safe_list.hpp`, `safe_map.hpp`, over `critical_section.hpp`, `lock.hpp`) | a `std::list` or `std::map` and a recursive critical section | the methods of the standard container, `lock()` | each call takes effect at once; an iterator kept under `lock()` stays valid; the right hand of an assignment or swap is safe if its lock is held |
| Allocation tracking (`memory_tracking.hpp`) | a static map from blocks to sizes | `operator new`, `operator delete` | every block the program has is listed with its size, and the assertion in `operator delete` holds |
| 2-3-4 tree (`btree/tree234.c`) | nodes with 1 to 3 elements, up to 4 kids, a count per kid and the parent | `add234`, `addpos234`, `index234`, `findrelpos234`, `del234`, `delpos234` | it is the list that the same operations make of an array; all leaves at one depth; counts and parents right |
| String class (`xstring.h` over `fixed_char_buf.h`) | characters in a buffer of fixed size and the end of the text | the members of `basic_string` | an edit does what `basic_string`'s does while the result is shorter than the buffer; what it leaves otherwise can be named |
| Registry key, scope guard, handles | see section 6 | | |

They interact as follows. `thread_pool` and `job_queue` are each built on a list, a
lock and a semaphore (module `Semaphore` is shared). The `btree` lives in the blocks
of an `mmap_file` and sees it as numbered blocks, with an allocation and a mapping that may throw.
`thread_barrier` is built on `mutex`, `event`, `waiter` and `shared_memory`, one
system call each. `remote_session_channel` reports through `event_source` objects and
through `status_notifier`, which is four of them. `thread_pool` keeps its items in a `safe_list`,
`mmap_file` its views in a `safe_map`, and `memory_tracking` its blocks in another. The 2-3-4
tree and the string class stand alone.

What is hard here:

* **Interleaving.** The list and the semaphore of the pool are updated in two steps;
  `raise` calls a copy of the listeners without the lock; the remote channel has a
  coroutine, a watcher and a join handler that share flags, and keeps a lock across
  `co_await`.
* **Atomicity of a system call.** `thread_barrier` is right if `SignalObjectAndWait`
  is atomic. Win32 does not say so.
* **Partial failure.** `push_back`, the copy of a job or of a listener, `allocate_block` and
  `get_reference` throw in the
  middle of an operation, and there is little that rolls back; so does an edit of a string
  that finds its buffer full.
* **Rearrangement.** Splits and merges of two kinds of trees move children, and with them
  parents, counts and places that are looked up later.
* **Limits.** The semaphore's maximum; node sizes for which the middle leaves an empty
  half; searches by halving steps without bounds; positions in unsigned arithmetic next to
  `npos`.
* **Liveness.** Work that is queued must be served, waiters must be let out, handlers
  that block one another must return.

The full list, each at its line and with the properties that cover it, is `hazards`
in `PROJECT.json`.

## 2. The modules

| Module | What it is |
|---|---|
| `Semaphore` | operators on a semaphore's count |
| `WorkQueue` | abstract: FIFO queue that hands out each item once and can be closed |
| `ThreadPool`, `JobQueue` | the two queues; each implements `WorkQueue` |
| `Dictionary` | abstract: a map that only grows |
| `BTree` | the tree in its blocks; implements `Dictionary` |
| `NodeSearch` | the loop that searches one node, step by step |
| `Barrier` | abstract: threads go on in groups of `threshold` |
| `ThreadBarrier` | the barrier; implements `Barrier` |
| `EventSource` | listeners, cookies, `raise` and `wait` |
| `RemoteSessionChannel` | peers that offer, find and join sessions |
| `SafeList`, `SafeMap` | the methods of the two containers, as functions of their contents |
| `CriticalSection` | the recursive lock, as operators on its owner and depth |
| `AtomicContainers` | abstract: containers whose calls take effect at once |
| `LockedContainers` | threads that call the containers; implements `AtomicContainers` |
| `MemoryTracking` | `operator new` and `delete` over a `SafeMap` |
| `MmapFile` | the mapped file, its size on disk and its views |
| `ComUnknown` | an object, its reference count and the threads that refer to it |
| `Tree234` | the functions of `tree234.c` and its test program |
| `FixedCharBuf`, `XString`, `XStringSearch` | the buffer; the members of `xstring` that write; those that read |
| `MC...` | values for the constants; `MCBTreeFailures` bounds the tree with failures, `MCSharedObjects` puts systems that share no state, `MCSequences` runs the node search and the string class one after the other |
| `..._proofs` | theorems about the module of that name; `Coordination_proofs` is about `JobQueue`, `EventSource`, `ThreadBarrier` and `RemoteSessionChannel`, `SharedObjects_proofs` about `LockedContainers`, `MemoryTracking`, `MmapFile` and `ComUnknown`, `BTree_proofs` about `NodeSearch` too, `XString_proofs` about `XStringSearch`; those of `Tree234` are in `Tree234Nodes_proofs`, `Tree234Deleting_proofs` and `Tree234_proofs` |

An action is the code between two points where another thread can be seen to run.
Inside a critical section that nobody else can look into, several statements are one
action; where an exception can leave in the middle, or where the lock of one object
does not protect another, they are separate.

**ThreadPool.** `GetWorkItem` .. `PopFront` are the loop of `get_work_item`: entering
`wait_any`, waking up for `die_` (which wins when both are signalled) or for the
semaphore, taking the list's lock, reading the front or going round again, and
popping. `LockToPush`, `Push` or `PushThrows`, and `Signal` are `add_work_item`; the
gap between `Push` and `Signal` is the one that `Accounting` is about. `refused`
counts the releases that found the semaphore full. Refinement mapping: `closed` is
`die`; the consumers that may still collect an item after closing are those that came
through `wait_any` before.

**JobQueue.** Here the semaphore is raised under the lock. `PushThrows`, `CopyThrows` and
`ReturnThrows` are copies of a job that throw; after `CopyThrows` the count is spent
and the job is still there, which `thrown` counts. `return job` comes after `pop_front` and copies or
moves the job to the caller: `Return` gives it to the getter (`got`), `ReturnThrows` to nobody (`lost`).
Refinement mapping: the list is the
queue, which is never closed; a job that `ReturnThrows` loses is one that the abstract consumer loses
after taking it (`Lose`).

**BTree.** Nothing in the tree locks, so that one call of `insert` is one action:
`PathFor` is the run of full nodes that `make_room` splits, topmost first; `SplitNode`,
`SplitInner`, `SplitRoot` and `InsertIntoNode` are the methods of the same names; the
location is looked up again afterwards as in the code; `root` is what
`btree::root_` points to, which `insert` updates last. `InsertThrows` is the same call
with `allocate_block` throwing at any of its allocations, with the file extended or
not: the nodes stay as they were at that moment and `root` is not updated. `MappingThrows`
is the call with `get_reference` throwing in the middle of `split_node`: a block that was not
used since the file was opened has to be mapped before its parent can be set. `HalfSplits` are the nodes that
leaves: some children moved and their entries still in both nodes, or `larger_node_`
overwritten already. `torn` remembers it, and the model stops there (`Stopped`). Which blocks the process has
mapped is not kept: any child that is linked anew may fail, but the one on the way to the
key, which the search has mapped. All other blocks that an insert touches were mapped by its search or allocated by it.
`Reopen` constructs the `btree` on the same file. `find` has no effect and is the operator
`Find`. Refinement mapping: the map is what `Find` returns for every key.

**NodeSearch.** The loop of `find_record_and_node` in one node: one action per branch.
`BTree` uses its result (`Position`, `EntryOf`), and `Correct` says that the loop
computes it.

**ThreadBarrier.** `wait()`: `Lock`, `Count` (increment, comparison, reset), then
`Pulse` and `Unlock` for the last thread or `GiveUpLock` and `StartToWait` for the
others. With `AtomicSignalAndWait` the last two are one step. `PulseEvent` releases
the threads that are blocked at that moment. Refinement mapping: the threads in the
barrier are those that are counted and the last one until it has pulsed.

**EventSource.** Every critical section is an action. `raise` is `Enter`, `Snapshot`,
a `Call` for each listener in order, `NotifyAll`. Handlers that register or revoke do
so while `raise` holds no lock, which is `Register` and `Unregister` between two calls.
`Assign` and `CopyConstruct` keep the code's directions: `operator=` moves out of its
left side, and the copy constructor, which is written `other = *this`, undoes that.
`register_listener` makes the entry and then copies the handler into it: `InsertThrows` is the
first of these failing, `RegisterThrows` the second, which leaves an entry with an empty function (`empty`). The
copy of the map in `raise` may throw (`SnapshotThrows`), and so may a handler (`CallThrows`), as the call of an
empty function does; then the rest is not called and nobody is notified.
`throughout`, `sometime`, `called` and `dropped` are histories for the properties.

**RemoteSessionChannel.** Per peer: `Created`, `CreationFails`, `StartWatcher`,
`SetStarted` are `start_async` between its suspension points; `Stop` is `stop()`, whose
effect is also part of the handler of a join request, of a successful `connect` and of
a failed start; `SessionAdded` and `SessionRemoved` are the watcher's handlers;
`Connect`, `JoinFails` and `JoinSucceeds` are `connect` before and after `JoinAsync`;
`JoinRequested` is the handler before it gets `session_lock_`, `Accept`, `SetConnected` and
`SetController` are what it does under it, one by one because the peer that is accepted can go on at once and because
the flags are read without the lock, and `Refuse` is the handler that returns without accepting.
That lock has no variable: `connect` holds it exactly while its
`JoinAsync` is open, and the handler while `handler` says how far it has come (`LockFree`). `connect` is called
with a session that `SessionList()` returned at some time (`known`). `JoinAsync` is external
and may report failure at any time, also after the other side has accepted. A removed
session that `stop()` had already cleared is `erase(end())`, undefined in C++; in the
model the peer's process ends there.

**LockedContainers.** A method is `Enter` (its holder takes the critical section, and it reads),
`Write` and `Leave`; other threads run in between as far as the section lets them. `Lock` and
`Unlock` are `lock()` and the life of the holder it returns, around which the thread makes
further calls, each of which takes the section again; on a `safe_map`, which has no `lock()`, a holder of
the public base class does the same. The threads share two lists or two maps. `operator=` of both,
and `operator==` and `swap` of `safe_map`, read or write the container on their right without its
section (the `@todo` at `safe_map.hpp:9`): callers may hold it or not. If one thread is inside such a method
while another is inside one that writes what it reads, or uses what it writes (`Clash`), that is a data race;
it is undefined what follows, and the model stops there (`RaceIsUndefined`). Two things are assumed of the callers:
`Want` takes sections in one order, and an iterator is kept only while holding the list's section.
Nodes of a list are pairs of a value and an identity, so
that an iterator is the identity of a node, which `swap` and `splice` move to and from a thread's own `std::list`;
`operator=` makes nodes with the values of the other list.
`AtomicContainers` does not say what a call does to a container: that is a parameter, for which
`LockedContainers` has `SafeList` and `SafeMap`. Refinement mapping: the contents themselves;
`Write` is the call, everything else stutters.

**MemoryTracking.** Threads run between any two calls on the map: after `::operator new` and
before `insert` (`Allocate`, `Insert` or `InsertThrows`), and between `find`, `erase` and
`::operator delete` (`Find`, `Erase`, `FreeBlock`). A freed address may be given out at once.
That a call on the map is one step is what `LockedContainers` shows.

**MmapFile.** `allocate_block` and `get_reference` hold the lock of the map of views from beginning to
end, and are one action each. Sizes and offsets count blocks, and `BlocksIn32` is the number of blocks
at which 32-bit arithmetic wraps (`block_count`, `Offset`). `ExtensionFailed` is `extend_file` throwing: the
old mapping is gone, the file may be longer, `size_` is not. `CrashInAllocate` ends the process when the
file is longer and the caller has nothing yet; `OpenExisting` starts again from the file's size.
`handed` and `twice` are histories of what was given to callers.

**ComUnknown.** Threads run between any two accesses to the count: `Release` is `Decrement` and then
`Look`, or `LookTooLate` if the object is gone by then; `CreateInstance` is the construction,
`QuerySucceeds` or `QueryFails`, and a `Release`. That a caller uses and releases only references it has is
COM's rule for callers, and is assumed.

**Tree234.** The heap is a function from node numbers to nodes, and a tree a record of it, the root
and whether there is a comparison. A call is a series of steps, each one turn of a loop of the code,
and `pc` holds the locals of the loop the call is in. `PutTurn` is the loop of `add234_internal` that puts an
element with its two subtrees into a node, and splits the node (`SplitOff`) if it was full;
`SeekTurn` with `Enter` is the way down of `delpos234_internal`, which makes sure that each node it enters has
two elements (`Shifted` borrows from a sibling, `Joined` merges and shrinks the root), and `DeleteTurn` is what
it does where that ends; `RecountTurn` and `DecreaseTurn` climb back up. Calls are begun as the
test program does: `Index`, `FindRel`, `Add`, `AddPos`, `Del`, `DelPos`, `FreeTree`. `Renamed` numbers nodes
and elements afresh after each, because only their order matters. Elements are even
numbers and keys all numbers, so that a key can be equal to an element or between two. `call.list` keeps
what the tree held when the call began (`Elements`: its elements in order), for the properties alone.

**FixedCharBuf, XString, XStringSearch.** An operation yields the text it leaves and whether it
returned, threw or ran over the buffer. `insert` moves the tail and then copies, so that the
characters may come from the string itself (`insertOwn`). `size_type` wraps at `W`, 16 in the run and in
the proofs any number that counts a buffer twice (`WidthAssumption`); arithmetic that wraps in the
code does so here. `XStringSearch` has the guards and iterators of
the find family over `std::search`, `std::find_end` and `std::find_if`, which are external.

## 3. The runs

| Run | Instance | States | Shows |
|---|---|---|---|
| `thread_pool` | 2 workers, 2 producers, 2 calls each, semaphore full at 2 | 39,655 | `Accounting`, `WokenFindsItem`, `ImplementsWorkQueue`, `ItemsServed`, `WorkersReleased` |
| `job_queue` | 2 getters, 2 adders, 2 calls each, semaphore full at 2 | 10,381 | `Accounting`, `FrontDefined`, `ImplementsWorkQueue`, `JobsServed` |
| `btree_3` | all orders of inserting up to 9 keys, 3 records per node | 2,589 | `Ordered`, `UniformDepth`, `ImplementsDictionary` |
| `btree_full` | 7 keys in 8 blocks, or 9 keys in 12 as long as no block is wasted; any allocation or mapping may throw; reopening | 34,055 | `WellFormed`: the whole structure after failures; `LossOnlyInSplits` |
| `btree_stale_root` | 7 keys, 8 blocks, any allocation may throw, reopening | violation | `FindSeesWhatInsertSees`, section 5 |
| `thread_barrier` | 4 threads meet 3 times at a barrier for 4, atomic | 250 | `Together`, `ImplementsBarrier`, `LetOutEventually` |
| `thread_barrier_gap` | 4 threads, 2 rounds, not atomic | 2,155 | `Together` holds even so |
| `event_source` | 2 cookies, 2 raisers, 2 waiters, 2 registrations | 145,144 | `HeldIsRegistered`, `RevocableUnlessOrphaned`, `RaiseReachesListeners`, `WaitersLetOut` |
| `remote_session` | 3 peers, two that connect to one another and a third to one of them, one `connect` each; the one whom both ask starts meanwhile | 148,808 | `RolesAgree`, `ConnectionIsFinal`, `HandlersReturn` |
| `tree234` | every 2-3-4 tree of up to 12 elements, sorted or not, that adding and deleting can build, and every turn of every call on it | 306,146 | `AddAgrees`, `DeleteAgrees`, `FindAgrees`, `CallsReturn` |
| `sequences` | every node of 0 to 17 records, a key in, below and above each gap; every string of a buffer for 4 characters | 2,751 | `InBounds`, `Correct`, `Terminates`; `EditsAgree`, `ReadsAgree` |
| `shared_objects` | 2 threads with two lists of 3 nodes between them or with two maps, 2 threads that allocate 3 addresses, a file of up to 6 blocks where 4 fit in 32 bits, or 3 threads with up to 3 references to an object | 443,795 | `ImplementsAtomicContainers`, `IteratorsStayValid`, `RightHandProtected`, `EveryBlockListed`, `BlocksStayApart`, `LivesWhileReferenced`; no deadlock |

The `TypeOK` of a module (`QueueTypeOK`, `BarrierTypeOK`) is part of the invariant its proofs rest on, and of `WellFormed` in the
B-tree. `thread_barrier_gap` is
worth a run of its own because it separates the two promises of the barrier: without
atomicity somebody may be left behind, but nobody gets ahead.

**Bounds, and why they are enough.**

* *Queues.* Two of each kind of thread give every pair of steps that can interleave,
  workers against producers and each among themselves. Four items against a semaphore
  that is full at two reach the refused release; the real maxima (`LONG_MAX` and 1000)
  are only larger. `SemMax` and `MaxCalls` are parameters, and what is proved about
  both queues in section 4 holds for all of their values.
* *B-tree.* Three records per node is the smallest size the split is defined for
  (`entries_[middle_]` has to exist) and the one at which the right half is empty, so
  that it splits earliest and has the extreme shape. Nine keys in all orders reach
  splits of leaves, of inner nodes and of the root, and chains of them. `MaxBlocks` is
  12 there, just enough for every order of nine keys. `btree_full` is bounded by a constraint of
  two sizes (`MCConstraint`): with seven keys in 8 blocks, failed allocations do use the file up, and an insert that
  would need more is not taken; with nine keys in 12 blocks there is a full inner node below the root, whose split a failed mapping
  interrupts. The latter is followed only where every block of the file is a node of the tree, or a mapping has failed. At this size the right half has no entries, so that a mapping fails at the larger node
  or at the middle's smaller node; one that fails at an entry (`node.hpp:319`) needs five records per node and is covered by the proofs. The comparison of
  keys is all the tree does with them, and one record suffices because no operation
  reads it; the dictionary still tells a record from none.
* *Node search.* The loop only compares keys, so that one array of each size with one
  key per gap is every case. 17 records cross two powers of two, 8 and 16; sizes beyond are
  covered by the proof.
* *Barrier.* As many threads as the threshold, over three rounds, so that fast threads
  come back while slow ones are still leaving. Other thresholds are covered by the
  proof of the refinement.
* *Events.* Two cookies suffice to copy, assign over a held number and self-assign; two
  raisers to raise concurrently; numbers are never reused, so that two registrations
  show a listener that stays and one that comes and goes during a raise.
* *2-3-4 tree.* Twelve elements make trees of three levels, and splits and merges at each
  of them including the root; a fourth level repeats what happens to the second, and the proofs are for any
  number of elements. Trees that
  differ in the names of nodes and elements are one state between two calls, and every call is
  made with every element, key and relation, and with every index up to the count.
* *Strings.* In each state every operation is tried with every string, position and count of the run, so that few states are
  many cases. A buffer of four characters is
  shorter and longer than what is put into it; two characters suffice where a search or a
  comparison asks only whether they are equal and which is less. Positions and counts (`Counts`) are those at
  the beginning, before, at and behind the end of the buffer, and `npos`; a search begins at every
  position that `size_type` counts.
* *Containers.* Two threads and two containers give every pair of calls, and every race at a right hand; three nodes, two of
  equal value, tell `unique`, `sort`, `merge` and `remove` apart, let a node go from one list
  to the other and back, and a list of one node be copied; one key with two values tells `insert` from an overwriting one. Three
  addresses leave one free while two threads are inside `new` and `delete`; what is proved
  about them holds for any number. The two threads may be exchanged (`MCSymmetry`), and states are counted up to that.
* *Mapped file and objects.* A file that may begin with more blocks than fit in 32 bits, or grow to
  as many, shows both sides of the limit. Three threads with three references let two release
  at once while the third still holds one, or not. Both are proved for all sizes.
* *Remote channel.* Mutual `connect` needs two peers, a rival for one of them a third.
  Each calls `connect` once as far as `JoinAsync` (`MaxConnects`): a request that is
  accepted after its sender gave up then meets a later request of another peer, but
  not a later request of the same one. The peer whom both others ask goes through `start_async` during the
  run, the others have done so before (`Starters`): a handler only meets a `start_async` of its own peer. What is
  proved holds for any `Starters`, all peers among them.

**Deadlock** is checked everywhere but in `remote_session`. In the queues and the
barrier the states where the program is over are named (`Terminated`, `Quiescent`,
`Over`), so that any other state without a step would be reported. In `shared_objects` that
there is none says that recursive sections taken in one order block nobody for good. In `remote_session`
every process may have ended after an `erase(end())`, and then nothing is left to run.

**Fairness, and why the code justifies it.**

* *Pool and job queue.* A thread in a call goes on (`WF` of its steps): the lock is only
  held for a few statements, and Windows schedules a ready thread. Workers and
  getters call again, which is what the loops around them do. Nobody is obliged to add
  an item or to release the pool. Weak fairness of a worker as a whole is enough
  because a wait that is satisfied for it stays so unless another worker is served.
* *Node search, 2-3-4 tree.* A loop runs.
* *Barrier.* Every thread makes its `MaxRounds` calls and goes on when it can. A thread
  that wants the mutex is fair only weakly: with `MaxRounds` calls per thread the
  others run out of calls and it gets its turn.
* *Events.* A `raise` that has begun goes on: handlers return or throw, and `lock_` is free in
  between. Waiting and registering are not assumed.
* *Remote channel.* `JoinAsync` returns in the end, if only with a failure, and a handler
  takes a lock that is free and goes on to its end. Nothing else is assumed: no request has to arrive.

Every property of a passing run is tried against a plausible bug (the operators marked
`Mutant` in the modules, listed in `PROJECT.json` under `mutants`), and found violated.

## 4. The proofs

All of it for every value of the constants; the assumptions are the named `ASSUME`s of
the module (finite, disjoint sets of threads, positive bounds), which TLC evaluates on
every instance.

**`ThreadPool_proofs`**: `TypeCorrect`, `AccountingCorrect`, `WokenWorkerFindsItem` and
`Refinement` (the pool implements `WorkQueue`). The inductive invariant `IInv` has five
parts. `Accounting` alone is not inductive: a pop shortens the list by one only if the
list is not empty, and what is popped is the item that was read; that needs the lock
(`Exclusive`) and that the locals of whoever holds it still describe the list
(`LocalsAgree`). The argument for `WokenFindsItem` is then arithmetic: a worker between
`wait_any` and its pop is one of the summands on the right, so that the list is not
empty, which makes the retry in `get_work_item` dead code. `ItemsFromCalls` (each item in
the list or handed out is from a call that began) is what makes `Add` of the abstract
queue fresh, and with `Accounting` the number of workers that were promised an item when
the queue is closed is at most its length. `Push`, `PopFront` and `ReleaseThreads` map to
`Add`, `Take` and `Close`; everything else stutters.

**`BTree_proofs`**, in three parts.

* `SearchTypeCorrect`, `SearchInBounds` and `SearchCorrect` (`NodeSearch`). The loop keeps no bounds; the
  invariant `InBounds` supplies them: the step last made is at most the distance to either
  end plus one below, so that half of it stays inside. When it is already one, moving by one
  is safe upwards because the loop ends one past the array, and downwards because
  index 0 ends the loop. So the `return 0` after the loop is never reached.
* `TreeIsWellFormed`, with its parts `TreeTypeCorrect`, `TreeIsOrdered`, `TreeIsLinked` and `TreeIsLevel`
  (`BTree`), for nodes of three records and more, any keys and a file of any length, with allocations
  and mappings that throw. What holds in every state is `TInv`: the types, and unless a mapping left a node half split, `IInv`.
  For half a split only the types have to be kept, and for that it is enough that every
  pointer is to a node and that all nodes are in `Node` (`TreeIsClosed`, `HalfSplitIs`, `MappedStep`). The invariant `IInv` does not speak of levels and subtrees, which are
  recursive: it says (`Tree`) that there is a height for each node and a set of keys (its range) such
  that every node fits its range, hangs from its parent and is one higher than its children, whose ranges
  lie in the gaps between its keys. That is local, so that an operation has to be
  looked at only in the nodes that it touches: `SplitKeepsTree` (the half without a parent is `loose`),
  `SplitInnerKeeps`, `SplitRootKeeps`, `InsertKeepsTree`. What is recursive in the code is tied to it by
  induction over heights, written out as the least counterexample: such functions exist and are unique
  (`SolutionExists`, `SolutionUnique`), so that `FindRoot`, `Location`, `FullPath` and `MakeRoom` are what their
  equations say; the ranges can be made as wide as the gaps (`WidenIs`), so that a search that finds
  nothing ends in the leaf whose range has the key (`AbsentIs`); each split of `make_room` leaves the rest of
  the path as it was, with room in the next parent (`RoomGrows`), and in the end room in the leaf that the second search
  finds (`RouteIs`). An insert that throws stops between two splits, or inside that of the root
  (`ThrowIsSound`): there the loose half has no parent, like the root it comes from, and is a tree of its own.
* `LossOnlyInRootSplit` and `IsDictionary`, about what is stored, as long as mappings do not
  fail (`~ MappingMayFail`); the second for files whose allocations do not fail either, since section 5 shows that it is false otherwise. Both speak of a tree by its records,
  without order: `Stores(t, y, k, r)` says that some node with the root of `y` holds `r` for `k`. In these terms
  a split keeps everything (`Keeps`), an insert adds one record (`InsertStep`), and one that throws keeps
  everything or loses the upper half of the root (`UpperLost`, `ThrowStep`). The rest is that `find` finds what is
  stored (`StoredIs`): the widened ranges again, for a record can only be in the node whose range its key is
  in. A half that has come loose may still have a key of the other tree in its range; `root_` and
  block 1, where `Reopen` starts, stay in the lower tree because their ranges have no lower bound (`Low`, in `Sound`,
  the first part of `IInv`), and a loose half has one. Without failing allocations `root_` is the root itself
  (`DictInv`), so that an insert is that of `Dictionary` and reopening changes nothing.

**`Coordination_proofs`**, in four parts, one for each of the components by which threads and processes
wait for one another besides the pool. That of `JobQueue`: `QueueTypeCorrect`, `AccountingCorrect`, `FrontIsDefined`
and `QueueRefinement`, from `QueueInv`. The argument is that of the pool with one more summand, the copies that threw before
the job left the list; one that throws on the way to the caller changes nothing in it, and is a `Lose` of the abstract queue. Here it
carries more: `get_job` calls `front()` without looking, and only the inequality that
follows from `Accounting` says that the list is not empty when it does, for any
number of getters that come through the semaphore at once.

**`ThreadBarrier`** (in `Coordination_proofs`): `BarrierTypeCorrect`; `NobodyMissed` and `Refinement` under the
hypothesis `AtomicSignalAndWait`, which they need: with the gap the counterexample to
`CountIsWaiters` is three threads and one round long (section 5). No run checks that invariant by itself, for `ImplementsBarrier` sees
a thread that the pulse leaves behind. `IInv` adds to `CountIsWaiters` who
owns the mutex (`Exclusive`), that nobody is between the two halves (`NoGap`), and how
the two histories relate (`Rounds`). The heart is `AllBlocked`: when the last thread
pulses, everybody who is counted is already blocked, for to be counted and not blocked
takes the mutex, which the last thread owns. So the pulse releases all of them.
`StayTogether` needs no atomicity, only a barrier for all of its threads: `OneRound` says that each of them
has arrived `r` times or once more, and that the count is of the latter. It holds with the gap
because a thread that missed a pulse never arrives again, so that nobody is counted twice in a round.

**`EventSource`** (in `Coordination_proofs`): `HeldCorrect` (what `unregister_listener` asserts), from the invariant
that numbers held are among those given out, and that no two cookies hold one; and
`OrphansAreKnown`: a listener that no cookie holds was dropped by an
assignment onto a cookie that held it, or is the empty entry of a registration that threw. The copy constructor is shown to be
harmless.
`RaiseCallsAll` rests on `RaiseInv`: whom a raise has called and whom it has yet to call are together
the listeners of the moment when it copied them, in the order of their numbers, all of those that are there throughout, none that
never was (`CallsInOrder`). Another thread may register and revoke between any two of its calls.

**`RemoteSessionChannel`** (in `Coordination_proofs`): `TypeCorrect`, `RolesAreRight` and `ConnectionLasts`. `RolesAgree` speaks of two
peers that agree by messages, and is far from inductive. What makes it so is on the requests: a
peer that is in `connect` accepts nobody meanwhile (`LockIsHeld`), whoever accepted a request controls a session and accepted
no other peer (`AcceptedOnce`), and a participant's session is one that accepted it (`SessionsBelong`). To control a session is
to have called `Accept()` (`Controls`); the flags follow in the same handler, and the lock keeps everybody else out until they are
set. The last includes the answer that comes after its sender has given up, which makes a controller without a partner.

**`SharedObjects_proofs`**, in four parts.

* `ListIsRight`. `EveryBlockListed` is not inductive, because it does not say that a
  block in the hands of a thread is nobody else's: if two threads could be deleting one block, the first
  to free it would leave a listed address that may be given out again. `BlockInv` adds that
  (`OneOwner`). The order in the code is what keeps it: a block is listed after it is allocated and
  erased before it is freed, so that whatever is listed is allocated.
* `BlocksApart`. The property is inductive once the types are added (`FileInv`); the
  arithmetic is in the lemmas `Wraps` and `Numbers`: below 4 GB the number of blocks is the size itself, so that
  the block it names is beyond all that were given out. `ExtendedKeeps` covers the extension.
* `ObjectLives`. `Given` and `GivenBack` say what one reference more or less does to the
  number of references; `ObjectInv` adds that a thread inside `CreateInstance` still has the factory's
  reference (`Created`), without which `QueryInterface` could be called on a deleted object.
* `IteratorsValid`, `RightProtected` and `ContainersAtomic`, the refinement. `ContainersInv` says that the owner of a
  section is the one thread inside it and its depth how often that thread took it (`SectionsExclude`,
  which is where the recursion is), and that what a thread read on entering a method is what is there
  until it writes (`SeenIsThere`). On its own container that is the section's doing; on its right hand it holds
  as long as nobody is in the way, and a step is only taken while nobody is: `WritesOnly` says what a method
  changes, and `OnRight` that two methods meet nowhere but at the right hand of one of them. So `Write` does to the contents
  what the abstract call would, whatever the methods of the containers compute. `RightProtected` is the
  other half: whoever holds the section of the right hand is never in a race.

**`XString_proofs`**: `EditsCorrect` and `ReadsCorrect`. The two properties say of one text what every
operation would make of it, with any strings, positions and counts, so that they follow from the invariant that
the text fits (`StringTypeOK`); the work is in the operators. That invariant itself (`TypeCorrect`) says nothing of the
code: an edit that runs over the buffer does, and the model does not follow it. A string of `n` characters is a function on
`1 .. n`, and what an edit makes of it is put together of `Cut` and `Put`, about which the
lemmas `InsertIs` and `EraseIs` say when the buffer does what it should, throws or is overrun. The loops of
`insert_fill` and of the input iterator's `replace` are recursive functions: that they do what
the closed form says (`FilledIs`, `ReplaceInputIs`) is shown by the least step at which they would
not. A search is the least or greatest place of a set (`MinIs`, `MaxIs`), and where `pos + n` wraps is
`PlusWraps`. `OrderIs` derives a total order, the lexicographic one, from the first difference that `Traits::compare` finds.

**`Tree234Nodes_proofs`, `Tree234Deleting_proofs`, `Tree234_proofs`**: `TreeAdds`, `TreeDeletes` and `TreeFinds`, that is
`AddAgrees`, `DeleteAgrees` and `FindAgrees` for trees of any size, from the inductive invariant `TreeInv`
(`TreeIsInductive`). Each module extends the one before; the first two are about the nodes, the last about the calls.

* *What a heap stands for.* The list of a tree is defined by recursion over pointers (`InOrder`), about which
  nothing can be said one step at a time. The proofs turn it round: there is a list `G`, a height `h[y]` for each
  node and its boundaries `B[y]`, the positions in `G` of its elements and of what lies left and right of it.
  `NodeFits` says of a node and its kids alone that they agree with `G`, `Linked` that parents and kids agree;
  together this is `Standing`. With counts that are the distances of the boundaries (`Counted`), one to three elements
  in a node (`Sized`), and `G` increasing if the tree is sorted, it is `Whole`. `WholeIsSound` ties this to the code:
  the list is `G`, and `chknode` finds nothing wrong; by induction over the heights, written out as the lowest
  counterexample. `RenamedIsWhole` does the same for the names a tree has between two calls.
* *What a call touches.* A change of some nodes gives a tree that stands if those nodes fit, the others keep their
  ends, and the new kids have the right parents (`Rebuilt`, `RebuiltStands`); a change of a leaf moves the
  positions behind it (`ShiftStands`). For everything the code does there is then a theorem: `LeafPutStands`, `SplitPends`,
  `RootSplit`; `Borrowed` (case 3a, either side), `JoinStands` (2c and 3b, with the root going when it is left without
  an element), `LeafCutStands`. `EnterGoes` is the whole step down of the deletion, with the index that it goes on with.
* *Why the invariant has phases.* In the middle of a call the tree is not whole, and each loop leaves something else to
  be done. While an element goes up after splits, the tree is the one it would be if the element were put into a node of four
  (`Pending`). From there up, and after a deletion, the counts above a node are off by one: `PathCounted` says which, and by how
  much. On its way down the deletion is at a node that contains the position sought and can spare an element (`SeekAt`): without
  that a leaf could become empty. When an inner element has taken the place of its neighbour, the list is another
  one, but without the neighbour it is what the call should leave (`Losing`). `Phases` has one disjunct for each loop
  and one for a call that has returned, where the three properties can be read off (`PhasesAgree`); `TreeStep` has one case
  for each action.

**Only model-checked**: all liveness properties, which are beyond this prover, like `ENABLED`: that the calls of the
tree return, the queues serve everybody, the barrier lets everybody out, and those who wait for an event are let go.
And what a failed mapping loses in the B-tree: the proof of `LossOnlyInSplits` assumes that none fails.

## 5. Where code and comments disagree

1. **`btree_stale_root`** (`btree/btree.hpp:82`). `btree::insert` looks for the new root after
   `node::insert` has returned. If that throws after splitting the root, `find` goes on
   at the old root and misses the upper half, although the comment at
   `btree/impl_/node.hpp:339` promises the record if it exists. `insert` starts by
   walking up to the true root and refuses the same key as present. Constructing the
   `btree` again repairs it.

The rest are differences met on the way. No run is kept for them; the models do what the code does.

2. **An index out of range** (`btree/tree234.c:400`). The comment says that `add234_internal` checks the upper bound
   of the index, and `tree234.h:58` that `addpos234` returns `NULL` for an index out of range. In
   an empty tree or a leaf nothing checks it, and a larger index is taken for the last place; in an inner
   node one or two above the count an unused place behind the last kid is taken for an empty one,
   and the element is written over that kid. The run, and the proofs, keep to indices up to the count.
3. **A missed pulse** (`thread_barrier.hpp:46`). The comment says that `signal_and_wait` makes the
   operation atomic. If it does not, a thread that gave up the mutex and does not wait yet
   misses the pulse and stays behind uncounted. `Together` holds even so.
4. **A lost cookie** (`event_source.hpp:97`). `a = b` moves from `a` to `b`: what `b` held is
   registered for ever, contrary to "receive a cookie to revoke later". So does a registration whose copy of the
   handler throws (`event_source.hpp:28`), and worse: the entry it leaves is empty, and from then on every `raise` throws
   when it comes to it. `RevocableUnlessOrphaned` and `RaiseReachesListeners` state what remains true.
5. **`erase(pos, n)`** (`xstring.h:333`). The end is `begin() + min(n, size() - pos)`, counted from the
   beginning: from `pos > 0` on it erases fewer than `n` characters, or moves the tail up, over the end of the
   buffer if need be. `ErasureAgrees`, a part of `EditsAgree`, says what is left instead.
6. **A full string** (`fixed_char_buf.h:140`) of `SIZE` characters can be made by `append` or `resize`, and
   then it cannot be copied: the constructor from a range refuses `SIZE` characters. `append` itself
   does not look at the room left (`fixed_char_buf.h:60`). Where an edit throws, `assign` has cleared the text by then
   (`xstring.h:200`), `replace` between iterators has overwritten the range, and inserting copies may have
   inserted some. `EditsAgree` says so, part by part, and for which results an edit may throw or run over.
7. **`find("", size())`** yields `npos` where `basic_string` yields `size()`, and `find` of a string from
   a position so near to `npos` that `pos + n` wraps to a place in the text (`xstring.h:664`) starts outside it.
   `ReadsAgree` names both.

Some more facts show in passing runs. `LossOnlyInSplits` says what it says because
`split_root` changes the old root before its second allocation: if that throws, the keys
above the middle, and the middle itself, are lost. And `WellFormed` makes an exception for `torn`, because a
`get_reference` that throws in the middle of `split_node` leaves children that name the new node as their parent while
they still hang from the old one (`node.hpp:251`, `318-323`), or, once `larger_node_` is overwritten
(`node.hpp:326`, `454`), the old larger node hanging from nothing. The first is what `validate()` calls
"parent/child invariant violated", and the next split of such a child would put its middle
entry into a node nobody reaches; the second loses what was below the larger node, whether or not it was the root that was split. And `RolesAgree` is one-sided: who takes
part has a controller, but a controller whose partner gave up waiting is connected to
nobody, for good (`ConnectionIsFinal`). Between `Accept()` and the second flag both ends may look like participants, or one
like nothing at all, for whoever asks `is_controller()` and `is_connected()` (`remote_session_channel.hpp:187-189`), which is
why both properties look at how far the handler is. In `memory_tracking` a block stays allocated, and is nobody's,
if the insertion into the map throws (`InsertThrows`): `EveryBlockListed` speaks of the blocks the
program has. `Release` reads the count again after it has decremented it (`com_unknown.hpp:98`): the
last two holders may both find zero and delete the object twice (`LookTooLate`), which is why
`LivesWhileReferenced` promises only that nobody loses an object he refers to. And a mapped file of 4 GB is
over: `block_count` cuts the size to its low word (`mmap_file.hpp:44`), with the assertion compiled out
it is 0, no block is found any more, and `allocate_block` maps block 0, or throws if that is mapped
already; `BlocksStayApart` therefore speaks of smaller files. A file whose first mapping failed
stays empty and is refused from then on (`mmap_file.hpp:110`), which `OpenThrows` allows.

## 6. What is not modelled

`PROJECT.json` lists every component with its reason. In short:

* *Modelled in part.* In the barrier no process dies. `RegisterClassObject` of the class factory keeps
  a reference for good, and is left out. In the remote channel each peer calls `start_async` once, messages and
  raised events are left out, and `connect` is not called in a thread that would block
  itself on `session_lock_` (a second call in the thread that has to resume the first).
  An event source outlives its cookies, and a pool its threads.
* *B-tree*: what later calls do to a tree that a failed mapping left with a node half split. A mapping that fails
  in `find`, or in `insert` before anything is split, changes nothing and has no action.
* *Mapped file*: when dirty pages reach the disk, and with it what a crash in the middle of `insert`
  leaves of the B-tree; `BTree` has its blocks numbered as they are allocated. A file whose size is no
  multiple of the block size is refused by `validate`.
* *Locked containers*: what follows a data race at the right hand of `=`, `==` or `swap`, where the
  code takes no lock and a caller did not either; assignment of a container to itself; an iterator that is used
  without the lock, which may be dangling, and sections taken in different orders, which may block
  for good. Three methods of `safe_list` do not compile if instantiated: `assign(count, value)`,
  `insert(where, count, value)` and `remove_if`.
* *String class*: streams; assignment of a `const value_type*`, which does not compile (`traits_type::size`, `xstring.h:214`); `replace` with two integral arguments, which calls a member that is
  declared and not defined; what follows after the buffer was run over.
* *2-3-4 tree*: a failure of `smalloc`, which is `malloc` and not looked at; what follows a call with an index out of range; a comparison that is not a
  total order.
* *Data without control*: conversions, formatting, properties, validators, command line, random
  numbers, time.
* *One system call per method*: synchronisation wrappers, files, sockets, event log, user
  interface, processes. Where a modelled component uses one, it is part of that module.
* *Third-party or empty*: `security/`, `state_machine.hpp`,
  the project wizard.
* *Undefined behaviour that a model would only list*: `status_notifier` appends to a stream
  without a lock, and `SessionList()` copies a vector without one.

## 7. Plan

Done so far, in this order: the queues, the tree and its search, the barrier, the event
source, the remote channel, the 2-3-4 tree, the string class, the containers and what is built on
them, the mapped file, the COM objects. Next, the modules still to be written:

1. **`BTree` over `MmapFile`**, with the order in which pages reach the disk. Worth stating: which
   crashes leave a tree.
2. **`ComUnknown`**: the registration of the class factory.
3. **`ServiceDll`**: states of the service, a stop before and during `main`, registration in
   steps with a failure at each of them and a second attempt.
4. **Small components**: `RegistryKey` (delete all, then write), `ScopeGuard` and
   `WindowsHandle` (copies and ownership).
5. **`RemoteSessionChannel`**: a second `start_async`, repeated `connect`; composed with
   `EventSource`, whose handlers run under `sessions_lock_`.

Every safety invariant that a run checks is proved. With each of these modules go its own theorems.
