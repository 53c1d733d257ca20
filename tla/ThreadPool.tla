------------------------------- MODULE ThreadPool -------------------------------
(***************************************************************************)
(* thread_pool.hpp: worker threads call get_work_item in a loop, producer  *)
(* threads call add_work_item, and the owner calls release_threads (or     *)
(* runs the destructor, which calls it).  The three calls share            *)
(* work_item_queue_ (a safe_list, i.e. a list that is its own critical     *)
(* section), the semaphore work_item_sem_ and the manual-reset event die_. *)
(*                                                                         *)
(* A step of a thread is the code between two points at which another      *)
(* thread can be seen to run: entering the critical section, leaving it,   *)
(* and each call on a kernel object.                                       *)
(***************************************************************************)
EXTENDS Integers, Sequences, FiniteSets, Functions, Semaphore

CONSTANTS
    Workers,      \* threads that call get_work_item
    Producers,    \* threads that call add_work_item
    SemMax,       \* the maximum count of work_item_sem_ (LONG_MAX in the code)
    MaxCalls,     \* bound: the calls of add_work_item each producer makes
    NoThread      \* the owner of the critical section when it is free

ASSUME ThreadAssumption ==
    /\ IsFiniteSet(Workers) /\ IsFiniteSet(Producers)
    /\ Workers \cap Producers = {}
    /\ Workers # {}
    /\ NoThread \notin Workers \cup Producers
ASSUME BoundAssumption == SemMax \in Nat \ {0} /\ MaxCalls \in Nat

VARIABLES
    die,       \* die_ is signalled; nothing ever resets it
    sem,       \* the count of work_item_sem_
    queue,     \* work_item_queue_
    lock,      \* the owner of work_item_queue_'s critical section
    wpc,       \* where each worker is
    ppc,       \* where each producer is
    calls,     \* calls[p]: the calls of add_work_item p has begun
    item,      \* item[w]: the local work_item of worker w, once front() gave it one
    got,       \* history: got[w] is the set of items returned to w
    refused    \* history: the releases that found the semaphore at its maximum

vars == <<die, sem, queue, lock, wpc, ppc, calls, item, got, refused>>

\* A work item is named by the producer and the number of its call.
Items == Producers \X (1 .. MaxCalls)
NoItem == <<>>

\* "working": outside get_work_item; "waiting": in wait_any; "woken": wait_any
\* returned 2, the semaphore is already down by one; "locked": inside the
\* critical section; "popping": front() returned; "exited": get_work_item returned a null pointer.
WorkerPC == {"working", "waiting", "woken", "locked", "popping", "exited"}
\* "pushing": inside push_back's critical section; "pushed": the item is in the
\* list and the semaphore is not up yet.
ProducerPC == {"idle", "pushing", "pushed"}

Init ==
    /\ die = FALSE
    /\ sem = 0
    /\ queue = <<>>
    /\ lock = NoThread
    /\ wpc = [w \in Workers |-> "working"]
    /\ ppc = [p \in Producers |-> "idle"]
    /\ calls = [p \in Producers |-> 0]
    /\ item = [w \in Workers |-> NoItem]
    /\ got = [w \in Workers |-> {}]
    /\ refused = 0
--------------------------------------------------------------------------------
(* get_work_item *)

GetWorkItem(w) ==
    /\ wpc[w] = "working"
    /\ wpc' = [wpc EXCEPT ![w] = "waiting"]
    /\ UNCHANGED <<die, sem, queue, lock, ppc, calls, item, got, refused>>

\* Mutant: die_ is an auto-reset event, which the first thread to see it resets.
WakeToDieOnce(w) ==
    /\ wpc[w] = "waiting"
    /\ die
    /\ die' = FALSE
    /\ wpc' = [wpc EXCEPT ![w] = "exited"]
    /\ UNCHANGED <<sem, queue, lock, ppc, calls, item, got, refused>>

\* wait_any reports the lowest signalled handle, and die_ comes first.
WakeToDie(w) ==
    /\ wpc[w] = "waiting"
    /\ die
    /\ wpc' = [wpc EXCEPT ![w] = "exited"]
    /\ UNCHANGED <<die, sem, queue, lock, ppc, calls, item, got, refused>>

\* Mutant: the handles passed to wait_any are swapped.
WakeForItemFirst(w) ==
    /\ wpc[w] = "waiting"
    /\ Signalled(sem)
    /\ sem' = Acquired(sem)
    /\ wpc' = [wpc EXCEPT ![w] = "woken"]
    /\ UNCHANGED <<die, queue, lock, ppc, calls, item, got, refused>>

WakeForItem(w) ==
    /\ wpc[w] = "waiting"
    /\ ~die
    /\ Signalled(sem)
    /\ sem' = Acquired(sem)
    /\ wpc' = [wpc EXCEPT ![w] = "woken"]
    /\ UNCHANGED <<die, queue, lock, ppc, calls, item, got, refused>>

LockQueue(w) ==
    /\ wpc[w] = "woken"
    /\ lock = NoThread
    /\ lock' = w
    /\ wpc' = [wpc EXCEPT ![w] = "locked"]
    /\ UNCHANGED <<die, sem, queue, ppc, calls, item, got, refused>>

\* Go round the loop when the list is empty, else copy its front.
Front(w) ==
    /\ wpc[w] = "locked"
    /\ IF queue = <<>>
       THEN /\ wpc' = [wpc EXCEPT ![w] = "waiting"]
            /\ lock' = NoThread
            /\ UNCHANGED item
       ELSE /\ wpc' = [wpc EXCEPT ![w] = "popping"]
            /\ item' = [item EXCEPT ![w] = Head(queue)]
            /\ UNCHANGED lock
    /\ UNCHANGED <<die, sem, queue, ppc, calls, got, refused>>

PopFront(w) ==
    /\ wpc[w] = "popping"
    /\ queue' = Tail(queue)
    /\ got' = [got EXCEPT ![w] = @ \cup {item[w]}]
    /\ item' = [item EXCEPT ![w] = NoItem]
    /\ wpc' = [wpc EXCEPT ![w] = "working"]
    /\ lock' = NoThread
    /\ UNCHANGED <<die, sem, ppc, calls, refused>>
--------------------------------------------------------------------------------
(* add_work_item *)

LockToPush(p) ==
    /\ ppc[p] = "idle"
    /\ calls[p] < MaxCalls
    /\ lock = NoThread
    /\ lock' = p
    /\ calls' = [calls EXCEPT ![p] = @ + 1]
    /\ ppc' = [ppc EXCEPT ![p] = "pushing"]
    /\ UNCHANGED <<die, sem, queue, wpc, item, got, refused>>

Push(p) ==
    /\ ppc[p] = "pushing"
    /\ queue' = Append(queue, <<p, calls[p]>>)
    /\ lock' = NoThread
    /\ ppc' = [ppc EXCEPT ![p] = "pushed"]
    /\ UNCHANGED <<die, sem, wpc, calls, item, got, refused>>

\* Mutant: the exception of push_back is swallowed and the release still runs.
PushSwallows(p) ==
    /\ ppc[p] = "pushing"
    /\ lock' = NoThread
    /\ ppc' = [ppc EXCEPT ![p] = "pushed"]
    /\ UNCHANGED <<die, sem, queue, wpc, calls, item, got, refused>>

\* push_back cannot allocate its node: the exception leaves add_work_item, and
\* the critical section, before the semaphore is released.
PushThrows(p) ==
    /\ ppc[p] = "pushing"
    /\ lock' = NoThread
    /\ ppc' = [ppc EXCEPT ![p] = "idle"]
    /\ UNCHANGED <<die, sem, queue, wpc, calls, item, got, refused>>

\* Mutant: the semaphore is left alone.
SignalForgotten(p) ==
    /\ ppc[p] = "pushed"
    /\ ppc' = [ppc EXCEPT ![p] = "idle"]
    /\ UNCHANGED <<die, sem, queue, lock, wpc, calls, item, got, refused>>

Signal(p) ==
    /\ ppc[p] = "pushed"
    /\ sem' = Released(sem, SemMax)
    /\ refused' = IF Refuses(sem, SemMax) THEN refused + 1 ELSE refused
    /\ ppc' = [ppc EXCEPT ![p] = "idle"]
    /\ UNCHANGED <<die, queue, lock, wpc, calls, item, got>>
--------------------------------------------------------------------------------
(* release_threads *)

ReleaseThreads ==
    /\ ~die
    /\ die' = TRUE
    /\ UNCHANGED <<sem, queue, lock, wpc, ppc, calls, item, got, refused>>

\* Every thread is done: the one way for the pool to stop.
Terminated ==
    /\ \A w \in Workers : wpc[w] = "exited"
    /\ \A p \in Producers : ppc[p] = "idle" /\ calls[p] = MaxCalls
    /\ UNCHANGED vars

WorkerStep(w) ==
    GetWorkItem(w) \/ WakeToDie(w) \/ WakeForItem(w) \/ LockQueue(w)
        \/ Front(w) \/ PopFront(w)

ProducerStep(p) ==
    LockToPush(p) \/ Push(p) \/ PushThrows(p) \/ Signal(p)

Next ==
    \/ \E w \in Workers : WorkerStep(w)
    \/ \E p \in Producers : ProducerStep(p)
    \/ ReleaseThreads
    \/ Terminated

\* A running thread keeps running, and a call of add_work_item that has begun
\* finishes.  Nobody has to call add_work_item or release_threads.
Fairness ==
    /\ \A w \in Workers : WF_vars(WorkerStep(w))
    /\ \A p \in Producers : WF_vars(Push(p) \/ PushThrows(p)) /\ WF_vars(Signal(p))

Spec == Init /\ [][Next]_vars /\ Fairness
--------------------------------------------------------------------------------
(* Properties *)

\* Every variable has its type, the semaphore stays within its maximum and the
\* critical section is owned by the thread that is inside it (lock.hpp).
TypeOK ==
    /\ die \in BOOLEAN
    /\ sem \in 0 .. SemMax
    /\ queue \in Seq(Items)
    /\ lock \in Workers \cup Producers \cup {NoThread}
    /\ wpc \in [Workers -> WorkerPC]
    /\ ppc \in [Producers -> ProducerPC]
    /\ calls \in [Producers -> 0 .. MaxCalls]
    /\ item \in [Workers -> Items \cup {NoItem}]
    /\ got \in [Workers -> SUBSET Items]
    /\ refused \in Nat

InFlight == {w \in Workers : wpc[w] \in {"woken", "locked", "popping"}}
Unsignalled == {p \in Producers : ppc[p] = "pushed"}

\* The list and the semaphore change under different locks, yet together they
\* never drift apart: each queued item is announced by the semaphore's count, or
\* owed to a worker that was already woken, or about to be announced by its
\* producer, or its announcement was refused at the maximum.
Accounting ==
    Len(queue) =
        sem + Cardinality(InFlight) + Cardinality(Unsignalled) + refused

\* get_work_item double-checks the list for emptiness: a worker that got through
\* wait_any always finds an item, so that it never goes round the loop.
WokenFindsItem == \A w \in Workers : wpc[w] \in {"locked", "popping"} => queue # <<>>

\* The thread between HOLD_LOCK and the end of its scope owns the lock.
Exclusive ==
    /\ \A w \in Workers : wpc[w] \in {"locked", "popping"} => lock = w
    /\ \A p \in Producers : ppc[p] = "pushing" => lock = p

\* The locals of the threads inside the critical section still say what the
\* list says.
LocalsAgree ==
    /\ \A w \in Workers : wpc[w] = "popping" => item[w] = Head(queue)
    /\ \A p \in Producers : ppc[p] = "pushing" => calls[p] # 0

\* Whatever was pushed or handed out comes from a call that has begun, and the
\* item that a producer is about to push is not among it.
Submitted == Range(queue) \cup UNION Range(got)
ItemsFromCalls ==
    /\ \A i \in Submitted : i[2] <= calls[i[1]]
    /\ \A p \in Producers : ppc[p] = "pushing" => <<p, calls[p]>> \notin Submitted

\* The inductive invariant of the proofs.
IInv == TypeOK /\ Accounting /\ Exclusive /\ LocalsAgree /\ ItemsFromCalls

\* get_work_item and add_work_item together behave as a FIFO queue that hands
\* out each item once; release_threads closes it, and a worker that had already
\* come through wait_any then still collects one item and no second one.
WQ == INSTANCE WorkQueue WITH
        Consumers <- Workers,
        lost <- {},
        closed <- die,
        promised <- IF die THEN InFlight ELSE {}
ImplementsWorkQueue == WQ!Spec

\* add_work_item's release "so a thread will get woken up": a queued item is
\* taken some time, unless the pool is released or the semaphore refused a count.
ItemsServed ==
    \A i \in Items : i \in Range(queue) ~>
        i \notin Range(queue) \/ die \/ refused > 0

\* release_threads reaches every worker, wherever it is in its loop and however
\* many items are still queued.
WorkersReleased == die ~> \A w \in Workers : wpc[w] = "exited"
===============================================================================
