------------------------------- MODULE ThreadBarrier -------------------------------
(***************************************************************************)
(* thread_barrier.hpp: the barrier's mutex lock_, its manual-reset event   *)
(* event_ and the count in shared memory.  The last thread to arrive       *)
(* pulses the event, which releases the threads that wait on it at that    *)
(* moment and no others.  The rest depends on how SignalObjectAndWait      *)
(* gives up the mutex and starts to wait: AtomicSignalAndWait says whether *)
(* another thread can run between the two.                                 *)
(***************************************************************************)
EXTENDS Integers, FiniteSets

CONSTANTS
    Threads,
    threshold,              \* threshold_, the constructor's argument
    AtomicSignalAndWait,
    MaxRounds,              \* bound: the calls of wait() each thread makes
    NoThread                \* the owner of the mutex when it is free

ASSUME ThreadAssumption == IsFiniteSet(Threads) /\ NoThread \notin Threads
\* With a threshold of 0 the count never equals it: the barrier never opens.
ASSUME ThresholdAssumption == threshold \in Nat \ {0}
ASSUME ModeAssumption == AtomicSignalAndWait \in BOOLEAN /\ MaxRounds \in Nat

VARIABLES
    lock,       \* the owner of lock_
    count,      \* *thread_count()
    pc,         \* where each thread is
    arrived,    \* history: the calls of wait() that t has counted itself in
    left        \* history: the calls of wait() that t was let out of

barrierVars == <<lock, count, pc, arrived, left>>

\* "outside" of wait(); "locked": lock_ acquired; "counted": not the last one, on
\* its way into signal_and_wait; "released": the mutex is given up and the event
\* not waited for yet; "blocked": waiting for the event; "last": count is back to
\* zero, the event not pulsed yet; "pulsed": about to release lock_.
PC == {"outside", "locked", "counted", "released", "blocked", "last", "pulsed"}

BarrierInit ==
    /\ lock = NoThread
    /\ count = 0
    /\ pc = [t \in Threads |-> "outside"]
    /\ arrived = [t \in Threads |-> 0]
    /\ left = [t \in Threads |-> 0]

Goto(t, where) == pc' = [pc EXCEPT ![t] = where]

Lock(t) ==
    /\ pc[t] = "outside"
    /\ arrived[t] < MaxRounds
    /\ lock = NoThread
    /\ lock' = t
    /\ Goto(t, "locked")
    /\ UNCHANGED <<count, arrived, left>>

\* Mutant: the last thread does not count itself.
CountOneTooMany(t) ==
    /\ pc[t] = "locked"
    /\ IF count = threshold
       THEN count' = 0 /\ Goto(t, "last")
       ELSE count' = count + 1 /\ Goto(t, "counted")
    /\ arrived' = [arrived EXCEPT ![t] = @ + 1]
    /\ UNCHANGED <<lock, left>>

\* Mutant: the barrier opens one thread too early.
CountOneTooFew(t) ==
    /\ pc[t] = "locked"
    /\ IF count + 2 = threshold
       THEN count' = 0 /\ Goto(t, "last")
       ELSE count' = count + 1 /\ Goto(t, "counted")
    /\ arrived' = [arrived EXCEPT ![t] = @ + 1]
    /\ UNCHANGED <<lock, left>>

Count(t) ==
    /\ pc[t] = "locked"
    /\ IF count + 1 = threshold
       THEN count' = 0 /\ Goto(t, "last")
       ELSE count' = count + 1 /\ Goto(t, "counted")
    /\ arrived' = [arrived EXCEPT ![t] = @ + 1]
    /\ UNCHANGED <<lock, left>>

\* SignalObjectAndWait(lock_, event_): give up the mutex ...
GiveUpLock(t) ==
    /\ pc[t] = "counted"
    /\ lock' = NoThread
    /\ Goto(t, IF AtomicSignalAndWait THEN "blocked" ELSE "released")
    /\ UNCHANGED <<count, arrived, left>>

\* ... and wait for the event.
StartToWait(t) ==
    /\ pc[t] = "released"
    /\ Goto(t, "blocked")
    /\ UNCHANGED <<lock, count, arrived, left>>

\* Mutant: SetEvent on an auto-reset event lets one waiter go.
PulseOne(t) ==
    /\ pc[t] = "last"
    /\ \E go \in {u \in Threads : pc[u] = "blocked"} \cup {t} :
         /\ pc' = [pc EXCEPT ![go] = "outside", ![t] = "pulsed"]
         /\ left' = [left EXCEPT ![t] = @ + 1, ![go] = IF go = t THEN @ ELSE @ + 1]
    /\ UNCHANGED <<lock, count, arrived>>

\* PulseEvent: whoever waits for the event now goes on.
LetOut(t) == {u \in Threads : pc[u] = "blocked"} \cup {t}
Pulse(t) ==
    /\ pc[t] = "last"
    /\ pc' = [u \in Threads |->
                IF u = t THEN "pulsed"
                ELSE IF u \in LetOut(t) THEN "outside" ELSE pc[u]]
    /\ left' = [u \in Threads |-> IF u \in LetOut(t) THEN left[u] + 1 ELSE left[u]]
    /\ UNCHANGED <<lock, count, arrived>>

Unlock(t) ==
    /\ pc[t] = "pulsed"
    /\ lock' = NoThread
    /\ Goto(t, "outside")
    /\ UNCHANGED <<count, arrived, left>>

Step(t) ==
    \/ Lock(t) \/ Count(t) \/ GiveUpLock(t) \/ StartToWait(t)
    \/ Pulse(t) \/ Unlock(t)

\* Every thread has made its calls, and those that are left over wait for more
\* arrivals than will come.
Over ==
    /\ lock = NoThread
    /\ \A t \in Threads : pc[t] = "blocked" \/ (pc[t] = "outside" /\ arrived[t] = MaxRounds)
    /\ UNCHANGED barrierVars

BarrierNext == (\E t \in Threads : Step(t)) \/ Over

\* Every thread keeps calling wait() until its rounds are over, and goes on
\* whenever it can; whoever gets the mutex gives it up again soon.
BarrierFairness == \A t \in Threads : WF_barrierVars(Step(t))

BarrierSpec == BarrierInit /\ [][BarrierNext]_barrierVars /\ BarrierFairness
-----------------------------------------------------------------------------------
(* Properties *)

\* Every variable has its type, and outside the critical section the count is
\* below the threshold: only then can an arrival make them equal.
BarrierTypeOK ==
    /\ lock \in Threads \cup {NoThread}
    /\ count \in 0 .. threshold - 1
    /\ pc \in [Threads -> PC]
    /\ arrived \in [Threads -> 0 .. MaxRounds]
    /\ left \in [Threads -> 0 .. MaxRounds]

Inside == {t \in Threads : pc[t] \in {"counted", "released", "blocked"}}
LastOnes == {t \in Threads : pc[t] = "last"}

\* The thread that is inside the critical section owns the mutex.
Exclusive ==
    \A t \in Threads : pc[t] \in {"locked", "counted", "last", "pulsed"} => lock = t

\* The count in shared memory is the number of threads that wait, except for the
\* moment between its reset and the pulse.  "Use signal_and_wait to make operation
\* atomic": a thread that is counted is one that the next pulse releases.
CountIsWaiters ==
    IF LastOnes = {} THEN count = Cardinality(Inside)
    ELSE count = 0 /\ Cardinality(Inside) + 1 = threshold

\* The threads are let out of the barrier in groups of threshold, and only those
\* that were in it together.
AbstractBarrier == INSTANCE Barrier WITH waiting <- Inside \cup LastOnes
ImplementsBarrier == AbstractBarrier!Spec

\* When as many threads use the barrier as it has to wait for: no thread finishes
\* a round before every other thread has arrived in it.
Together == \A t, u \in Threads : left[t] <= arrived[u]

\* Under the same use every thread is let out of every wait() it is counted in.
LetOutEventually ==
    \A t \in Threads : left[t] < arrived[t] ~> left[t] = arrived[t]

\* What makes the above inductive.  Nobody is between the two halves of an atomic
\* SignalObjectAndWait; a thread is inside at most one round.
NoGap == AtomicSignalAndWait => \A t \in Threads : pc[t] # "released"
Rounds ==
    \A t \in Threads :
        /\ pc[t] = "locked" => arrived[t] < MaxRounds
        /\ left[t] = IF pc[t] \in {"counted", "released", "blocked", "last"}
                     THEN arrived[t] - 1 ELSE arrived[t]
IInv == BarrierTypeOK /\ Exclusive /\ Rounds /\ NoGap /\ (AtomicSignalAndWait => CountIsWaiters)
===================================================================================
