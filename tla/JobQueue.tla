-------------------------------- MODULE JobQueue --------------------------------
(***************************************************************************)
(* job_queue.hpp: add_job and get_job share the list job_list_, its        *)
(* critical section list_lock_ and the semaphore sem_.  Unlike             *)
(* thread_pool, add_job raises the semaphore while it holds the lock, the  *)
(* semaphore's maximum is small (1000), get_job does not look whether the  *)
(* list is empty, and jobs are copied in and out by value, so that a copy  *)
(* may throw: when a job is pushed, when the front is copied, and when the *)
(* local copy is returned, after pop_front has removed the original.       *)
(***************************************************************************)
EXTENDS Integers, Sequences, FiniteSets, Functions, Semaphore

CONSTANTS
    Getters,      \* threads that call get_job
    Adders,       \* threads that call add_job
    SemMax,       \* the maximum count of sem_ (1000 in the code)
    MaxCalls,     \* bound: the calls of add_job each adder makes
    NoOwner       \* the owner of list_lock_ when it is free

ASSUME CallerAssumption ==
    /\ IsFiniteSet(Getters) /\ IsFiniteSet(Adders)
    /\ Getters \cap Adders = {}
    /\ NoOwner \notin Getters \cup Adders
ASSUME CallAssumption == SemMax \in Nat \ {0} /\ MaxCalls \in Nat

VARIABLES
    sem,        \* the count of sem_
    jobs,       \* job_list_
    list_lock,  \* the owner of list_lock_
    gpc,        \* where each getter is
    apc,        \* where each adder is
    calls,      \* calls[a]: the calls of add_job a has begun
    job,        \* job[g]: the copy get_job made of the front
    got,        \* history: got[g] is the set of jobs returned to g
    lost,       \* history: the jobs whose copy threw when get_job returned them
    refused,    \* history: the releases that found the semaphore at its maximum
    thrown      \* history: the calls of get_job whose copy of the front threw

queueVars == <<sem, jobs, list_lock, gpc, apc, calls, job, got, lost, refused, thrown>>

\* A job is named by its adder and the number of its call.
Jobs == Adders \X (1 .. MaxCalls)
NoJob == <<>>

\* "idle": before sem_.acquire() returns; "acquired": it returned, the count is
\* down by one; "locked": HOLD_LOCK is through; "copied": job is a copy of the
\* front.
GetterPC == {"idle", "acquired", "locked", "copied"}
\* "locked": HOLD_LOCK is through; "pushed": the job is in the list.
AdderPC == {"idle", "locked", "pushed"}

QueueInit ==
    /\ sem = 0
    /\ jobs = <<>>
    /\ list_lock = NoOwner
    /\ gpc = [g \in Getters |-> "idle"]
    /\ apc = [a \in Adders |-> "idle"]
    /\ calls = [a \in Adders |-> 0]
    /\ job = [g \in Getters |-> NoJob]
    /\ got = [g \in Getters |-> {}]
    /\ lost = {}
    /\ refused = 0
    /\ thrown = 0
--------------------------------------------------------------------------------
(* add_job *)

LockToAdd(a) ==
    /\ apc[a] = "idle"
    /\ calls[a] < MaxCalls
    /\ list_lock = NoOwner
    /\ list_lock' = a
    /\ calls' = [calls EXCEPT ![a] = @ + 1]
    /\ apc' = [apc EXCEPT ![a] = "locked"]
    /\ UNCHANGED <<sem, jobs, gpc, job, got, lost, refused, thrown>>

PushBack(a) ==
    /\ apc[a] = "locked"
    /\ jobs' = Append(jobs, <<a, calls[a]>>)
    /\ apc' = [apc EXCEPT ![a] = "pushed"]
    /\ UNCHANGED <<sem, list_lock, gpc, calls, job, got, lost, refused, thrown>>

\* Mutant: the semaphore is raised although the copy of the job threw.
PushThrowsRaised(a) ==
    /\ apc[a] = "locked"
    /\ sem' = Released(sem, SemMax)
    /\ list_lock' = NoOwner
    /\ apc' = [apc EXCEPT ![a] = "idle"]
    /\ UNCHANGED <<jobs, gpc, calls, job, got, lost, refused, thrown>>

\* The copy of the job, or its node, throws; the holder frees the lock.
PushThrows(a) ==
    /\ apc[a] = "locked"
    /\ list_lock' = NoOwner
    /\ apc' = [apc EXCEPT ![a] = "idle"]
    /\ UNCHANGED <<sem, jobs, gpc, calls, job, got, lost, refused, thrown>>

\* Mutant: the semaphore is left alone.
RaiseForgotten(a) ==
    /\ apc[a] = "pushed"
    /\ list_lock' = NoOwner
    /\ apc' = [apc EXCEPT ![a] = "idle"]
    /\ UNCHANGED <<sem, jobs, gpc, calls, job, got, lost, refused, thrown>>

\* sem_.release(), then the end of the lock's scope.
Raise(a) ==
    /\ apc[a] = "pushed"
    /\ sem' = Released(sem, SemMax)
    /\ refused' = IF Refuses(sem, SemMax) THEN refused + 1 ELSE refused
    /\ list_lock' = NoOwner
    /\ apc' = [apc EXCEPT ![a] = "idle"]
    /\ UNCHANGED <<jobs, gpc, calls, job, got, lost, thrown>>
--------------------------------------------------------------------------------
(* get_job *)

Acquire(g) ==
    /\ gpc[g] = "idle"
    /\ Signalled(sem)
    /\ sem' = Acquired(sem)
    /\ gpc' = [gpc EXCEPT ![g] = "acquired"]
    /\ UNCHANGED <<jobs, list_lock, apc, calls, job, got, lost, refused, thrown>>

\* Mutant: get_job does not hold list_lock_.
EnterUnlocked(g) ==
    /\ gpc[g] = "acquired"
    /\ gpc' = [gpc EXCEPT ![g] = "locked"]
    /\ UNCHANGED <<sem, jobs, list_lock, apc, calls, job, got, lost, refused, thrown>>

LockToGet(g) ==
    /\ gpc[g] = "acquired"
    /\ list_lock = NoOwner
    /\ list_lock' = g
    /\ gpc' = [gpc EXCEPT ![g] = "locked"]
    /\ UNCHANGED <<sem, jobs, apc, calls, job, got, lost, refused, thrown>>

\* front() of an empty list is undefined: FrontDefined below says it never is.
Copy(g) ==
    /\ gpc[g] = "locked"
    /\ jobs # <<>>
    /\ job' = [job EXCEPT ![g] = Head(jobs)]
    /\ gpc' = [gpc EXCEPT ![g] = "copied"]
    /\ UNCHANGED <<sem, jobs, list_lock, apc, calls, got, lost, refused, thrown>>

\* The copy of the front throws: the count is spent, the job stays in the list.
CopyThrows(g) ==
    /\ gpc[g] = "locked"
    /\ jobs # <<>>
    /\ thrown' = thrown + 1
    /\ list_lock' = NoOwner
    /\ gpc' = [gpc EXCEPT ![g] = "idle"]
    /\ UNCHANGED <<sem, jobs, apc, calls, job, got, lost, refused>>

\* job_list_.pop_front(); the copy is no longer in the list.
PopFront(g) ==
    /\ gpc[g] = "copied"
    /\ jobs' = Tail(jobs)
    /\ job' = [job EXCEPT ![g] = NoJob]
    /\ list_lock' = NoOwner
    /\ gpc' = [gpc EXCEPT ![g] = "idle"]
    /\ UNCHANGED <<sem, apc, calls, refused, thrown>>

\* return job, and the end of the lock's scope.
Return(g) ==
    /\ PopFront(g)
    /\ got' = [got EXCEPT ![g] = @ \cup {job[g]}]
    /\ UNCHANGED lost

\* The copy or move that return makes of job throws, unless the compiler leaves
\* it out: the job is in no list any more, and the caller has not got it.
ReturnThrows(g) ==
    /\ PopFront(g)
    /\ lost' = lost \cup {job[g]}
    /\ UNCHANGED got

\* Every add_job is over and every getter blocks in sem_.acquire().
Quiescent ==
    /\ \A a \in Adders : apc[a] = "idle" /\ calls[a] = MaxCalls
    /\ \A g \in Getters : gpc[g] = "idle"
    /\ ~Signalled(sem)

AdderStep(a) == LockToAdd(a) \/ PushBack(a) \/ PushThrows(a) \/ Raise(a)

GetterStep(g) ==
    \/ Acquire(g) \/ LockToGet(g) \/ Copy(g) \/ CopyThrows(g)
    \/ Return(g) \/ ReturnThrows(g)

QueueNext ==
    \/ \E a \in Adders : AdderStep(a)
    \/ \E g \in Getters : GetterStep(g)
    \/ Quiescent /\ UNCHANGED queueVars

\* A call that has begun goes on, and the getters keep calling get_job.
QueueFairness ==
    /\ \A a \in Adders : WF_queueVars(PushBack(a) \/ PushThrows(a)) /\ WF_queueVars(Raise(a))
    /\ \A g \in Getters : WF_queueVars(GetterStep(g))

QueueSpec == QueueInit /\ [][QueueNext]_queueVars /\ QueueFairness
--------------------------------------------------------------------------------
(* Properties *)

\* Every variable has its type and the semaphore stays within its maximum
\* (semaphore.hpp's release at the maximum changes nothing).
QueueTypeOK ==
    /\ sem \in 0 .. SemMax
    /\ jobs \in Seq(Jobs)
    /\ list_lock \in Getters \cup Adders \cup {NoOwner}
    /\ gpc \in [Getters -> GetterPC]
    /\ apc \in [Adders -> AdderPC]
    /\ calls \in [Adders -> 0 .. MaxCalls]
    /\ job \in [Getters -> Jobs \cup {NoJob}]
    /\ got \in [Getters -> SUBSET Jobs]
    /\ lost \in SUBSET Jobs
    /\ refused \in Nat
    /\ thrown \in Nat

InFlight == {g \in Getters : gpc[g] # "idle"}
Unraised == {a \in Adders : apc[a] = "pushed"}

\* The list is longer than the semaphore's count, the getters on their way and
\* the adder about to raise it by exactly the jobs that are stranded: one for
\* each release refused at the maximum and each copy that threw in get_job.
Accounting ==
    Len(jobs) = sem + Cardinality(InFlight) + Cardinality(Unraised)
                  + refused + thrown

\* get_job calls front() and pop_front() without a test for the empty list: the
\* semaphore alone must guarantee that there is one, whatever throws elsewhere.
FrontDefined == \A g \in Getters : gpc[g] \in {"locked", "copied"} => jobs # <<>>

\* The thread between HOLD_LOCK and the end of its scope owns the lock, and its
\* locals still say what the list says.
ListExclusive ==
    /\ \A g \in Getters : gpc[g] \in {"locked", "copied"} => list_lock = g
    /\ \A a \in Adders : apc[a] \in {"locked", "pushed"} => list_lock = a
LocalsAgree ==
    /\ \A g \in Getters : gpc[g] = "copied" => job[g] = Head(jobs)
    /\ \A a \in Adders : apc[a] = "locked" => calls[a] # 0

\* Whatever is in the list, was returned or was lost comes from a call that has begun, and
\* the job that is about to be pushed is not among it.
Submitted == Range(jobs) \cup lost \cup UNION Range(got)
JobsFromCalls ==
    /\ \A j \in Submitted : j[2] <= calls[j[1]]
    /\ \A a \in Adders : apc[a] = "locked" => <<a, calls[a]>> \notin Submitted

\* The inductive invariant of the proofs.
QueueInv == QueueTypeOK /\ Accounting /\ ListExclusive /\ LocalsAgree /\ JobsFromCalls

\* add_job and get_job together are a FIFO queue that hands out each job at most
\* once: a get_job whose copy of the front throws leaves the job where it was, and
\* one whose return throws has taken it off the list for nobody.
WQ == INSTANCE WorkQueue WITH
        Consumers <- Getters, Items <- Jobs, queue <- jobs,
        closed <- FALSE, promised <- {}
ImplementsWorkQueue == WQ!Spec

\* While no release is refused and no copy of the front throws, each job in the
\* list is returned by some get_job, or lost when its return throws, as long as
\* getters keep calling.
JobsServed ==
    \A j \in Jobs : j \in Range(jobs) ~>
        j \in lost \cup UNION Range(got) \/ refused > 0 \/ thrown > 0
================================================================================
