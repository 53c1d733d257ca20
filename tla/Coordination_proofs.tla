----------------------------- MODULE Coordination_proofs -----------------------------
(***************************************************************************)
(* The components through which threads and processes wait for one         *)
(* another: the job queue, the event source, the thread barrier and the    *)
(* remote session channel, each for any number of those that take part.    *)
(***************************************************************************)
EXTENDS JobQueue, EventSource, ThreadBarrier, RemoteSessionChannel, FiniteSetTheorems,
        SequenceTheorems, WellFoundedInduction, TLAPS

--------------------------------------------------------------------------------------
(***************************************************************************)
(* The job queue.                                                          *)
(*                                                                         *)
(* List and semaphore stay in step and the queue is a FIFO queue, for any  *)
(* number of threads and calls and any maximum of the semaphore.           *)
(***************************************************************************)

\* The sets that Accounting counts are finite.
LEMMA CountsAreFinite ==
    /\ IsFiniteSet(InFlight) /\ Cardinality(InFlight) \in Nat
    /\ IsFiniteSet(Unraised) /\ Cardinality(Unraised) \in Nat
<1>1. InFlight \subseteq Getters /\ Unraised \subseteq Adders
  BY DEF InFlight, Unraised
<1>2. QED
  BY <1>1, CallerAssumption, FS_Subset, FS_CardinalityType

\* A getter that acquired the semaphore is owed a job, and the job is there:
\* everything else that Accounting adds up is not negative.
LEMMA InFlightFindsJob ==
    ASSUME QueueTypeOK, Accounting, NEW g \in InFlight
    PROVE  jobs # <<>> /\ Len(jobs) > 0
<1>1. Cardinality(InFlight) # 0
  BY CountsAreFinite, FS_EmptySet
<1>2. QED
  BY <1>1, CountsAreFinite DEF QueueTypeOK, Accounting

\* What a getter pops is the front, of the right type.
LEMMA PopTakesFront ==
    ASSUME QueueInv, NEW g \in Getters, PopFront(g)
    PROVE  /\ jobs # <<>> /\ job[g] = Head(jobs) /\ job[g] \in Jobs
           /\ Len(jobs') = Len(jobs) - 1 /\ jobs' \in Seq(Jobs)
<1>1. g \in InFlight
  BY DEF PopFront, InFlight
<1>2. jobs # <<>> /\ Len(jobs) > 0
  BY <1>1, InFlightFindsJob DEF QueueInv
<1>3. QED
  BY <1>2 DEF PopFront, QueueInv, QueueTypeOK, LocalsAgree

-----------------------------------------------------------------------------------
(* Every step preserves the inductive invariant *)

\* Every step of the queue keeps the types.
LEMMA QueueTypeStep == QueueInv /\ [QueueNext]_queueVars => QueueTypeOK'
<1> SUFFICES ASSUME QueueInv, [QueueNext]_queueVars PROVE QueueTypeOK'
  OBVIOUS
<1> USE CallerAssumption, CallAssumption DEF QueueInv, QueueTypeOK, GetterPC, AdderPC
<1>1. ASSUME NEW a \in Adders, LockToAdd(a) PROVE QueueTypeOK'
  BY <1>1 DEF LockToAdd
<1>2. ASSUME NEW a \in Adders, PushBack(a) PROVE QueueTypeOK'
  <2>1. <<a, calls[a]>> \in Jobs
    BY <1>2 DEF PushBack, Jobs, LocalsAgree
  <2>2. QED
    BY <1>2, <2>1 DEF PushBack
<1>3. ASSUME NEW a \in Adders, PushThrows(a) PROVE QueueTypeOK'
  BY <1>3 DEF PushThrows
<1>4. ASSUME NEW a \in Adders, Raise(a) PROVE QueueTypeOK'
  BY <1>4 DEF Raise, Released, Refuses
<1>5. ASSUME NEW g \in Getters, Acquire(g) PROVE QueueTypeOK'
  BY <1>5 DEF Acquire, Signalled, Acquired
<1>6. ASSUME NEW g \in Getters, LockToGet(g) PROVE QueueTypeOK'
  BY <1>6 DEF LockToGet
<1>7. ASSUME NEW g \in Getters, Copy(g) PROVE QueueTypeOK'
  BY <1>7 DEF Copy
<1>8. ASSUME NEW g \in Getters, CopyThrows(g) PROVE QueueTypeOK'
  BY <1>8 DEF CopyThrows
<1>9. ASSUME NEW g \in Getters, Return(g) \/ ReturnThrows(g) PROVE QueueTypeOK'
  <2>1. PopFront(g) /\ job[g] \in Jobs /\ jobs' \in Seq(Jobs)
    BY <1>9, PopTakesFront DEF Return, ReturnThrows
  <2>2. got' \in [Getters -> SUBSET Jobs] /\ lost' \in SUBSET Jobs
    BY <1>9, <2>1 DEF Return, ReturnThrows
  <2>3. QED
    BY <2>1, <2>2 DEF PopFront
<1>10. CASE UNCHANGED queueVars
  BY <1>10 DEF queueVars
<1>11. QED
  BY <1>1, <1>2, <1>3, <1>4, <1>5, <1>6, <1>7, <1>8, <1>9, <1>10
  DEF QueueNext, AdderStep, GetterStep

\* A job moves from one term of Accounting to another.
LEMMA SumKept ==
    ASSUME NEW s \in Nat, NEW f \in Nat, NEW u \in Nat, NEW r \in Nat, NEW t \in Nat
    PROVE  /\ s + f + (u - 1) + (r + 1) + t = s + f + u + r + t
           /\ s + (f - 1) + u + r + (t + 1) = s + f + u + r + t
OBVIOUS

\* Every step of the queue keeps the semaphore's count in step with the jobs.
LEMMA AccountingStep == QueueInv /\ [QueueNext]_queueVars => Accounting'
<1> SUFFICES ASSUME QueueInv, [QueueNext]_queueVars PROVE Accounting'
  OBVIOUS
<1> USE DEF GetterPC, AdderPC
<1>0. /\ IsFiniteSet(InFlight) /\ Cardinality(InFlight) \in Nat
      /\ IsFiniteSet(Unraised) /\ Cardinality(Unraised) \in Nat
  BY CountsAreFinite
<1>n. Cardinality(InFlight) \in Nat /\ Cardinality(Unraised) \in Nat
  BY CountsAreFinite
<1>a. Accounting
  BY DEF QueueInv
<1>t. /\ gpc \in [Getters -> GetterPC] /\ apc \in [Adders -> AdderPC]
      /\ jobs \in Seq(Jobs)
  BY DEF QueueInv, QueueTypeOK
<1>s. sem \in Nat /\ refused \in Nat /\ thrown \in Nat /\ Len(jobs) \in Nat
  BY CallAssumption DEF QueueInv, QueueTypeOK
<1>1. ASSUME NEW a \in Adders, LockToAdd(a) \/ PushThrows(a) PROVE Accounting'
  <2>1. InFlight' = InFlight /\ Unraised' = Unraised
    BY <1>t, <1>1 DEF LockToAdd, PushThrows, InFlight, Unraised
  <2>2. QED
    BY <1>a, <1>t, <1>1, <2>1 DEF LockToAdd, PushThrows, Accounting
<1>2. ASSUME NEW a \in Adders, PushBack(a) PROVE Accounting'
  <2>1. Len(jobs') = Len(jobs) + 1
    BY <1>t, <1>2 DEF PushBack
  <2>2. a \notin Unraised /\ Unraised' = Unraised \cup {a} /\ InFlight' = InFlight
    BY <1>t, <1>2 DEF PushBack, InFlight, Unraised
  <2>3. Cardinality(Unraised') = Cardinality(Unraised) + 1 /\ Cardinality(InFlight') = Cardinality(InFlight)
    BY <1>0, <2>2, FS_AddElement
  <2>4. QED
    <3>1. sem' = sem /\ refused' = refused /\ thrown' = thrown
      BY <1>2 DEF PushBack
    <3>2. QED
      BY <1>a, <1>n, <1>s, <2>1, <2>3, <3>1 DEF Accounting
<1>3. ASSUME NEW a \in Adders, Raise(a) PROVE Accounting'
  <2>1. a \in Unraised /\ Unraised' = Unraised \ {a} /\ InFlight' = InFlight
    BY <1>t, <1>3 DEF Raise, InFlight, Unraised
  <2>2. Cardinality(Unraised') = Cardinality(Unraised) - 1 /\ Cardinality(InFlight') = Cardinality(InFlight)
    BY <1>0, <2>1, FS_RemoveElement
  <2>3. CASE Refuses(sem, SemMax)
    <3>1. sem' = sem /\ refused' = refused + 1 /\ Len(jobs') = Len(jobs) /\ thrown' = thrown
      BY <1>3, <2>3 DEF Raise, Released
    <3>2. sem + Cardinality(InFlight) + (Cardinality(Unraised) - 1) + (refused + 1) + thrown
          = sem + Cardinality(InFlight) + Cardinality(Unraised) + refused + thrown
      BY <1>n, <1>s, SumKept
    <3>3. sem' + Cardinality(InFlight') + Cardinality(Unraised') + refused' + thrown'
          = sem + Cardinality(InFlight) + (Cardinality(Unraised) - 1) + (refused + 1) + thrown
      BY <2>2, <3>1, Zenon
    <3>4. QED
      BY <1>a, <3>1, <3>2, <3>3, Zenon DEF Accounting
  <2>4. CASE ~Refuses(sem, SemMax)
    <3>1. sem' = sem + 1 /\ refused' = refused /\ Len(jobs') = Len(jobs) /\ thrown' = thrown
      BY <1>3, <2>4 DEF Raise, Released
    <3>2. QED
      BY <1>a, <1>n, <1>s, <2>2, <3>1 DEF Accounting
  <2>5. QED
    BY <1>t, <2>3, <2>4
<1>4. ASSUME NEW g \in Getters, Acquire(g) PROVE Accounting'
  <2>1. g \notin InFlight /\ InFlight' = InFlight \cup {g} /\ Unraised' = Unraised
    BY <1>t, <1>4 DEF Acquire, InFlight, Unraised
  <2>2. Cardinality(InFlight') = Cardinality(InFlight) + 1 /\ Cardinality(Unraised') = Cardinality(Unraised)
    BY <1>0, <2>1, FS_AddElement
  <2>3. QED
    BY <1>a, <1>n, <1>s, <1>4, <2>2 DEF Acquire, Acquired, Accounting
<1>5. ASSUME NEW g \in Getters, LockToGet(g) \/ Copy(g) PROVE Accounting'
  <2>1. InFlight' = InFlight /\ Unraised' = Unraised
    BY <1>t, <1>5 DEF LockToGet, Copy, InFlight, Unraised
  <2>2. QED
    BY <1>a, <1>t, <1>5, <2>1 DEF LockToGet, Copy, Accounting
<1>6. ASSUME NEW g \in Getters, CopyThrows(g) PROVE Accounting'
  <2>1. g \in InFlight /\ InFlight' = InFlight \ {g} /\ Unraised' = Unraised
    BY <1>t, <1>6 DEF CopyThrows, InFlight, Unraised
  <2>2. Cardinality(InFlight') = Cardinality(InFlight) - 1 /\ Cardinality(Unraised') = Cardinality(Unraised)
    BY <1>0, <2>1, FS_RemoveElement
  <2>3. QED
    <3>1. sem' = sem /\ refused' = refused /\ Len(jobs') = Len(jobs) /\ thrown' = thrown + 1
      BY <1>6 DEF CopyThrows
    <3>2. sem + (Cardinality(InFlight) - 1) + Cardinality(Unraised) + refused + (thrown + 1)
          = sem + Cardinality(InFlight) + Cardinality(Unraised) + refused + thrown
      BY <1>n, <1>s, SumKept
    <3>3. sem' + Cardinality(InFlight') + Cardinality(Unraised') + refused' + thrown'
          = sem + (Cardinality(InFlight) - 1) + Cardinality(Unraised) + refused + (thrown + 1)
      BY <2>2, <3>1, Zenon
    <3>4. QED
      BY <1>a, <3>1, <3>2, <3>3, Zenon DEF Accounting
<1>7. ASSUME NEW g \in Getters, Return(g) \/ ReturnThrows(g) PROVE Accounting'
  <2>0. PopFront(g)
    BY <1>7 DEF Return, ReturnThrows
  <2>1. g \in InFlight /\ InFlight' = InFlight \ {g} /\ Unraised' = Unraised
    BY <1>t, <2>0 DEF PopFront, InFlight, Unraised
  <2>2. Cardinality(InFlight') = Cardinality(InFlight) - 1 /\ Cardinality(Unraised') = Cardinality(Unraised)
    BY <1>0, <2>1, FS_RemoveElement
  <2>3. Len(jobs') = Len(jobs) - 1
    BY <2>0, PopTakesFront
  <2>4. QED
    BY <1>a, <1>n, <1>s, <2>0, <2>2, <2>3 DEF PopFront, Accounting
<1>8. CASE UNCHANGED queueVars
  BY <1>a, <1>t, <1>8 DEF queueVars, Accounting, InFlight, Unraised
<1>9. QED
  BY <1>t, <1>1, <1>2, <1>3, <1>4, <1>5, <1>6, <1>7, <1>8 DEF QueueNext, AdderStep, GetterStep

\* Only the owner of the lock changes the list, so that the front that was copied
\* is the front that is popped.
LEMMA LockStep == QueueInv /\ [QueueNext]_queueVars => ListExclusive' /\ LocalsAgree'
<1> SUFFICES ASSUME QueueInv, [QueueNext]_queueVars PROVE ListExclusive' /\ LocalsAgree'
  OBVIOUS
<1> USE CallerAssumption, CallAssumption
    DEF QueueInv, QueueTypeOK, GetterPC, AdderPC, ListExclusive, LocalsAgree
<1>1. ASSUME NEW a \in Adders, LockToAdd(a) PROVE ListExclusive' /\ LocalsAgree'
  BY <1>1 DEF LockToAdd
<1>2. ASSUME NEW a \in Adders, PushBack(a) PROVE ListExclusive' /\ LocalsAgree'
  <2>1. \A g \in Getters : gpc'[g] # "copied"
    BY <1>2 DEF PushBack
  <2>2. QED
    BY <1>2, <2>1 DEF PushBack
<1>3. ASSUME NEW a \in Adders, PushThrows(a) \/ Raise(a) PROVE ListExclusive' /\ LocalsAgree'
  <2>1. CASE PushThrows(a)
    BY <2>1 DEF PushThrows
  <2>2. CASE Raise(a)
    BY <2>2 DEF Raise
  <2> QED BY <1>3, <2>1, <2>2
<1>4. ASSUME NEW g \in Getters, Acquire(g) \/ LockToGet(g) PROVE ListExclusive' /\ LocalsAgree'
  BY <1>4 DEF Acquire, LockToGet
<1>5. ASSUME NEW g \in Getters, Copy(g) PROVE ListExclusive' /\ LocalsAgree'
  BY <1>5 DEF Copy
<1>6. ASSUME NEW g \in Getters, CopyThrows(g) PROVE ListExclusive' /\ LocalsAgree'
  BY <1>6 DEF CopyThrows
<1>7. ASSUME NEW g \in Getters, PopFront(g) PROVE ListExclusive' /\ LocalsAgree'
  <2>1. \A h \in Getters : gpc'[h] # "copied"
    BY <1>7 DEF PopFront
  <2>2. QED
    BY <1>7, <2>1 DEF PopFront
<1>8. CASE UNCHANGED queueVars
  BY <1>8 DEF queueVars
<1>9. QED
  BY <1>1, <1>2, <1>3, <1>4, <1>5, <1>6, <1>7, <1>8
  DEF QueueNext, AdderStep, GetterStep, Return, ReturnThrows

\* A job that leaves the list was in it, and a job that is pushed joins it.
LEMMA SubmittedByPop ==
    ASSUME QueueInv, NEW g \in Getters, Return(g) \/ ReturnThrows(g)
    PROVE  Submitted' \subseteq Submitted
<1> USE DEF QueueInv, QueueTypeOK
<1>0. PopFront(g)
  BY DEF Return, ReturnThrows
<1>1. jobs # <<>> /\ job[g] = Head(jobs)
  BY <1>0, PopTakesFront
<1>2. job[g] \in Range(jobs)
  BY <1>1 DEF Range
<1>3. Range(jobs') \subseteq Range(jobs)
  BY <1>0, <1>1 DEF PopFront, Range
<1>4. lost' \subseteq lost \cup Range(jobs)
  BY <1>2 DEF Return, ReturnThrows
<1>5. ASSUME NEW h \in Getters PROVE got'[h] \subseteq got[h] \cup Range(jobs)
  BY <1>2 DEF Return, ReturnThrows
<1>6. DOMAIN got' = Getters /\ DOMAIN got = Getters
  BY DEF Return, ReturnThrows
<1>7. ASSUME NEW j \in UNION Range(got') PROVE j \in Range(jobs) \cup UNION Range(got)
  <2>1. PICK h \in Getters : j \in got'[h]
    BY <1>6 DEF Range
  <2>2. CASE j \in got[h]
    BY <1>6, <2>2 DEF Range
  <2>3. QED
    BY <1>5, <2>1, <2>2
<1>8. Range(jobs)' = Range(jobs') /\ Range(got)' = Range(got')
  BY DEF Range
<1>9. ASSUME NEW j \in Submitted' PROVE j \in Submitted
  BY <1>3, <1>4, <1>7, <1>8, <1>9, Zenon DEF Submitted
<1>10. QED
  BY <1>9

\* push_back submits the caller's current job.
LEMMA SubmittedByPush ==
    ASSUME QueueInv, NEW a \in Adders, PushBack(a)
    PROVE  Submitted' = Submitted \cup {<<a, calls[a]>>}
<1> USE DEF QueueInv, QueueTypeOK
<1> DEFINE new == <<a, calls[a]>>
<1>1. new \in Jobs /\ jobs' = Append(jobs, new)
  BY CallAssumption DEF PushBack, Jobs, LocalsAgree
<1> HIDE DEF new
<1>2. /\ DOMAIN jobs = 1 .. Len(jobs) /\ DOMAIN jobs' = 1 .. (Len(jobs) + 1)
      /\ \A k \in 1 .. Len(jobs) : jobs'[k] = jobs[k]
      /\ jobs'[Len(jobs) + 1] = new
      /\ Len(jobs) \in Nat
  BY <1>1
<1>3. Range(jobs') = Range(jobs) \cup {new}
  <2>1. \A k \in 1 .. (Len(jobs) + 1) : k \in 1 .. Len(jobs) \/ k = Len(jobs) + 1
    BY <1>2
  <2>2. Len(jobs) + 1 \in 1 .. (Len(jobs) + 1) /\ 1 .. Len(jobs) \subseteq 1 .. (Len(jobs) + 1)
    BY <1>2
  <2>3. QED
    BY <1>2, <2>1, <2>2 DEF Range
<1>4. QED
  BY <1>3 DEF PushBack, Submitted, new

\* A submitted job is an adder's call.
LEMMA SubmittedType ==
    ASSUME QueueTypeOK, NEW j \in Submitted
    PROVE  j \in Jobs /\ j[1] \in Adders /\ j[2] \in 1 .. MaxCalls
                      /\ j = <<j[1], j[2]>>
<1>1. j \in Jobs
  <2>1. CASE j \in Range(jobs)
    BY <2>1 DEF QueueTypeOK, Range
  <2>2. CASE j \in UNION Range(got)
    BY <2>2 DEF QueueTypeOK, Range
  <2>3. QED
    BY <2>1, <2>2 DEF QueueTypeOK, Submitted
<1>2. QED
  BY <1>1 DEF Jobs

\* Every step of the queue leaves jobs that came from the calls, each in one place.
LEMMA JobsStep == QueueInv /\ [QueueNext]_queueVars => JobsFromCalls'
<1> SUFFICES ASSUME QueueInv, [QueueNext]_queueVars PROVE JobsFromCalls'
  OBVIOUS
<1> USE CallerAssumption, CallAssumption
    DEF QueueInv, QueueTypeOK, JobsFromCalls, GetterPC, AdderPC
<1>1. ASSUME NEW g \in Getters, Acquire(g) \/ LockToGet(g) \/ Copy(g) \/ CopyThrows(g)
      PROVE JobsFromCalls'
  <2>1. Submitted' = Submitted /\ calls' = calls /\ apc' = apc
    BY <1>1 DEF Acquire, LockToGet, Copy, CopyThrows, Submitted
  <2>2. QED
    BY <2>1
<1>2. ASSUME NEW g \in Getters, Return(g) \/ ReturnThrows(g) PROVE JobsFromCalls'
  BY <1>2, SubmittedByPop DEF Return, ReturnThrows, PopFront
<1>3. ASSUME NEW a \in Adders, LockToAdd(a) PROVE JobsFromCalls'
  <2>1. Submitted' = Submitted
    BY <1>3 DEF LockToAdd, Submitted
  <2>2. ASSUME NEW j \in Submitted PROVE j[2] <= calls'[j[1]]
    BY <1>3, <2>2, SubmittedType DEF LockToAdd
  <2>3. ASSUME NEW b \in Adders, apc'[b] = "locked"
        PROVE <<b, calls'[b]>> \notin Submitted
    <3>1. CASE b = a
      <4>1. calls'[a] = calls[a] + 1
        BY <1>3 DEF LockToAdd
      <4>2. QED
        BY <3>1, <4>1
    <3>2. CASE b # a
      BY <1>3, <2>3, <3>2 DEF LockToAdd
    <3>3. QED
      BY <3>1, <3>2
  <2>4. QED
    BY <2>1, <2>2, <2>3
<1>4. ASSUME NEW a \in Adders, PushBack(a) PROVE JobsFromCalls'
  <2>1. Submitted' = Submitted \cup {<<a, calls[a]>>} /\ calls' = calls
    BY <1>4, SubmittedByPush DEF PushBack
  <2>2. \A b \in Adders : apc'[b] # "locked"
    BY <1>4 DEF PushBack, ListExclusive
  <2>3. QED
    BY <2>1, <2>2
<1>5. ASSUME NEW a \in Adders, PushThrows(a) \/ Raise(a) PROVE JobsFromCalls'
  <2>1. Submitted' = Submitted /\ calls' = calls
    BY <1>5 DEF PushThrows, Raise, Submitted
  <2>2. QED
    BY <1>5, <2>1 DEF PushThrows, Raise
<1>6. CASE UNCHANGED queueVars
  BY <1>6 DEF queueVars, Submitted
<1>7. QED
  BY <1>1, <1>2, <1>3, <1>4, <1>5, <1>6 DEF QueueNext, AdderStep, GetterStep

-----------------------------------------------------------------------------------
(* The theorems *)

\* The first states of the queue satisfy its inductive invariant.
LEMMA QueueInitInv == QueueInit => QueueInv
<1> SUFFICES ASSUME QueueInit PROVE QueueInv
  OBVIOUS
<1> USE CallAssumption DEF QueueInit
<1>1. QueueTypeOK
  <2>1. gpc \in [Getters -> GetterPC] /\ apc \in [Adders -> AdderPC]
    BY DEF GetterPC, AdderPC
  <2>2. jobs \in Seq(Jobs) /\ sem \in 0 .. SemMax /\ calls \in [Adders -> 0 .. MaxCalls]
    OBVIOUS
  <2>3. QED
    BY <2>1, <2>2 DEF QueueTypeOK
<1>2. Accounting
  <2>1. InFlight = {} /\ Unraised = {}
    BY DEF InFlight, Unraised
  <2>2. QED
    BY <2>1, FS_EmptySet DEF Accounting
<1>3. ListExclusive /\ LocalsAgree
  BY DEF ListExclusive, LocalsAgree
<1>4. Submitted = {}
  BY DEF Submitted, Range
<1>5. QED
  BY <1>1, <1>2, <1>3, <1>4 DEF QueueInv, JobsFromCalls

\* The inductive invariant holds in every reachable state.
THEOREM QueueInvariance == QueueSpec => []QueueInv
<1>1. QueueInv /\ [QueueNext]_queueVars => QueueInv'
  BY QueueTypeStep, AccountingStep, LockStep, JobsStep DEF QueueInv
<1>2. QED
  BY <1>1, QueueInitInv, PTL DEF QueueSpec

\* Types and the bound of the semaphore, whatever is refused and whatever throws.
THEOREM QueueTypeCorrect == QueueSpec => []QueueTypeOK
<1>1. QueueInv => QueueTypeOK
  BY DEF QueueInv
<1>2. QED
  BY <1>1, QueueInvariance, PTL

\* What is stranded in job_list_ is exactly what was refused by the semaphore
\* (job_queue.hpp:14 sets its maximum) or left there by a copy that threw (27).
THEOREM AccountingCorrect == QueueSpec => []Accounting
<1>1. QueueInv => Accounting
  BY DEF QueueInv
<1>2. QED
  BY <1>1, QueueInvariance, PTL

\* get_job never calls front() or pop_front() on an empty list (job_queue.hpp:27-28),
\* for any number of threads and although it does not look.
THEOREM FrontIsDefined == QueueSpec => []FrontDefined
<1>1. QueueInv => FrontDefined
  BY InFlightFindsJob DEF QueueInv, FrontDefined, InFlight
<1>2. QED
  BY <1>1, QueueInvariance, PTL

\* The job queue implements the abstract queue: FIFO, and each job handed out at
\* most once, although its copies into the list, out of it (job_queue.hpp:19, 27)
\* and to the caller (30) may throw; only the last of these loses a job.
THEOREM QueueRefinement == QueueSpec => ImplementsWorkQueue
<1>1. QueueInit => WQ!Init
  BY DEF QueueInit, WQ!Init
<1>2. QueueInv /\ [QueueNext]_queueVars => [WQ!Next]_(WQ!vars)
  <2> SUFFICES ASSUME QueueInv, [QueueNext]_queueVars PROVE WQ!Next \/ UNCHANGED WQ!vars
    OBVIOUS
  <2>1. ASSUME NEW a \in Adders, AdderStep(a), ~ PushBack(a) PROVE UNCHANGED WQ!vars
    BY <2>1 DEF AdderStep, LockToAdd, PushThrows, Raise, WQ!vars
  <2>2. ASSUME NEW g \in Getters, GetterStep(g), ~ (Return(g) \/ ReturnThrows(g))
        PROVE  UNCHANGED WQ!vars
    BY <2>2 DEF GetterStep, Acquire, LockToGet, Copy, CopyThrows, WQ!vars
  <2>3. ASSUME NEW a \in Adders, PushBack(a)
        PROVE  <<a, calls[a]>> \in Jobs /\ WQ!Add(<<a, calls[a]>>)
    <3>1. <<a, calls[a]>> \in Jobs
      BY <2>3, CallAssumption DEF PushBack, Jobs, QueueInv, QueueTypeOK, LocalsAgree
    <3>2. <<a, calls[a]>> \notin Submitted
      BY <2>3 DEF PushBack, QueueInv, JobsFromCalls
    <3>3. WQ!Range(jobs) = Range(jobs) /\ WQ!Range(got) = Range(got)
      BY DEF Range, WQ!Range
    <3>4. <<a, calls[a]>> \notin WQ!Range(jobs) \cup lost \cup UNION WQ!Range(got)
      BY <3>2, <3>3 DEF Submitted
    <3>5. jobs' = Append(jobs, <<a, calls[a]>>) /\ got' = got /\ lost' = lost
      BY <2>3 DEF PushBack
    <3>6. QED
      BY <3>1, <3>4, <3>5 DEF WQ!Add
  <2>4. ASSUME NEW g \in Getters, Return(g) PROVE WQ!Take(g)
    BY <2>4, PopTakesFront DEF Return, PopFront, WQ!Take, WQ!Leave
  <2>5. ASSUME NEW g \in Getters, ReturnThrows(g) PROVE WQ!Lose(g)
    BY <2>5, PopTakesFront DEF ReturnThrows, PopFront, WQ!Lose, WQ!Leave
  <2>6. QED
    BY <2>1, <2>2, <2>3, <2>4, <2>5 DEF QueueNext, WQ!Next, queueVars, WQ!vars
<1>3. QED
  BY <1>1, <1>2, QueueInvariance, PTL DEF QueueSpec, ImplementsWorkQueue, WQ!Spec

--------------------------------------------------------------------------------------
(***************************************************************************)
(* The event source.                                                       *)
(*                                                                         *)
(* Cookies and listeners stay matched for any number of cookies, listeners *)
(* and threads: what unregister_listener asserts is true, and only an      *)
(* assignment between cookies or a registration that throws leaves a       *)
(* listener that no cookie can revoke.                                     *)
(***************************************************************************)

\* The inductive invariant: numbers are given out in increasing order, so that a new
\* one is held by no cookie.
Numbers ==
    /\ largest \in Nat
    /\ listeners \subseteq 1 .. largest
    /\ number \in [Cookies -> 0 .. largest]
CookieInv == Numbers /\ HeldIsRegistered

\* Everything but the operations on cookies leaves them alone.
LEMMA OthersKeepCookies ==
  ASSUME \/ \E r \in Raisers : Enter(r) \/ RaiseStep(r)
         \/ \E w \in Waiters : BeginWait(w) \/ SpuriousWake(w)
  PROVE  UNCHANGED <<listeners, empty, largest, number, dropped>>
BY DEF Enter, RaiseStep, Snapshot, SnapshotThrows, Call, CallThrows, NotifyAll,
       BeginWait, SpuriousWake, source, history

\* An assignment, in either direction, moves a number and drops another.
LEMMA AssignedKeeps ==
  ASSUME CookieInv, NEW a \in Cookies, NEW b \in Cookies,
         number' = Assigned(number, a, b), UNCHANGED <<listeners, largest>>
  PROVE  /\ CookieInv'
         /\ \A c \in Cookies : number'[c] =
              IF c = a THEN 0 ELSE IF c = b THEN number[a] ELSE number[c]
<1>1. \A c \in Cookies : number'[c] =
        IF c = a THEN 0 ELSE IF c = b THEN number[a] ELSE number[c]
  BY DEF CookieInv, Numbers, Assigned
<1>2. Numbers'
  BY DEF CookieInv, Numbers, Assigned
<1>3. HeldIsRegistered'
  BY <1>1 DEF CookieInv, HeldIsRegistered
<1>4. QED
  BY <1>1, <1>2, <1>3 DEF CookieInv

\* A registration that throws leaves the cookies alone and spends a number.
LEMMA RegistrationThrows ==
  ASSUME Numbers, RegisterThrows \/ InsertThrows
  PROVE  /\ largest' = largest + 1 /\ number' = number /\ dropped' = dropped
         /\ \/ listeners' = listeners /\ empty' = empty
            \/ listeners' = listeners \cup {largest + 1} /\ empty' = empty \cup {largest + 1}
BY DEF RegisterThrows, Insert, InsertThrows, history

\* Registering keeps the numbers given out and the cookies held in step with the listeners.
LEMMA RegisterStep ==
  ASSUME CookieInv, NEW c \in Cookies, Register(c)
  PROVE  CookieInv'
<1>1. /\ largest' = largest + 1 /\ listeners' = listeners \cup {largest + 1}
      /\ number' = [number EXCEPT ![c] = largest + 1]
  BY DEF Register, Insert
<1>2. Numbers'
  BY <1>1 DEF CookieInv, Numbers
<1>3. \A d \in Cookies : number[d] # largest + 1
  BY DEF CookieInv, Numbers
<1>4. HeldIsRegistered'
  BY <1>1, <1>3 DEF CookieInv, Numbers, HeldIsRegistered
<1>5. QED
  BY <1>2, <1>4 DEF CookieInv

\* Unregistering keeps the numbers given out and the cookies held in step with the
\* listeners.
LEMMA UnregisterStep ==
  ASSUME CookieInv, NEW c \in Cookies, Unregister(c)
  PROVE  CookieInv'
<1>1. /\ largest' = largest /\ listeners' = listeners \ {number[c]}
      /\ number' = [number EXCEPT ![c] = 0]
  BY DEF Unregister
<1>2. Numbers'
  <2>1. number' \in [Cookies -> 0 .. largest]
    BY <1>1 DEF CookieInv, Numbers
  <2>2. QED
    BY <1>1, <2>1 DEF CookieInv, Numbers
<1>3. HeldIsRegistered'
  BY <1>1 DEF CookieInv, Numbers, HeldIsRegistered
<1>4. QED
  BY <1>2, <1>3 DEF CookieInv

\* Every step keeps the numbers given out and the cookies held in step with the listeners.
LEMMA CookieStep == CookieInv /\ [EventNext]_eventVars => CookieInv'
<1> SUFFICES ASSUME CookieInv, [EventNext]_eventVars PROVE CookieInv'
  OBVIOUS
<1>1. CASE UNCHANGED <<listeners, largest, number>>
  BY <1>1 DEF CookieInv, Numbers, HeldIsRegistered
<1>2. ASSUME NEW c \in Cookies, NEW d \in Cookies, CopyConstruct(c, d) PROVE CookieInv'
  BY <1>2, AssignedKeeps DEF CopyConstruct, source
<1>3. ASSUME NEW c \in Cookies, NEW d \in Cookies, Assign(c, d) PROVE CookieInv'
  BY <1>3, AssignedKeeps DEF Assign, source
<1>4. ASSUME RegisterThrows \/ InsertThrows PROVE CookieInv'
  <2>1. /\ largest' = largest + 1 /\ number' = number
        /\ listeners' = listeners \/ listeners' = listeners \cup {largest + 1}
    BY <1>4, RegistrationThrows DEF CookieInv
  <2>2. Numbers'
    <3>1. largest \in Nat /\ 0 .. largest \subseteq 0 .. largest' /\ largest' \in Nat
      BY <2>1 DEF CookieInv, Numbers
    <3>2. number' \in [Cookies -> 0 .. largest']
      BY <2>1, <3>1 DEF CookieInv, Numbers
    <3>3. /\ listeners \subseteq 1 .. largest /\ 1 .. largest \subseteq 1 .. largest'
          /\ largest + 1 \in 1 .. largest'
      BY <2>1, <3>1 DEF CookieInv, Numbers
    <3>4. listeners' \subseteq 1 .. largest'
      BY <2>1, <3>3
    <3> QED BY <3>1, <3>2, <3>4 DEF Numbers
  <2>3. HeldIsRegistered'
    BY <2>1 DEF CookieInv, HeldIsRegistered
  <2> QED BY <2>2, <2>3 DEF CookieInv
<1>5. CASE UNCHANGED eventVars
  BY <1>1, <1>5 DEF eventVars, source
<1>6. QED
  BY <1>1, <1>2, <1>3, <1>4, <1>5, RegisterStep, UnregisterStep, OthersKeepCookies DEF EventNext

\* The number that a cookie of event_source holds is always that of a registered listener.
THEOREM CookiesMatch == EventSpec => []CookieInv
<1>1. EventInit => CookieInv
  BY DEF EventInit, CookieInv, Numbers, HeldIsRegistered
<1>2. QED
  BY <1>1, CookieStep, PTL DEF EventSpec

\* The assertions of unregister_listener: a number that a cookie holds is registered,
\* and no other cookie holds it.
THEOREM HeldCorrect == EventSpec => []HeldIsRegistered
<1>1. CookieInv => HeldIsRegistered
  BY DEF CookieInv
<1>2. QED
  BY <1>1, CookiesMatch, PTL

\* The listeners that no cookie holds, and their numbers.
OrphanInv == RevocableUnlessOrphaned /\ Orphans \subseteq 1 .. largest

\* What a step takes from the cookies it revokes or drops.
LEMMA OrphanStep ==
  ASSUME CookieInv, OrphanInv, [EventNext]_eventVars
  PROVE  OrphanInv'
<1> USE DEF Orphans
<1>0. /\ \A n \in listeners : n # 0
      /\ \A c \in Cookies : number[c] # 0 => number[c] \in listeners
      /\ \A c, d \in Cookies : number[c] = number[d] /\ number[c] # 0 => c = d
      /\ largest \in Nat /\ \A c \in Cookies : number[c] \in 0 .. largest
  BY DEF CookieInv, Numbers, HeldIsRegistered
<1>h. /\ listeners = (Held \ {0}) \cup dropped \cup empty /\ Held \cap (dropped \cup empty) = {}
      /\ dropped \cup empty \subseteq 1 .. largest
  BY DEF OrphanInv, RevocableUnlessOrphaned
<1>1. CASE UNCHANGED <<listeners, empty, largest, number, dropped>>
  BY <1>1, <1>h DEF OrphanInv, RevocableUnlessOrphaned, Held
<1>2. ASSUME NEW c \in Cookies, Register(c) PROVE OrphanInv'
  <2>1. /\ listeners' = listeners \cup {largest + 1} /\ number[c] = 0
        /\ dropped' = dropped /\ empty' = empty /\ largest' = largest + 1
        /\ \A d \in Cookies : number'[d] = IF d = c THEN largest + 1 ELSE number[d]
    BY <1>2 DEF Register, Insert, CookieInv, Numbers
  <2>2. Held' \ {0} = (Held \ {0}) \cup {largest + 1} /\ Held' \subseteq Held \cup {largest + 1}
    BY <1>0, <2>1 DEF Held
  <2>3. largest + 1 \notin dropped \cup empty /\ dropped \cup empty \subseteq 1 .. largest'
    BY <1>0, <1>h, <2>1
  <2>4. QED
    BY <1>h, <2>1, <2>2, <2>3 DEF OrphanInv, RevocableUnlessOrphaned
<1>3. ASSUME NEW c \in Cookies, Unregister(c) PROVE OrphanInv'
  <2>1. /\ listeners' = listeners \ {number[c]} /\ dropped' = dropped
        /\ empty' = empty /\ largest' = largest /\ number[c] # 0
        /\ \A d \in Cookies : number'[d] = IF d = c THEN 0 ELSE number[d]
    BY <1>3 DEF Unregister, CookieInv, Numbers
  <2>2. Held' \ {0} = (Held \ {0}) \ {number[c]} /\ Held' \subseteq Held \cup {0}
    BY <1>0, <2>1 DEF Held
  <2>3. number[c] \notin dropped \cup empty /\ 0 \notin dropped \cup empty
    BY <1>0, <1>h DEF Held
  <2>4. QED
    BY <1>h, <2>1, <2>2, <2>3 DEF OrphanInv, RevocableUnlessOrphaned
<1>4. ASSUME NEW c \in Cookies, NEW d \in Cookies, CopyConstruct(c, d)
      PROVE  OrphanInv'
  <2>1. /\ listeners' = listeners /\ largest' = largest /\ dropped' = dropped /\ empty' = empty
        /\ number[c] = 0 /\ c # d /\ number' = Assigned(number, d, c)
    BY <1>4 DEF CopyConstruct, source, history
  <2>2. \A e \in Cookies : number'[e] =
          IF e = d THEN 0 ELSE IF e = c THEN number[d] ELSE number[e]
    BY <2>1, AssignedKeeps
  <2>3. Held' \ {0} = Held \ {0}
    BY <1>0, <2>1, <2>2 DEF Held
  <2>4. 0 \notin dropped \cup empty
    BY <1>0, <1>h
  <2>5. QED
    BY <1>h, <2>1, <2>3, <2>4 DEF OrphanInv, RevocableUnlessOrphaned
<1>5. ASSUME NEW a \in Cookies, NEW b \in Cookies, Assign(a, b)
      PROVE  OrphanInv'
  <2>1. /\ listeners' = listeners /\ largest' = largest /\ empty' = empty
        /\ dropped' = dropped \cup ({number[b]} \ {0})
        /\ number' = Assigned(number, a, b)
    BY <1>5 DEF Assign, source
  <2>2. \A e \in Cookies : number'[e] =
          IF e = a THEN 0 ELSE IF e = b THEN number[a] ELSE number[e]
    BY <2>1, AssignedKeeps
  <2>3. Held' \ {0} = (Held \ {0}) \ {number[b]}
    <3>1. \A e \in Cookies : number'[e] # 0 => number'[e] \in Held /\ number'[e] # number[b]
      BY <1>0, <2>2 DEF Held
    <3>2. ASSUME NEW e \in Cookies, number[e] # 0, number[e] # number[b]
          PROVE  \E f \in Cookies : number'[f] = number[e]
      <4>1. CASE e = a
        BY <2>2, <3>2, <4>1
      <4>2. CASE e # a
        BY <2>2, <3>2, <4>2
      <4> QED BY <4>1, <4>2
    <3> QED BY <3>1, <3>2 DEF Held
  <2>4. 0 \notin dropped \cup empty /\ number[b] \in Held /\ number[b] \in 0 .. largest
    BY <1>0, <1>h DEF Held
  <2>5. dropped' \subseteq 1 .. largest
    BY <1>0, <1>h, <2>1, <2>4
  <2>6. QED
    BY <1>h, <2>1, <2>3, <2>4, <2>5 DEF OrphanInv, RevocableUnlessOrphaned
<1>6. ASSUME RegisterThrows \/ InsertThrows PROVE OrphanInv'
  <2>1. /\ largest' = largest + 1 /\ number' = number /\ dropped' = dropped
        /\ \/ listeners' = listeners /\ empty' = empty
           \/ listeners' = listeners \cup {largest + 1} /\ empty' = empty \cup {largest + 1}
    BY <1>6, RegistrationThrows DEF CookieInv
  <2>2. Held' = Held /\ largest + 1 \notin Held
    BY <1>0, <2>1 DEF Held
  <2>3. dropped' \cup empty' \subseteq 1 .. largest'
    BY <1>0, <1>h, <2>1
  <2>4. QED
    BY <1>h, <1>0, <2>1, <2>2, <2>3 DEF OrphanInv, RevocableUnlessOrphaned
<1>7. CASE UNCHANGED eventVars
  BY <1>1, <1>7 DEF eventVars, source, history
<1>8. QED
  BY <1>1, <1>2, <1>3, <1>4, <1>5, <1>6, <1>7, OthersKeepCookies DEF EventNext

\* The listeners that no cookie holds are those that an assignment between cookies
\* dropped (event_source.hpp:97) and those whose registration threw (28).
THEOREM OrphansAreKnown == EventSpec => []RevocableUnlessOrphaned
<1>1. EventInit => OrphanInv
  BY DEF EventInit, OrphanInv, RevocableUnlessOrphaned, Orphans, Held
<1>2. CookieInv /\ OrphanInv /\ [EventNext]_eventVars => OrphanInv'
  BY OrphanStep
<1>3. OrphanInv => RevocableUnlessOrphaned
  BY DEF OrphanInv
<1>4. QED
  BY <1>1, <1>2, <1>3, CookiesMatch, PTL DEF EventSpec
-------------------------------------------------------------------------------------
(* raise() *)

\* A set of numbers that is not empty has a least one.
LEMMA LeastNumber == ASSUME NEW S \in SUBSET Nat, S # {}
                     PROVE  Min(S) \in S /\ \A y \in S : Min(S) <= y
<1>1. PICK x \in S : \A y \in S : ~ (<<y, x>> \in OpToRel(<, Nat))
  BY NatLessThanWellFounded, WFMin
<1>2. ASSUME NEW y \in S, y < x PROVE FALSE
  <2>1. <<y, x>> \in OpToRel(<, Nat)
    BY <1>2 DEF OpToRel
  <2> QED BY <1>1, <2>1
<1>3. \A y \in S : x <= y
  BY <1>2
<1> QED BY <1>3 DEF Min

\* A listener that comes after all that were called makes the calls one more, in order.
LEMMA CalledNext == ASSUME NEW s \in Seq(Nat), NEW n \in Nat,
                           \A m \in Range(s) : m < n, InOrder(s)
                    PROVE  /\ Append(s, n) \in Seq(Nat)
                           /\ Range(Append(s, n)) = Range(s) \cup {n}
                           /\ InOrder(Append(s, n))
<1>1. /\ Append(s, n) \in Seq(Nat) /\ Len(Append(s, n)) = Len(s) + 1 /\ Len(s) \in Nat
      /\ \A i \in 1 .. Len(s) : Append(s, n)[i] = s[i]
      /\ Append(s, n)[Len(s) + 1] = n
  BY AppendProperties
<1>2. DOMAIN s = 1 .. Len(s) /\ DOMAIN Append(s, n) = 1 .. Len(s) + 1
  BY <1>1
<1>3. \A i \in DOMAIN Append(s, n) : i = Len(s) + 1 \/ i \in 1 .. Len(s)
  BY <1>1, <1>2
<1>4. \A i \in 1 .. Len(s) : i \in DOMAIN Append(s, n) /\ s[i] < n
  BY <1>1, <1>2 DEF Range
<1>5. Len(s) + 1 \in DOMAIN Append(s, n)
  BY <1>1, <1>2
<1>6. Range(Append(s, n)) = Range(s) \cup {n}
  BY <1>1, <1>2, <1>3, <1>4, <1>5 DEF Range
<1>7. ASSUME NEW i \in DOMAIN Append(s, n), NEW j \in DOMAIN Append(s, n), i < j
      PROVE  Append(s, n)[i] < Append(s, n)[j]
  <2>1. i \in 1 .. Len(s)
    BY <1>1, <1>2, <1>7
  <2>2. CASE j = Len(s) + 1
    BY <1>1, <1>4, <2>1, <2>2
  <2>3. CASE j \in 1 .. Len(s)
    BY <1>1, <1>2, <1>7, <2>1, <2>3 DEF InOrder
  <2> QED BY <1>3, <2>2, <2>3
<1> QED BY <1>1, <1>6, <1>7 DEF InOrder

\* What happens to the listeners while r is in raise(): the history says so.
LEMMA CookiesKeepRaise ==
    ASSUME RaiseInv, Numbers, UNCHANGED raise, largest' \in Nat, largest <= largest',
           \/ UNCHANGED <<listeners, empty, throughout, sometime>>
           \/ \E n \in 1 .. largest' :
                 /\ n > largest
                 /\ listeners' = listeners \cup {n} /\ throughout' = throughout
                 /\ empty' \subseteq empty \cup {n}
                 /\ sometime' = [r \in Raisers |-> sometime[r] \cup {n}]
           \/ \E n \in Nat : /\ listeners' = listeners \ {n} /\ sometime' = sometime
                             /\ empty' = empty
                             /\ throughout' = [r \in Raisers |-> throughout[r] \ {n}]
    PROVE  RaiseInv'
<1>1. UNCHANGED <<rpc, pending, called>> /\ RaiseTypeOK
  BY DEF raise, RaiseInv
<1>2. largest \in Nat /\ 1 .. largest \subseteq 1 .. largest'
  BY DEF Numbers
<1> DEFINE Kept ==
      /\ throughout' \in [Raisers -> SUBSET Nat]
      /\ sometime' \in [Raisers -> SUBSET (1 .. largest')]
      /\ \A r \in Raisers :
            /\ throughout'[r] \subseteq throughout[r] /\ sometime[r] \subseteq sometime'[r]
            /\ throughout[r] \subseteq listeners => throughout'[r] \subseteq listeners'
            /\ listeners \subseteq sometime[r] => listeners' \subseteq sometime'[r]
      /\ \A n \in empty' : n \in empty \/ n > largest
<1>3. Kept
  <2>1. CASE UNCHANGED <<listeners, empty, throughout, sometime>>
    BY <1>1, <1>2, <2>1 DEF RaiseTypeOK
  <2>2. ASSUME NEW n \in 1 .. largest', n > largest,
               listeners' = listeners \cup {n}, throughout' = throughout,
               empty' \subseteq empty \cup {n}, sometime' = [r \in Raisers |-> sometime[r] \cup {n}]
        PROVE  Kept
    BY <1>1, <1>2, <2>2 DEF RaiseTypeOK
  <2>3. ASSUME NEW n \in Nat, listeners' = listeners \ {n}, sometime' = sometime,
               empty' = empty, throughout' = [r \in Raisers |-> throughout[r] \ {n}]
        PROVE  Kept
    BY <1>1, <1>2, <2>3 DEF RaiseTypeOK
  <2> QED BY <2>1, <2>2, <2>3
<1>4. RaiseTypeOK'
  BY <1>1, <1>3 DEF RaiseTypeOK
<1>5. ASSUME NEW r \in Raisers PROVE CallsInOrder(r)'
  <2>1. CallsInOrder(r)
    BY DEF RaiseInv
  <2>2. /\ throughout'[r] \subseteq throughout[r] /\ sometime[r] \subseteq sometime'[r]
        /\ throughout[r] \subseteq listeners => throughout'[r] \subseteq listeners'
        /\ listeners \subseteq sometime[r] => listeners' \subseteq sometime'[r]
    BY <1>3
  <2>3. ASSUME rpc[r] = "calling", NEW n \in Range(called[r]), n \in empty' PROVE FALSE
    <3>1. n \in sometime[r] /\ n \notin empty
      BY <2>1, <2>3 DEF CallsInOrder
    <3>2. n \in 1 .. largest
      BY <1>1, <3>1 DEF RaiseTypeOK
    <3> QED BY <1>2, <1>3, <2>3, <3>1, <3>2
  <2> QED BY <1>1, <2>1, <2>2, <2>3 DEF CallsInOrder
<1> QED BY <1>4, <1>5 DEF RaiseInv

\* Entering a raise keeps the invariant of the raises.
LEMMA EnterKeeps == ASSUME RaiseInv, Numbers, NEW r \in Raisers, Enter(r) PROVE RaiseInv'
<1>1. /\ rpc' = [rpc EXCEPT ![r] = "entered"] /\ called' = [called EXCEPT ![r] = <<>>]
      /\ throughout' = [throughout EXCEPT ![r] = listeners]
      /\ sometime' = [sometime EXCEPT ![r] = listeners]
      /\ UNCHANGED <<listeners, empty, largest, pending>>
  BY DEF Enter, source
<1>2. RaiseTypeOK /\ listeners \in SUBSET Nat /\ listeners \subseteq 1 .. largest /\ <<>> \in Seq(Nat)
  BY DEF RaiseInv, Numbers
<1>3. RaiseTypeOK'
  BY <1>1, <1>2 DEF RaiseTypeOK
<1>4. ASSUME NEW u \in Raisers PROVE CallsInOrder(u)'
  <2>1. CASE u = r
    BY <1>1, <1>2, <2>1 DEF CallsInOrder, RaiseTypeOK
  <2>2. CASE u # r
    <3>1. UNCHANGED <<rpc[u], called[u], throughout[u], sometime[u], pending[u], listeners, empty>>
      BY <1>1, <1>2, <2>2 DEF RaiseTypeOK
    <3> QED BY <3>1 DEF RaiseInv, CallsInOrder
  <2> QED BY <2>1, <2>2
<1> QED BY <1>3, <1>4 DEF RaiseInv

\* Copying the list of listeners keeps the invariant of the raises.
LEMMA SnapshotKeeps == ASSUME RaiseInv, Numbers, NEW r \in Raisers, Snapshot(r) PROVE RaiseInv'
<1>1. /\ rpc[r] = "entered" /\ rpc' = [rpc EXCEPT ![r] = "calling"]
      /\ pending' = [pending EXCEPT ![r] = listeners]
      /\ UNCHANGED <<listeners, empty, largest, called, throughout, sometime>>
  BY DEF Snapshot, source, history
<1>2. RaiseTypeOK /\ listeners \in SUBSET Nat
  BY DEF RaiseInv, Numbers
<1>3. RaiseTypeOK'
  BY <1>1, <1>2 DEF RaiseTypeOK
<1>4. ASSUME NEW u \in Raisers PROVE CallsInOrder(u)'
  <2>1. CallsInOrder(u)
    BY DEF RaiseInv
  <2>2. CASE u = r
    <3>1. /\ rpc'[r] = "calling" /\ pending'[r] = listeners /\ called'[r] = <<>>
          /\ throughout'[r] \subseteq listeners /\ listeners \subseteq sometime'[r]
      BY <1>1, <1>2, <2>1, <2>2 DEF CallsInOrder, RaiseTypeOK
    <3>2. Range(<<>>) = {} /\ InOrder(<<>>)
      BY DEF Range, InOrder
    <3> QED BY <1>1, <2>2, <3>1, <3>2 DEF CallsInOrder
  <2>3. CASE u # r
    <3>1. UNCHANGED <<rpc[u], called[u], throughout[u], sometime[u], pending[u], listeners, empty>>
      BY <1>1, <1>2, <2>3 DEF RaiseTypeOK
    <3> QED BY <2>1, <3>1 DEF CallsInOrder
  <2> QED BY <2>2, <2>3
<1> QED BY <1>3, <1>4 DEF RaiseInv

\* Calling a listener keeps the invariant of the raises.
LEMMA CallKeeps == ASSUME RaiseInv, NEW r \in Raisers, Call(r) PROVE RaiseInv'
<1> DEFINE n == Min(pending[r])
<1>1. /\ rpc[r] = "calling" /\ pending[r] # {} /\ n \notin empty
      /\ called' = [called EXCEPT ![r] = Append(@, n)]
      /\ pending' = [pending EXCEPT ![r] = @ \ {n}]
      /\ UNCHANGED <<listeners, empty, largest, rpc, throughout, sometime>>
  BY DEF Call, source, history
<1>2. RaiseTypeOK /\ CallsInOrder(r)
  BY DEF RaiseInv
<1>3. /\ pending[r] \in SUBSET Nat /\ called[r] \in Seq(Nat)
      /\ called'[r] = Append(called[r], n) /\ pending'[r] = pending[r] \ {n}
  BY <1>1, <1>2 DEF RaiseTypeOK
<1>4. n \in pending[r] /\ \A y \in pending[r] : n <= y
  BY <1>1, <1>3, LeastNumber
<1> HIDE DEF n
<1>5. /\ throughout[r] \subseteq Range(called[r]) \cup pending[r]
      /\ Range(called[r]) \cup pending[r] \subseteq sometime[r]
      /\ Range(called[r]) \cap empty = {}
      /\ \A m \in Range(called[r]), y \in pending[r] : m < y
      /\ InOrder(called[r])
      /\ throughout[r] \subseteq listeners /\ listeners \subseteq sometime[r]
  BY <1>1, <1>2 DEF CallsInOrder
<1>6. n \in Nat /\ \A m \in Range(called[r]) : m < n
  BY <1>3, <1>4, <1>5
<1>7. /\ called'[r] \in Seq(Nat) /\ Range(called'[r]) = Range(called[r]) \cup {n}
      /\ InOrder(called'[r])
  BY <1>3, <1>5, <1>6, CalledNext
<1>8. RaiseTypeOK'
  BY <1>1, <1>2, <1>3, <1>7 DEF RaiseTypeOK
<1>9. ASSUME NEW u \in Raisers PROVE CallsInOrder(u)'
  <2>1. CASE u = r
    <3>1. Range(called'[r]) \cup pending'[r] = Range(called[r]) \cup pending[r]
      BY <1>3, <1>4, <1>7
    <3>2. Range(called'[r]) \cap empty = {}
      BY <1>1, <1>5, <1>7
    <3>3. ASSUME NEW m \in Range(called'[r]), NEW y \in pending'[r] PROVE m < y
      <4>1. y \in pending[r] /\ y # n /\ y \in Nat /\ n <= y
        BY <1>3, <1>4
      <4> QED BY <1>5, <1>6, <1>7, <4>1
    <3> QED BY <1>1, <1>5, <1>7, <2>1, <3>1, <3>2, <3>3 DEF CallsInOrder
  <2>2. CASE u # r
    <3>1. UNCHANGED <<rpc[u], called[u], throughout[u], sometime[u], pending[u], listeners, empty>>
      BY <1>1, <1>2, <2>2 DEF RaiseTypeOK
    <3> QED BY <3>1 DEF RaiseInv, CallsInOrder
  <2> QED BY <2>1, <2>2
<1> QED BY <1>8, <1>9 DEF RaiseInv

\* The end of a raise, whether it wakes the waiters or throws, keeps the invariant of
\* the raises.
LEMMA EndKeeps ==
    ASSUME RaiseInv, NEW r \in Raisers, SnapshotThrows(r) \/ CallThrows(r) \/ NotifyAll(r)
    PROVE  RaiseInv'
<1>1. /\ rpc' = [rpc EXCEPT ![r] = "idle"] \/ rpc' = [rpc EXCEPT ![r] = "threw"]
      /\ UNCHANGED <<listeners, empty, largest, pending, called, throughout, sometime>>
  BY DEF SnapshotThrows, CallThrows, NotifyAll, source, history
<1>2. RaiseTypeOK
  BY DEF RaiseInv
<1>3. RaiseTypeOK'
  BY <1>1, <1>2 DEF RaiseTypeOK
<1>4. ASSUME NEW u \in Raisers PROVE CallsInOrder(u)'
  <2>1. rpc'[u] \in {"idle", "threw"} \/ rpc'[u] = rpc[u]
    BY <1>1, <1>2 DEF RaiseTypeOK
  <2> QED BY <1>1, <2>1 DEF RaiseInv, CallsInOrder
<1> QED BY <1>3, <1>4 DEF RaiseInv

\* Every step keeps the invariant of the raises.
LEMMA RaiseInductive == RaiseInv /\ CookieInv /\ [EventNext]_eventVars => RaiseInv'
<1> SUFFICES ASSUME RaiseInv, Numbers, [EventNext]_eventVars PROVE RaiseInv'
  BY DEF CookieInv
<1>1. ASSUME UNCHANGED <<listeners, empty, largest, raise, throughout, sometime>> PROVE RaiseInv'
  BY <1>1, CookiesKeepRaise DEF Numbers
<1>2. ASSUME \/ \E c \in Cookies : Register(c)
             \/ RegisterThrows
      PROVE RaiseInv'
  <2>1. /\ largest + 1 \in 1 .. largest' /\ largest + 1 > largest /\ UNCHANGED <<raise, throughout>>
        /\ largest' \in Nat /\ largest <= largest'
        /\ listeners' = listeners \cup {largest + 1}
        /\ empty' \subseteq empty \cup {largest + 1}
        /\ sometime' = [r \in Raisers |-> sometime[r] \cup {largest + 1}]
    BY <1>2 DEF Register, RegisterThrows, Insert, Numbers
  <2> QED BY <2>1, CookiesKeepRaise
<1>3. ASSUME NEW c \in Cookies, Unregister(c) PROVE RaiseInv'
  <2>1. /\ number[c] \in Nat /\ UNCHANGED <<raise, sometime, empty, largest>>
        /\ largest \in Nat
        /\ listeners' = listeners \ {number[c]}
        /\ throughout' = [r \in Raisers |-> throughout[r] \ {number[c]}]
    BY <1>3 DEF Unregister, Numbers
  <2> QED BY <2>1, CookiesKeepRaise
<1>4. ASSUME NEW c \in Cookies, NEW d \in Cookies, CopyConstruct(c, d) \/ Assign(c, d) PROVE RaiseInv'
  BY <1>1, <1>4 DEF CopyConstruct, Assign, source, history
<1>5. ASSUME NEW w \in Waiters, BeginWait(w) \/ SpuriousWake(w) PROVE RaiseInv'
  BY <1>1, <1>5 DEF BeginWait, SpuriousWake, source, history
<1>6. CASE InsertThrows
  <2>1. /\ largest' = largest + 1 /\ largest \in Nat
        /\ UNCHANGED <<listeners, empty, raise, throughout, sometime>>
    BY <1>6 DEF InsertThrows, history, Numbers
  <2> QED BY <2>1, CookiesKeepRaise
<1>7. CASE UNCHANGED eventVars
  BY <1>1, <1>7 DEF eventVars, source, history
<1> QED
  BY <1>2, <1>3, <1>4, <1>5, <1>6, <1>7, EnterKeeps, SnapshotKeeps, CallKeeps, EndKeeps
  DEF EventNext, RaiseStep

\* For any number of listeners and threads: a raise() that comes to its end has called
\* every listener that was registered all the time, in the order of registration, and
\* nobody who was revoked before it began; one that throws has called those before the
\* one that threw.
THEOREM RaiseCallsAll == EventSpec => RaiseReachesListeners
<1>1. EventInit => RaiseInv
  BY DEF EventInit, RaiseInv, RaiseTypeOK, CallsInOrder
<1>2. RaiseInv /\ [EventNext]_eventVars =>
        [ \A r \in Raisers : rpc[r] = "calling" /\ rpc'[r] # "calling" =>
            /\ Range(called[r]) \subseteq sometime[r] \ empty
            /\ InOrder(called[r])
            /\ \/ throughout[r] \subseteq Range(called[r])
               \/ /\ rpc'[r] = "threw"
                  /\ \E n \in sometime[r] \ Range(called[r]) :
                       \A m \in throughout[r] : m < n => m \in Range(called[r]) ]_eventVars
  <2> SUFFICES ASSUME RaiseInv, EventNext, NEW r \in Raisers, rpc[r] = "calling", rpc'[r] # "calling"
               PROVE  /\ Range(called[r]) \subseteq sometime[r] \ empty
                      /\ InOrder(called[r])
                      /\ \/ throughout[r] \subseteq Range(called[r])
                         \/ /\ rpc'[r] = "threw"
                            /\ \E n \in sometime[r] \ Range(called[r]) :
                                 \A m \in throughout[r] : m < n => m \in Range(called[r])
    OBVIOUS
  <2>1. RaiseTypeOK /\ CallsInOrder(r)
    BY DEF RaiseInv
  <2>2. NotifyAll(r) \/ CallThrows(r)
    <3>1. rpc' # rpc
      OBVIOUS
    <3>2. PICK u \in Raisers : \/ Enter(u) \/ Snapshot(u) \/ SnapshotThrows(u)
                              \/ CallThrows(u) \/ NotifyAll(u)
      BY <3>1 DEF EventNext, Register, RegisterThrows, InsertThrows, Insert, Unregister,
                  CopyConstruct, Assign, RaiseStep, Call, BeginWait, SpuriousWake, raise
    <3>3. u = r
      BY <2>1, <3>2 DEF Enter, Snapshot, SnapshotThrows, CallThrows, NotifyAll, RaiseTypeOK
    <3> QED BY <2>1, <3>2, <3>3 DEF Enter, Snapshot, SnapshotThrows, RaiseTypeOK
  <2>3. /\ Range(called[r]) \cup pending[r] \subseteq sometime[r]
        /\ Range(called[r]) \cap empty = {} /\ InOrder(called[r])
        /\ throughout[r] \subseteq Range(called[r]) \cup pending[r]
        /\ \A m \in Range(called[r]), n \in pending[r] : m < n
        /\ pending[r] \in SUBSET Nat
    BY <2>1 DEF CallsInOrder, RaiseTypeOK
  <2>4. CASE NotifyAll(r)
    BY <2>3, <2>4 DEF NotifyAll
  <2>5. CASE CallThrows(r)
    <3>1. pending[r] # {} /\ rpc'[r] = "threw"
      BY <2>1, <2>5 DEF CallThrows, RaiseTypeOK
    <3>2. PICK n \in pending[r] : \A y \in pending[r] : n <= y
      BY <2>3, <3>1, LeastNumber
    <3>3. n \notin Range(called[r]) /\ n \in sometime[r] /\ n \in Nat
      BY <2>3, <3>2
    <3>4. ASSUME NEW m \in throughout[r], m < n PROVE m \in Range(called[r])
      BY <2>3, <3>2, <3>3, <3>4
    <3> QED BY <2>3, <3>1, <3>3, <3>4
  <2> QED BY <2>2, <2>4, <2>5
<1> QED BY <1>1, <1>2, CookiesMatch, RaiseInductive, PTL DEF EventSpec, RaiseReachesListeners

--------------------------------------------------------------------------------------
(***************************************************************************)
(* The thread barrier.                                                     *)
(*                                                                         *)
(* The barrier is a barrier for any number of threads and any threshold,   *)
(* provided that SignalObjectAndWait is atomic.                            *)
(***************************************************************************)

\* Those inside the barrier are finitely many.
LEMMA InsideIsFinite == IsFiniteSet(Inside) /\ Cardinality(Inside) \in Nat
<1>1. Inside \subseteq Threads
  BY DEF Inside
<1>2. QED
  BY <1>1, ThreadAssumption, FS_Subset, FS_CardinalityType

\* One thread more makes one more to count.
LEMMA OneMore ==
  ASSUME NEW t \in Threads, t \notin Inside
  PROVE  Cardinality(Inside \cup {t}) = Cardinality(Inside) + 1
BY InsideIsFinite, FS_AddElement

\* Whoever owns the mutex is alone in the critical section.
LEMMA Alone ==
  ASSUME Exclusive, NEW t \in Threads, pc[t] \in {"locked", "counted", "last", "pulsed"},
         NEW u \in Threads, pc[u] \in {"locked", "counted", "last", "pulsed"}
  PROVE  u = t
BY DEF Exclusive

\* The last thread pulses when all the others in the barrier wait for the event.
LEMMA AllBlocked ==
  ASSUME IInv, AtomicSignalAndWait, NEW t \in Threads, pc[t] = "last"
  PROVE  /\ LastOnes = {t}
         /\ \A u \in Inside : pc[u] = "blocked"
         /\ LetOut(t) = Inside \cup {t}
         /\ count = 0
         /\ Cardinality(Inside \cup {t}) = threshold
<1>1. LastOnes = {t}
  BY Alone DEF IInv, LastOnes
<1>2. ASSUME NEW u \in Inside PROVE pc[u] = "blocked"
  <2>1. u \in Threads /\ pc[u] \in {"counted", "released", "blocked"}
    BY <1>2 DEF Inside
  <2>2. pc[u] # "counted"
    BY <2>1, Alone DEF IInv
  <2>3. QED
    BY <2>1, <2>2 DEF IInv, NoGap
<1>3. LetOut(t) = Inside \cup {t}
  BY <1>2 DEF LetOut, Inside
<1>4. t \notin Inside
  BY DEF Inside
<1>5. count = 0 /\ Cardinality(Inside) + 1 = threshold
  BY <1>1 DEF IInv, CountIsWaiters
<1>6. QED
  BY <1>1, <1>2, <1>3, <1>4, <1>5, OneMore

\* The first states of the barrier satisfy its inductive invariant.
LEMMA InitInv == BarrierInit => IInv
<1> SUFFICES ASSUME BarrierInit PROVE IInv
  OBVIOUS
<1> USE ThreadAssumption, ThresholdAssumption, ModeAssumption DEF BarrierInit
<1>1. BarrierTypeOK
  <2>1. pc \in [Threads -> PC]
    BY DEF PC
  <2>2. QED
    BY <2>1 DEF BarrierTypeOK
<1>2. Inside = {} /\ LastOnes = {}
  BY DEF Inside, LastOnes
<1>3. CountIsWaiters
  BY <1>2, FS_EmptySet DEF CountIsWaiters
<1>4. QED
  BY <1>1, <1>3 DEF IInv, Exclusive, NoGap, Rounds

\* Every step of the barrier keeps the types and the rounds.
LEMMA TypeStep == IInv /\ [BarrierNext]_barrierVars => BarrierTypeOK' /\ Rounds'
<1> SUFFICES ASSUME IInv, [BarrierNext]_barrierVars PROVE BarrierTypeOK' /\ Rounds'
  OBVIOUS
<1> USE ThreadAssumption, ThresholdAssumption, ModeAssumption DEF IInv, BarrierTypeOK, Rounds, PC
<1>1. CASE UNCHANGED barrierVars
  BY <1>1 DEF barrierVars
<1>2. ASSUME NEW t \in Threads, Lock(t) PROVE BarrierTypeOK' /\ Rounds'
  BY <1>2 DEF Lock, Goto
<1>3. ASSUME NEW t \in Threads, Count(t) PROVE BarrierTypeOK' /\ Rounds'
  <2>1. count' \in 0 .. threshold - 1
    BY <1>3 DEF Count
  <2>2. pc' \in [Threads -> PC] /\ arrived[t] < MaxRounds /\ left[t] = arrived[t]
    BY <1>3 DEF Count, Goto
  <2>3. arrived' \in [Threads -> 0 .. MaxRounds]
    BY <1>3, <2>2 DEF Count
  <2>4. Rounds'
    BY <1>3, <2>2 DEF Count, Goto
  <2>5. QED
    BY <1>3, <2>1, <2>2, <2>3, <2>4 DEF Count
<1>4. ASSUME NEW t \in Threads, GiveUpLock(t) PROVE BarrierTypeOK' /\ Rounds'
  BY <1>4 DEF GiveUpLock, Goto
<1>5. ASSUME NEW t \in Threads, StartToWait(t) PROVE BarrierTypeOK' /\ Rounds'
  BY <1>5 DEF StartToWait, Goto
<1>6. ASSUME NEW t \in Threads, Pulse(t) PROVE BarrierTypeOK' /\ Rounds'
  <2>1. \A u \in LetOut(t) : u \in Threads /\ left[u] = arrived[u] - 1
    BY <1>6 DEF Pulse, LetOut
  <2>2. left' \in [Threads -> 0 .. MaxRounds]
    BY <1>6, <2>1 DEF Pulse
  <2>3. pc' \in [Threads -> PC]
    BY <1>6 DEF Pulse
  <2>4. Rounds'
    BY <1>6, <2>1 DEF Pulse, LetOut
  <2>5. QED
    BY <1>6, <2>2, <2>3, <2>4 DEF Pulse
<1>7. ASSUME NEW t \in Threads, Unlock(t) PROVE BarrierTypeOK' /\ Rounds'
  BY <1>7 DEF Unlock, Goto
<1>8. QED
  BY <1>1, <1>2, <1>3, <1>4, <1>5, <1>6, <1>7 DEF BarrierNext, Step, Over

\* Every step of the barrier keeps its lock with the thread inside, and an atomic
\* signal_and_wait lets none stand between.
LEMMA ExclusiveStep == IInv /\ [BarrierNext]_barrierVars => Exclusive' /\ NoGap'
<1> SUFFICES ASSUME IInv, [BarrierNext]_barrierVars PROVE Exclusive' /\ NoGap'
  OBVIOUS
<1> USE ThreadAssumption DEF IInv, BarrierTypeOK, Exclusive, NoGap
<1>1. CASE UNCHANGED barrierVars
  BY <1>1 DEF barrierVars
<1>2. ASSUME NEW t \in Threads, Lock(t) PROVE Exclusive' /\ NoGap'
  BY <1>2 DEF Lock, Goto
<1>3. ASSUME NEW t \in Threads, Count(t) PROVE Exclusive' /\ NoGap'
  BY <1>3 DEF Count, Goto
<1>4. ASSUME NEW t \in Threads, GiveUpLock(t) PROVE Exclusive' /\ NoGap'
  BY <1>4 DEF GiveUpLock, Goto
<1>5. ASSUME NEW t \in Threads, StartToWait(t) PROVE Exclusive' /\ NoGap'
  BY <1>5 DEF StartToWait, Goto
<1>6. ASSUME NEW t \in Threads, Pulse(t) PROVE Exclusive' /\ NoGap'
  BY <1>6 DEF Pulse
<1>7. ASSUME NEW t \in Threads, Unlock(t) PROVE Exclusive' /\ NoGap'
  BY <1>7 DEF Unlock, Goto
<1>8. QED
  BY <1>1, <1>2, <1>3, <1>4, <1>5, <1>6, <1>7 DEF BarrierNext, Step, Over

\* Only an arrival and a pulse change who is in the barrier.
LEMMA OthersKeep ==
  ASSUME IInv, NEW t \in Threads, Lock(t) \/ GiveUpLock(t) \/ StartToWait(t) \/ Unlock(t)
  PROVE  Inside' = Inside /\ LastOnes' = LastOnes /\ count' = count
<1> USE DEF IInv, BarrierTypeOK, Inside, LastOnes
<1>1. CASE Lock(t)
  BY <1>1 DEF Lock, Goto
<1>2. CASE GiveUpLock(t)
  BY <1>2 DEF GiveUpLock, Goto
<1>3. CASE StartToWait(t)
  BY <1>3 DEF StartToWait, Goto
<1>4. CASE Unlock(t)
  BY <1>4 DEF Unlock, Goto
<1>5. QED
  BY <1>1, <1>2, <1>3, <1>4

\* An arrival puts its thread among those inside, or makes it the last one.
LEMMA CountStep ==
  ASSUME IInv, AtomicSignalAndWait, NEW t \in Threads, Count(t)
  PROVE  /\ t \notin Inside /\ LastOnes = {} /\ count = Cardinality(Inside)
         /\ \/ /\ count + 1 = threshold /\ count' = 0
               /\ Inside' = Inside /\ LastOnes' = {t}
            \/ /\ count + 1 # threshold /\ count' = count + 1
               /\ Inside' = Inside \cup {t} /\ LastOnes' = {}
<1>1. pc[t] = "locked"
  BY DEF Count
<1>2. LastOnes = {}
  BY <1>1, Alone DEF IInv, LastOnes
<1>3. count = Cardinality(Inside) /\ t \notin Inside
  BY <1>1, <1>2 DEF IInv, CountIsWaiters, Inside
<1>4. CASE count + 1 = threshold
  <2>1. count' = 0 /\ pc' = [pc EXCEPT ![t] = "last"]
    BY <1>4 DEF Count, Goto
  <2>2. Inside' = Inside /\ LastOnes' = {t}
    BY <1>1, <1>2, <2>1 DEF IInv, BarrierTypeOK, Inside, LastOnes
  <2>3. QED
    BY <1>2, <1>3, <1>4, <2>1, <2>2
<1>5. CASE count + 1 # threshold
  <2>1. count' = count + 1 /\ pc' = [pc EXCEPT ![t] = "counted"]
    BY <1>5 DEF Count, Goto
  <2>2. Inside' = Inside \cup {t} /\ LastOnes' = {}
    BY <1>1, <1>2, <2>1 DEF IInv, BarrierTypeOK, Inside, LastOnes
  <2>3. QED
    BY <1>2, <1>3, <1>5, <2>1, <2>2
<1>6. QED
  BY <1>4, <1>5

\* A pulse lets everybody out.
LEMMA PulseStep ==
  ASSUME IInv, AtomicSignalAndWait, NEW t \in Threads, Pulse(t)
  PROVE  Inside' = {} /\ LastOnes' = {} /\ count' = 0
<1>1. pc[t] = "last"
  BY DEF Pulse
<1>2. LastOnes = {t} /\ LetOut(t) = Inside \cup {t} /\ count = 0
  BY <1>1, AllBlocked
<1>3. \A u \in Threads : pc'[u] = IF u = t THEN "pulsed" ELSE IF u \in Inside THEN "outside" ELSE pc[u]
  BY <1>2 DEF Pulse
<1>4. \A u \in Threads : u \notin Inside /\ u # t =>
        pc[u] \notin {"counted", "released", "blocked", "last"}
  BY <1>2 DEF Inside, LastOnes
<1>5. \A u \in Threads : pc'[u] \notin {"counted", "released", "blocked", "last"}
  BY <1>3, <1>4
<1>6. QED
  BY <1>2, <1>5 DEF Inside, LastOnes, Pulse

\* While signalling and waiting are one step, the count is that of the waiters.
LEMMA WaitersStep ==
  ASSUME IInv, AtomicSignalAndWait, [BarrierNext]_barrierVars
  PROVE  CountIsWaiters'
<1>1. CASE UNCHANGED barrierVars
  BY <1>1 DEF barrierVars, IInv, CountIsWaiters, Inside, LastOnes
<1>2. ASSUME NEW t \in Threads, Count(t) PROVE CountIsWaiters'
  <2>1. CASE count + 1 = threshold
    BY <1>2, <2>1, CountStep DEF CountIsWaiters
  <2>2. CASE count + 1 # threshold
    <3>1. Inside' = Inside \cup {t} /\ LastOnes' = {} /\ count' = Cardinality(Inside) + 1
      BY <1>2, <2>2, CountStep
    <3>2. Cardinality(Inside') = Cardinality(Inside) + 1
      BY <1>2, <3>1, CountStep, OneMore
    <3>3. QED
      BY <3>1, <3>2 DEF CountIsWaiters
  <2>3. QED
    BY <2>1, <2>2
<1>3. ASSUME NEW t \in Threads, Pulse(t) PROVE CountIsWaiters'
  BY <1>3, PulseStep, FS_EmptySet DEF CountIsWaiters
<1>4. ASSUME NEW t \in Threads, Lock(t) \/ GiveUpLock(t) \/ StartToWait(t) \/ Unlock(t)
      PROVE  CountIsWaiters'
  BY <1>4, OthersKeep DEF IInv, CountIsWaiters
<1>5. QED
  BY <1>1, <1>2, <1>3, <1>4 DEF BarrierNext, Step, Over

\* Every step of the barrier preserves its inductive invariant.
LEMMA NextInv == IInv /\ [BarrierNext]_barrierVars => IInv'
BY TypeStep, ExclusiveStep, WaitersStep DEF IInv

\* IInv holds in every reachable state.
THEOREM Invariance == BarrierSpec => []IInv
BY InitInv, NextInv, PTL DEF BarrierSpec

\* Types: with any number of threads the count stays below the threshold.
THEOREM BarrierTypeCorrect == BarrierSpec => []BarrierTypeOK
<1>1. IInv => BarrierTypeOK
  BY DEF IInv
<1>2. QED
  BY <1>1, Invariance, PTL

\* Use signal_and_wait to make operation atomic: if it is, a thread that has been
\* counted is one that the next pulse releases.
THEOREM NobodyMissed == ASSUME AtomicSignalAndWait PROVE BarrierSpec => []CountIsWaiters
<1>1. IInv => CountIsWaiters
  BY DEF IInv
<1>2. QED
  BY <1>1, Invariance, PTL

\* The threads let out of the barrier are the last one and all those inside.
LEMMA StepRefines ==
  ASSUME IInv, AtomicSignalAndWait, [BarrierNext]_barrierVars
  PROVE  [AbstractBarrier!Next]_(Inside \cup LastOnes)
<1> DEFINE W == Inside \cup LastOnes
<1>0. \A S : AbstractBarrier!Cardinality(S) = Cardinality(S)
  BY DEF AbstractBarrier!Cardinality, Cardinality
<1> USE DEF AbstractBarrier!Next
<1>1. CASE UNCHANGED barrierVars
  BY <1>1 DEF barrierVars, Inside, LastOnes
<1>2. ASSUME NEW t \in Threads, Count(t) PROVE AbstractBarrier!Arrive(t)
  <2>1. t \notin W /\ W' = W \cup {t} /\ Cardinality(W) = count
    BY <1>2, CountStep
  <2>2. count \in 0 .. threshold - 1
    BY DEF IInv, BarrierTypeOK
  <2>3. Cardinality(W) < threshold
    BY <2>1, <2>2, ThresholdAssumption
  <2>4. QED
    BY <1>0, <2>1, <2>3 DEF AbstractBarrier!Arrive
<1>3. ASSUME NEW t \in Threads, Pulse(t) PROVE AbstractBarrier!Open
  <2>1. pc[t] = "last"
    BY <1>3 DEF Pulse
  <2>2. W = Inside \cup {t} /\ Cardinality(Inside \cup {t}) = threshold
    BY <2>1, AllBlocked
  <2>3. W' = {}
    BY <1>3, PulseStep
  <2>4. QED
    BY <1>0, <2>2, <2>3 DEF AbstractBarrier!Open
<1>4. ASSUME NEW t \in Threads, Lock(t) \/ GiveUpLock(t) \/ StartToWait(t) \/ Unlock(t)
      PROVE  UNCHANGED W
  BY <1>4, OthersKeep
<1>5. QED
  BY <1>1, <1>2, <1>3, <1>4 DEF BarrierNext, Step, Over

\* thread_barrier implements the abstract barrier: groups of threshold threads, and
\* only threads that were in it together.
THEOREM Refinement == ASSUME AtomicSignalAndWait PROVE BarrierSpec => ImplementsBarrier
<1>1. BarrierInit => AbstractBarrier!Init
  BY DEF BarrierInit, Inside, LastOnes, AbstractBarrier!Init
<1>2. IInv /\ [BarrierNext]_barrierVars => [AbstractBarrier!Next]_(Inside \cup LastOnes)
  BY StepRefines
<1>3. QED
  BY <1>1, <1>2, Invariance, PTL DEF BarrierSpec, ImplementsBarrier, AbstractBarrier!Spec

\* Threads that use a barrier for all of them.  r of their rounds are over and no more:
\* each has arrived r times, or once again, and the count is of those.  A thread that
\* missed a pulse does not arrive again, so that there is no other pulse.
Ahead(r) == {t \in Threads : arrived[t] = r + 1}
InRound(r) ==
    /\ \A t \in Threads : arrived[t] \in {r, r + 1} /\ left[t] <= r
    /\ count = Cardinality(Ahead(r))
    /\ LastOnes # {} => Ahead(r) = {}
OneRound == \E r \in Nat : InRound(r)

\* The threads ahead of a round are a finite set.
LEMMA AheadIsFinite ==
  ASSUME NEW r \in Nat
  PROVE  IsFiniteSet(Ahead(r)) /\ Cardinality(Ahead(r)) \in Nat
<1>1. Ahead(r) \subseteq Threads
  BY DEF Ahead
<1>2. QED
  BY <1>1, ThreadAssumption, FS_Subset, FS_CardinalityType

\* An arrival counts one more in the round, and the last one of them begins the next.
LEMMA ArrivalInRound ==
  ASSUME IInv, Cardinality(Threads) = threshold, NEW r \in Nat, InRound(r),
         NEW t \in Threads, Count(t)
  PROVE  InRound(r)' \/ InRound(r + 1)'
<1>1. /\ pc[t] = "locked" /\ arrived \in [Threads -> Nat] /\ pc \in [Threads -> PC]
      /\ left' = left /\ arrived' = [arrived EXCEPT ![t] = @ + 1]
  BY ModeAssumption DEF Count, IInv, BarrierTypeOK
<1>2. arrived[t] = r
  <2>1. left[t] = arrived[t]
    BY <1>1 DEF IInv, Rounds
  <2>2. QED
    BY <1>1, <2>1 DEF InRound
<1>3. Ahead(r)' = Ahead(r) \cup {t} /\ t \notin Ahead(r)
  BY <1>1, <1>2 DEF Ahead
<1>4. Cardinality(Ahead(r)') = count + 1
  BY <1>3, AheadIsFinite, FS_AddElement DEF InRound
<1>5. \A u \in Threads : arrived'[u] \in {r, r + 1} /\ left'[u] <= r
  BY <1>1, <1>2 DEF InRound
<1>6. CASE count + 1 = threshold
  <2>1. count' = 0
    BY <1>6 DEF Count
  <2>2. Ahead(r)' \subseteq Threads
    BY DEF Ahead
  <2>3. Ahead(r)' = Threads
    BY <1>4, <1>6, <2>2, ThreadAssumption, FS_Subset
  <2>4. \A u \in Threads : arrived'[u] = r + 1
    BY <2>3 DEF Ahead
  <2>5. Ahead(r + 1)' = {}
    BY <2>4 DEF Ahead
  <2>6. \A u \in Threads : left'[u] <= r + 1
    BY <1>1, <1>5 DEF IInv, BarrierTypeOK
  <2>7. QED
    BY <2>1, <2>4, <2>5, <2>6, FS_EmptySet DEF InRound
<1>7. CASE count + 1 # threshold
  <2>1. count' = count + 1 /\ pc' = [pc EXCEPT ![t] = "counted"]
    BY <1>7 DEF Count, Goto
  <2>2. LastOnes' = {}
    <3>1. \A u \in Threads : pc[u] # "last"
      BY <1>1, Alone DEF IInv
    <3>2. QED
      BY <1>1, <2>1, <3>1 DEF LastOnes
  <2>3. QED
    BY <1>4, <1>5, <2>1, <2>2 DEF InRound
<1>8. QED
  BY <1>6, <1>7

\* With as many threads as the threshold, every step keeps the threads within one round.
LEMMA RoundStep ==
  ASSUME IInv, IInv', Cardinality(Threads) = threshold, OneRound, [BarrierNext]_barrierVars
  PROVE  OneRound'
<1>0. PICK r \in Nat : InRound(r)
  BY DEF OneRound
<1>1. ASSUME NEW t \in Threads, Count(t) PROVE OneRound'
  BY <1>0, <1>1, ArrivalInRound DEF OneRound
<1>2. ASSUME NEW t \in Threads, Pulse(t) PROVE OneRound'
  <2>1. pc[t] = "last" /\ UNCHANGED <<count, arrived>>
    BY <1>2 DEF Pulse
  <2>2. Ahead(r) = {} /\ Ahead(r)' = Ahead(r)
    BY <1>0, <2>1 DEF InRound, LastOnes, Ahead
  <2>3. \A u \in Threads : arrived'[u] = r
    BY <1>0, <2>1, <2>2 DEF InRound, Ahead
  <2>4. \A u \in Threads : left'[u] <= r
    BY <2>3 DEF IInv, BarrierTypeOK, Rounds
  <2>5. QED
    BY <1>0, <2>1, <2>2, <2>3, <2>4 DEF InRound, OneRound
<1>3. ASSUME NEW t \in Threads, Lock(t) \/ GiveUpLock(t) \/ StartToWait(t) \/ Unlock(t)
      PROVE  OneRound'
  <2>1. UNCHANGED <<count, arrived, left>>
    BY <1>3 DEF Lock, GiveUpLock, StartToWait, Unlock
  <2>2. LastOnes' = LastOnes
    BY <1>3, OthersKeep
  <2>3. QED
    BY <1>0, <2>1, <2>2 DEF InRound, Ahead, OneRound
<1>4. CASE UNCHANGED barrierVars
  BY <1>0, <1>4 DEF barrierVars, InRound, Ahead, LastOnes, OneRound
<1>5. QED
  BY <1>1, <1>2, <1>3, <1>4 DEF BarrierNext, Step, Over

\* Threads that use a barrier for all of them stay together, however SignalObjectAndWait
\* gives up the mutex: nobody finishes a round before everybody has arrived in it.
THEOREM StayTogether ==
  ASSUME Cardinality(Threads) = threshold
  PROVE  BarrierSpec => []Together
<1>1. BarrierInit => OneRound
  <2> SUFFICES ASSUME BarrierInit PROVE InRound(0)
    BY DEF OneRound
  <2>1. Ahead(0) = {} /\ LastOnes = {}
    BY DEF BarrierInit, Ahead, LastOnes
  <2>2. QED
    BY <2>1, FS_EmptySet DEF BarrierInit, InRound
<1>2. IInv /\ IInv' /\ OneRound /\ [BarrierNext]_barrierVars => OneRound'
  BY RoundStep
<1>3. OneRound /\ IInv => Together
  BY DEF OneRound, InRound, Together, IInv, BarrierTypeOK
<1>4. QED
  BY <1>1, <1>2, <1>3, Invariance, PTL DEF BarrierSpec

--------------------------------------------------------------------------------------
(***************************************************************************)
(* The remote session channel.                                             *)
(*                                                                         *)
(* Roles agree and connections last, for any number of peers, whatever     *)
(* they can see of one another and however often they try to connect.      *)
(***************************************************************************)

States == {"sent", "waiting", "accepted", "refused"}

\* What the requests of a peer are.
LEMMA Requests == ASSUME TypeOK, NEW p \in Peers
                  PROVE  /\ request[p] \in Seq(Request) /\ Len(request[p]) \in Nat
                         /\ DOMAIN request[p] = 1 .. Len(request[p])
                         /\ \A n \in DOMAIN request[p] :
                              /\ request[p][n] \in Request /\ request[p][n].to \in Peers
                              /\ request[p][n].state \in States /\ request[p][n].open \in BOOLEAN
<1>1. request[p] \in Seq(Request)
  BY DEF TypeOK
<1>2. /\ Len(request[p]) \in Nat /\ DOMAIN request[p] = 1 .. Len(request[p])
      /\ \A n \in DOMAIN request[p] : request[p][n] \in Request
  BY <1>1
<1> QED BY <1>1, <1>2 DEF Request, States

\* A peer joins in its last request.
LEMMA JoiningLast == ASSUME TypeOK, NEW p \in Peers, Joining(p)
                     PROVE  Len(request[p]) \in DOMAIN request[p] /\ request[p][Len(request[p])].open
<1>1. request[p] \in Seq(Request) /\ request[p] # <<>>
  BY Requests DEF Joining
<1> QED BY <1>1 DEF Joining

\* A request comes to another state.
LEMMA StateSet ==
    ASSUME TypeOK, NEW p \in Peers, NEW n \in DOMAIN request[p], NEW s \in States,
           request' = [request EXCEPT ![p][n].state = s]
    PROVE  /\ request' \in [Peers -> Seq(Request)]
           /\ \A x \in Peers :
                /\ Len(request'[x]) = Len(request[x]) /\ DOMAIN request'[x] = DOMAIN request[x]
                /\ \A m \in DOMAIN request[x] :
                     /\ request'[x][m].to = request[x][m].to /\ request'[x][m].open = request[x][m].open
                     /\ x # p \/ m # n => request'[x][m] = request[x][m]
           /\ request'[p][n].state = s
<1>1. request \in [Peers -> Seq(Request)] /\ request[p] \in Seq(Request)
  BY DEF TypeOK
<1>2. /\ request'[p] = [request[p] EXCEPT ![n].state = s]
      /\ \A x \in Peers \ {p} : request'[x] = request[x]
      /\ DOMAIN request' = Peers
  BY <1>1
<1>3. request[p][n] \in Request /\ [request[p][n] EXCEPT !.state = s] \in Request
  BY <1>1, Requests DEF Request, States
<1>4. request'[p] \in Seq(Request) /\ Len(request'[p]) = Len(request[p])
  BY <1>1, <1>2, <1>3
<1>5. request' \in [Peers -> Seq(Request)]
  BY <1>1, <1>2, <1>4
<1>6. \A m \in DOMAIN request[p] : request'[p][m] = IF m = n THEN [request[p][n] EXCEPT !.state = s] ELSE request[p][m]
  BY <1>1, <1>2
<1>7. /\ [request[p][n] EXCEPT !.state = s].to = request[p][n].to
      /\ [request[p][n] EXCEPT !.state = s].open = request[p][n].open
      /\ [request[p][n] EXCEPT !.state = s].state = s
  BY <1>3 DEF Request
<1> QED BY <1>1, <1>2, <1>4, <1>5, <1>6, <1>7

\* A request that is open no more is a request.
LEMMA Closed == ASSUME NEW r \in Request, NEW v \in BOOLEAN
                PROVE  /\ [r EXCEPT !.open = v] \in Request
                       /\ [r EXCEPT !.open = v].to = r.to /\ [r EXCEPT !.open = v].state = r.state
                       /\ [r EXCEPT !.open = v].open = v
<1>1. [r EXCEPT !.open = v] \in Request
  BY DEF Request
<1>2. [r EXCEPT !.open = v].to = r.to /\ [r EXCEPT !.open = v].state = r.state
  BY DEF Request
<1>3. [r EXCEPT !.open = v].open = v
  BY DEF Request
<1> QED BY <1>1, <1>2, <1>3

\* JoinAsync returns: the last request is not open any more.
LEMMA Returned ==
    ASSUME TypeOK, NEW p \in Peers, Joining(p), JoinReturns(p)
    PROVE  /\ request' \in [Peers -> Seq(Request)]
           /\ \A x \in Peers :
                /\ Len(request'[x]) = Len(request[x]) /\ DOMAIN request'[x] = DOMAIN request[x]
                /\ \A m \in DOMAIN request[x] :
                     /\ request'[x][m].to = request[x][m].to /\ request'[x][m].state = request[x][m].state
                     /\ x # p \/ m # Len(request[p]) => request'[x][m].open = request[x][m].open
           /\ ~ request'[p][Len(request[p])].open
<1> DEFINE n == Len(request[p])
<1>1. request \in [Peers -> Seq(Request)] /\ request[p] \in Seq(Request)
  BY DEF TypeOK
<1>2. /\ request'[p] = [request[p] EXCEPT ![n].open = FALSE]
      /\ \A x \in Peers \ {p} : request'[x] = request[x]
      /\ DOMAIN request' = Peers /\ n \in DOMAIN request[p]
  BY <1>1, JoiningLast DEF JoinReturns
<1> HIDE DEF n
<1>3. request[p][n] \in Request /\ [request[p][n] EXCEPT !.open = FALSE] \in Request
  BY <1>1, <1>2, Requests, Closed
<1>4. request'[p] \in Seq(Request) /\ Len(request'[p]) = Len(request[p])
  BY <1>1, <1>2, <1>3
<1>5. request' \in [Peers -> Seq(Request)]
  BY <1>1, <1>2, <1>4 DEF JoinReturns
<1>6. \A m \in DOMAIN request[p] : request'[p][m] = IF m = n THEN [request[p][n] EXCEPT !.open = FALSE] ELSE request[p][m]
  BY <1>1, <1>2
<1>7. /\ [request[p][n] EXCEPT !.open = FALSE].to = request[p][n].to
      /\ [request[p][n] EXCEPT !.open = FALSE].state = request[p][n].state
      /\ [request[p][n] EXCEPT !.open = FALSE].open = FALSE
  BY <1>3, Closed
<1> QED BY <1>1, <1>2, <1>4, <1>5, <1>6, <1>7 DEF n

\* connect calls JoinAsync.
LEMMA Asked ==
    ASSUME TypeOK, NEW p \in Peers, NEW q \in Peers,
           request' = [request EXCEPT ![p] = Append(@, [to |-> q, state |-> "sent", open |-> TRUE])]
    PROVE  /\ request' \in [Peers -> Seq(Request)]
           /\ \A x \in Peers \ {p} : request'[x] = request[x]
           /\ Len(request'[p]) = Len(request[p]) + 1
           /\ DOMAIN request'[p] = DOMAIN request[p] \cup {Len(request[p]) + 1}
           /\ \A m \in DOMAIN request[p] : request'[p][m] = request[p][m]
           /\ request'[p][Len(request[p]) + 1] = [to |-> q, state |-> "sent", open |-> TRUE]
<1> DEFINE r == [to |-> q, state |-> "sent", open |-> TRUE]
<1>1. request \in [Peers -> Seq(Request)] /\ request[p] \in Seq(Request) /\ r \in Request
  BY DEF TypeOK, Request
<1> HIDE DEF r
<1>2. request'[p] = Append(request[p], r) /\ (\A x \in Peers \ {p} : request'[x] = request[x])
      /\ request' \in [Peers -> Seq(Request)]
  BY <1>1 DEF r
<1>3. /\ Len(request'[p]) = Len(request[p]) + 1
      /\ request'[p][Len(request[p]) + 1] = r
      /\ \A m \in 1 .. Len(request[p]) : request'[p][m] = request[p][m]
  BY <1>1, <1>2
<1>4. DOMAIN request[p] = 1 .. Len(request[p]) /\ DOMAIN request'[p] = 1 .. Len(request[p]) + 1
      /\ Len(request[p]) \in Nat
  BY <1>1, <1>2, <1>3
<1> QED BY <1>2, <1>3, <1>4 DEF r
------------------------------------------------------------------------------------
(* The steps *)

\* At first nobody has a session.
LEMMA Initially == Init => ChannelInv
<1> SUFFICES ASSUME Init PROVE ChannelInv
  OBVIOUS
<1> USE DEF Init
<1>1. TypeOK
  <2>1. <<>> \in Seq(Request)
    OBVIOUS
  <2>2. spc \in [Peers -> StartPC] /\ handler \in [Peers -> HandlerPC]
    BY DEF StartPC, HandlerPC
  <2> QED BY <2>1, <2>2 DEF TypeOK
<1>2. PeersAreVisible
  <2>1. \A p \in Peers : list[p] = {} /\ known[p] = {} /\ request[p] = <<>> /\ DOMAIN request[p] = {}
    OBVIOUS
  <2>2. \A p \in Peers : watching[p] => Watches(p)
    BY DEF Watches
  <2> HIDE DEF Init
  <2> QED BY <2>1, <2>2 DEF PeersAreVisible
<1>5. LockIsHeld
  BY DEF LockIsHeld, Joining, Accepting
<1>3. AcceptedOnce
  BY DEF AcceptedOnce, AcceptedBy
<1>4. SessionsBelong
  BY DEF SessionsBelong, Watches, Accepting
<1> QED BY <1>1, <1>2, <1>3, <1>4, <1>5 DEF ChannelInv

\* A step that makes no connection: start_async may go on, the list may change, and
\* who takes part in nobody's session has its own as soon as it watches.
LEMMA SearchKeeps ==
    ASSUME ChannelInv, TypeOK', UNCHANGED <<connected, controller, handler, request>>,
           \A x \in Peers : /\ list'[x] \subseteq known'[x] /\ known'[x] \subseteq Visible[x]
                            /\ watching'[x] \/ known'[x] # {} => Watches(x)'
                            /\ Offers(x) => Offers(x)'
                            /\ Watches(x) => Watches(x)'
                            /\ session'[x] = IF connected[x] /\ ~ Controls(x) THEN session[x]
                                             ELSE IF Watches(x)' THEN x ELSE NoSession
    PROVE  ChannelInv'
<1>1. PeersAreVisible /\ LockIsHeld /\ AcceptedOnce /\ SessionsBelong
  BY DEF ChannelInv
<1>2. PeersAreVisible'
  BY <1>1 DEF PeersAreVisible
<1>3. LockIsHeld'
  BY <1>1 DEF LockIsHeld, Joining, Accepting
<1>4. /\ \A x, y : AcceptedBy(x, y)' <=> AcceptedBy(x, y)
      /\ \A x : (Controls(x)' <=> Controls(x)) /\ (Accepting(x)' <=> Accepting(x))
  BY DEF AcceptedBy, Controls, Accepting
<1>5. AcceptedOnce'
  <2>1. \A x \in Peers : \A n \in DOMAIN request[x] : request[x][n].to \in Peers
    BY <1>1, VisibleAssumption DEF PeersAreVisible
  <2> QED BY <1>1, <1>4, <2>1 DEF AcceptedOnce
<1>6. SessionsBelong'
  BY <1>1, <1>4 DEF SessionsBelong
<1> QED BY <1>2, <1>3, <1>5, <1>6 DEF ChannelInv

\* Starting and stopping a peer keep the invariant of the channel.
LEMMA StartKeeps == ASSUME ChannelInv, NEW p \in Peers, StartStep(p) \/ Stop(p) PROVE ChannelInv'
<1>0. TypeOK /\ PeersAreVisible /\ SessionsBelong
  BY DEF ChannelInv
<1>1. CASE Created(p)
  BY <1>0, <1>1, SearchKeeps DEF Created, StartGoes, search, link, TypeOK, StartPC, PeersAreVisible, SessionsBelong,
     Watches, Offers, Controls, Accepting
<1>2. CASE CreationFails(p)
  BY <1>0, <1>2, SearchKeeps DEF CreationFails, StartGoes, StopEffect, link, TypeOK, StartPC, PeersAreVisible,
     SessionsBelong, Watches, Offers, Controls, Accepting
<1>3. CASE StartWatcher(p)
  BY <1>0, <1>3, SearchKeeps DEF StartWatcher, StartGoes, TypeOK, StartPC, PeersAreVisible, SessionsBelong,
     Watches, Offers, Controls, Accepting
<1>4. CASE SetStarted(p)
  BY <1>0, <1>4, SearchKeeps DEF SetStarted, StartGoes, link, TypeOK, StartPC, PeersAreVisible, SessionsBelong,
     Watches, Offers, Controls, Accepting
<1>5. CASE Stop(p)
  BY <1>0, <1>5, SearchKeeps DEF Stop, StopEffect, link, TypeOK, PeersAreVisible, SessionsBelong, Watches, Offers, Controls, Accepting
<1> QED BY <1>1, <1>2, <1>3, <1>4, <1>5 DEF StartStep

\* The watcher's two callbacks keep the invariant of the channel.
LEMMA WatcherKeeps == ASSUME ChannelInv, NEW p \in Peers, NEW q \in Peers,
                             SessionAdded(p, q) \/ SessionRemoved(p, q)
                      PROVE  ChannelInv'
<1>0. TypeOK /\ PeersAreVisible /\ SessionsBelong
  BY DEF ChannelInv
<1>1. CASE SessionAdded(p, q)
  BY <1>0, <1>1, SearchKeeps DEF SessionAdded, link, TypeOK, PeersAreVisible, SessionsBelong, Watches, Offers, Controls, Accepting
<1>2. CASE SessionRemoved(p, q)
  BY <1>0, <1>2, SearchKeeps DEF SessionRemoved, link, TypeOK, PeersAreVisible, SessionsBelong, Watches, Offers, Controls, Accepting
<1> QED BY <1>1, <1>2

\* A request that is sent is no accepted one, and connect sends none while one is open.
LEMMA ConnectKeeps == ASSUME ChannelInv, NEW p \in Peers, NEW q \in Peers, Connect(p, q) PROVE ChannelInv'
<1>1. TypeOK /\ PeersAreVisible /\ LockIsHeld /\ AcceptedOnce /\ SessionsBelong
  BY DEF ChannelInv
<1>2. /\ ~ Joining(p) /\ ~ Accepting(p) /\ ~ connected[p] /\ q \in known[p]
      /\ UNCHANGED <<started, watching, announced, list, known, connected, controller, session, spc, handler,
                     alive>>
      /\ request' = [request EXCEPT ![p] = Append(@, [to |-> q, state |-> "sent", open |-> TRUE])]
  BY DEF Connect, LockFree, search, link
<1> DEFINE n == Len(request[p]) + 1
<1>3. /\ request' \in [Peers -> Seq(Request)]
      /\ \A x \in Peers \ {p} : request'[x] = request[x]
      /\ Len(request'[p]) = n
      /\ DOMAIN request'[p] = DOMAIN request[p] \cup {n}
      /\ \A m \in DOMAIN request[p] : request'[p][m] = request[p][m]
      /\ request'[p][n] = [to |-> q, state |-> "sent", open |-> TRUE]
  BY <1>1, <1>2, Asked
<1>4. n \notin DOMAIN request[p]
  BY <1>1, Requests
<1>a. request'[p][n].to = q /\ request'[p][n].state = "sent"
  BY <1>3
<1> HIDE DEF n
<1>5. TypeOK'
  BY <1>1, <1>2, <1>3 DEF TypeOK
<1>6. PeersAreVisible'
  <2>1. Watches(p) /\ q \in Visible[p]
    BY <1>1, <1>2 DEF PeersAreVisible
  <2>2. \A x \in Peers \ {p} : request'[x] = request[x]
    BY <1>3
  <2> QED BY <1>1, <1>2, <1>3, <1>a, <2>1 DEF PeersAreVisible, Watches
<1>7. LockIsHeld'
  <2>1. ASSUME NEW m \in DOMAIN request[p], request[p][m].open PROVE FALSE
    <3>1. m = Len(request[p])
      BY <1>1, <2>1 DEF LockIsHeld
    <3>2. request[p][Len(request[p])].open
      BY <2>1, <3>1
    <3>3. request[p] # <<>>
      BY <2>1
    <3> QED BY <1>2, <3>2, <3>3 DEF Joining
  <2>2. ASSUME NEW m \in DOMAIN request'[p], request'[p][m].open PROVE m = Len(request'[p])
    <3>1. CASE m = n
      BY <1>3, <3>1
    <3>2. CASE m # n
      <4>1. m \in DOMAIN request[p] /\ request'[p][m] = request[p][m]
        BY <1>3, <2>2, <3>2
      <4>2. request[p][m].open
        BY <2>2, <4>1
      <4> QED BY <2>1, <4>1, <4>2
    <3> QED BY <3>1, <3>2
  <2>3. ASSUME NEW x \in Peers \ {p}
        PROVE  /\ \A m \in DOMAIN request'[x] : request'[x][m].open => m = Len(request'[x])
               /\ Joining(x)' => ~ connected[x] /\ ~ Accepting(x)
    BY <1>1, <1>2, <1>3 DEF LockIsHeld, Joining
  <2>4. \A x \in Peers : /\ controller[x] => connected[x]
                         /\ Accepting(x) => ~ controller[x] /\ (connected[x] <=> handler[x] = "connected")
    BY <1>1 DEF LockIsHeld
  <2>5. /\ \A x : Accepting(x)' <=> Accepting(x)
        /\ UNCHANGED <<connected, controller, handler>>
    BY <1>2 DEF Accepting
  <2> QED BY <1>2, <2>2, <2>3, <2>4, <2>5 DEF LockIsHeld
<1>8. ASSUME NEW x \in Peers, NEW y PROVE AcceptedBy(x, y)' <=> AcceptedBy(x, y)
  <2>1. CASE x = p
    BY <1>3, <1>4, <1>a, <2>1 DEF AcceptedBy
  <2>2. CASE x # p
    BY <1>3, <2>2 DEF AcceptedBy
  <2> QED BY <2>1, <2>2
<1>b. \A x : (Controls(x)' <=> Controls(x)) /\ (Accepting(x)' <=> Accepting(x))
  BY <1>2 DEF Controls, Accepting
<1>9. AcceptedOnce'
  <2>1. ASSUME NEW x \in Peers, NEW m \in DOMAIN request'[x], request'[x][m].state \in {"waiting", "accepted"}
        PROVE  Offers(request[x][m].to)'
    <3>1. m \in DOMAIN request[x] /\ request'[x][m] = request[x][m]
      BY <1>3, <1>a, <2>1
    <3>2. Offers(request[x][m].to)
      BY <1>1, <2>1, <3>1 DEF AcceptedOnce
    <3> QED BY <1>2, <3>1, <3>2 DEF Offers
  <2> QED BY <1>1, <1>2, <1>8, <1>b, <2>1 DEF AcceptedOnce
<1>10. SessionsBelong'
  BY <1>1, <1>2, <1>8, <1>b DEF SessionsBelong, Watches, Offers
<1> QED BY <1>5, <1>6, <1>7, <1>9, <1>10 DEF ChannelInv

\* What a step that sets the state of one request, or ends one, leaves true.
LEMMA SameRequests ==
    ASSUME ChannelInv, request' \in [Peers -> Seq(Request)],
           \A x \in Peers :
              /\ Len(request'[x]) = Len(request[x]) /\ DOMAIN request'[x] = DOMAIN request[x]
              /\ \A m \in DOMAIN request[x] :
                   /\ request'[x][m].to = request[x][m].to
                   /\ request'[x][m].open => request[x][m].open
    PROVE  /\ \A x \in Peers :
                /\ request'[x] = <<>> <=> request[x] = <<>>
                /\ \A n \in DOMAIN request'[x] : /\ request'[x][n].to \in Visible[x]
                                                 /\ request'[x][n].open => n = Len(request'[x])
                /\ Joining(x)' => Joining(x)
<1>1. TypeOK /\ PeersAreVisible /\ LockIsHeld
  BY DEF ChannelInv
<1>2. ASSUME NEW x \in Peers
      PROVE  /\ request'[x] = <<>> <=> request[x] = <<>>
             /\ request[x] # <<>> => Len(request[x]) \in DOMAIN request[x]
  <2>1. request[x] \in Seq(Request) /\ request'[x] \in Seq(Request) /\ Len(request'[x]) = Len(request[x])
    BY <1>1 DEF TypeOK
  <2> QED BY <2>1
<1>3. ASSUME NEW x \in Peers, Joining(x)' PROVE Joining(x)
  <2>1. request'[x] # <<>> /\ request'[x][Len(request'[x])].open
    BY <1>3 DEF Joining
  <2> QED BY <1>2, <2>1 DEF Joining
<1> QED BY <1>1, <1>2, <1>3 DEF PeersAreVisible, LockIsHeld

\* A request that was not accepted and is not accepted now leaves the connections alone.
LEMMA StateKeeps ==
    ASSUME ChannelInv, NEW p \in Peers, NEW n \in DOMAIN request[p], NEW s \in {"waiting", "refused"},
           request[p][n].state # "accepted", Offers(request[p][n].to),
           request' = [request EXCEPT ![p][n].state = s],
           UNCHANGED <<announced, known, connected, controller, session, spc, handler, alive>>,
           watching' \in [Peers -> BOOLEAN], started' \in [Peers -> BOOLEAN],
           list' \in [Peers -> SUBSET Peers],
           \A x \in Peers : (watching'[x] => watching[x]) /\ list'[x] \subseteq list[x]
    PROVE  ChannelInv'
<1>1. TypeOK /\ PeersAreVisible /\ LockIsHeld /\ AcceptedOnce /\ SessionsBelong
  BY DEF ChannelInv
<1>3. /\ request' \in [Peers -> Seq(Request)]
      /\ \A x \in Peers :
            /\ Len(request'[x]) = Len(request[x]) /\ DOMAIN request'[x] = DOMAIN request[x]
            /\ \A m \in DOMAIN request[x] :
                 /\ request'[x][m].to = request[x][m].to /\ request'[x][m].open = request[x][m].open
                 /\ x # p \/ m # n => request'[x][m] = request[x][m]
      /\ request'[p][n].state = s
  BY <1>1, StateSet DEF States
<1>6. TypeOK'
  BY <1>1, <1>3 DEF TypeOK
<1>7. \A x \in Peers :
         /\ request'[x] = <<>> <=> request[x] = <<>>
         /\ \A m \in DOMAIN request'[x] : /\ request'[x][m].to \in Visible[x]
                                          /\ request'[x][m].open => m = Len(request'[x])
         /\ Joining(x)' => Joining(x)
  BY <1>3, SameRequests
<1>8. PeersAreVisible'
  BY <1>1, <1>7 DEF PeersAreVisible, Watches
<1>a. \A x : (Controls(x)' <=> Controls(x)) /\ (Accepting(x)' <=> Accepting(x))
  BY DEF Controls, Accepting
<1>9. LockIsHeld'
  BY <1>1, <1>7, <1>a DEF LockIsHeld
<1>10. ASSUME NEW x \in Peers, NEW y PROVE AcceptedBy(x, y)' <=> AcceptedBy(x, y)
  <2>1. \A m \in DOMAIN request[x] : request'[x][m].to = request[x][m].to
                                 /\ (request'[x][m].state = "accepted" <=> request[x][m].state = "accepted")
    BY <1>3
  <2> QED BY <1>3, <2>1 DEF AcceptedBy
<1>11. AcceptedOnce'
  <2>1. ASSUME NEW x \in Peers, NEW m \in DOMAIN request'[x], request'[x][m].state \in {"waiting", "accepted"}
        PROVE  Offers(request[x][m].to)
    <3>1. CASE x = p /\ m = n
      BY <3>1
    <3>2. CASE x # p \/ m # n
      BY <1>1, <1>3, <2>1, <3>2 DEF AcceptedOnce
    <3> QED BY <3>1, <3>2
  <2>2. ASSUME NEW x \in Peers, NEW m \in DOMAIN request'[x], request'[x][m].state \in {"waiting", "accepted"}
        PROVE  spc'[request'[x][m].to] \in {"exists", "watching", "done"}
    BY <1>3, <2>1, <2>2 DEF Offers
  <2> QED BY <1>1, <1>10, <1>a, <2>2 DEF AcceptedOnce, Offers
<1>12. SessionsBelong'
  BY <1>1, <1>10, <1>a DEF SessionsBelong, Watches, Offers
<1> QED BY <1>6, <1>8, <1>9, <1>11, <1>12 DEF ChannelInv

\* A peer is asked only while it offers a session, and accepts nobody yet.
LEMMA JoinRequestedKeeps ==
    ASSUME ChannelInv, NEW p \in Peers, NEW n \in DOMAIN request[p], JoinRequested(p, n)
    PROVE  ChannelInv'
<1> DEFINE q == request[p][n].to
<1>1. TypeOK
  BY DEF ChannelInv
<1>2. /\ request[p][n].state = "sent" /\ Offers(q)
      /\ request' = [request EXCEPT ![p][n].state = "waiting"]
      /\ UNCHANGED <<announced, known, connected, controller, session, spc, handler, alive>>
      /\ watching' = [watching EXCEPT ![q] = @ /\ ~started[q]]
      /\ started' = [started EXCEPT ![q] = FALSE] /\ list' = [list EXCEPT ![q] = {}]
  BY DEF JoinRequested, StopEffect, link
<1>4. q \in Peers
  BY <1>1, Requests
<1>5. /\ \A x \in Peers : (watching'[x] => watching[x]) /\ list'[x] \subseteq list[x]
      /\ watching' \in [Peers -> BOOLEAN] /\ started' \in [Peers -> BOOLEAN]
      /\ list' \in [Peers -> SUBSET Peers]
  BY <1>1, <1>2, <1>4 DEF TypeOK
<1> QED BY <1>2, <1>5, StateKeeps

\* Who refuses has been asked.
LEMMA RefuseKeeps ==
    ASSUME ChannelInv, NEW p \in Peers, NEW n \in DOMAIN request[p], Refuse(p, n)
    PROVE  ChannelInv'
<1>1. TypeOK /\ AcceptedOnce
  BY DEF ChannelInv
<1>2. /\ request[p][n].state = "waiting"
      /\ request' = [request EXCEPT ![p][n].state = "refused"]
      /\ UNCHANGED <<started, watching, list, announced, known, connected, controller, session, spc, handler,
                     alive>>
  BY DEF Refuse, search, link
<1>3. Offers(request[p][n].to)
  BY <1>1, <1>2 DEF AcceptedOnce
<1>4. /\ watching' \in [Peers -> BOOLEAN] /\ started' \in [Peers -> BOOLEAN]
      /\ list' \in [Peers -> SUBSET Peers]
  BY <1>1, <1>2 DEF TypeOK
<1> QED BY <1>2, <1>3, <1>4, StateKeeps

\* Who accepts was not connected, so has accepted nobody, and is in no JoinAsync.
LEMMA AcceptKeeps ==
    ASSUME ChannelInv, NEW p \in Peers, NEW n \in DOMAIN request[p], Accept(p, n)
    PROVE  ChannelInv'
<1>1. TypeOK /\ PeersAreVisible /\ LockIsHeld /\ AcceptedOnce /\ SessionsBelong
  BY DEF ChannelInv
<1>q. PICK q \in Peers : request[p][n].to = q
  BY <1>1, Requests
<1>2. /\ request[p][n].state = "waiting" /\ ~ Joining(q) /\ ~ Accepting(q) /\ ~ connected[q]
      /\ request' = [request EXCEPT ![p][n].state = "accepted"]
      /\ handler' = [handler EXCEPT ![q] = "accepted"]
      /\ UNCHANGED <<started, watching, announced, list, known, connected, controller, session, spc, alive>>
  BY <1>q DEF Accept, Accepts, LockFree, search, link
<1>3. /\ request' \in [Peers -> Seq(Request)]
      /\ \A x \in Peers :
            /\ Len(request'[x]) = Len(request[x]) /\ DOMAIN request'[x] = DOMAIN request[x]
            /\ \A m \in DOMAIN request[x] :
                 /\ request'[x][m].to = request[x][m].to /\ request'[x][m].open = request[x][m].open
                 /\ x # p \/ m # n => request'[x][m] = request[x][m]
      /\ request'[p][n].state = "accepted"
  BY <1>1, <1>2, StateSet DEF States
<1>4. Offers(q)
  BY <1>1, <1>2, <1>q DEF AcceptedOnce
<1>5. /\ handler' \in [Peers -> HandlerPC] /\ handler'[q] = "accepted"
      /\ \A x \in Peers \ {q} : handler'[x] = handler[x]
  BY <1>1, <1>2, <1>4 DEF TypeOK, HandlerPC
<1>6. TypeOK'
  BY <1>1, <1>2, <1>3, <1>5 DEF TypeOK
<1>7. \A x \in Peers :
         /\ request'[x] = <<>> <=> request[x] = <<>>
         /\ \A m \in DOMAIN request'[x] : /\ request'[x][m].to \in Visible[x]
                                          /\ request'[x][m].open => m = Len(request'[x])
         /\ Joining(x)' => Joining(x)
  BY <1>3, SameRequests
<1>8. PeersAreVisible'
  BY <1>1, <1>2, <1>7 DEF PeersAreVisible, Watches
<1>a. /\ Accepting(q)' /\ Controls(q)'
      /\ \A x \in Peers \ {q} : (Controls(x)' <=> Controls(x)) /\ (Accepting(x)' <=> Accepting(x))
  BY <1>2, <1>5 DEF Controls, Accepting
<1>9. LockIsHeld'
  <2>1. ~ controller[q]
    BY <1>1, <1>2 DEF LockIsHeld
  <2>2. \A x \in Peers :
           /\ Joining(x)' => ~ connected'[x] /\ ~ Accepting(x)'
           /\ controller'[x] => connected'[x]
           /\ Accepting(x)' => ~ controller'[x] /\ (connected'[x] <=> handler'[x] = "connected")
    BY <1>1, <1>2, <1>5, <1>7, <1>a, <2>1 DEF LockIsHeld
  <2> QED BY <1>7, <2>2 DEF LockIsHeld
<1>10. ASSUME NEW x \in Peers, NEW y
       PROVE  AcceptedBy(x, y)' <=> AcceptedBy(x, y) \/ (x = p /\ y = q)
  <2>1. CASE x # p
    BY <1>3, <2>1 DEF AcceptedBy
  <2>2. CASE x = p
    <3>1. \A m \in DOMAIN request[p] :
             /\ request'[p][m].to = request[p][m].to
             /\ request'[p][m].state = "accepted" <=> request[p][m].state = "accepted" \/ m = n
      BY <1>3
    <3> QED BY <1>3, <1>q, <2>2, <3>1 DEF AcceptedBy
  <2> QED BY <2>1, <2>2
<1>11. AcceptedOnce'
  <2>1. ASSUME NEW x \in Peers, NEW m \in DOMAIN request'[x], request'[x][m].state \in {"waiting", "accepted"}
        PROVE  spc'[request'[x][m].to] \in {"exists", "watching", "done"}
    <3>1. request[x][m].state \in {"waiting", "accepted"}
      BY <1>2, <1>3, <2>1
    <3> QED BY <1>1, <1>2, <1>3, <3>1 DEF AcceptedOnce, Offers
  <2>2. ASSUME NEW x \in Peers, NEW y \in Peers, AcceptedBy(x, y)' PROVE Controls(y)'
    <3>1. CASE AcceptedBy(x, y)
      <4>1. Controls(y)
        BY <1>1, <3>1 DEF AcceptedOnce
      <4> QED BY <1>a, <4>1
    <3>2. CASE y = q
      BY <1>a, <3>2
    <3> QED BY <1>10, <2>2, <3>1, <3>2
  <2>3. \A x \in Peers : ~ AcceptedBy(x, q)
    BY <1>1, <1>2, <1>4 DEF AcceptedOnce, Controls
  <2>4. ASSUME NEW x \in Peers, NEW other \in Peers, NEW y \in Peers, AcceptedBy(x, y)', AcceptedBy(other, y)'
        PROVE  x = other
    BY <1>1, <1>10, <2>3, <2>4 DEF AcceptedOnce
  <2> QED BY <2>1, <2>2, <2>4 DEF AcceptedOnce, Offers
<1>12. SessionsBelong'
  <2>1. ASSUME NEW x \in Peers
        PROVE  IF connected'[x] /\ ~ Controls(x)'
               THEN Watches(x)' /\ AcceptedBy(x, session[x])'
               ELSE /\ session'[x] = (IF Watches(x)' THEN x ELSE NoSession)
                    /\ connected'[x] \/ Accepting(x)' => Offers(x)'
    <3>0. /\ Watches(x)' <=> Watches(x)
          /\ Offers(x)' <=> Offers(x)
      BY <1>2 DEF Watches, Offers
    <3>1. CASE x # q
      BY <1>1, <1>2, <1>10, <1>a, <3>0, <3>1 DEF SessionsBelong
    <3>2. CASE x = q
      BY <1>1, <1>2, <1>4, <1>a, <3>0, <3>2 DEF SessionsBelong
    <3> QED BY <3>1, <3>2
  <2> QED BY <1>2, <2>1 DEF SessionsBelong, AcceptedBy
<1> QED BY <1>6, <1>8, <1>9, <1>11, <1>12 DEF ChannelInv

\* The flags that the handler sets say what its peer is already.
LEMMA FlagsKeep == ASSUME ChannelInv, NEW q \in Peers, SetConnected(q) \/ SetController(q) PROVE ChannelInv'
<1>1. TypeOK /\ PeersAreVisible /\ LockIsHeld /\ AcceptedOnce /\ SessionsBelong
  BY DEF ChannelInv
<1>2. /\ UNCHANGED <<started, watching, announced, list, known, session, spc, request, alive>>
      /\ Accepting(q)
  BY DEF SetConnected, SetController, search, Accepting
<1>3. ~ Joining(q) /\ Controls(q)
  BY <1>1, <1>2 DEF LockIsHeld, Controls
<1>4. /\ connected' \in [Peers -> BOOLEAN] /\ controller' \in [Peers -> BOOLEAN]
      /\ handler' \in [Peers -> HandlerPC]
      /\ \A x \in Peers \ {q} : /\ connected'[x] = connected[x] /\ controller'[x] = controller[x]
                                /\ handler'[x] = handler[x]
  <2>1. /\ connected \in [Peers -> BOOLEAN] /\ controller \in [Peers -> BOOLEAN]
        /\ handler \in [Peers -> HandlerPC] /\ {"none", "connected"} \subseteq HandlerPC
    BY <1>1 DEF TypeOK, HandlerPC
  <2>2. CASE SetConnected(q)
    BY <2>1, <2>2 DEF SetConnected
  <2>3. CASE SetController(q)
    BY <2>1, <2>3 DEF SetController
  <2> QED BY <2>2, <2>3
<1>5. \/ handler'[q] = "connected" /\ connected'[q] /\ ~ controller'[q]
      \/ handler'[q] = "none" /\ connected'[q] /\ controller'[q]
  BY <1>1, <1>2 DEF SetConnected, SetController, LockIsHeld, TypeOK
<1>6. /\ Controls(q)'
      /\ \A x \in Peers \ {q} : (Controls(x)' <=> Controls(x)) /\ (Accepting(x)' <=> Accepting(x))
  BY <1>4, <1>5 DEF Controls, Accepting
<1>7. TypeOK'
  BY <1>1, <1>2, <1>4 DEF TypeOK
<1>8. PeersAreVisible'
  BY <1>1, <1>2 DEF PeersAreVisible, Watches
<1>9. LockIsHeld'
  <2>1. \A x : Joining(x)' <=> Joining(x)
    BY <1>2 DEF Joining
  <2>2. Accepting(q)' => ~ controller'[q] /\ (connected'[q] <=> handler'[q] = "connected")
    BY <1>5 DEF Accepting
  <2>3. controller'[q] => connected'[q]
    BY <1>5
  <2>4. ASSUME NEW x \in Peers \ {q}
        PROVE  /\ Joining(x)' => ~ connected'[x] /\ ~ Accepting(x)'
               /\ controller'[x] => connected'[x]
               /\ Accepting(x)' => ~ controller'[x] /\ (connected'[x] <=> handler'[x] = "connected")
    BY <1>1, <1>4, <1>6, <2>1 DEF LockIsHeld
  <2>5. \A x \in Peers : \A n \in DOMAIN request'[x] : request'[x][n].open => n = Len(request'[x])
    BY <1>1, <1>2 DEF LockIsHeld
  <2> QED BY <1>3, <2>1, <2>2, <2>3, <2>4, <2>5 DEF LockIsHeld
<1>10. \A x, y : AcceptedBy(x, y)' <=> AcceptedBy(x, y)
  BY <1>2 DEF AcceptedBy
<1>11. AcceptedOnce'
  <2>1. \A x \in Peers : Controls(x) => Controls(x)'
    BY <1>6
  <2>2. \A x \in Peers : \A n \in DOMAIN request'[x] :
           request'[x][n].state \in {"waiting", "accepted"} => Offers(request[x][n].to)'
    BY <1>1, <1>2 DEF AcceptedOnce, Offers
  <2> QED BY <1>1, <1>2, <1>10, <2>1, <2>2 DEF AcceptedOnce, Offers
<1>12. SessionsBelong'
  <2>0. Watches(q)' = Watches(q) /\ Offers(q)' = Offers(q)
    BY <1>2 DEF Watches, Offers
  <2>1. /\ session'[q] = (IF Watches(q) THEN q ELSE NoSession)
        /\ Offers(q) /\ Controls(q)'
    BY <1>1, <1>2, <1>3, <1>6 DEF SessionsBelong
  <2>2. ASSUME NEW x \in Peers \ {q}
        PROVE  IF connected'[x] /\ ~ Controls(x)'
               THEN Watches(x)' /\ AcceptedBy(x, session[x])
               ELSE /\ session'[x] = (IF Watches(x)' THEN x ELSE NoSession)
                    /\ connected'[x] \/ Accepting(x)' => Offers(x)'
    <3>1. (Watches(x)' <=> Watches(x)) /\ (Offers(x)' <=> Offers(x))
      BY <1>2 DEF Watches, Offers
    <3> QED BY <1>1, <1>2, <1>4, <1>6, <3>1 DEF SessionsBelong
  <2> QED BY <1>2, <1>10, <2>0, <2>1, <2>2 DEF SessionsBelong
<1> QED BY <1>7, <1>8, <1>9, <1>11, <1>12 DEF ChannelInv

\* Whoever asked gives up; what it asked for may still be accepted.
LEMMA JoinFailsKeeps == ASSUME ChannelInv, NEW p \in Peers, JoinFails(p) PROVE ChannelInv'
<1>1. TypeOK /\ PeersAreVisible /\ LockIsHeld /\ AcceptedOnce /\ SessionsBelong
  BY DEF ChannelInv
<1>a. Joining(p) /\ JoinReturns(p)
  BY DEF JoinFails
<1>2. UNCHANGED <<started, watching, announced, list, known, connected, controller, session, spc, handler, alive>>
  BY DEF JoinFails, search, link
<1>b. \A x : (Controls(x)' <=> Controls(x)) /\ (Accepting(x)' <=> Accepting(x))
  BY <1>2 DEF Controls, Accepting
<1>3. /\ request' \in [Peers -> Seq(Request)]
      /\ \A x \in Peers :
            /\ Len(request'[x]) = Len(request[x]) /\ DOMAIN request'[x] = DOMAIN request[x]
            /\ \A m \in DOMAIN request[x] :
                 /\ request'[x][m].to = request[x][m].to /\ request'[x][m].state = request[x][m].state
                 /\ x # p \/ m # Len(request[p]) => request'[x][m].open = request[x][m].open
      /\ ~ request'[p][Len(request[p])].open
  BY <1>1, <1>a, Returned
<1>4. TypeOK'
  BY <1>1, <1>2, <1>3 DEF TypeOK
<1>5. \A x \in Peers :
         /\ request'[x] = <<>> <=> request[x] = <<>>
         /\ \A m \in DOMAIN request'[x] : /\ request'[x][m].to \in Visible[x]
                                          /\ request'[x][m].open => m = Len(request'[x])
         /\ Joining(x)' => Joining(x)
  <2>1. ASSUME NEW x \in Peers, NEW m \in DOMAIN request[x], request'[x][m].open PROVE request[x][m].open
    <3>1. x # p \/ m # Len(request[p])
      BY <1>3, <2>1
    <3>2. request'[x][m].open = request[x][m].open
      BY <1>3, <3>1
    <3> QED BY <2>1, <3>2
  <2> QED BY <1>3, <2>1, SameRequests
<1>6. PeersAreVisible'
  <2>1. \A x \in Peers : /\ list'[x] \subseteq known'[x] /\ known'[x] \subseteq Visible[x]
                         /\ watching'[x] \/ known'[x] # {} \/ request'[x] # <<>> => Watches(x)'
    BY <1>1, <1>2, <1>5 DEF PeersAreVisible, Watches
  <2> QED BY <1>5, <2>1 DEF PeersAreVisible
<1>7. LockIsHeld'
  <2>1. \A x \in Peers :
           /\ Joining(x)' => ~ connected'[x] /\ ~ Accepting(x)'
           /\ controller'[x] => connected'[x]
           /\ Accepting(x)' => ~ controller'[x] /\ (connected'[x] <=> handler'[x] = "connected")
    BY <1>1, <1>2, <1>5, <1>b DEF LockIsHeld
  <2> QED BY <1>5, <2>1 DEF LockIsHeld
<1>8. ASSUME NEW x \in Peers, NEW y PROVE AcceptedBy(x, y)' <=> AcceptedBy(x, y)
  BY <1>3 DEF AcceptedBy
<1>9. AcceptedOnce'
  <2>1. ASSUME NEW x \in Peers, NEW m \in DOMAIN request'[x], request'[x][m].state \in {"waiting", "accepted"}
        PROVE  spc'[request'[x][m].to] \in {"exists", "watching", "done"}
    BY <1>1, <1>2, <1>3, <2>1 DEF AcceptedOnce, Offers
  <2> QED BY <1>1, <1>2, <1>8, <1>b, <2>1 DEF AcceptedOnce, Offers
<1>10. SessionsBelong'
  BY <1>1, <1>2, <1>8, <1>b DEF SessionsBelong, Watches, Offers
<1> QED BY <1>4, <1>6, <1>7, <1>9, <1>10 DEF ChannelInv

\* Whoever joins was not connected, so that nobody takes part in its own session.
LEMMA JoinSucceedsKeeps == ASSUME ChannelInv, NEW p \in Peers, JoinSucceeds(p) PROVE ChannelInv'
<1> DEFINE q == request[p][Len(request[p])].to
<1>1. TypeOK /\ PeersAreVisible /\ LockIsHeld /\ AcceptedOnce /\ SessionsBelong
  BY DEF ChannelInv
<1>a. Joining(p) /\ JoinReturns(p) /\ request[p][Len(request[p])].state = "accepted"
  BY DEF JoinSucceeds
<1>2. /\ UNCHANGED <<announced, known, spc, handler, alive>>
      /\ watching' = [watching EXCEPT ![p] = @ /\ ~started[p]]
      /\ started' = [started EXCEPT ![p] = FALSE] /\ list' = [list EXCEPT ![p] = {}]
      /\ session' = [session EXCEPT ![p] = q]
      /\ connected' = [connected EXCEPT ![p] = TRUE] /\ controller' = [controller EXCEPT ![p] = FALSE]
  BY DEF JoinSucceeds, StopEffect
<1>3. /\ request' \in [Peers -> Seq(Request)]
      /\ \A x \in Peers :
            /\ Len(request'[x]) = Len(request[x]) /\ DOMAIN request'[x] = DOMAIN request[x]
            /\ \A m \in DOMAIN request[x] :
                 /\ request'[x][m].to = request[x][m].to /\ request'[x][m].state = request[x][m].state
                 /\ x # p \/ m # Len(request[p]) => request'[x][m].open = request[x][m].open
      /\ ~ request'[p][Len(request[p])].open
  BY <1>1, <1>a, Returned
<1>4. /\ Len(request[p]) \in DOMAIN request[p] /\ q \in Peers /\ request[p] # <<>>
      /\ AcceptedBy(p, q) /\ ~ connected[p] /\ ~ Accepting(p)
  BY <1>1, <1>a, JoiningLast, Requests DEF AcceptedBy, LockIsHeld, Joining
<1> HIDE DEF q
<1>5. /\ \A x \in Peers : (watching'[x] => watching[x]) /\ list'[x] \subseteq list[x]
      /\ watching' \in [Peers -> BOOLEAN] /\ started' \in [Peers -> BOOLEAN]
      /\ list' \in [Peers -> SUBSET Peers]
      /\ session' \in [Peers -> Peers \cup {NoSession}]
  BY <1>1, <1>2, <1>4 DEF TypeOK
<1>6. /\ connected' \in [Peers -> BOOLEAN] /\ controller' \in [Peers -> BOOLEAN]
      /\ \A x \in Peers \ {p} : /\ connected'[x] = connected[x] /\ controller'[x] = controller[x]
                                /\ session'[x] = session[x]
      /\ connected'[p] /\ ~ controller'[p] /\ session'[p] = q
  BY <1>1, <1>2 DEF TypeOK
<1>b. /\ ~ Controls(p) /\ ~ Controls(p)'
      /\ \A x : Accepting(x)' <=> Accepting(x)
      /\ \A x \in Peers \ {p} : Controls(x)' <=> Controls(x)
  BY <1>2, <1>4, <1>6 DEF Controls, Accepting
<1>7. TypeOK'
  BY <1>1, <1>2, <1>3, <1>5, <1>6 DEF TypeOK
<1>8. \A x \in Peers :
         /\ request'[x] = <<>> <=> request[x] = <<>>
         /\ \A m \in DOMAIN request'[x] : /\ request'[x][m].to \in Visible[x]
                                          /\ request'[x][m].open => m = Len(request'[x])
         /\ Joining(x)' => Joining(x)
  <2>1. ASSUME NEW x \in Peers, NEW m \in DOMAIN request[x], request'[x][m].open PROVE request[x][m].open
    <3>1. x # p \/ m # Len(request[p])
      BY <1>3, <2>1
    <3>2. request'[x][m].open = request[x][m].open
      BY <1>3, <3>1
    <3> QED BY <2>1, <3>2
  <2> QED BY <1>3, <2>1, SameRequests
<1>9. PeersAreVisible'
  <2>1. \A x \in Peers : /\ list'[x] \subseteq known'[x] /\ known'[x] \subseteq Visible[x]
                         /\ watching'[x] \/ known'[x] # {} \/ request'[x] # <<>> => Watches(x)'
    BY <1>1, <1>2, <1>5, <1>8 DEF PeersAreVisible, Watches
  <2> QED BY <1>8, <2>1 DEF PeersAreVisible
<1>10. LockIsHeld'
  <2>1. ~ Joining(p)'
    BY <1>3 DEF Joining
  <2>2. \A x \in Peers :
           /\ Joining(x)' => ~ connected'[x] /\ ~ Accepting(x)'
           /\ controller'[x] => connected'[x]
           /\ Accepting(x)' => ~ controller'[x] /\ (connected'[x] <=> handler'[x] = "connected")
    BY <1>1, <1>2, <1>4, <1>6, <1>8, <1>b, <2>1 DEF LockIsHeld
  <2> QED BY <1>8, <2>2 DEF LockIsHeld
<1>11. ASSUME NEW x \in Peers, NEW y PROVE AcceptedBy(x, y)' <=> AcceptedBy(x, y)
  BY <1>3 DEF AcceptedBy
<1>12. AcceptedOnce'
  <2>1. ASSUME NEW x \in Peers, NEW m \in DOMAIN request'[x], request'[x][m].state \in {"waiting", "accepted"}
        PROVE  spc'[request'[x][m].to] \in {"exists", "watching", "done"}
    <3>1. /\ m \in DOMAIN request[x] /\ request'[x][m].to = request[x][m].to
          /\ request'[x][m].state = request[x][m].state
      BY <1>3, <2>1
    <3>2. Offers(request[x][m].to)
      BY <1>1, <2>1, <3>1 DEF AcceptedOnce
    <3> QED BY <1>2, <3>1, <3>2 DEF Offers
  <2>2. \A x \in Peers : ~ AcceptedBy(x, p)
    BY <1>1, <1>b DEF AcceptedOnce
  <2>3. ASSUME NEW x \in Peers, NEW y \in Peers, AcceptedBy(x, y)' PROVE Controls(y)'
    <3>1. AcceptedBy(x, y) /\ y # p
      BY <1>11, <2>2, <2>3
    <3>2. Controls(y)
      BY <1>1, <3>1 DEF AcceptedOnce
    <3> QED BY <1>b, <3>1, <3>2
  <2>4. ASSUME NEW x \in Peers, NEW other \in Peers, NEW y \in Peers, AcceptedBy(x, y)', AcceptedBy(other, y)'
        PROVE  x = other
    BY <1>1, <1>11, <2>4 DEF AcceptedOnce
  <2> QED BY <2>1, <2>3, <2>4 DEF AcceptedOnce, Offers
<1>13. SessionsBelong'
  <2>1. ASSUME NEW x \in Peers
        PROVE  IF connected'[x] /\ ~ Controls(x)'
               THEN /\ Watches(x)
                    /\ \E m \in DOMAIN request'[x] : request'[x][m].to = session'[x] /\ request'[x][m].state = "accepted"
               ELSE /\ session'[x] = (IF Watches(x) THEN x ELSE NoSession)
                    /\ connected'[x] \/ Accepting(x)' => Offers(x)
    <3>1. CASE x # p
      <4>1. IF connected[x] /\ ~ Controls(x)
            THEN Watches(x) /\ AcceptedBy(x, session[x])
            ELSE /\ session[x] = (IF Watches(x) THEN x ELSE NoSession)
                 /\ connected[x] \/ Accepting(x) => Offers(x)
        BY <1>1 DEF SessionsBelong
      <4>2. AcceptedBy(x, session[x]) =>
               \E m \in DOMAIN request'[x] : request'[x][m].to = session[x] /\ request'[x][m].state = "accepted"
        BY <1>11 DEF AcceptedBy
      <4> QED BY <1>6, <1>b, <3>1, <4>1, <4>2
    <3>2. CASE x = p
      <4>1. Watches(p)
        BY <1>1, <1>4 DEF PeersAreVisible
      <4>2. \E m \in DOMAIN request'[p] : request'[p][m].to = q /\ request'[p][m].state = "accepted"
        BY <1>4, <1>11 DEF AcceptedBy
      <4> QED BY <1>6, <1>b, <3>2, <4>1, <4>2
    <3> QED BY <3>1, <3>2
  <2> QED BY <1>2, <2>1 DEF SessionsBelong, Watches, Offers, AcceptedBy
<1> QED BY <1>7, <1>9, <1>10, <1>12, <1>13 DEF ChannelInv

\* Every step keeps the invariant.
LEMMA Inductive == ChannelInv /\ [Next]_vars => ChannelInv'
<1> SUFFICES ASSUME ChannelInv, [Next]_vars PROVE ChannelInv'
  OBVIOUS
<1>1. CASE UNCHANGED vars
  <2>1. TypeOK /\ PeersAreVisible /\ SessionsBelong
    BY DEF ChannelInv
  <2>2. UNCHANGED <<started, watching, announced, list, known, connected, controller, session, spc, handler, request,
                    alive>>
    BY <1>1 DEF vars, search, link
  <2>3. TypeOK'
    BY <2>1, <2>2 DEF TypeOK
  <2> QED BY <2>1, <2>2, <2>3, SearchKeeps DEF PeersAreVisible, SessionsBelong, Watches, Offers
<1>2. CASE Next
  BY <1>2, StartKeeps, WatcherKeeps, ConnectKeeps, JoinRequestedKeeps, AcceptKeeps, RefuseKeeps, FlagsKeep, JoinFailsKeeps,
     JoinSucceedsKeeps
  DEF Next
<1> QED BY <1>1, <1>2
------------------------------------------------------------------------------------
(* The theorems *)

\* For any number of peers: the state is of its types.
THEOREM TypeCorrect == Spec => []TypeOK
<1>1. ChannelInv => TypeOK
  BY DEF ChannelInv
<1> QED BY <1>1, Initially, Inductive, PTL DEF Spec

\* For any number of peers: whoever takes part in a session was accepted by the peer
\* that controls it, no two take part in the same, and both ends are bound to it.
THEOREM RolesAreRight == Spec => []RolesAgree
<1>1. ChannelInv => RolesAgree
  <2> SUFFICES ASSUME ChannelInv, NEW p \in Peers, connected[p] \/ Accepting(p)
               PROVE  IF Controls(p) THEN session[p] = p \/ (session[p] = NoSession /\ spc[p] = "exists")
                      ELSE /\ session[p] \in Peers \ {p}
                           /\ Controls(session[p])
                           /\ \A other \in Peers \ {p} :
                                ~(connected[other] /\ ~Controls(other) /\ session[other] = session[p])
    BY DEF RolesAgree
  <2>1. TypeOK /\ PeersAreVisible /\ AcceptedOnce /\ SessionsBelong
    BY DEF ChannelInv
  <2>2. CASE Controls(p)
    BY <2>1, <2>2 DEF SessionsBelong, Watches, Offers
  <2>3. CASE ~ Controls(p)
    <3>1. AcceptedBy(p, session[p])
      BY <2>1, <2>3 DEF SessionsBelong, Controls
    <3>2. session[p] \in Visible[p]
      BY <2>1, <3>1 DEF AcceptedBy, PeersAreVisible
    <3>3. session[p] \in Peers \ {p}
      BY <3>2, VisibleAssumption
    <3>4. Controls(session[p])
      BY <2>1, <3>1, <3>3 DEF AcceptedOnce
    <3>5. ASSUME NEW other \in Peers \ {p}, connected[other], ~Controls(other), session[other] = session[p]
          PROVE  FALSE
      <4>1. AcceptedBy(other, session[p])
        BY <2>1, <3>5 DEF SessionsBelong
      <4> QED BY <2>1, <3>1, <3>3, <3>5, <4>1 DEF AcceptedOnce
    <3> QED BY <2>3, <3>3, <3>4, <3>5
  <2> QED BY <2>2, <2>3
<1> QED BY <1>1, Initially, Inductive, PTL DEF Spec

\* For any number of peers: whatever requests and answers still arrive, a connected
\* peer stays connected, in its role and in its session, but for the moment in which
\* the handler that set connected_ has yet to set is_controller_.
THEOREM ConnectionLasts == Spec => ConnectionIsFinal
<1> DEFINE Keeps(x) ==
             connected[x] =>
               /\ connected'[x]
               /\ controller'[x] = (controller[x] \/ (handler[x] = "connected" /\ ~Accepting(x)'))
               /\ session'[x] = session[x] \/ session[x] = NoSession
<1>1. ChannelInv /\ [Next]_vars =>
        [ \A p \in Peers : connected[p] =>
            /\ connected'[p]
            /\ controller'[p] = (controller[p] \/ (handler[p] = "connected" /\ ~Accepting(p)'))
            /\ session'[p] = session[p] \/ session[p] = NoSession ]_vars
  <2> SUFFICES ASSUME ChannelInv, Next, NEW x \in Peers, connected[x] PROVE Keeps(x)
    OBVIOUS
  <2>1. TypeOK /\ LockIsHeld /\ SessionsBelong
    BY DEF ChannelInv
  <2>a. controller[x] \in BOOLEAN /\ (Accepting(x) <=> handler[x] # "none")
    BY <2>1 DEF TypeOK, Accepting
  <2>2. ASSUME UNCHANGED <<connected, controller, session, handler>> PROVE Keeps(x)
    BY <2>2, <2>a DEF Accepting
  <2>3. ASSUME NEW p \in Peers, StartStep(p) \/ Stop(p) PROVE Keeps(x)
    <3>1. CASE StartWatcher(p)
      <4>1. /\ UNCHANGED <<connected, controller, handler>> /\ spc[p] = "exists"
            /\ session' = [session EXCEPT ![p] = p]
        BY <3>1 DEF StartWatcher, StartGoes
      <4>2. x # p => session'[x] = session[x]
        BY <2>1, <4>1 DEF TypeOK
      <4>3. x = p => session[x] = NoSession
        BY <2>1, <4>1 DEF SessionsBelong, Watches
      <4> QED BY <2>a, <4>1, <4>2, <4>3 DEF Accepting
    <3>2. CASE Created(p) \/ CreationFails(p) \/ SetStarted(p) \/ Stop(p)
      BY <2>2, <3>2 DEF Created, CreationFails, SetStarted, Stop, StartGoes, link
    <3> QED BY <2>3, <3>1, <3>2 DEF StartStep
  <2>4. ASSUME NEW p \in Peers, NEW q \in Peers, SessionAdded(p, q) \/ SessionRemoved(p, q) \/ Connect(p, q)
        PROVE  Keeps(x)
    BY <2>2, <2>4 DEF SessionAdded, SessionRemoved, Connect, link
  <2>5. ASSUME NEW p \in Peers, NEW n \in DOMAIN request[p], JoinRequested(p, n) PROVE Keeps(x)
    BY <2>2, <2>5 DEF JoinRequested, link
  <2>r. ASSUME NEW p \in Peers, NEW n \in DOMAIN request[p], Refuse(p, n) PROVE Keeps(x)
    BY <2>2, <2>r DEF Refuse, link
  <2>6. ASSUME NEW p \in Peers, NEW n \in DOMAIN request[p], Accept(p, n) PROVE Keeps(x)
    <3> DEFINE q == request[p][n].to
    <3>1. /\ UNCHANGED <<connected, controller, session>> /\ ~ connected[q]
          /\ handler' = [handler EXCEPT ![q] = "accepted"]
      BY <2>6 DEF Accept, Accepts, link
    <3>2. x # q
      BY <3>1
    <3>3. handler'[x] = handler[x]
      BY <2>1, <3>1, <3>2 DEF TypeOK
    <3> QED BY <2>a, <3>1, <3>3 DEF Accepting
  <2>s. ASSUME NEW q \in Peers, SetConnected(q) PROVE Keeps(x)
    <3>1. /\ UNCHANGED <<controller, session>> /\ handler[q] = "accepted"
          /\ handler' = [handler EXCEPT ![q] = "connected"]
          /\ connected' = [connected EXCEPT ![q] = TRUE]
      BY <2>s DEF SetConnected
    <3>2. x # q
      BY <2>1, <3>1 DEF LockIsHeld, Accepting
    <3>3. handler'[x] = handler[x] /\ connected'[x] = connected[x]
      BY <2>1, <3>1, <3>2 DEF TypeOK
    <3> QED BY <2>a, <3>1, <3>3 DEF Accepting
  <2>c. ASSUME NEW q \in Peers, SetController(q) PROVE Keeps(x)
    <3>1. /\ UNCHANGED <<connected, session>> /\ handler[q] = "connected"
          /\ handler' = [handler EXCEPT ![q] = "none"]
          /\ controller' = [controller EXCEPT ![q] = TRUE]
      BY <2>c DEF SetController
    <3>2. CASE x = q
      <4>1. handler'[x] = "none" /\ controller'[x] /\ handler[x] = "connected"
        BY <2>1, <3>1, <3>2 DEF TypeOK
      <4> QED BY <3>1, <4>1 DEF Accepting
    <3>3. CASE x # q
      <4>1. handler'[x] = handler[x] /\ controller'[x] = controller[x]
        BY <2>1, <3>1, <3>3 DEF TypeOK
      <4> QED BY <2>a, <3>1, <4>1 DEF Accepting
    <3> QED BY <3>2, <3>3
  <2>7. ASSUME NEW p \in Peers, JoinFails(p) PROVE Keeps(x)
    BY <2>2, <2>7 DEF JoinFails, link
  <2>8. ASSUME NEW p \in Peers, JoinSucceeds(p) PROVE Keeps(x)
    <3>1. x # p
      BY <2>1, <2>8 DEF JoinSucceeds, LockIsHeld
    <3>2. connected'[x] = connected[x] /\ controller'[x] = controller[x] /\ session'[x] = session[x]
          /\ handler' = handler
      BY <2>1, <2>8, <3>1 DEF JoinSucceeds, TypeOK
    <3> QED BY <2>a, <3>2 DEF Accepting
  <2> HIDE DEF Keeps
  <2> QED BY <2>3, <2>4, <2>5, <2>6, <2>r, <2>s, <2>c, <2>7, <2>8 DEF Next
<1> QED BY <1>1, Initially, Inductive, PTL DEF Spec, ConnectionIsFinal
======================================================================================
