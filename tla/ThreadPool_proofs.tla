----------------------------- MODULE ThreadPool_proofs -----------------------------
(***************************************************************************)
(* Proofs about ThreadPool for any number of workers, producers and calls  *)
(* and any maximum of the semaphore.                                       *)
(***************************************************************************)
EXTENDS ThreadPool, FiniteSetTheorems, TLAPS

\* A thread that joins, or leaves, a set of threads changes its size by one.
LEMMA CardinalityAdd ==
    ASSUME NEW S, NEW T, IsFiniteSet(S), NEW x, x \notin S, T = S \cup {x}
    PROVE  IsFiniteSet(T) /\ Cardinality(T) = Cardinality(S) + 1
BY FS_AddElement

\* A finite set without one of its members has one member less.
LEMMA CardinalityRemove ==
    ASSUME NEW S, NEW T, IsFiniteSet(S), NEW x, x \in S, T = S \ {x}
    PROVE  IsFiniteSet(T) /\ Cardinality(T) = Cardinality(S) - 1
BY FS_RemoveElement

\* The sets that Accounting counts are finite.
LEMMA CountsAreFinite ==
    /\ IsFiniteSet(InFlight) /\ Cardinality(InFlight) \in Nat
    /\ IsFiniteSet(Unsignalled) /\ Cardinality(Unsignalled) \in Nat
<1>1. InFlight \subseteq Workers /\ Unsignalled \subseteq Producers
  BY DEF InFlight, Unsignalled
<1>2. QED
  BY <1>1, ThreadAssumption, FS_Subset, FS_CardinalityType

\* A worker on its way to the list is owed an item that is in it.
LEMMA InFlightFindsItem ==
    ASSUME TypeOK, Accounting, NEW w \in InFlight
    PROVE  queue # <<>> /\ Len(queue) > 0
<1>1. Cardinality(InFlight) # 0
  BY CountsAreFinite, FS_EmptySet
<1>2. QED
  BY <1>1, CountsAreFinite DEF TypeOK, Accounting

-----------------------------------------------------------------------------------
(* Every step preserves the inductive invariant *)

\* Every step keeps the types.
LEMMA TypeStep == IInv /\ [Next]_vars => TypeOK'
<1> SUFFICES ASSUME IInv, [Next]_vars PROVE TypeOK'
  OBVIOUS
<1> USE ThreadAssumption, BoundAssumption DEF IInv, TypeOK, WorkerPC, ProducerPC
<1>1. ASSUME NEW w \in Workers, GetWorkItem(w) PROVE TypeOK'
  BY <1>1 DEF GetWorkItem
<1>2. ASSUME NEW w \in Workers, WakeToDie(w) PROVE TypeOK'
  BY <1>2 DEF WakeToDie
<1>3. ASSUME NEW w \in Workers, WakeForItem(w) PROVE TypeOK'
  BY <1>3 DEF WakeForItem, Signalled, Acquired
<1>4. ASSUME NEW w \in Workers, LockQueue(w) PROVE TypeOK'
  BY <1>4 DEF LockQueue
<1>5. ASSUME NEW w \in Workers, Front(w) PROVE TypeOK'
  BY <1>5 DEF Front
<1>6. ASSUME NEW w \in Workers, PopFront(w) PROVE TypeOK'
  <2>1. queue # <<>>
    BY <1>6, InFlightFindsItem DEF PopFront, InFlight
  <2>2. item[w] \in Items /\ Tail(queue) \in Seq(Items)
    BY <1>6, <2>1 DEF PopFront, LocalsAgree
  <2>3. QED
    BY <1>6, <2>2 DEF PopFront
<1>7. ASSUME NEW p \in Producers, LockToPush(p) PROVE TypeOK'
  BY <1>7 DEF LockToPush
<1>8. ASSUME NEW p \in Producers, Push(p) PROVE TypeOK'
  <2>1. <<p, calls[p]>> \in Items
    BY <1>8 DEF Push, Items, LocalsAgree
  <2>2. QED
    BY <1>8, <2>1 DEF Push
<1>9. ASSUME NEW p \in Producers, PushThrows(p) PROVE TypeOK'
  BY <1>9 DEF PushThrows
<1>10. ASSUME NEW p \in Producers, Signal(p) PROVE TypeOK'
  BY <1>10 DEF Signal, Released, Refuses
<1>11. CASE ReleaseThreads
  BY <1>11 DEF ReleaseThreads
<1>12. CASE UNCHANGED vars
  BY <1>12 DEF vars
<1>13. QED
  BY <1>1, <1>2, <1>3, <1>4, <1>5, <1>6, <1>7, <1>8, <1>9, <1>10, <1>11, <1>12
  DEF Next, WorkerStep, ProducerStep, Terminated

\* Every step keeps the semaphore's count in step with the items.
LEMMA AccountingStep == IInv /\ [Next]_vars => Accounting'
<1> SUFFICES ASSUME IInv, [Next]_vars PROVE Accounting'
  OBVIOUS
<1> USE DEF WorkerPC, ProducerPC
<1>0. /\ IsFiniteSet(InFlight) /\ Cardinality(InFlight) \in Nat
      /\ IsFiniteSet(Unsignalled) /\ Cardinality(Unsignalled) \in Nat
  BY CountsAreFinite
<1>a. Accounting
  BY DEF IInv
<1>t. /\ wpc \in [Workers -> WorkerPC] /\ ppc \in [Producers -> ProducerPC]
      /\ sem \in Nat /\ refused \in Nat
      /\ queue \in Seq(Items) /\ Len(queue) \in Nat
  BY BoundAssumption DEF IInv, TypeOK
<1>1. ASSUME NEW w \in Workers, GetWorkItem(w) PROVE Accounting'
  <2>1. InFlight' = InFlight /\ Unsignalled' = Unsignalled
    BY <1>t, <1>1 DEF GetWorkItem, InFlight, Unsignalled
  <2>2. QED
    BY <1>a, <1>t, <1>1, <2>1 DEF GetWorkItem, Accounting
<1>2. ASSUME NEW w \in Workers, WakeToDie(w) PROVE Accounting'
  <2>1. InFlight' = InFlight /\ Unsignalled' = Unsignalled
    BY <1>t, <1>2 DEF WakeToDie, InFlight, Unsignalled
  <2>2. QED
    BY <1>a, <1>t, <1>2, <2>1 DEF WakeToDie, Accounting
<1>3. ASSUME NEW w \in Workers, WakeForItem(w) PROVE Accounting'
  <2>1. w \notin InFlight /\ InFlight' = InFlight \cup {w} /\ Unsignalled' = Unsignalled
    BY <1>t, <1>3 DEF WakeForItem, InFlight, Unsignalled
  <2>2. Cardinality(InFlight') = Cardinality(InFlight) + 1
    BY <1>0, <2>1, CardinalityAdd
  <2>3. QED
    BY <1>a, <1>t, <1>0, <1>3, <2>1, <2>2 DEF WakeForItem, Acquired, Accounting
<1>4. ASSUME NEW w \in Workers, LockQueue(w) PROVE Accounting'
  <2>1. InFlight' = InFlight /\ Unsignalled' = Unsignalled
    BY <1>t, <1>4 DEF LockQueue, InFlight, Unsignalled
  <2>2. QED
    BY <1>a, <1>t, <1>4, <2>1 DEF LockQueue, Accounting
<1>5. ASSUME NEW w \in Workers, Front(w) PROVE Accounting'
  <2>1. queue # <<>>
    BY <1>5, InFlightFindsItem DEF IInv, Front, InFlight
  <2>2. InFlight' = InFlight /\ Unsignalled' = Unsignalled
    BY <1>t, <1>5, <2>1 DEF Front, InFlight, Unsignalled
  <2>3. QED
    BY <1>a, <1>t, <1>5, <2>2 DEF Front, Accounting
<1>6. ASSUME NEW w \in Workers, PopFront(w) PROVE Accounting'
  <2>1. Len(queue) > 0
    BY <1>6, InFlightFindsItem DEF IInv, PopFront, InFlight
  <2>2. Len(queue') = Len(queue) - 1
    BY <1>t, <1>6, <2>1 DEF PopFront
  <2>3. w \in InFlight /\ InFlight' = InFlight \ {w} /\ Unsignalled' = Unsignalled
    BY <1>t, <1>6 DEF PopFront, InFlight, Unsignalled
  <2>4. Cardinality(InFlight') = Cardinality(InFlight) - 1
    BY <1>0, <2>3, CardinalityRemove
  <2>5. QED
    BY <1>a, <1>t, <1>0, <1>6, <2>2, <2>3, <2>4 DEF PopFront, Accounting
<1>7. ASSUME NEW p \in Producers, LockToPush(p) PROVE Accounting'
  <2>1. InFlight' = InFlight /\ Unsignalled' = Unsignalled
    BY <1>t, <1>7 DEF LockToPush, InFlight, Unsignalled
  <2>2. QED
    BY <1>a, <1>t, <1>7, <2>1 DEF LockToPush, Accounting
<1>8. ASSUME NEW p \in Producers, Push(p) PROVE Accounting'
  <2>1. Len(queue') = Len(queue) + 1
    BY <1>t, <1>8 DEF Push
  <2>2. p \notin Unsignalled /\ Unsignalled' = Unsignalled \cup {p} /\ InFlight' = InFlight
    BY <1>t, <1>8 DEF Push, InFlight, Unsignalled
  <2>3. Cardinality(Unsignalled') = Cardinality(Unsignalled) + 1
    BY <1>0, <2>2, CardinalityAdd
  <2>4. QED
    BY <1>a, <1>t, <1>0, <1>8, <2>1, <2>2, <2>3 DEF Push, Accounting
<1>9. ASSUME NEW p \in Producers, PushThrows(p) PROVE Accounting'
  <2>1. InFlight' = InFlight /\ Unsignalled' = Unsignalled
    BY <1>t, <1>9 DEF PushThrows, InFlight, Unsignalled
  <2>2. QED
    BY <1>a, <1>t, <1>9, <2>1 DEF PushThrows, Accounting
<1>10. ASSUME NEW p \in Producers, Signal(p) PROVE Accounting'
  <2>1. p \in Unsignalled /\ Unsignalled' = Unsignalled \ {p} /\ InFlight' = InFlight
    BY <1>t, <1>10 DEF Signal, InFlight, Unsignalled
  <2>2. Cardinality(Unsignalled') = Cardinality(Unsignalled) - 1
    BY <1>0, <2>1, CardinalityRemove
  <2>3. QED
    BY <1>a, <1>t, <1>0, <1>10, <2>1, <2>2 DEF Signal, Released, Accounting
<1>11. CASE ReleaseThreads
  BY <1>a, <1>t, <1>11 DEF ReleaseThreads, Accounting, InFlight, Unsignalled
<1>12. CASE UNCHANGED vars
  BY <1>a, <1>t, <1>12 DEF vars, Accounting, InFlight, Unsignalled
<1>13. QED
  BY <1>t, <1>1, <1>2, <1>3, <1>4, <1>5, <1>6, <1>7, <1>8, <1>9, <1>10, <1>11, <1>12
  DEF Next, WorkerStep, ProducerStep, Terminated

\* Every step keeps the lock with the thread that is in the critical section.
LEMMA ExclusiveStep == IInv /\ [Next]_vars => Exclusive'
<1> SUFFICES ASSUME IInv, [Next]_vars PROVE Exclusive'
  OBVIOUS
<1> USE ThreadAssumption DEF IInv, TypeOK, WorkerPC, ProducerPC, Exclusive
<1>1. ASSUME NEW w \in Workers, WorkerStep(w) PROVE Exclusive'
  BY <1>1 DEF WorkerStep, GetWorkItem, WakeToDie, WakeForItem, LockQueue, Front, PopFront
<1>2. ASSUME NEW p \in Producers, ProducerStep(p) PROVE Exclusive'
  BY <1>2 DEF ProducerStep, LockToPush, Push, PushThrows, Signal
<1>3. CASE ReleaseThreads
  BY <1>3 DEF ReleaseThreads
<1>4. CASE UNCHANGED vars
  BY <1>4 DEF vars
<1>5. QED
  BY <1>1, <1>2, <1>3, <1>4 DEF Next, Terminated

\* Only the owner of the lock changes the list, so that what another thread read
\* inside its own critical section cannot become stale.
LEMMA LocalsStep == IInv /\ [Next]_vars => LocalsAgree'
<1> SUFFICES ASSUME IInv, [Next]_vars PROVE LocalsAgree'
  OBVIOUS
<1> USE ThreadAssumption, BoundAssumption
    DEF IInv, TypeOK, WorkerPC, ProducerPC, Exclusive, LocalsAgree
<1>1. ASSUME NEW w \in Workers, GetWorkItem(w) \/ WakeToDie(w) \/ WakeForItem(w)
                                  \/ LockQueue(w)
      PROVE LocalsAgree'
  BY <1>1 DEF GetWorkItem, WakeToDie, WakeForItem, LockQueue
<1>2. ASSUME NEW w \in Workers, Front(w) PROVE LocalsAgree'
  BY <1>2 DEF Front
<1>3. ASSUME NEW w \in Workers, PopFront(w) PROVE LocalsAgree'
  <2>1. \A v \in Workers : wpc'[v] # "popping"
    BY <1>3 DEF PopFront
  <2>2. QED
    BY <1>3, <2>1 DEF PopFront
<1>4. ASSUME NEW p \in Producers, LockToPush(p) PROVE LocalsAgree'
  BY <1>4 DEF LockToPush
<1>5. ASSUME NEW p \in Producers, Push(p) PROVE LocalsAgree'
  <2>1. \A v \in Workers : wpc'[v] # "popping"
    BY <1>5 DEF Push
  <2>2. QED
    BY <1>5, <2>1 DEF Push
<1>6. ASSUME NEW p \in Producers, PushThrows(p) \/ Signal(p) PROVE LocalsAgree'
  BY <1>6 DEF PushThrows, Signal
<1>7. CASE ReleaseThreads
  BY <1>7 DEF ReleaseThreads
<1>8. CASE UNCHANGED vars
  BY <1>8 DEF vars
<1>9. QED
  BY <1>1, <1>2, <1>3, <1>4, <1>5, <1>6, <1>7, <1>8
  DEF Next, WorkerStep, ProducerStep, Terminated

\* Taking an item moves it from the list to its worker.
LEMMA SubmittedByPop ==
    ASSUME IInv, NEW w \in Workers, PopFront(w)
    PROVE  Submitted' \subseteq Submitted
<1> USE DEF IInv, TypeOK
<1>1. queue # <<>>
  BY InFlightFindsItem DEF PopFront, InFlight
<1>2. item[w] = Head(queue) /\ Head(queue) \in Range(queue)
  BY <1>1 DEF PopFront, LocalsAgree, Range
<1>3. Range(queue') \subseteq Range(queue)
  BY <1>1 DEF PopFront, Range
<1>4. ASSUME NEW v \in Workers PROVE got'[v] \subseteq got[v] \cup Range(queue)
  BY <1>2 DEF PopFront
<1>5. QED
  BY <1>3, <1>4 DEF PopFront, Submitted, Range

\* A push submits the caller's current item.
LEMMA SubmittedByPush ==
    ASSUME IInv, NEW p \in Producers, Push(p)
    PROVE  Submitted' = Submitted \cup {<<p, calls[p]>>}
<1> USE DEF IInv, TypeOK
<1>1. <<p, calls[p]>> \in Items
  BY BoundAssumption DEF Push, Items, LocalsAgree
<1> DEFINE new == <<p, calls[p]>>
<1>2. /\ DOMAIN queue = 1 .. Len(queue) /\ DOMAIN queue' = 1 .. (Len(queue) + 1)
      /\ \A k \in 1 .. Len(queue) : queue'[k] = queue[k]
      /\ queue'[Len(queue) + 1] = new
      /\ Len(queue) \in Nat
  <2>1. queue' = Append(queue, new)
    BY DEF Push
  <2> HIDE DEF new
  <2>2. QED
    BY <1>1, <2>1 DEF new
<1> HIDE DEF new
<1>3. Range(queue') = Range(queue) \cup {new}
  <2>1. \A k \in 1 .. (Len(queue) + 1) : k \in 1 .. Len(queue) \/ k = Len(queue) + 1
    BY <1>2
  <2>2. Len(queue) + 1 \in 1 .. (Len(queue) + 1) /\ 1 .. Len(queue) \subseteq 1 .. (Len(queue) + 1)
    BY <1>2
  <2>3. QED
    BY <1>2, <2>1, <2>2 DEF Range
<1>4. QED
  BY <1>3 DEF Push, Submitted, new

\* A submitted item is a producer's call.
LEMMA SubmittedType ==
    ASSUME TypeOK, NEW i \in Submitted
    PROVE  i \in Items /\ i[1] \in Producers /\ i[2] \in 1 .. MaxCalls
                       /\ i = <<i[1], i[2]>>
<1>1. i \in Items
  BY DEF TypeOK, Submitted, Range
<1>2. QED
  BY <1>1 DEF Items

\* Every step leaves items that came from the calls, each in one place.
LEMMA ItemsStep == IInv /\ [Next]_vars => ItemsFromCalls'
<1> SUFFICES ASSUME IInv, [Next]_vars PROVE ItemsFromCalls'
  OBVIOUS
<1> USE ThreadAssumption, BoundAssumption
    DEF IInv, TypeOK, ItemsFromCalls, WorkerPC, ProducerPC
<1>1. ASSUME NEW w \in Workers, GetWorkItem(w) \/ WakeToDie(w) \/ WakeForItem(w)
                                  \/ LockQueue(w) \/ Front(w)
      PROVE ItemsFromCalls'
  <2>1. Submitted' = Submitted /\ calls' = calls /\ ppc' = ppc
    BY <1>1, InFlightFindsItem
    DEF GetWorkItem, WakeToDie, WakeForItem, LockQueue, Front, Submitted
  <2>2. QED
    BY <2>1
<1>2. ASSUME NEW w \in Workers, PopFront(w) PROVE ItemsFromCalls'
  BY <1>2, SubmittedByPop DEF PopFront
<1>3. ASSUME NEW p \in Producers, LockToPush(p) PROVE ItemsFromCalls'
  <2>1. Submitted' = Submitted
    BY <1>3 DEF LockToPush, Submitted
  <2>2. ASSUME NEW i \in Submitted PROVE i[2] <= calls'[i[1]]
    BY <1>3, <2>2, SubmittedType DEF LockToPush
  <2>3. ASSUME NEW q \in Producers, ppc'[q] = "pushing"
        PROVE <<q, calls'[q]>> \notin Submitted
    <3>1. CASE q = p
      <4>1. calls'[p] = calls[p] + 1
        BY <1>3 DEF LockToPush
      <4>2. QED
        BY <3>1, <4>1
    <3>2. CASE q # p
      BY <1>3, <2>3, <3>2 DEF LockToPush
    <3>3. QED
      BY <3>1, <3>2
  <2>4. QED
    BY <2>1, <2>2, <2>3
<1>4. ASSUME NEW p \in Producers, Push(p) PROVE ItemsFromCalls'
  <2>1. Submitted' = Submitted \cup {<<p, calls[p]>>} /\ calls' = calls
    BY <1>4, SubmittedByPush DEF Push
  <2>2. \A q \in Producers : ppc'[q] # "pushing"
    BY <1>4 DEF Push, Exclusive
  <2>3. QED
    BY <2>1, <2>2
<1>5. ASSUME NEW p \in Producers, PushThrows(p) \/ Signal(p) PROVE ItemsFromCalls'
  <2>1. Submitted' = Submitted /\ calls' = calls
    BY <1>5 DEF PushThrows, Signal, Submitted
  <2>2. QED
    BY <1>5, <2>1 DEF PushThrows, Signal
<1>6. CASE ReleaseThreads
  BY <1>6 DEF ReleaseThreads, Submitted
<1>7. CASE UNCHANGED vars
  BY <1>7 DEF vars, Submitted
<1>8. QED
  BY <1>1, <1>2, <1>3, <1>4, <1>5, <1>6, <1>7
  DEF Next, WorkerStep, ProducerStep, Terminated

-----------------------------------------------------------------------------------
(* The theorems *)

\* The first states satisfy the inductive invariant.
LEMMA InitInv == Init => IInv
<1> SUFFICES ASSUME Init PROVE IInv
  OBVIOUS
<1> USE BoundAssumption DEF Init
<1>1. TypeOK
  <2>1. queue \in Seq(Items)
    OBVIOUS
  <2>2. wpc \in [Workers -> WorkerPC] /\ ppc \in [Producers -> ProducerPC]
    BY DEF WorkerPC, ProducerPC
  <2>3. sem \in 0 .. SemMax /\ calls \in [Producers -> 0 .. MaxCalls]
    OBVIOUS
  <2>4. QED
    BY <2>1, <2>2, <2>3 DEF TypeOK
<1>2. Accounting
  <2>1. InFlight = {} /\ Unsignalled = {}
    BY DEF InFlight, Unsignalled
  <2>2. QED
    BY <2>1, FS_EmptySet DEF Accounting
<1>3. Exclusive /\ LocalsAgree
  BY DEF Exclusive, LocalsAgree
<1>4. Submitted = {}
  BY DEF Submitted, Range
<1>5. QED
  BY <1>1, <1>2, <1>3, <1>4 DEF IInv, ItemsFromCalls

\* The inductive invariant holds in every reachable state.
THEOREM Invariance == Spec => []IInv
<1>1. IInv /\ [Next]_vars => IInv'
  BY TypeStep, AccountingStep, ExclusiveStep, LocalsStep, ItemsStep DEF IInv
<1>2. QED
  BY <1>1, InitInv, PTL DEF Spec

\* Type correctness: whatever the threads do, the semaphore's count stays between
\* zero and its maximum and the list holds work items only.  It is not inductive
\* without Accounting: pop_front of an empty list would have no type.
THEOREM TypeCorrect == Spec => []TypeOK
<1>1. IInv => TypeOK
  BY DEF IInv
<1>2. QED
  BY <1>1, Invariance, PTL

\* The list and the semaphore never drift apart (thread_pool.hpp:54-60 changes
\* them one after the other, under different locks).
THEOREM AccountingCorrect == Spec => []Accounting
<1>1. IInv => Accounting
  BY DEF IInv
<1>2. QED
  BY <1>1, Invariance, PTL

\* The branch of get_work_item for an empty list (thread_pool.hpp:44) is dead.
THEOREM WokenWorkerFindsItem == Spec => []WokenFindsItem
<1>1. IInv => WokenFindsItem
  BY InFlightFindsItem DEF IInv, WokenFindsItem, InFlight
<1>2. QED
  BY <1>1, Invariance, PTL

\* The pool implements the abstract queue: FIFO, each item handed out once, and
\* nothing after release_threads except what a worker was already promised.
THEOREM Refinement == Spec => WQ!Spec
<1>1. Init => WQ!Init
  <2> SUFFICES ASSUME Init PROVE WQ!Init
    OBVIOUS
  <2>1. QED
    BY DEF Init, WQ!Init
<1>2. IInv /\ IInv' /\ [Next]_vars => [WQ!Next]_(WQ!vars)
  <2> SUFFICES ASSUME IInv, [Next]_vars, ~ UNCHANGED WQ!vars PROVE WQ!Next
    OBVIOUS
  <2> USE DEF IInv, TypeOK, WorkerPC, ProducerPC
  <2>1. ASSUME NEW w \in Workers, WorkerStep(w), ~ PopFront(w) PROVE FALSE
    <3>1. UNCHANGED <<queue, got, die>>
      BY <2>1 DEF WorkerStep, GetWorkItem, WakeToDie, WakeForItem, LockQueue, Front
    <3>2. die => InFlight' = InFlight
      BY <2>1, InFlightFindsItem
      DEF WorkerStep, GetWorkItem, WakeToDie, WakeForItem, LockQueue, Front, InFlight
    <3>3. QED
      BY <3>1, <3>2 DEF WQ!vars
  <2>2. ASSUME NEW w \in Workers, PopFront(w) PROVE WQ!Take(w)
    <3>1. w \in InFlight /\ InFlight' = InFlight \ {w}
      BY <2>2 DEF PopFront, InFlight
    <3>2. queue # <<>> /\ item[w] = Head(queue)
      BY <2>2, <3>1, InFlightFindsItem DEF PopFront, LocalsAgree
    <3>3. QED
      BY <2>2, <3>1, <3>2 DEF PopFront, WQ!Take, WQ!Leave
  <2>3. ASSUME NEW p \in Producers, ProducerStep(p), ~ Push(p) PROVE FALSE
    <3>1. UNCHANGED <<queue, got, die, InFlight>>
      BY <2>3 DEF ProducerStep, LockToPush, PushThrows, Signal, InFlight
    <3>2. QED
      BY <3>1 DEF WQ!vars
  <2>4. ASSUME NEW p \in Producers, Push(p) PROVE WQ!Add(<<p, calls[p]>>)
    <3>1. <<p, calls[p]>> \notin Submitted
      BY <2>4 DEF Push, ItemsFromCalls
    <3>2. UNCHANGED <<got, die, InFlight>>
      BY <2>4 DEF Push, InFlight
    <3>3. WQ!Range(queue) = Range(queue) /\ WQ!Range(got) = Range(got)
      BY DEF Range, WQ!Range
    <3>4. <<p, calls[p]>> \notin WQ!Range(queue) \cup {} \cup UNION WQ!Range(got)
      BY <3>1, <3>3 DEF Submitted
    <3>5. queue' = Append(queue, <<p, calls[p]>>)
      BY <2>4 DEF Push
    <3>6. QED
      BY <3>2, <3>4, <3>5 DEF WQ!Add
  <2>5. ASSUME NEW p \in Producers, Push(p) PROVE <<p, calls[p]>> \in Items
    BY <2>5, BoundAssumption DEF Push, Items, LocalsAgree
  <2>6. CASE ReleaseThreads
    <3>1. InFlight' = InFlight /\ InFlight \subseteq Workers
      BY <2>6 DEF ReleaseThreads, InFlight
    <3>2. Cardinality(InFlight) <= Len(queue)
      BY CountsAreFinite DEF Accounting
    <3>3. WQ!Cardinality(InFlight) = Cardinality(InFlight)
      BY DEF Cardinality, WQ!Cardinality
    <3>4. WQ!Close
      BY <2>6, <3>1, <3>2, <3>3 DEF ReleaseThreads, WQ!Close
    <3>5. QED
      BY <3>4 DEF WQ!Next
  <2>7. CASE UNCHANGED vars
    BY <2>7 DEF vars, WQ!vars, InFlight
  <2>8. QED
    BY <2>1, <2>2, <2>3, <2>4, <2>5, <2>6, <2>7 DEF Next, Terminated, WQ!Next
<1>3. QED
  BY <1>1, <1>2, Invariance, PTL DEF Spec, WQ!Spec
===================================================================================
