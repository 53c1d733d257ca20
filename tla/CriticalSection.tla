----------------------------- MODULE CriticalSection -----------------------------
(***************************************************************************)
(* critical_section.hpp and lock.hpp: a lock that its owner may take again, *)
(* held for the lifetime of a lock_holder on the stack.                    *)
(***************************************************************************)
EXTENDS Integers

CONSTANTS
    Threads,
    NoThread    \* the owner of a critical section nobody is in

ASSUME NoThreadAssumption == NoThread \notin Threads

Free == [owner |-> NoThread, depth |-> 0]

\* Mutant: anybody may enter.
AcquireAlways(cs, t) == t \in Threads

CanAcquire(cs, t) == cs.owner \in {t, NoThread}

Acquired(cs, t) == [owner |-> t, depth |-> cs.depth + 1]

\* Mutant: the first release gives the lock up, however often it was taken.
ReleasedAtOnce(cs) == IF cs.depth > 0 THEN Free ELSE cs

Released(cs) == IF cs.depth = 1 THEN Free ELSE [cs EXCEPT !.depth = @ - 1]
==================================================================================
