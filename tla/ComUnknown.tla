-------------------------------- MODULE ComUnknown --------------------------------
(***************************************************************************)
(* com_unknown.hpp and CreateInstance of com_class_factory.hpp: an object  *)
(* that threads refer to, its count and its deletion.  A reference is a    *)
(* pointer that its holder will call Release on.                           *)
(***************************************************************************)
EXTENDS Integers, FiniteSets

CONSTANTS
    Users,          \* threads
    References,     \* bound: as many as there can be at a time
    Nobody

ASSUME ReferencesAssumption == IsFiniteSet(References)
ASSUME NobodyAssumption == Nobody \notin Users

VARIABLES
    object,     \* "none", "alive", "deleted", or "corrupt": deleted twice
    m_refCount,
    holder,     \* who has a reference, or Nobody
    phase       \* where a thread is in CreateInstance or Release

objectVars == <<object, m_refCount, holder, phase>>

Held == {r \in References : holder[r] # Nobody}

ObjectInit ==
    /\ object = "none"
    /\ m_refCount = 0
    /\ holder = [r \in References |-> Nobody]
    /\ phase = [u \in Users |-> "idle"]
-----------------------------------------------------------------------------------
(* CreateInstance *)

\* The constructor counts one reference, the factory's.
CreateInstance(u) ==
    /\ object \in {"none", "deleted"}
    /\ \A v \in Users : phase[v] = "idle"
    /\ object' = "alive"
    /\ m_refCount' = 1
    /\ \E r \in References : holder' = [holder EXCEPT ![r] = u]
    /\ phase' = [phase EXCEPT ![u] = "created"]

\* A reference is counted and given to v.
Count(v) ==
    /\ m_refCount' = m_refCount + 1
    /\ \E r \in References \ Held : holder' = [holder EXCEPT ![r] = v]
    /\ UNCHANGED object

QuerySucceeds(u) ==
    /\ phase[u] = "created"
    /\ Count(u)
    /\ phase' = [phase EXCEPT ![u] = "queried"]

\* The interface is not one of the object's.
QueryFails(u) ==
    /\ phase[u] = "created"
    /\ phase' = [phase EXCEPT ![u] = "queried"]
    /\ UNCHANGED <<object, m_refCount, holder>>
-----------------------------------------------------------------------------------
(* The object *)

\* AddRef or QueryInterface by a thread that has a reference, for itself or another.
AddRef(u, v) ==
    /\ phase[u] = "idle"
    /\ \E r \in References : holder[r] = u
    /\ Count(v)
    /\ UNCHANGED phase

\* Release of a reference, by CreateInstance or by its holder: the first half.
Decrement(u) ==
    /\ phase[u] \in {"idle", "queried"}
    /\ \E r \in References :
         /\ holder[r] = u
         /\ holder' = [holder EXCEPT ![r] = Nobody]
    /\ m_refCount' = m_refCount - 1
    /\ phase' = [phase EXCEPT ![u] = "looking"]
    /\ UNCHANGED object

\* Mutant: the count is taken for that before the decrement.
LookForOne(u) ==
    /\ phase[u] = "looking"
    /\ object = "alive"
    /\ object' = IF m_refCount = 1 THEN "deleted" ELSE object
    /\ phase' = [phase EXCEPT ![u] = "idle"]
    /\ UNCHANGED <<m_refCount, holder>>

\* The second half: m_refCount is read again, and the object deleted if it is zero.
Look(u) ==
    /\ phase[u] = "looking"
    /\ object = "alive"
    /\ object' = IF m_refCount = 0 THEN "deleted" ELSE object
    /\ phase' = [phase EXCEPT ![u] = "idle"]
    /\ UNCHANGED <<m_refCount, holder>>

\* The same when another thread has deleted the object meanwhile: what is read is
\* undefined, and if it is zero the object is deleted again.
LookTooLate(u) ==
    /\ phase[u] = "looking"
    /\ object = "deleted"
    /\ object' \in {"deleted", "corrupt"}
    /\ phase' = [phase EXCEPT ![u] = "idle"]
    /\ UNCHANGED <<m_refCount, holder>>

\* After that nothing can be said of the program.
Undefined == object = "corrupt" /\ UNCHANGED objectVars

ObjectNext ==
    \/ \E u \in Users :
         \/ CreateInstance(u) \/ QuerySucceeds(u) \/ QueryFails(u)
         \/ \E v \in Users : AddRef(u, v)
         \/ Decrement(u) \/ Look(u) \/ LookTooLate(u)
    \/ Undefined

ObjectSpec == ObjectInit /\ [][ObjectNext]_objectVars
-----------------------------------------------------------------------------------
(* Properties *)

\* The object lives as long as somebody refers to it, and not for ever: its count is
\* the number of references, and when the last one is gone there is a thread
\* that has still to look at the count.  That it is deleted only once is not so.
LivesWhileReferenced ==
    /\ Held # {} => object = "alive"
    /\ object = "alive" => m_refCount = Cardinality(Held)
    /\ object = "alive" /\ Held = {} => \E u \in Users : phase[u] = "looking"

\* What makes it inductive.
ObjectTypeOK ==
    /\ object \in {"none", "alive", "deleted", "corrupt"}
    /\ holder \in [References -> Users \cup {Nobody}]
    /\ phase \in [Users -> {"idle", "created", "queried", "looking"}]
Created == \A u \in Users : phase[u] = "created" => \E r \in References : holder[r] = u
ObjectInv == ObjectTypeOK /\ Created /\ LivesWhileReferenced
===================================================================================
