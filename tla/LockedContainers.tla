----------------------------- MODULE LockedContainers -----------------------------
(***************************************************************************)
(* Threads that share two safe_lists, or two safe_maps.  A method takes    *)
(* the critical section its container derives from, reads, writes and      *)
(* gives it up; nothing protects the safe_list or safe_map on its right    *)
(* hand, the @todo at the top of safe_map.hpp.  When one thread's method   *)
(* uses its right hand while another thread writes that, or writes it      *)
(* while another uses it, there is a data race: what happens then is       *)
(* undefined, and the model goes no further.                               *)
(*                                                                         *)
(* Callers may hold sections around their calls: lock() of a safe_list, a  *)
(* holder on a safe_map, whose base is public.  They take sections in one  *)
(* order only, and hold a list's section while they keep an iterator into  *)
(* it; whether they hold a right hand's section is up to them.             *)
(***************************************************************************)
EXTENDS CriticalSection, SafeList, SafeMap

CONSTANTS Keys, MapValues

VARIABLES
    inUse,      \* the containers the threads share
    cs,         \* the critical section of each container
    contents,
    mine,       \* each thread's own std::list
    held,       \* the sections t holds from outside, by lock()
    pc,         \* where t is
    on,         \* the container of the call t makes
    call,       \* that call
    seen,       \* what t read when it entered
    it          \* t's iterator into the list

vars == <<inUse, cs, contents, mine, held, pc, on, call, seen, it>>

Atomic == INSTANCE AtomicContainers

Containers == Atomic!Containers
Other(o) == Atomic!Other(o)
IsList(o) == o \in Atomic!Lists
Rank(o) == IF o \in {"list", "left"} THEN 1 ELSE 2
NoCall == Call("none", END, <<>>, 0)

Init ==
    /\ inUse \in {Atomic!Lists, Atomic!Maps}
    /\ cs = [o \in Containers |-> Free]
    /\ contents = [o \in Containers |-> IF IsList(o) THEN <<>> ELSE EmptyMap]
    /\ mine = [t \in Threads |-> <<>>]
    /\ held = [t \in Threads |-> {}]
    /\ pc = [t \in Threads |-> "idle"]
    /\ on = [t \in Threads |-> "list"]
    /\ call = [t \in Threads |-> NoCall]
    /\ seen = [t \in Threads |-> <<>>]
    /\ it = [t \in Threads |-> END]

\* Nodes in no list, and in no call.
Fresh ==
    Nodes \ UNION ({ToSet(contents[o]) : o \in Atomic!Lists}
                   \cup {ToSet(mine[t]) : t \in Threads}
                   \cup {IF IsList(on[t]) THEN ToSet(call[t].made) ELSE {} : t \in Threads})

\* t turns to a container whose section it has or may wait for.
Want(t, o, why) ==
    /\ pc[t] = "idle"
    /\ o \in held[t] \/ \A h \in held[t] : Rank(h) < Rank(o)
    /\ why = "holding" => o \notin held[t]
    /\ pc' = [pc EXCEPT ![t] = why]
    /\ on' = [on EXCEPT ![t] = o]
    /\ UNCHANGED <<inUse, cs, contents, mine, held, call, seen, it>>

\* lock(), which returns a holder.
Lock(t) ==
    /\ pc[t] = "holding"
    /\ CanAcquire(cs[on[t]], t)
    /\ cs' = [cs EXCEPT ![on[t]] = Acquired(@, t)]
    /\ held' = [held EXCEPT ![t] = @ \cup {on[t]}]
    /\ pc' = [pc EXCEPT ![t] = "idle"]
    /\ UNCHANGED <<inUse, contents, mine, on, call, seen, it>>

\* The holder is destroyed; the caller has no use for its iterator any more.
Unlock(t, o) ==
    /\ pc[t] = "idle"
    /\ o \in held[t]
    /\ cs' = [cs EXCEPT ![o] = Released(@)]
    /\ held' = [held EXCEPT ![t] = @ \ {o}]
    /\ it' = [it EXCEPT ![t] = IF o = "list" THEN END ELSE @]
    /\ UNCHANGED <<inUse, contents, mine, pc, on, call, seen>>

\* What t may call: a thread that does not hold the section cannot know that there
\* is an element, and has no iterator but end().
IteratorInto(t, o) == IF o = "list" THEN it[t] ELSE END
Calls(t) ==
    IF IsList(on[t])
    THEN LET s == contents[on[t]]
             at == IteratorInto(t, on[t])
         IN  ListCalls(at, Fresh, mine[t]) \cup CopyCalls(contents[Other(on[t])], Fresh)
             \cup (IF on[t] \in held[t] THEN CarefulCalls(s, at, mine[t]) ELSE {})
    ELSE Atomic!MapCalls

\* The containers that t's method reads or writes, and those that it writes.
HasRight(t) == call[t].op \in IF IsList(on[t]) THEN {"="} ELSE {"=", "==", "swap"}
Uses(t) == IF pc[t] = "inside" THEN {on[t]} \cup (IF HasRight(t) THEN {Other(on[t])} ELSE {}) ELSE {}
Writes(t) ==
    CASE call[t].op \in {"read", "=="}                -> {}
      [] call[t].op = "swap" /\ ~ IsList(on[t])       -> Uses(t)
      [] OTHER                                       -> Uses(t) \cap {on[t]}

\* t's method and u's are in each other's way, at the right hand of t's.
Clash(t, u) ==
    /\ t # u
    /\ Other(on[t]) \in (Uses(t) \cap Writes(u)) \cup (Writes(t) \cap Uses(u))
Racing == \E t, u \in Threads : Clash(t, u)

\* The holder on the method's stack takes the section, and the method reads.
Enter(t) ==
    /\ pc[t] = "calling"
    /\ CanAcquire(cs[on[t]], t)
    /\ cs' = [cs EXCEPT ![on[t]] = Acquired(@, t)]
    /\ call' \in {[call EXCEPT ![t] = c] : c \in Calls(t)}
    /\ seen' = [seen EXCEPT ![t] =
                  IF IsList(on[t]) THEN contents[on[t]]
                  ELSE <<contents[on[t]], contents[Other(on[t])]>>]
    /\ pc' = [pc EXCEPT ![t] = "inside"]
    /\ UNCHANGED <<inUse, contents, mine, held, on, it>>

\* The method writes.  It does not write to its right hand unless it is swap.
Write(t) ==
    /\ pc[t] = "inside"
    /\ IF IsList(on[t])
       THEN LET after == AfterListCall(call[t], seen[t], mine[t])
            IN  /\ contents' = [contents EXCEPT ![on[t]] = after[1]]
                /\ mine' = [mine EXCEPT ![t] = after[2]]
                /\ it' = [it EXCEPT ![t] = IF on[t] = "list" /\ @ \notin ToSet(after[1]) THEN END ELSE @]
       ELSE LET after == AfterMapCall(call[t], seen[t][1], seen[t][2])
                right == IF call[t].op = "swap" THEN after[2] ELSE contents[Other(on[t])]
            IN  /\ contents' = [contents EXCEPT ![on[t]] = after[1], ![Other(on[t])] = right]
                /\ UNCHANGED <<mine, it>>
    /\ pc' = [pc EXCEPT ![t] = "written"]
    /\ call' = [call EXCEPT ![t] = NoCall]
    /\ seen' = [seen EXCEPT ![t] = <<>>]
    /\ UNCHANGED <<inUse, cs, held, on>>

\* The method's holder is destroyed.
Leave(t) ==
    /\ pc[t] = "written"
    /\ cs' = [cs EXCEPT ![on[t]] = Released(@)]
    /\ pc' = [pc EXCEPT ![t] = "idle"]
    /\ UNCHANGED <<inUse, contents, mine, held, on, call, seen, it>>

\* begin(), end() and what is reached from them, kept while the section is held.
TakeIterator(t) ==
    /\ pc[t] = "idle"
    /\ "list" \in held[t]
    /\ it' \in {[it EXCEPT ![t] = n] : n \in ToSet(contents["list"])}
    /\ UNCHANGED <<inUse, cs, contents, mine, held, pc, on, call, seen>>

DropMine(t) ==
    /\ pc[t] = "idle"
    /\ mine' = [mine EXCEPT ![t] = <<>>]
    /\ UNCHANGED <<inUse, cs, contents, held, pc, on, call, seen, it>>

RaceIsUndefined == Racing /\ UNCHANGED vars

Next ==
    \/ /\ ~ Racing
       /\ \E t \in Threads :
             \/ \E o \in inUse :
                  \/ Want(t, o, "holding") \/ Want(t, o, "calling")
                  \/ Unlock(t, o)
             \/ Lock(t) \/ Enter(t) \/ Write(t) \/ Leave(t)
             \/ TakeIterator(t) \/ DropMine(t)
    \/ RaceIsUndefined

Spec == Init /\ [][Next]_vars
----------------------------------------------------------------------------------
(* Properties *)

\* As long as there has been no race at a right hand, every method has taken effect
\* at once, on what its container held at that moment and its right hand too: nobody
\* came between its reading and its writing.
ImplementsAtomicContainers == Atomic!Spec

\* What the @todo of safe_map.hpp asks of external locking: a caller that holds the
\* section of its right hand has protected it.  No race is its, neither at that right
\* hand nor because another method has this one's container on its right.
RightHandProtected ==
    \A t, u \in Threads : Other(on[t]) \in held[t] => ~ Clash(t, u) /\ ~ Clash(u, t)

\* An iterator that is kept under lock() stays in the list: other threads' calls
\* cannot erase its node, and the owner's own calls do not give up the section.
IteratorsStayValid == \A t \in Threads : it[t] # END => it[t] \in ToSet(contents["list"])
----------------------------------------------------------------------------------
(* The inductive invariant of the proofs. *)

ContainersTypeOK ==
    /\ inUse \subseteq Containers
    /\ cs \in [Containers -> [owner : Threads \cup {NoThread}, depth : Nat]]
    /\ DOMAIN contents = Containers
    /\ DOMAIN mine = Threads /\ DOMAIN call = Threads
    /\ DOMAIN seen = Threads /\ DOMAIN it = Threads
    /\ held \in [Threads -> SUBSET Containers]
    /\ pc \in [Threads -> {"idle", "holding", "calling", "inside", "written"}]
    /\ on \in [Threads -> Containers]
    /\ \A t \in Threads : pc[t] = "holding" => on[t] \notin held[t]

InMethod(t, o) == pc[t] \in {"inside", "written"} /\ on[t] = o
IsIn(t, o) == o \in held[t] \/ InMethod(t, o)
Depth(t, o) == (IF o \in held[t] THEN 1 ELSE 0) + (IF InMethod(t, o) THEN 1 ELSE 0)

\* A section's owner is the one thread that is in it, and its depth is how often the
\* owner has taken it.
SectionsExclude ==
    \A o \in Containers :
        /\ \A t \in Threads : IsIn(t, o) => cs[o].owner = t
        /\ \A t \in Threads : cs[o].owner = t => IsIn(t, o) /\ cs[o].depth = Depth(t, o)
        /\ cs[o].owner = NoThread => cs[o].depth = 0

IteratorsNeedLock == \A t \in Threads : it[t] # END => "list" \in held[t]

\* What a thread read on entering a method is what is there until it writes, on its
\* right hand too, and its call is one that it may make then.
StillThere(t) ==
    pc[t] = "inside" =>
        IF IsList(on[t])
        THEN /\ seen[t] = contents[on[t]]
             /\ call[t] \in ListCalls(IteratorInto(t, on[t]), Nodes, mine[t])
                             \cup CarefulCalls(contents[on[t]], IteratorInto(t, on[t]), mine[t])
                             \cup CopyCalls(contents[Other(on[t])], Nodes)
        ELSE /\ seen[t][1] = contents[on[t]]
             /\ call[t] \in Atomic!MapCalls
             /\ HasRight(t) => seen[t][2] = contents[Other(on[t])]
SeenIsThere == \A t \in Threads : StillThere(t)

ContainersInv ==
    /\ ContainersTypeOK /\ SectionsExclude
    /\ IteratorsNeedLock /\ IteratorsStayValid /\ SeenIsThere
==================================================================================
