------------------------------ MODULE MemoryTracking ------------------------------
(***************************************************************************)
(* memory_tracking.hpp: operator new and operator delete of a class, which *)
(* list each block in a static safe_map.  Each call on the map takes       *)
(* effect at once (LockedContainers); threads run between the calls, and   *)
(* an address that is freed may be handed out again at any time.           *)
(***************************************************************************)
EXTENDS SafeMap

CONSTANTS
    Callers,    \* the threads that allocate
    Addresses,
    Sizes,
    NoBlock     \* in place of the block of an idle thread

ASSUME NoBlockAssumption == NoBlock \notin Addresses

VARIABLES
    mem_list_,
    allocated,  \* the blocks that ::operator new gave out
    owned,      \* those the program has from operator new and did not delete
    size,       \* history: what each block was last asked for
    stage,      \* where each thread is: between two calls of new or delete
    raw         \* the block it is at

blockVars == <<mem_list_, allocated, owned, size, stage, raw>>

BlocksInit ==
    /\ mem_list_ = EmptyMap
    /\ allocated = {}
    /\ owned = {}
    /\ size \in [Addresses -> Sizes]
    /\ stage = [t \in Callers |-> "idle"]
    /\ raw = [t \in Callers |-> NoBlock]

Goto(t, where, b) == stage' = [stage EXCEPT ![t] = where] /\ raw' = [raw EXCEPT ![t] = b]

\* ::operator new.
Allocate(t) ==
    /\ stage[t] = "idle"
    /\ \E b \in Addresses \ allocated, n \in Sizes :
         /\ allocated' = allocated \cup {b}
         /\ size' = [size EXCEPT ![b] = n]
         /\ Goto(t, "allocated", b)
    /\ UNCHANGED <<mem_list_, owned>>

\* ::operator new throws: nothing has happened.
OutOfMemory(t) ==
    /\ stage[t] = "idle"
    /\ allocated = Addresses
    /\ UNCHANGED blockVars

Insert(t) ==
    /\ stage[t] = "allocated"
    /\ mem_list_' = insert(mem_list_, raw[t], size[raw[t]])
    /\ owned' = owned \cup {raw[t]}
    /\ Goto(t, "idle", NoBlock)
    /\ UNCHANGED <<allocated, size>>

\* The map has no memory for its node: the block stays allocated, and is nobody's.
InsertThrows(t) ==
    /\ stage[t] = "allocated"
    /\ Goto(t, "idle", NoBlock)
    /\ UNCHANGED <<mem_list_, allocated, owned, size>>

\* delete of a block of the program's, by any thread; of NULL it does nothing.
Find(t) ==
    /\ stage[t] = "idle"
    /\ \E b \in owned :
         /\ owned' = owned \ {b}
         /\ Goto(t, "found", b)
    /\ UNCHANGED <<mem_list_, allocated, size>>

Erase(t) ==
    /\ stage[t] = "found"
    /\ mem_list_' = erase(mem_list_, raw[t])
    /\ Goto(t, "erased", raw[t])
    /\ UNCHANGED <<allocated, owned, size>>

\* Mutant: an operator delete that frees first leaves the block listed meanwhile.
FreeListed(t) ==
    /\ stage[t] \in {"found", "erased"}
    /\ allocated' = allocated \ {raw[t]}
    /\ IF stage[t] = "found" THEN UNCHANGED <<stage, raw>> ELSE Goto(t, "idle", NoBlock)
    /\ UNCHANGED <<mem_list_, owned, size>>

FreeBlock(t) ==
    /\ stage[t] = "erased"
    /\ allocated' = allocated \ {raw[t]}
    /\ Goto(t, "idle", NoBlock)
    /\ UNCHANGED <<mem_list_, owned, size>>

BlocksNext ==
    \E t \in Callers :
        \/ Allocate(t) \/ OutOfMemory(t) \/ Insert(t) \/ InsertThrows(t)
        \/ Find(t) \/ Erase(t) \/ FreeBlock(t)

BlocksSpec == BlocksInit /\ [][BlocksNext]_blockVars
-----------------------------------------------------------------------------------
(* Properties *)

\* The blocks in the list are those that the program has, with their sizes, and those
\* whose deletion has found them and not erased them yet, which is what the
\* assertion in operator delete says; none of them can be handed out again.
EveryBlockListed ==
    /\ DOMAIN mem_list_ = owned \cup {raw[t] : t \in {u \in Callers : stage[u] = "found"}}
    /\ DOMAIN mem_list_ \subseteq allocated
    /\ \A b \in DOMAIN mem_list_ : mem_list_[b] = size[b]

\* What makes it inductive: a block is at most one thread's, and a thread's or the
\* program's.
AtBlock == {t \in Callers : stage[t] # "idle"}
BlockTypeOK ==
    /\ allocated \subseteq Addresses
    /\ owned \subseteq allocated
    /\ size \in [Addresses -> Sizes]
    /\ stage \in [Callers -> {"idle", "allocated", "found", "erased"}]
    /\ raw \in [Callers -> Addresses \cup {NoBlock}]
    /\ mem_list_ \in [DOMAIN mem_list_ -> Sizes]
OneOwner ==
    /\ \A t \in AtBlock : raw[t] \in allocated \ owned
    /\ \A t, u \in AtBlock : raw[t] = raw[u] => t = u
BlockInv == BlockTypeOK /\ OneOwner /\ EveryBlockListed
===================================================================================
