----------------------------- MODULE MCSharedObjects -----------------------------
\* Threads share a list or two maps (LockedContainers), tracked blocks
\* (MemoryTracking), a mapped file (MmapFile) or a COM object (ComUnknown).
EXTENDS LockedContainers, MemoryTracking, MmapFile, ComUnknown

VARIABLE shared     \* which of the four

MCInit ==
    /\ Init /\ BlocksInit /\ FileInit /\ ObjectInit
    /\ shared \in {"containers", "memory", "file", "object"}
    /\ shared # "containers" => inUse = Atomic!Lists
    /\ shared # "memory" => size = [b \in Addresses |-> 1]
    /\ shared # "file" => ~ exists

ContainersNext == shared = "containers" /\ Next /\ UNCHANGED <<blockVars, fileVars, objectVars, shared>>
MemoryNext == shared = "memory" /\ BlocksNext /\ UNCHANGED <<vars, fileVars, objectVars, shared>>
MappedNext == shared = "file" /\ FileNext /\ UNCHANGED <<vars, blockVars, objectVars, shared>>
ComNext == shared = "object" /\ ObjectNext /\ UNCHANGED <<vars, blockVars, fileVars, shared>>

MCNext == ContainersNext \/ MemoryNext \/ MappedNext \/ ComNext
MCSpec == MCInit /\ [][MCNext]_<<vars, blockVars, fileVars, objectVars, shared>>

MCNodes == {<<1, 1>>, <<1, 2>>, <<2, 1>>}

\* The two threads are alike in every part, and no property is one of liveness.
MCSymmetry == Permutations(Threads)
===================================================================================
