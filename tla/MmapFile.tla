--------------------------------- MODULE MmapFile ---------------------------------
(***************************************************************************)
(* mmap_file.hpp: a file of blocks that grows by one block at a time and   *)
(* whose blocks are mapped when they are asked for.  Every call holds the  *)
(* lock of mapped_blocks_ from beginning to end, and so is one action.     *)
(* Sizes and offsets count blocks: block_size_ divides 2^32, so that a     *)
(* 32-bit product of a block number and block_size_ wraps when the number  *)
(* reaches BlocksIn32.  Assertions are compiled out.                       *)
(***************************************************************************)
EXTENDS Integers, SafeMap

CONSTANTS
    BlocksIn32,     \* 2^32 / block_size_
    LargestFile     \* bound: the largest file that may be there at first

ASSUME BlocksAssumption == BlocksIn32 \in Nat \ {0}
ASSUME LargestAssumption == LargestFile \in Nat

VARIABLES
    exists,     \* whether there is a file
    disk,       \* its size
    isOpen,     \* whether there is an mmap_file of it
    size_,
    mapping_,   \* whether the handle is that of a mapping
    mapped_blocks_,
    handed,     \* history: places in the file that allocate_block gave to somebody
    twice       \* history: those it gave away a second time

fileVars == <<exists, disk, isOpen, size_, mapping_, mapped_blocks_, handed, twice>>

\* Block 0 of a file is made with the file, and nobody's.
FileInit ==
    /\ exists \in BOOLEAN
    /\ disk \in IF exists THEN 0 .. LargestFile ELSE {0}
    /\ isOpen = FALSE
    /\ size_ = 0
    /\ mapping_ = FALSE
    /\ mapped_blocks_ = EmptyMap
    /\ handed = 1 .. disk - 1
    /\ twice = {}
-----------------------------------------------------------------------------------
(* Construction and destruction *)

\* A new file is empty until it is mapped, and stays so if that fails; then it can
\* never be opened.
CreateNew ==
    /\ ~ isOpen /\ ~ exists
    /\ exists' = TRUE
    /\ \/ isOpen' = TRUE /\ mapping_' = TRUE /\ size_' = 1 /\ disk' = 1
       \/ UNCHANGED <<isOpen, mapping_, size_>> /\ disk' \in {0, 1}
    /\ UNCHANGED <<mapped_blocks_, handed, twice>>

OpenExisting ==
    /\ ~ isOpen /\ exists
    /\ disk > 0
    /\ isOpen' = TRUE
    /\ mapping_' = TRUE
    /\ size_' = disk
    /\ UNCHANGED <<exists, disk, mapped_blocks_, handed, twice>>

\* The constructor throws: validate() refuses an empty file, or the mapping fails.
OpenThrows ==
    /\ ~ isOpen /\ exists
    /\ UNCHANGED fileVars

\* The destructor, or the end of the process.
Close ==
    /\ isOpen
    /\ isOpen' = FALSE
    /\ mapping_' = FALSE
    /\ size_' = 0
    /\ mapped_blocks_' = EmptyMap
    /\ UNCHANGED <<exists, disk, handed, twice>>
-----------------------------------------------------------------------------------
(* Blocks *)

\* The low word of the size, in blocks.
block_count == size_ % BlocksIn32
Offset(block_num) == block_num % BlocksIn32
NeededSize(block_num) == Offset(block_num) + 1
NeedsRoom(block_num) == NeededSize(block_num) > size_

Larger(n) == IF n > disk THEN n ELSE disk

\* extend_file succeeds.
Extended(block_num) ==
    IF NeedsRoom(block_num)
    THEN mapping_' = TRUE /\ size_' = NeededSize(block_num) /\ disk' = Larger(NeededSize(block_num))
    ELSE UNCHANGED <<mapping_, size_, disk>>

\* Mutant: size_ is assigned before the mapping is looked at.
SizeSetFirst(block_num) ==
    /\ NeedsRoom(block_num)
    /\ mapping_' = FALSE
    /\ disk' \in {disk, Larger(NeededSize(block_num))}
    /\ size_' = NeededSize(block_num)

\* It throws: the old mapping is closed, the file may have grown, size_ has not.
ExtensionFailed(block_num) ==
    /\ NeedsRoom(block_num)
    /\ mapping_' = FALSE
    /\ disk' \in {disk, Larger(NeededSize(block_num))}
    /\ UNCHANGED size_

AllocateBlock ==
    LET b == block_count
    IN  /\ isOpen
        /\ Extended(b)
        /\ mapping_'
        /\ b \notin DOMAIN mapped_blocks_
        /\ mapped_blocks_' = insert(mapped_blocks_, b, Offset(b))
        /\ handed' = handed \cup {Offset(b)}
        /\ twice' = twice \cup ({Offset(b)} \cap handed)
        /\ UNCHANGED <<exists, isOpen>>

\* The extension fails, the view cannot be mapped, or the block is in the map already.
AllocateThrows ==
    /\ isOpen
    /\ ExtensionFailed(block_count) \/ Extended(block_count)
    /\ UNCHANGED <<exists, isOpen, mapped_blocks_, handed, twice>>

\* The process ends when the file has grown and the caller has not got the block.
CrashInAllocate ==
    /\ isOpen
    /\ NeedsRoom(block_count)
    /\ disk' = Larger(NeededSize(block_count))
    /\ isOpen' = FALSE
    /\ mapping_' = FALSE
    /\ size_' = 0
    /\ mapped_blocks_' = EmptyMap
    /\ UNCHANGED <<exists, handed, twice>>

\* get_reference of a block that is not mapped yet.  It throws if there is no
\* mapping, and after that nothing has changed.
GetReference == \E b \in 0 .. block_count - 1 :
    /\ isOpen
    /\ b \notin DOMAIN mapped_blocks_
    /\ Extended(b)
    /\ mapping_'
    /\ mapped_blocks_' = insert(mapped_blocks_, b, Offset(b))
    /\ UNCHANGED <<exists, isOpen, handed, twice>>

FileNext ==
    \/ CreateNew \/ OpenExisting \/ OpenThrows \/ Close
    \/ AllocateBlock \/ AllocateThrows \/ CrashInAllocate \/ GetReference

FileSpec == FileInit /\ [][FileNext]_fileVars
-----------------------------------------------------------------------------------
(* Properties *)

\* A view is at its own block's place in the file, and in the file.
ViewsInPlace == \A b \in DOMAIN mapped_blocks_ : mapped_blocks_[b] = b /\ b < size_

\* The object never takes the file for larger than it is, also when an extension
\* failed.
SizeIsReal == IF isOpen THEN size_ \in 1 .. disk ELSE mapped_blocks_ = EmptyMap

\* As long as the size fits in its low word, allocate_block gives no block away
\* that somebody has already, and get_reference accepts all of those, across failures,
\* crashes and later openings.
NobodyLosesABlock ==
    /\ handed \subseteq 0 .. disk - 1
    /\ disk < BlocksIn32 =>
         /\ twice = {}
         /\ isOpen => handed \subseteq 0 .. block_count - 1

\* Blocks keep apart: whoever was given a block has it to himself and can find it.
BlocksStayApart == ViewsInPlace /\ SizeIsReal /\ NobodyLosesABlock

\* What makes it inductive.
FileTypeOK ==
    /\ exists \in BOOLEAN
    /\ isOpen \in BOOLEAN
    /\ mapping_ \in BOOLEAN
    /\ disk \in Nat
    /\ size_ \in Nat
    /\ DOMAIN mapped_blocks_ \subseteq Nat
    /\ handed \subseteq Nat
    /\ ~ exists => disk = 0
FileInv == FileTypeOK /\ BlocksStayApart
===================================================================================
