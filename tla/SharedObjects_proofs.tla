---------------------------- MODULE SharedObjects_proofs ----------------------------
(***************************************************************************)
(* What threads share: lists and maps behind a lock, the list of tracked   *)
(* blocks, a mapped file and a COM object; each for any threads, sizes and *)
(* numbers.                                                                *)
(***************************************************************************)
EXTENDS LockedContainers, MemoryTracking, MmapFile, ComUnknown, FiniteSetTheorems, TLAPS
-------------------------------------------------------------------------------------
(* The list of blocks is right *)

\* With nothing allocated nothing is listed.
LEMMA BlocksInitially == BlocksInit => BlockInv
BY DEF BlocksInit, BlockInv, BlockTypeOK, OneOwner, AtBlock, EveryBlockListed, EmptyMap

\* Each step keeps the invariant: what a block's owner does cannot disturb another
\* block, and a block that is handed out is nobody's.
LEMMA BlocksInductive == BlockInv /\ [BlocksNext]_blockVars => BlockInv'
<1> SUFFICES ASSUME BlockInv, [BlocksNext]_blockVars PROVE BlockInv'
  OBVIOUS
<1> USE NoBlockAssumption DEF BlockInv
<1>1. ASSUME NEW t \in Callers, Allocate(t) PROVE BlockInv'
  <2>1. PICK b \in Addresses \ allocated, n \in Sizes :
          /\ allocated' = allocated \cup {b}
          /\ size' = [size EXCEPT ![b] = n]
          /\ stage' = [stage EXCEPT ![t] = "allocated"]
          /\ raw' = [raw EXCEPT ![t] = b]
    BY <1>1 DEF Allocate, Goto
  <2>2. stage[t] = "idle" /\ UNCHANGED <<mem_list_, owned>>
    BY <1>1 DEF Allocate
  <2>3. BlockTypeOK'
    BY <2>1, <2>2 DEF BlockTypeOK
  <2>4. OneOwner'
    BY <2>1, <2>2 DEF OneOwner, AtBlock, BlockTypeOK
  <2>5. EveryBlockListed'
    BY <2>1, <2>2 DEF EveryBlockListed, BlockTypeOK
  <2> QED BY <2>3, <2>4, <2>5
<1>2. ASSUME NEW t \in Callers, OutOfMemory(t) PROVE BlockInv'
  BY <1>2 DEF OutOfMemory, blockVars, BlockTypeOK, OneOwner, AtBlock, EveryBlockListed
<1>3. ASSUME NEW t \in Callers, Insert(t) PROVE BlockInv'
  <2> DEFINE b == raw[t]
  <2>1. /\ stage[t] = "allocated" /\ t \in AtBlock
        /\ b \in allocated \ owned
        /\ \A u \in AtBlock : raw[u] = b => u = t
    BY <1>3 DEF Insert, OneOwner, AtBlock
  <2>2. b \notin DOMAIN mem_list_
    BY <2>1 DEF EveryBlockListed, AtBlock
  <2>3. /\ DOMAIN mem_list_' = DOMAIN mem_list_ \cup {b}
        /\ mem_list_'[b] = size[b]
        /\ \A j \in DOMAIN mem_list_ : mem_list_'[j] = mem_list_[j]
    <3>1. mem_list_' = insert(mem_list_, b, size[b])
      BY <1>3 DEF Insert
    <3>2. /\ DOMAIN insert(mem_list_, b, size[b]) = DOMAIN mem_list_ \cup {b}
          /\ insert(mem_list_, b, size[b])[b] = size[b]
          /\ \A j \in DOMAIN mem_list_ : insert(mem_list_, b, size[b])[j] = mem_list_[j]
      BY <2>2 DEF insert
    <3> QED BY <3>1, <3>2
  <2>4. /\ owned' = owned \cup {b}
        /\ stage' = [stage EXCEPT ![t] = "idle"] /\ raw' = [raw EXCEPT ![t] = NoBlock]
        /\ UNCHANGED <<allocated, size>>
    BY <1>3 DEF Insert, Goto
  <2>5. mem_list_' \in [DOMAIN mem_list_' -> Sizes]
    BY <1>3, <2>1, <2>2 DEF Insert, insert, BlockTypeOK
  <2>6. BlockTypeOK'
    BY <2>1, <2>4, <2>5 DEF BlockTypeOK
  <2>7. OneOwner'
    BY <2>1, <2>4 DEF OneOwner, AtBlock, BlockTypeOK
  <2>8. EveryBlockListed'
    BY <2>1, <2>3, <2>4 DEF EveryBlockListed, BlockTypeOK
  <2> QED BY <2>6, <2>7, <2>8
<1>4. ASSUME NEW t \in Callers, InsertThrows(t) PROVE BlockInv'
  <2>1. /\ stage[t] = "allocated"
        /\ stage' = [stage EXCEPT ![t] = "idle"] /\ raw' = [raw EXCEPT ![t] = NoBlock]
        /\ UNCHANGED <<mem_list_, allocated, owned, size>>
    BY <1>4 DEF InsertThrows, Goto
  <2>2. BlockTypeOK'
    BY <2>1 DEF BlockTypeOK
  <2>3. OneOwner'
    BY <2>1 DEF OneOwner, AtBlock, BlockTypeOK
  <2>4. EveryBlockListed'
    BY <2>1 DEF EveryBlockListed, BlockTypeOK
  <2> QED BY <2>2, <2>3, <2>4
<1>5. ASSUME NEW t \in Callers, Find(t) PROVE BlockInv'
  <2>1. PICK b \in owned :
          /\ owned' = owned \ {b}
          /\ stage' = [stage EXCEPT ![t] = "found"] /\ raw' = [raw EXCEPT ![t] = b]
    BY <1>5 DEF Find, Goto
  <2>2. stage[t] = "idle" /\ UNCHANGED <<mem_list_, allocated, size>>
    BY <1>5 DEF Find
  <2>3. BlockTypeOK'
    BY <2>1, <2>2 DEF BlockTypeOK
  <2>4. OneOwner'
    BY <2>1, <2>2 DEF OneOwner, AtBlock, BlockTypeOK
  <2>5. EveryBlockListed'
    BY <2>1, <2>2 DEF EveryBlockListed, BlockTypeOK
  <2> QED BY <2>3, <2>4, <2>5
<1>6. ASSUME NEW t \in Callers, Erase(t) PROVE BlockInv'
  <2> DEFINE b == raw[t]
  <2>1. /\ stage[t] = "found" /\ t \in AtBlock
        /\ b \in allocated \ owned
        /\ \A u \in AtBlock : raw[u] = b => u = t
    BY <1>6 DEF Erase, OneOwner, AtBlock
  <2>2. /\ DOMAIN mem_list_' = DOMAIN mem_list_ \ {b}
        /\ \A j \in DOMAIN mem_list_ \ {b} : mem_list_'[j] = mem_list_[j]
    BY <1>6 DEF Erase, erase
  <2>3. /\ stage' = [stage EXCEPT ![t] = "erased"] /\ raw' = raw
        /\ UNCHANGED <<allocated, owned, size>>
    BY <1>6 DEF Erase, Goto, BlockTypeOK
  <2>4. mem_list_' \in [DOMAIN mem_list_' -> Sizes]
    BY <1>6 DEF Erase, erase, BlockTypeOK
  <2>5. BlockTypeOK'
    BY <2>3, <2>4 DEF BlockTypeOK
  <2>6. OneOwner'
    BY <2>1, <2>3 DEF OneOwner, AtBlock, BlockTypeOK
  <2>7. EveryBlockListed'
    BY <2>1, <2>2, <2>3 DEF EveryBlockListed, BlockTypeOK, AtBlock
  <2> QED BY <2>5, <2>6, <2>7
<1>7. ASSUME NEW t \in Callers, FreeBlock(t) PROVE BlockInv'
  <2> DEFINE b == raw[t]
  <2>1. /\ stage[t] = "erased" /\ t \in AtBlock
        /\ b \in allocated \ owned
        /\ \A u \in AtBlock : raw[u] = b => u = t
    BY <1>7 DEF FreeBlock, OneOwner, AtBlock
  <2>2. /\ allocated' = allocated \ {b}
        /\ stage' = [stage EXCEPT ![t] = "idle"] /\ raw' = [raw EXCEPT ![t] = NoBlock]
        /\ UNCHANGED <<mem_list_, owned, size>>
    BY <1>7 DEF FreeBlock, Goto
  <2>3. b \notin DOMAIN mem_list_
    BY <2>1 DEF EveryBlockListed, AtBlock
  <2>4. BlockTypeOK'
    BY <2>1, <2>2 DEF BlockTypeOK
  <2>5. OneOwner'
    BY <2>1, <2>2 DEF OneOwner, AtBlock, BlockTypeOK
  <2>6. EveryBlockListed'
    BY <2>1, <2>2, <2>3 DEF EveryBlockListed, BlockTypeOK
  <2> QED BY <2>4, <2>5, <2>6
<1>8. CASE UNCHANGED blockVars
  BY <1>8 DEF blockVars, BlockTypeOK, OneOwner, AtBlock, EveryBlockListed
<1> QED BY <1>1, <1>2, <1>3, <1>4, <1>5, <1>6, <1>7, <1>8 DEF BlocksNext

\* Every block that the program has from operator new is in the list with its size, no
\* freed one is, and operator delete finds its block, however the threads interleave
\* and whatever addresses are handed out again.
THEOREM ListIsRight == BlocksSpec => []EveryBlockListed
<1>1. BlocksInit => BlockInv
  BY BlocksInitially
<1>2. BlockInv /\ [BlocksNext]_blockVars => BlockInv'
  BY BlocksInductive
<1>3. BlockInv => EveryBlockListed
  BY DEF BlockInv
<1> QED BY <1>1, <1>2, <1>3, PTL DEF BlocksSpec
-------------------------------------------------------------------------------------
(* The mapped file keeps its blocks *)

\* What a 32-bit product keeps of a number of blocks.
LEMMA Wraps == ASSUME NEW n \in Nat
               PROVE  /\ n % BlocksIn32 \in 0 .. BlocksIn32 - 1
                      /\ n < BlocksIn32 => n % BlocksIn32 = n
                      /\ n % BlocksIn32 <= n
<1>1. n % BlocksIn32 \in 0 .. BlocksIn32 - 1
  BY BlocksAssumption
<1>2. n < BlocksIn32 => n % BlocksIn32 = n
  BY BlocksAssumption
<1> QED BY <1>1, <1>2, BlocksAssumption

\* A file grows.
LEMMA Grows == ASSUME NEW m \in Nat, NEW n \in Nat, m <= n, NEW S, S \subseteq 0 .. m - 1
               PROVE  S \subseteq 0 .. n - 1
OBVIOUS

\* A number below the size is a place in the file.
LEMMA Below == ASSUME NEW n \in Nat, NEW i \in Nat, i < n
               PROVE  i \in 0 .. n - 1
OBVIOUS

\* A file that is not open has no views, and its blocks are in it.
LEMMA FileInitially == FileInit => FileInv
<1> SUFFICES ASSUME FileInit PROVE FileInv
  OBVIOUS
<1>1. disk \in Nat /\ (~ exists => disk = 0) /\ handed = 1 .. disk - 1
  BY LargestAssumption DEF FileInit
<1>2. FileTypeOK
  <2>1. exists \in BOOLEAN /\ isOpen \in BOOLEAN /\ mapping_ \in BOOLEAN /\ size_ \in Nat
    BY DEF FileInit
  <2>2. DOMAIN mapped_blocks_ \subseteq Nat
    BY DEF FileInit, EmptyMap
  <2>3. handed \subseteq Nat
    BY <1>1
  <2> QED BY <1>1, <2>1, <2>2, <2>3 DEF FileTypeOK
<1>3. ViewsInPlace /\ SizeIsReal
  BY DEF FileInit, ViewsInPlace, SizeIsReal, EmptyMap
<1>4. NobodyLosesABlock
  BY <1>1 DEF FileInit, NobodyLosesABlock
<1> QED BY <1>2, <1>3, <1>4 DEF FileInv, BlocksStayApart

\* block_count, and the place of the block of that number.
LEMMA Numbers == ASSUME FileTypeOK
                 PROVE  /\ block_count \in 0 .. size_
                        /\ Offset(block_count) = block_count
                        /\ size_ < BlocksIn32 => block_count = size_
<1>1. size_ \in Nat
  BY DEF FileTypeOK
<1>2. block_count \in 0 .. BlocksIn32 - 1 /\ block_count <= size_ /\ (size_ < BlocksIn32 => block_count = size_)
  BY <1>1, Wraps DEF block_count
<1>3. block_count \in Nat /\ block_count < BlocksIn32
  BY <1>2, BlocksAssumption
<1> QED BY <1>1, <1>2, <1>3, Wraps DEF Offset

\* What extend_file and map_block leave true, for the block that is allocated or one
\* that is there.
LEMMA ExtendedKeeps ==
    ASSUME FileInv, isOpen, NEW b \in 0 .. block_count, Extended(b)
    PROVE  /\ mapping_' \in BOOLEAN /\ disk' \in Nat /\ size_' \in Nat
           /\ Offset(b) = b
           /\ size_ <= size_' /\ b < size_' /\ disk <= disk' /\ size_' \in 1 .. disk'
           /\ b < block_count => UNCHANGED <<size_, disk>>
<1>1. FileTypeOK /\ size_ \in 1 .. disk
  BY DEF FileInv, BlocksStayApart, SizeIsReal
<1>2. disk \in Nat /\ size_ \in Nat /\ mapping_ \in BOOLEAN
  BY <1>1 DEF FileTypeOK
<1>3. block_count \in 0 .. size_ /\ block_count \in 0 .. BlocksIn32 - 1
  BY <1>1, <1>2, Numbers, Wraps DEF block_count
<1>4. b \in Nat /\ b < BlocksIn32 /\ b <= size_
  BY <1>2, <1>3, BlocksAssumption
<1>5. Offset(b) = b
  BY <1>4, Wraps DEF Offset
<1>6. CASE NeedsRoom(b)
  <2>1. mapping_' = TRUE /\ size_' = b + 1 /\ disk' = IF b + 1 > disk THEN b + 1 ELSE disk
    BY <1>5, <1>6 DEF Extended, NeededSize, Larger
  <2>2. b + 1 > size_
    BY <1>5, <1>6 DEF NeedsRoom, NeededSize
  <2> QED BY <1>2, <1>3, <1>4, <1>5, <2>1, <2>2
<1>7. CASE ~ NeedsRoom(b)
  BY <1>1, <1>2, <1>4, <1>5, <1>7 DEF Extended, NeedsRoom, NeededSize
<1> QED BY <1>6, <1>7

\* A new view of block b, in its place, disturbs no other.
LEMMA ViewAdded ==
    ASSUME FileInv, NEW b \in Nat, b < size_', size_ \in Nat, size_' \in Nat, size_ <= size_',
           mapped_blocks_' = insert(mapped_blocks_, b, b)
    PROVE  DOMAIN mapped_blocks_' \subseteq Nat /\ ViewsInPlace'
<1>1. /\ DOMAIN mapped_blocks_' = DOMAIN mapped_blocks_ \cup {b}
      /\ \A j \in DOMAIN mapped_blocks_' :
            mapped_blocks_'[j] = IF j \in DOMAIN mapped_blocks_ THEN mapped_blocks_[j] ELSE b
  BY DEF insert
<1>2. DOMAIN mapped_blocks_ \subseteq Nat /\ ViewsInPlace
  BY DEF FileInv, FileTypeOK, BlocksStayApart
<1> QED BY <1>1, <1>2 DEF ViewsInPlace

\* Each step keeps the invariant.
LEMMA FileInductive == FileInv /\ [FileNext]_fileVars => FileInv'
<1> SUFFICES ASSUME FileInv, [FileNext]_fileVars PROVE FileInv'
  OBVIOUS
<1>0. FileTypeOK /\ ViewsInPlace /\ SizeIsReal /\ NobodyLosesABlock
  BY DEF FileInv, BlocksStayApart
<1>a. disk \in Nat /\ size_ \in Nat /\ BlocksIn32 \in Nat
  BY <1>0, BlocksAssumption DEF FileTypeOK
<1> USE DEF FileInv, BlocksStayApart
<1>1. CASE CreateNew
  <2>1. disk = 0 /\ handed = {} /\ mapped_blocks_ = EmptyMap
    BY <1>0, <1>1 DEF CreateNew, FileTypeOK, SizeIsReal, NobodyLosesABlock
  <2>2. FileTypeOK'
    <3>1. exists' /\ (isOpen' \in BOOLEAN) /\ (mapping_' \in BOOLEAN)
      BY <1>0, <1>1 DEF CreateNew, FileTypeOK
    <3>2. disk' \in Nat /\ size_' \in Nat
      BY <1>1, <1>a DEF CreateNew
    <3>3. UNCHANGED <<mapped_blocks_, handed>>
      BY <1>1 DEF CreateNew
    <3> QED BY <1>0, <3>1, <3>2, <3>3 DEF FileTypeOK
  <2>3. ViewsInPlace' /\ SizeIsReal'
    BY <1>1, <2>1 DEF CreateNew, ViewsInPlace, SizeIsReal, EmptyMap
  <2>4. NobodyLosesABlock'
    BY <1>0, <1>1, <1>a, <2>1 DEF CreateNew, NobodyLosesABlock
  <2> QED BY <2>2, <2>3, <2>4
<1>2. CASE OpenExisting
  <2>1. FileTypeOK'
    BY <1>0, <1>2 DEF OpenExisting, FileTypeOK
  <2>2. ViewsInPlace' /\ SizeIsReal'
    BY <1>0, <1>2, <1>a DEF OpenExisting, ViewsInPlace, SizeIsReal, EmptyMap
  <2>3. disk < BlocksIn32 => block_count' = disk
    BY <1>2, <1>a, Wraps DEF OpenExisting, block_count
  <2>4. NobodyLosesABlock'
    BY <1>0, <1>2, <2>3 DEF OpenExisting, NobodyLosesABlock
  <2> QED BY <2>1, <2>2, <2>4
<1>3. CASE Close
  BY <1>0, <1>3 DEF Close, FileTypeOK, ViewsInPlace, SizeIsReal, NobodyLosesABlock, EmptyMap
<1>4. CASE AllocateBlock
  <2> DEFINE b == block_count
  <2>1. b \in 0 .. b /\ b \in Nat /\ (size_ < BlocksIn32 => b = size_)
    BY <1>0, <1>a, Numbers
  <2>2. isOpen /\ Extended(b)
    BY <1>4 DEF AllocateBlock
  <2>3. /\ mapping_' \in BOOLEAN /\ disk' \in Nat /\ size_' \in Nat
        /\ Offset(b) = b
        /\ size_ <= size_' /\ b < size_' /\ disk <= disk' /\ size_' \in 1 .. disk'
    BY <2>1, <2>2, ExtendedKeeps
  <2>4. /\ mapped_blocks_' = insert(mapped_blocks_, b, b)
        /\ handed' = handed \cup {b} /\ twice' = twice \cup ({b} \cap handed)
        /\ UNCHANGED <<exists, isOpen>>
    BY <1>4, <2>3 DEF AllocateBlock
  <2>5. DOMAIN mapped_blocks_' \subseteq Nat /\ ViewsInPlace'
    BY <1>a, <2>1, <2>3, <2>4, ViewAdded
  <2>6. exists
    BY <1>0, <1>a, <2>2 DEF SizeIsReal, FileTypeOK
  <2>7. FileTypeOK' /\ SizeIsReal'
    BY <1>0, <2>1, <2>2, <2>3, <2>4, <2>5, <2>6 DEF FileTypeOK, SizeIsReal
  <2>8. ASSUME disk' < BlocksIn32
        PROVE  twice' = {} /\ handed' \subseteq 0 .. block_count' - 1
    <3>1. size_ < BlocksIn32 /\ disk < BlocksIn32 /\ size_' < BlocksIn32
      BY <1>a, <2>3, <2>8
    <3>2. handed \subseteq 0 .. size_ - 1 /\ twice = {}
      BY <1>0, <2>1, <2>2, <3>1 DEF NobodyLosesABlock
    <3>3. block_count' = size_'
      BY <2>3, <3>1, Wraps DEF block_count
    <3>4. handed \subseteq 0 .. size_' - 1
      BY <1>a, <2>3, <3>2, Grows
    <3>5. b \in 0 .. size_' - 1
      BY <2>1, <2>3, Below
    <3>6. b \notin handed
      BY <1>a, <2>1, <3>1, <3>2
    <3> QED BY <2>4, <3>2, <3>3, <3>4, <3>5, <3>6
  <2>9. handed' \subseteq 0 .. disk' - 1
    <3>1. handed \subseteq 0 .. disk' - 1
      BY <1>0, <1>a, <2>3, Grows DEF NobodyLosesABlock
    <3>2. b < disk'
      BY <2>1, <2>3
    <3>3. b \in 0 .. disk' - 1
      BY <2>1, <2>3, <3>2, Below
    <3> QED BY <2>4, <3>1, <3>3
  <2> QED BY <2>5, <2>7, <2>8, <2>9 DEF NobodyLosesABlock
<1>5. CASE AllocateThrows
  <2> DEFINE b == block_count
  <2>0. isOpen /\ UNCHANGED <<exists, isOpen, mapped_blocks_, handed, twice>>
    BY <1>5 DEF AllocateThrows
  <2>1. b \in 0 .. b /\ b \in Nat
    BY <1>0, <1>a, Numbers
  <2>2. /\ mapping_' \in BOOLEAN /\ disk' \in Nat /\ size_' \in Nat
        /\ size_ <= size_' /\ disk <= disk' /\ size_' \in 1 .. disk'
    <3>1. CASE Extended(b)
      BY <2>0, <2>1, <3>1, ExtendedKeeps
    <3>2. CASE ExtensionFailed(b)
      <4>1. Offset(b) = b
        BY <1>0, Numbers
      <4>2. mapping_' = FALSE /\ size_' = size_ /\ disk' \in {disk, Larger(b + 1)}
        BY <3>2, <4>1 DEF ExtensionFailed, NeededSize
      <4>3. disk' \in Nat /\ disk <= disk'
        BY <1>a, <2>1, <4>2 DEF Larger
      <4>4. size_ \in 1 .. disk
        BY <1>0, <2>0 DEF SizeIsReal
      <4>5. size_' \in 1 .. disk' /\ size_' \in Nat
        BY <1>a, <4>2, <4>3, <4>4
      <4>6. mapping_' \in BOOLEAN
        BY <4>2
      <4>7. size_ <= size_'
        BY <1>a, <4>2
      <4> QED BY <4>3, <4>5, <4>6, <4>7
    <3> QED BY <1>5, <3>1, <3>2 DEF AllocateThrows
  <2>3. exists
    BY <1>0, <1>a, <2>0 DEF SizeIsReal, FileTypeOK
  <2>4. FileTypeOK' /\ SizeIsReal'
    BY <1>0, <2>0, <2>2, <2>3 DEF FileTypeOK, SizeIsReal
  <2>5. ViewsInPlace'
    BY <1>0, <1>a, <2>0, <2>2 DEF ViewsInPlace, FileTypeOK
  <2>6. ASSUME disk' < BlocksIn32
        PROVE  twice' = {} /\ handed' \subseteq 0 .. block_count' - 1
    <3>1. size_ < BlocksIn32 /\ disk < BlocksIn32 /\ size_' < BlocksIn32
      BY <1>a, <2>2, <2>6
    <3>2. handed \subseteq 0 .. size_ - 1 /\ twice = {}
      BY <1>0, <2>0, <3>1, Numbers DEF NobodyLosesABlock
    <3>3. block_count' = size_'
      BY <2>2, <3>1, Wraps DEF block_count
    <3>4. handed \subseteq 0 .. size_' - 1
      BY <1>a, <2>2, <3>2, Grows
    <3> QED BY <2>0, <3>2, <3>3, <3>4
  <2>7. handed' \subseteq 0 .. disk' - 1
    <3>1. handed \subseteq 0 .. disk' - 1
      BY <1>0, <1>a, <2>2, Grows DEF NobodyLosesABlock
    <3> QED BY <2>0, <3>1
  <2> QED BY <2>4, <2>5, <2>6, <2>7 DEF NobodyLosesABlock
<1>6. CASE CrashInAllocate
  <2>1. Offset(block_count) = block_count /\ block_count \in Nat
    BY <1>0, <1>a, Numbers
  <2>2. disk' \in Nat /\ disk <= disk'
    BY <1>6, <1>a, <2>1 DEF CrashInAllocate, Larger, NeededSize
  <2>3. exists
    BY <1>0, <1>6, <1>a DEF CrashInAllocate, SizeIsReal, FileTypeOK
  <2>4. FileTypeOK'
    BY <1>0, <1>6, <2>2, <2>3 DEF CrashInAllocate, FileTypeOK, EmptyMap
  <2>5. ViewsInPlace' /\ SizeIsReal'
    BY <1>6 DEF CrashInAllocate, ViewsInPlace, SizeIsReal, EmptyMap
  <2>6. NobodyLosesABlock'
    BY <1>0, <1>6, <1>a, <2>2 DEF CrashInAllocate, NobodyLosesABlock
  <2> QED BY <2>4, <2>5, <2>6
<1>7. CASE GetReference
  <2>1. PICK b \in 0 .. block_count - 1 :
          /\ isOpen /\ Extended(b)
          /\ mapped_blocks_' = insert(mapped_blocks_, b, Offset(b))
          /\ UNCHANGED <<exists, isOpen, handed, twice>>
    BY <1>7 DEF GetReference
  <2>2. b \in 0 .. block_count /\ b \in Nat /\ b < block_count
    BY <1>0, <1>a, Numbers
  <2>3. /\ mapping_' \in BOOLEAN /\ disk' = disk /\ size_' = size_
        /\ Offset(b) = b /\ b < size_'
    BY <2>1, <2>2, ExtendedKeeps
  <2>4. DOMAIN mapped_blocks_' \subseteq Nat /\ ViewsInPlace'
    BY <1>a, <2>1, <2>2, <2>3, ViewAdded
  <2>5. FileTypeOK' /\ SizeIsReal'
    BY <1>0, <2>1, <2>3, <2>4 DEF FileTypeOK, SizeIsReal
  <2>6. NobodyLosesABlock'
    BY <1>0, <2>1, <2>3 DEF NobodyLosesABlock, block_count
  <2> QED BY <2>4, <2>5, <2>6
<1>8. CASE UNCHANGED fileVars
  BY <1>0, <1>8 DEF fileVars, FileTypeOK, ViewsInPlace, SizeIsReal, NobodyLosesABlock, block_count
<1> QED BY <1>1, <1>2, <1>3, <1>4, <1>5, <1>6, <1>7, <1>8 DEF FileNext, OpenThrows

\* The views lie in the file and in their places; and as long as the size of the file
\* fits in 32 bits, allocate_block gives no block away twice and get_reference
\* refuses none that was given away: for any block size and any file.
THEOREM BlocksApart == FileSpec => []BlocksStayApart
<1>1. FileInv => BlocksStayApart
  BY DEF FileInv
<1> QED BY <1>1, FileInitially, FileInductive, PTL DEF FileSpec
-------------------------------------------------------------------------------------
(* An object lives while it is referred to *)

\* Who has a reference is one of finitely many.
LEMMA HeldFinite == IsFiniteSet(Held) /\ Cardinality(Held) \in Nat
<1>1. IsFiniteSet(Held)
  BY ReferencesAssumption, FS_Subset DEF Held
<1> QED BY <1>1, FS_CardinalityType

\* Before the first object nobody refers to one.
LEMMA ObjectInitially == ObjectInit => ObjectInv
BY NobodyAssumption DEF ObjectInit, ObjectInv, ObjectTypeOK, Created, LivesWhileReferenced, Held

\* A reference given to v is one more, and is held.
LEMMA Given == ASSUME ObjectTypeOK, NEW v \in Users, NEW r \in References \ Held,
                      holder' = [holder EXCEPT ![r] = v]
               PROVE  /\ holder' \in [References -> Users \cup {Nobody}]
                      /\ Held' = Held \cup {r}
                      /\ Cardinality(Held') = Cardinality(Held) + 1
<1>1. holder \in [References -> Users \cup {Nobody}]
  BY DEF ObjectTypeOK
<1>2. \A q \in References : holder'[q] = IF q = r THEN v ELSE holder[q]
  BY <1>1
<1>3. Held' = Held \cup {r}
  BY <1>2, NobodyAssumption DEF Held
<1> QED BY <1>1, <1>3, HeldFinite, FS_AddElement

\* A reference given back is one less.
LEMMA GivenBack == ASSUME ObjectTypeOK, NEW u \in Users, NEW r \in References, holder[r] = u,
                          holder' = [holder EXCEPT ![r] = Nobody]
                   PROVE  /\ holder' \in [References -> Users \cup {Nobody}]
                          /\ Held' = Held \ {r}
                          /\ r \in Held
                          /\ Cardinality(Held') = Cardinality(Held) - 1
<1>1. holder \in [References -> Users \cup {Nobody}]
  BY DEF ObjectTypeOK
<1>2. \A q \in References : holder'[q] = IF q = r THEN Nobody ELSE holder[q]
  BY <1>1
<1>3. Held' = Held \ {r} /\ r \in Held
  BY <1>2, NobodyAssumption DEF Held
<1>4. Cardinality(Held \ {r}) = Cardinality(Held) - 1
  BY <1>3, HeldFinite, FS_RemoveElement
<1> QED BY <1>1, <1>3, <1>4

\* Counting a reference for v, by a thread that has one, keeps the object and its count.
LEMMA Counted == ASSUME ObjectInv, NEW v \in Users, Count(v), Held # {}
                 PROVE  /\ holder' \in [References -> Users \cup {Nobody}]
                        /\ \A q \in References : holder[q] # Nobody => holder'[q] = holder[q]
                        /\ object = "alive" /\ object' = "alive"
                        /\ Held' # {} /\ m_refCount' = Cardinality(Held')
<1>1. PICK r \in References \ Held : holder' = [holder EXCEPT ![r] = v]
  BY DEF Count
<1>2. object = "alive" /\ object' = object /\ m_refCount = Cardinality(Held)
      /\ m_refCount' = m_refCount + 1 /\ ObjectTypeOK
  BY DEF ObjectInv, LivesWhileReferenced, Count
<1>3. /\ holder' \in [References -> Users \cup {Nobody}]
      /\ Held' = Held \cup {r} /\ Cardinality(Held') = Cardinality(Held) + 1
  BY <1>1, <1>2, Given
<1>4. \A q \in References : holder[q] # Nobody => holder'[q] = holder[q]
  BY <1>1, <1>2 DEF Held, ObjectTypeOK
<1> QED BY <1>2, <1>3, <1>4

\* Each step keeps the invariant.
LEMMA ObjectInductive == ObjectInv /\ [ObjectNext]_objectVars => ObjectInv'
<1> SUFFICES ASSUME ObjectInv, [ObjectNext]_objectVars PROVE ObjectInv'
  OBVIOUS
<1>0. ObjectTypeOK /\ Created /\ LivesWhileReferenced
  BY DEF ObjectInv
<1>1. ASSUME NEW u \in Users, CreateInstance(u) PROVE ObjectInv'
  <2>1. PICK r \in References : holder' = [holder EXCEPT ![r] = u]
    BY <1>1 DEF CreateInstance
  <2>2. Held = {} /\ object' = "alive" /\ m_refCount' = 1
        /\ phase' = [phase EXCEPT ![u] = "created"] /\ \A v \in Users : phase[v] = "idle"
    BY <1>0, <1>1 DEF CreateInstance, LivesWhileReferenced
  <2>3. /\ holder' \in [References -> Users \cup {Nobody}]
        /\ Held' = {r} /\ Cardinality(Held') = Cardinality(Held) + 1
    BY <1>0, <2>1, <2>2, Given
  <2>4. Cardinality(Held') = 1
    BY <2>2, <2>3, FS_EmptySet
  <2>5. ObjectTypeOK'
    BY <1>0, <2>2, <2>3 DEF ObjectTypeOK
  <2>6. Created'
    BY <1>0, <2>1, <2>2 DEF Created, ObjectTypeOK
  <2>7. LivesWhileReferenced'
    BY <2>2, <2>3, <2>4 DEF LivesWhileReferenced
  <2> QED BY <2>5, <2>6, <2>7 DEF ObjectInv
<1>2. ASSUME NEW u \in Users, QuerySucceeds(u) PROVE ObjectInv'
  <2>1. phase[u] = "created" /\ Count(u) /\ phase' = [phase EXCEPT ![u] = "queried"]
    BY <1>2 DEF QuerySucceeds
  <2>2. Held # {}
    BY <1>0, <2>1, NobodyAssumption DEF Created, Held
  <2>3. /\ holder' \in [References -> Users \cup {Nobody}]
        /\ \A q \in References : holder[q] # Nobody => holder'[q] = holder[q]
        /\ object = "alive" /\ object' = "alive"
        /\ Held' # {} /\ m_refCount' = Cardinality(Held')
    BY <2>1, <2>2, Counted
  <2>4. ObjectTypeOK'
    BY <1>0, <2>1, <2>3 DEF ObjectTypeOK
  <2>5. Created'
    BY <1>0, <2>1, <2>3, NobodyAssumption DEF Created, ObjectTypeOK
  <2>6. LivesWhileReferenced'
    BY <2>3 DEF LivesWhileReferenced
  <2> QED BY <2>4, <2>5, <2>6 DEF ObjectInv
<1>3. ASSUME NEW u \in Users, QueryFails(u) PROVE ObjectInv'
  <2>1. phase[u] = "created" /\ phase' = [phase EXCEPT ![u] = "queried"]
        /\ UNCHANGED <<object, m_refCount, holder>>
    BY <1>3 DEF QueryFails
  <2>2. ObjectTypeOK' /\ Created'
    BY <1>0, <2>1 DEF ObjectTypeOK, Created
  <2>3. LivesWhileReferenced'
    BY <1>0, <2>1, NobodyAssumption DEF LivesWhileReferenced, Held, ObjectTypeOK, Created
  <2> QED BY <2>2, <2>3 DEF ObjectInv
<1>4. ASSUME NEW u \in Users, NEW v \in Users, AddRef(u, v) PROVE ObjectInv'
  <2>1. Count(v) /\ phase' = phase
    BY <1>4 DEF AddRef
  <2>2. Held # {}
    BY <1>4, NobodyAssumption DEF AddRef, Held
  <2>3. /\ holder' \in [References -> Users \cup {Nobody}]
        /\ \A q \in References : holder[q] # Nobody => holder'[q] = holder[q]
        /\ object = "alive" /\ object' = "alive"
        /\ Held' # {} /\ m_refCount' = Cardinality(Held')
    BY <2>1, <2>2, Counted
  <2>4. ObjectTypeOK'
    BY <1>0, <2>1, <2>3 DEF ObjectTypeOK
  <2>5. Created'
    BY <1>0, <2>1, <2>3, NobodyAssumption DEF Created
  <2>6. LivesWhileReferenced'
    BY <2>3 DEF LivesWhileReferenced
  <2> QED BY <2>4, <2>5, <2>6 DEF ObjectInv
<1>5. ASSUME NEW u \in Users, Decrement(u) PROVE ObjectInv'
  <2>1. PICK r \in References : holder[r] = u /\ holder' = [holder EXCEPT ![r] = Nobody]
    BY <1>5 DEF Decrement
  <2>2. phase[u] \in {"idle", "queried"} /\ phase' = [phase EXCEPT ![u] = "looking"]
        /\ m_refCount' = m_refCount - 1 /\ object' = object
    BY <1>5 DEF Decrement
  <2>3. /\ holder' \in [References -> Users \cup {Nobody}]
        /\ Held' = Held \ {r} /\ r \in Held /\ Cardinality(Held') = Cardinality(Held) - 1
    BY <1>0, <2>1, GivenBack
  <2>4. object = "alive" /\ m_refCount = Cardinality(Held)
    BY <1>0, <2>3 DEF LivesWhileReferenced
  <2>5. ObjectTypeOK'
    BY <1>0, <2>2, <2>3 DEF ObjectTypeOK
  <2>6. Created'
    BY <1>0, <2>1, <2>2 DEF Created, ObjectTypeOK
  <2>7. phase'[u] = "looking"
    BY <1>0, <2>2 DEF ObjectTypeOK
  <2>8. LivesWhileReferenced'
    BY <2>2, <2>3, <2>4, <2>7 DEF LivesWhileReferenced
  <2> QED BY <2>5, <2>6, <2>8 DEF ObjectInv
<1>6. ASSUME NEW u \in Users, Look(u) PROVE ObjectInv'
  <2>1. phase[u] = "looking" /\ object = "alive" /\ phase' = [phase EXCEPT ![u] = "idle"]
        /\ object' = (IF m_refCount = 0 THEN "deleted" ELSE object)
        /\ UNCHANGED <<m_refCount, holder>>
    BY <1>6 DEF Look
  <2>2. m_refCount = Cardinality(Held) /\ Held' = Held
    BY <1>0, <2>1 DEF LivesWhileReferenced, Held
  <2>3. m_refCount = 0 <=> Held = {}
    BY <2>2, HeldFinite, FS_EmptySet
  <2>4. ObjectTypeOK' /\ Created'
    BY <1>0, <2>1 DEF ObjectTypeOK, Created
  <2>5. LivesWhileReferenced'
    BY <2>1, <2>2, <2>3 DEF LivesWhileReferenced
  <2> QED BY <2>4, <2>5 DEF ObjectInv
<1>7. ASSUME NEW u \in Users, LookTooLate(u) PROVE ObjectInv'
  <2>1. object = "deleted" /\ object' \in {"deleted", "corrupt"}
        /\ phase' = [phase EXCEPT ![u] = "idle"] /\ UNCHANGED <<m_refCount, holder>>
    BY <1>7 DEF LookTooLate
  <2>2. Held' = Held /\ Held = {}
    BY <1>0, <2>1 DEF LivesWhileReferenced, Held
  <2>3. ObjectTypeOK' /\ Created'
    BY <1>0, <2>1 DEF ObjectTypeOK, Created
  <2> QED BY <2>1, <2>2, <2>3 DEF ObjectInv, LivesWhileReferenced
<1>8. ASSUME UNCHANGED objectVars PROVE ObjectInv'
  BY <1>0, <1>8 DEF objectVars, ObjectInv, ObjectTypeOK, Created, LivesWhileReferenced, Held
<1> QED
  BY <1>1, <1>2, <1>3, <1>4, <1>5, <1>6, <1>7, <1>8 DEF ObjectNext, Undefined

\* Whoever has a reference has a living object, whose count is the number of references,
\* and an object without references has a thread in Release that will find the count
\* at zero: for any number of threads and references.
THEOREM ObjectLives == ObjectSpec => []LivesWhileReferenced
<1>1. ObjectInv => LivesWhileReferenced
  BY DEF ObjectInv
<1> QED BY <1>1, ObjectInitially, ObjectInductive, PTL DEF ObjectSpec
-------------------------------------------------------------------------------------
(* Each call on a list or map takes effect at once.  What a call makes of its own  *)
(* container is not used; of a map call, that only swap changes the right one.     *)

\* A section's depth is one or two while somebody is in it.
LEMMA DepthCounts == ASSUME NEW t \in Threads, NEW o \in Containers
                     PROVE  Depth(t, o) \in 0 .. 2 /\ (IsIn(t, o) <=> Depth(t, o) > 0)
BY DEF Depth, IsIn

\* Two threads that are in the same section are one.
LEMMA Excludes == ASSUME SectionsExclude, NEW t \in Threads, NEW u \in Threads,
                         NEW o \in Containers, IsIn(t, o), IsIn(u, o)
                  PROVE  t = u
BY DEF SectionsExclude

\* Whoever takes a section he may take is in it once more.
LEMMA Taken ==
    ASSUME ContainersTypeOK, SectionsExclude, NEW t \in Threads, NEW o \in Containers,
           CanAcquire(cs[o], t), cs' = [cs EXCEPT ![o] = Acquired(@, t)],
           IsIn(t, o)', Depth(t, o)' = Depth(t, o) + 1,
           \A u \in Threads, p \in Containers :
              u # t \/ p # o => (IsIn(u, p)' <=> IsIn(u, p)) /\ Depth(u, p)' = Depth(u, p)
    PROVE  SectionsExclude' /\ cs' \in [Containers -> [owner : Threads \cup {NoThread}, depth : Nat]]
<1>1. /\ cs \in [Containers -> [owner : Threads \cup {NoThread}, depth : Nat]]
      /\ cs[o].owner \in {t, NoThread} /\ t # NoThread
  BY NoThreadAssumption DEF ContainersTypeOK, CanAcquire
<1>2. /\ cs'[o].owner = t /\ cs'[o].depth = cs[o].depth + 1
      /\ \A p \in Containers \ {o} : cs'[p] = cs[p]
      /\ cs' \in [Containers -> [owner : Threads \cup {NoThread}, depth : Nat]]
  BY <1>1 DEF Acquired
<1>3. cs[o].depth = Depth(t, o)
  <2>1. CASE cs[o].owner = t
    BY <1>1, <2>1 DEF SectionsExclude
  <2>2. CASE cs[o].owner = NoThread
    <3>1. ~ IsIn(t, o) /\ cs[o].depth = 0
      BY <1>1, <2>2 DEF SectionsExclude
    <3> QED BY <3>1, DepthCounts
  <2> QED BY <1>1, <2>1, <2>2
<1>4. \A u \in Threads \ {t} : ~ IsIn(u, o)
  BY <1>1, NoThreadAssumption DEF SectionsExclude
<1>5. ASSUME NEW p \in Containers
      PROVE  /\ \A u \in Threads : IsIn(u, p)' => cs'[p].owner = u
             /\ \A u \in Threads : cs'[p].owner = u => IsIn(u, p)' /\ cs'[p].depth = Depth(u, p)'
             /\ cs'[p].owner = NoThread => cs'[p].depth = 0
  <2>1. CASE p = o
    BY <1>1, <1>2, <1>3, <1>4, <2>1
  <2>2. CASE p # o
    BY <1>1, <1>2, <2>2 DEF SectionsExclude
  <2> QED BY <2>1, <2>2
<1> QED BY <1>2, <1>5 DEF SectionsExclude

\* Whoever gives a section up is in it once less, and perhaps no more.
LEMMA GivenUp ==
    ASSUME ContainersTypeOK, SectionsExclude, NEW t \in Threads, NEW o \in Containers,
           IsIn(t, o), cs' = [cs EXCEPT ![o] = Released(@)],
           Depth(t, o)' = Depth(t, o) - 1,
           \A u \in Threads, p \in Containers :
              u # t \/ p # o => (IsIn(u, p)' <=> IsIn(u, p)) /\ Depth(u, p)' = Depth(u, p)
    PROVE  SectionsExclude' /\ cs' \in [Containers -> [owner : Threads \cup {NoThread}, depth : Nat]]
<1>1. /\ cs \in [Containers -> [owner : Threads \cup {NoThread}, depth : Nat]]
      /\ cs[o].owner = t /\ t # NoThread /\ cs[o].depth = Depth(t, o)
  BY NoThreadAssumption DEF ContainersTypeOK, SectionsExclude
<1>2. Depth(t, o) \in {1, 2} /\ (IsIn(t, o)' <=> Depth(t, o)' > 0)
  <2>1. Depth(t, o) \in {1, 2}
    BY DepthCounts
  <2>2. IsIn(t, o)' <=> Depth(t, o)' > 0
    BY DEF Depth, IsIn
  <2> QED BY <2>1, <2>2
<1>3. /\ cs'[o] = Released(cs[o])
      /\ \A p \in Containers \ {o} : cs'[p] = cs[p]
      /\ DOMAIN cs' = Containers /\ cs' = [p \in Containers |-> cs'[p]]
  BY <1>1
<1>4. CASE Depth(t, o) = 1
  <2>1. cs'[o] = Free
    BY <1>1, <1>3, <1>4 DEF Released
  <2>2. \A u \in Threads : ~ IsIn(u, o)'
    BY <1>1, <1>2, <1>4 DEF SectionsExclude
  <2>3. ASSUME NEW p \in Containers
        PROVE  /\ \A u \in Threads : IsIn(u, p)' => cs'[p].owner = u
               /\ \A u \in Threads : cs'[p].owner = u => IsIn(u, p)' /\ cs'[p].depth = Depth(u, p)'
               /\ cs'[p].owner = NoThread => cs'[p].depth = 0
    <3>1. CASE p = o
      BY <2>1, <2>2, <3>1, NoThreadAssumption DEF Free
    <3>2. CASE p # o
      BY <1>3, <3>2 DEF SectionsExclude
    <3> QED BY <3>1, <3>2
  <2>4. cs' \in [Containers -> [owner : Threads \cup {NoThread}, depth : Nat]]
    BY <1>1, <1>3, <2>1 DEF Free
  <2> QED BY <2>3, <2>4 DEF SectionsExclude
<1>5. CASE Depth(t, o) = 2
  <2>1. cs'[o].owner = t /\ cs'[o].depth = 1 /\ cs'[o] \in [owner : Threads \cup {NoThread}, depth : Nat]
    BY <1>1, <1>3, <1>5 DEF Released
  <2>2. IsIn(t, o)' /\ Depth(t, o)' = 1 /\ \A u \in Threads \ {t} : ~ IsIn(u, o)'
    BY <1>1, <1>2, <1>5 DEF SectionsExclude
  <2>3. ASSUME NEW p \in Containers
        PROVE  /\ \A u \in Threads : IsIn(u, p)' => cs'[p].owner = u
               /\ \A u \in Threads : cs'[p].owner = u => IsIn(u, p)' /\ cs'[p].depth = Depth(u, p)'
               /\ cs'[p].owner = NoThread => cs'[p].depth = 0
    <3>1. CASE p = o
      BY <1>1, <2>1, <2>2, <3>1
    <3>2. CASE p # o
      BY <1>3, <3>2 DEF SectionsExclude
    <3> QED BY <3>1, <3>2
  <2>4. cs' \in [Containers -> [owner : Threads \cup {NoThread}, depth : Nat]]
    BY <1>1, <1>3, <2>1
  <2> QED BY <2>3, <2>4 DEF SectionsExclude
<1> QED BY <1>2, <1>4, <1>5

\* Nobody's section changes while nobody comes or goes.
LEMMA Untouched ==
    ASSUME SectionsExclude, cs' = cs,
           \A u \in Threads, p \in Containers : (IsIn(u, p)' <=> IsIn(u, p)) /\ Depth(u, p)' = Depth(u, p)
    PROVE  SectionsExclude'
BY DEF SectionsExclude
------------------------------------------------------------------------------------
(* The calls in progress *)

\* The more nodes there are to be had, the more calls there are.
LEMMA MoreNodes == ASSUME NEW at, NEW F, NEW G, F \subseteq G, NEW right
                   PROVE  ListCalls(at, F, right) \subseteq ListCalls(at, G, right)
<1> DEFINE Resizes(S) == {Call("resize", END, <<node>>, 1) : node \in S}
           Pushes(S) == {Call(op, END, <<node>>, 0) : op \in {"push_front", "push_back", "assign"}, node \in S}
           Inserts(S) == {Call("insert", at, <<node>>, 0) : node \in S}
           Plain == {Call(op, END, <<>>, 0) : op \in {"read", "clear", "remove", "unique", "sort", "reverse", "swap"}}
                     \cup {Call("resize", END, <<>>, 0)}
           Splices == {Call("splice", at, <<>>, n) : n \in 1 .. Len(right)}
<1>1. Resizes(F) \subseteq Resizes(G) /\ Inserts(F) \subseteq Inserts(G)
  OBVIOUS
<1>2. Pushes(F) \subseteq Pushes(G)
  OBVIOUS
<1>3. /\ ListCalls(at, F, right) = Plain \cup Resizes(F) \cup Pushes(F) \cup Inserts(F) \cup Splices
      /\ ListCalls(at, G, right) = Plain \cup Resizes(G) \cup Pushes(G) \cup Inserts(G) \cup Splices
  BY DEF ListCalls
<1> HIDE DEF Resizes, Pushes, Inserts, Plain, Splices
<1> QED BY <1>1, <1>2, <1>3

\* The same of the calls that copy a list.
LEMMA MoreCopies == ASSUME NEW s, NEW F, NEW G, F \subseteq G
                    PROVE  CopyCalls(s, F) \subseteq CopyCalls(s, G)
<1> SUFFICES ASSUME NEW c \in CopyCalls(s, F) PROVE c \in CopyCalls(s, G)
  OBVIOUS
<1>1. PICK f \in [1 .. Len(s) -> F] :
         /\ IsInjective(f) /\ \A i \in 1 .. Len(s) : ValueOf(f[i]) = ValueOf(s[i])
         /\ c = Call("=", END, f, 0)
  BY DEF CopyCalls
<1>2. f \in [1 .. Len(s) -> G]
  BY <1>1
<1> QED BY <1>1, <1>2 DEF CopyCalls

\* A container's other is another of its kind, whose other it is.
LEMMA Others == ASSUME NEW o \in Containers
                PROVE  /\ Other(o) \in Containers /\ Other(o) # o /\ Other(Other(o)) = o
                       /\ IsList(Other(o)) <=> IsList(o)
BY DEF Containers, Other, IsList, Atomic!Containers, Atomic!Lists, Atomic!Maps, Atomic!Other

\* A method uses its own container and no other but the one on its right, and writes
\* to what it uses.
LEMMA UsesTwo == ASSUME NEW t \in Threads
                 PROVE  /\ Uses(t) \subseteq {on[t], Other(on[t])} /\ Writes(t) \subseteq Uses(t)
                        /\ pc[t] = "inside" => on[t] \in Uses(t)
                        /\ pc[t] = "inside" /\ HasRight(t) => Other(on[t]) \in Uses(t)
                        /\ pc[t] # "inside" => Uses(t) = {}
BY DEF Uses, Writes

\* What t read is still there when it goes on and nothing of it was written.
LEMMA StillThereAfter ==
    ASSUME NEW t \in Threads, StillThere(t), pc'[t] = pc[t], on'[t] = on[t], call'[t] = call[t],
           seen'[t] = seen[t], it'[t] = it[t], mine'[t] = mine[t],
           contents'[on[t]] = contents[on[t]],
           pc[t] = "inside" /\ HasRight(t) => contents'[Other(on[t])] = contents[Other(on[t])]
    PROVE  StillThere(t)'
<1>1. HasRight(t)' <=> HasRight(t)
  BY DEF HasRight, IsList, Atomic!Lists
<1>2. Other(on[t])' = Other(on[t]) /\ IteratorInto(t, on[t])' = IteratorInto(t, on[t]) /\ IsList(on[t])' = IsList(on[t])
  BY DEF Other, Atomic!Other, IteratorInto, IsList, Atomic!Lists
<1>3. CASE pc[t] = "inside" /\ IsList(on[t])
  <2>1. CopyCalls(contents[Other(on[t])], Nodes) # {} /\ call[t] \in CopyCalls(contents[Other(on[t])], Nodes)
        => contents'[Other(on[t])] = contents[Other(on[t])]
    BY <1>3 DEF CopyCalls, Call, HasRight
  <2>2. contents[on[t]]' = contents[on[t]] /\ contents[Other(on[t])]' = contents'[Other(on[t])]
    BY <1>2
  <2> QED BY <1>2, <1>3, <2>1, <2>2 DEF StillThere
<1>4. CASE pc[t] = "inside" /\ ~ IsList(on[t])
  <2>1. contents[on[t]]' = contents[on[t]] /\ contents[Other(on[t])]' = contents'[Other(on[t])]
    BY <1>2
  <2>2. Atomic!MapCalls' = Atomic!MapCalls
    BY DEF Atomic!MapCalls
  <2> QED BY <1>1, <1>2, <1>4, <2>1, <2>2 DEF StillThere
<1>5. CASE pc[t] # "inside"
  BY <1>5 DEF StillThere
<1> QED BY <1>3, <1>4, <1>5

\* A step of t outside of any method that writes to no list or map leaves what the
\* others read.
LEMMA OthersSee ==
    ASSUME SeenIsThere, NEW t \in Threads, pc'[t] # "inside", UNCHANGED <<contents, mine>>,
           \A u \in Threads \ {t} : /\ pc'[u] = pc[u] /\ on'[u] = on[u] /\ call'[u] = call[u]
                                    /\ seen'[u] = seen[u] /\ it'[u] = it[u]
    PROVE  SeenIsThere'
<1>2. ASSUME NEW u \in Threads PROVE StillThere(u)'
  <2>1. CASE u = t
    BY <2>1 DEF StillThere
  <2>2. CASE u # t
    BY <2>2, StillThereAfter DEF SeenIsThere
  <2> QED BY <2>1, <2>2
<1> QED BY <1>2 DEF SeenIsThere

\* At first every section is free and every list and map is empty.
LEMMA Initially == Init => ContainersInv
<1> SUFFICES ASSUME Init PROVE ContainersInv
  OBVIOUS
<1> USE NoThreadAssumption DEF Init
<1>1. ContainersTypeOK
  BY DEF ContainersTypeOK, Free, Atomic!Containers, Containers, Atomic!Lists, Atomic!Maps
<1>2. SectionsExclude
  BY DEF SectionsExclude, IsIn, InMethod, Free, Containers
<1>3. IteratorsNeedLock /\ IteratorsStayValid
  BY DEF IteratorsNeedLock, IteratorsStayValid
<1>4. SeenIsThere
  BY DEF SeenIsThere, StillThere
<1> QED BY <1>1, <1>2, <1>3, <1>4 DEF ContainersInv

\* Turning to a container keeps the invariant of the containers.
LEMMA WantKeeps == ASSUME ContainersInv, NEW t \in Threads, NEW o \in inUse, NEW why \in {"holding", "calling"},
                          Want(t, o, why)
                   PROVE  ContainersInv'
<1>1. /\ pc[t] = "idle" /\ (why = "holding" => o \notin held[t])
      /\ pc' = [pc EXCEPT ![t] = why] /\ on' = [on EXCEPT ![t] = o]
      /\ UNCHANGED <<inUse, cs, contents, mine, held, call, seen, it>>
  BY DEF Want
<1>2. ContainersTypeOK /\ SectionsExclude /\ IteratorsNeedLock /\ IteratorsStayValid /\ SeenIsThere
  BY DEF ContainersInv
<1>3. ContainersTypeOK'
  BY <1>1, <1>2 DEF ContainersTypeOK
<1>4. \A u \in Threads, p \in Containers : (IsIn(u, p)' <=> IsIn(u, p)) /\ Depth(u, p)' = Depth(u, p)
  BY <1>1, <1>2 DEF ContainersTypeOK, IsIn, Depth, InMethod
<1>5. SectionsExclude'
  BY <1>1, <1>2, <1>4, Untouched
<1>6. IteratorsNeedLock' /\ IteratorsStayValid'
  BY <1>1, <1>2 DEF IteratorsNeedLock, IteratorsStayValid
<1>7. SeenIsThere'
  BY <1>1, <1>2, OthersSee DEF ContainersTypeOK
<1> QED BY <1>3, <1>5, <1>6, <1>7 DEF ContainersInv

\* Taking a lock keeps the invariant of the containers.
LEMMA LockKeeps == ASSUME ContainersInv, NEW t \in Threads, Lock(t) PROVE ContainersInv'
<1> DEFINE o == on[t]
<1>1. /\ pc[t] = "holding" /\ CanAcquire(cs[o], t) /\ cs' = [cs EXCEPT ![o] = Acquired(@, t)]
      /\ held' = [held EXCEPT ![t] = @ \cup {o}] /\ pc' = [pc EXCEPT ![t] = "idle"]
      /\ UNCHANGED <<inUse, contents, mine, on, call, seen, it>>
  BY DEF Lock
<1>2. ContainersTypeOK /\ SectionsExclude /\ IteratorsNeedLock /\ IteratorsStayValid /\ SeenIsThere
  BY DEF ContainersInv
<1>3. o \in Containers /\ o \notin held[t]
  BY <1>1, <1>2 DEF ContainersTypeOK
<1>4. /\ IsIn(t, o)' /\ Depth(t, o)' = Depth(t, o) + 1
      /\ \A u \in Threads, p \in Containers :
            u # t \/ p # o => (IsIn(u, p)' <=> IsIn(u, p)) /\ Depth(u, p)' = Depth(u, p)
  BY <1>1, <1>2, <1>3 DEF ContainersTypeOK, IsIn, Depth, InMethod
<1>5. SectionsExclude' /\ cs' \in [Containers -> [owner : Threads \cup {NoThread}, depth : Nat]]
  BY <1>1, <1>2, <1>3, <1>4, Taken
<1>6. ContainersTypeOK'
  BY <1>1, <1>2, <1>3, <1>5 DEF ContainersTypeOK
<1>7. IteratorsNeedLock' /\ IteratorsStayValid'
  BY <1>1, <1>2 DEF IteratorsNeedLock, IteratorsStayValid, ContainersTypeOK
<1>8. SeenIsThere'
  BY <1>1, <1>2, OthersSee DEF ContainersTypeOK
<1> QED BY <1>5, <1>6, <1>7, <1>8 DEF ContainersInv

\* Releasing a lock keeps the invariant of the containers.
LEMMA UnlockKeeps == ASSUME ContainersInv, NEW t \in Threads, NEW o \in inUse, Unlock(t, o)
                     PROVE  ContainersInv'
<1>1. /\ pc[t] = "idle" /\ o \in held[t] /\ cs' = [cs EXCEPT ![o] = Released(@)]
      /\ held' = [held EXCEPT ![t] = @ \ {o}] /\ it' = [it EXCEPT ![t] = IF o = "list" THEN END ELSE @]
      /\ UNCHANGED <<inUse, contents, mine, pc, on, call, seen>>
  BY DEF Unlock
<1>2. ContainersTypeOK /\ SectionsExclude /\ IteratorsNeedLock /\ IteratorsStayValid /\ SeenIsThere
  BY DEF ContainersInv
<1>3. o \in Containers
  BY <1>2 DEF ContainersTypeOK
<1>4. /\ IsIn(t, o) /\ Depth(t, o)' = Depth(t, o) - 1
      /\ \A u \in Threads, p \in Containers :
            u # t \/ p # o => (IsIn(u, p)' <=> IsIn(u, p)) /\ Depth(u, p)' = Depth(u, p)
  BY <1>1, <1>2, <1>3 DEF ContainersTypeOK, IsIn, Depth, InMethod
<1>5. SectionsExclude' /\ cs' \in [Containers -> [owner : Threads \cup {NoThread}, depth : Nat]]
  BY <1>1, <1>2, <1>3, <1>4, GivenUp
<1>6. ContainersTypeOK'
  BY <1>1, <1>2, <1>3, <1>5 DEF ContainersTypeOK
<1>7. IteratorsNeedLock' /\ IteratorsStayValid'
  BY <1>1, <1>2 DEF IteratorsNeedLock, IteratorsStayValid, ContainersTypeOK
<1>8. SeenIsThere'
  BY <1>1, <1>2, OthersSee DEF ContainersTypeOK
<1> QED BY <1>5, <1>6, <1>7, <1>8 DEF ContainersInv

\* Beginning an operation keeps the invariant of the containers.
LEMMA EnterKeeps == ASSUME ContainersInv, NEW t \in Threads, Enter(t) PROVE ContainersInv'
<1> DEFINE o == on[t]
<1>1. /\ pc[t] = "calling" /\ CanAcquire(cs[o], t) /\ cs' = [cs EXCEPT ![o] = Acquired(@, t)]
      /\ seen' = [seen EXCEPT ![t] = IF IsList(o) THEN contents[o]
                                     ELSE <<contents[o], contents[Other(o)]>>]
      /\ pc' = [pc EXCEPT ![t] = "inside"]
      /\ UNCHANGED <<inUse, contents, mine, held, on, it>>
  BY DEF Enter
<1>2. PICK c \in Calls(t) : call' = [call EXCEPT ![t] = c]
  BY DEF Enter
<1>3. ContainersTypeOK /\ SectionsExclude /\ IteratorsNeedLock /\ IteratorsStayValid /\ SeenIsThere
  BY DEF ContainersInv
<1>4. o \in Containers
  BY <1>3 DEF ContainersTypeOK
<1>5. /\ IsIn(t, o)' /\ Depth(t, o)' = Depth(t, o) + 1
      /\ \A u \in Threads, p \in Containers :
            u # t \/ p # o => (IsIn(u, p)' <=> IsIn(u, p)) /\ Depth(u, p)' = Depth(u, p)
  BY <1>1, <1>3, <1>4 DEF ContainersTypeOK, IsIn, Depth, InMethod
<1>6. SectionsExclude' /\ cs' \in [Containers -> [owner : Threads \cup {NoThread}, depth : Nat]]
  BY <1>1, <1>3, <1>4, <1>5, Taken
<1>7. ContainersTypeOK'
  BY <1>1, <1>2, <1>3, <1>4, <1>6 DEF ContainersTypeOK
<1>8. IteratorsNeedLock' /\ IteratorsStayValid'
  BY <1>1, <1>3 DEF IteratorsNeedLock, IteratorsStayValid, ContainersTypeOK
<1>9. ASSUME NEW u \in Threads PROVE StillThere(u)'
  <2>1. CASE u = t
    <3>1. /\ pc'[t] = "inside" /\ call'[t] = c /\ contents' = contents
          /\ on' = on /\ it' = it /\ mine' = mine
          /\ seen'[t] = IF IsList(o) THEN contents[o] ELSE <<contents[o], contents[Other(o)]>>
      BY <1>1, <1>2, <1>3 DEF ContainersTypeOK
    <3>2. CASE IsList(o)
      <4> DEFINE at == IteratorInto(t, o)
      <4>1. /\ ListCalls(at, Fresh, mine[t]) \subseteq ListCalls(at, Nodes, mine[t])
            /\ CopyCalls(contents[Other(o)], Fresh) \subseteq CopyCalls(contents[Other(o)], Nodes)
        BY MoreNodes, MoreCopies DEF Fresh
      <4>2. c \in ListCalls(at, Nodes, mine[t]) \cup CarefulCalls(contents[o], at, mine[t])
                  \cup CopyCalls(contents[Other(o)], Nodes)
        BY <1>2, <3>2, <4>1 DEF Calls
      <4>3. IsList(on[t])' /\ IteratorInto(t, on[t])' = at /\ contents[on[t]]' = contents[o]
            /\ contents[Other(on[t])]' = contents[Other(o)]
        BY <3>1, <3>2 DEF IsList, Atomic!Lists, IteratorInto, Other, Atomic!Other
      <4> QED BY <2>1, <3>1, <3>2, <4>2, <4>3 DEF StillThere
    <3>3. CASE ~ IsList(o)
      <4>1. c \in Atomic!MapCalls /\ Atomic!MapCalls' = Atomic!MapCalls
        BY <1>2, <3>3 DEF Calls, Atomic!MapCalls
      <4>2. ~ IsList(on[t])' /\ contents[on[t]]' = contents[o] /\ contents[Other(on[t])]' = contents[Other(o)]
        BY <3>1, <3>3 DEF IsList, Atomic!Lists, Other, Atomic!Other
      <4> QED BY <2>1, <3>1, <3>3, <4>1, <4>2 DEF StillThere
    <3> QED BY <3>2, <3>3
  <2>2. CASE u # t
    <3>1. StillThere(u)
      BY <1>3 DEF SeenIsThere
    <3>2. pc'[u] = pc[u] /\ call'[u] = call[u] /\ seen'[u] = seen[u]
      BY <1>1, <1>2, <1>3, <2>2 DEF ContainersTypeOK
    <3> QED BY <1>1, <3>1, <3>2, StillThereAfter
  <2> QED BY <2>1, <2>2
<1> QED BY <1>6, <1>7, <1>8, <1>9 DEF ContainersInv, SeenIsThere

\* Ending an operation keeps the invariant of the containers.
LEMMA LeaveKeeps == ASSUME ContainersInv, NEW t \in Threads, Leave(t) PROVE ContainersInv'
<1> DEFINE o == on[t]
<1>1. /\ pc[t] = "written" /\ cs' = [cs EXCEPT ![o] = Released(@)]
      /\ pc' = [pc EXCEPT ![t] = "idle"]
      /\ UNCHANGED <<inUse, contents, mine, held, on, call, seen, it>>
  BY DEF Leave
<1>2. ContainersTypeOK /\ SectionsExclude /\ IteratorsNeedLock /\ IteratorsStayValid /\ SeenIsThere
  BY DEF ContainersInv
<1>3. o \in Containers
  BY <1>2 DEF ContainersTypeOK
<1>4. /\ IsIn(t, o) /\ Depth(t, o)' = Depth(t, o) - 1
      /\ \A u \in Threads, p \in Containers :
            u # t \/ p # o => (IsIn(u, p)' <=> IsIn(u, p)) /\ Depth(u, p)' = Depth(u, p)
  BY <1>1, <1>2, <1>3 DEF ContainersTypeOK, IsIn, Depth, InMethod
<1>5. SectionsExclude' /\ cs' \in [Containers -> [owner : Threads \cup {NoThread}, depth : Nat]]
  BY <1>1, <1>2, <1>3, <1>4, GivenUp
<1>6. ContainersTypeOK'
  BY <1>1, <1>2, <1>3, <1>5 DEF ContainersTypeOK
<1>7. IteratorsNeedLock' /\ IteratorsStayValid'
  BY <1>1, <1>2 DEF IteratorsNeedLock, IteratorsStayValid, ContainersTypeOK
<1>8. SeenIsThere'
  BY <1>1, <1>2, OthersSee DEF ContainersTypeOK
<1> QED BY <1>5, <1>6, <1>7, <1>8 DEF ContainersInv

\* Taking an iterator keeps the invariant of the containers.
LEMMA TakeIteratorKeeps == ASSUME ContainersInv, NEW t \in Threads, TakeIterator(t) PROVE ContainersInv'
<1>1. /\ pc[t] = "idle" /\ "list" \in held[t]
      /\ UNCHANGED <<inUse, cs, contents, mine, held, pc, on, call, seen>>
  BY DEF TakeIterator
<1>2. PICK n \in ToSet(contents["list"]) : it' = [it EXCEPT ![t] = n]
  BY DEF TakeIterator
<1>3. ContainersTypeOK /\ SectionsExclude /\ IteratorsNeedLock /\ IteratorsStayValid /\ SeenIsThere
  BY DEF ContainersInv
<1>4. ContainersTypeOK'
  BY <1>1, <1>2, <1>3 DEF ContainersTypeOK
<1>5. \A u \in Threads, p \in Containers : (IsIn(u, p)' <=> IsIn(u, p)) /\ Depth(u, p)' = Depth(u, p)
  BY <1>1 DEF IsIn, Depth, InMethod
<1>6. SectionsExclude'
  BY <1>1, <1>3, <1>5, Untouched
<1>7. IteratorsNeedLock' /\ IteratorsStayValid'
  BY <1>1, <1>2, <1>3 DEF IteratorsNeedLock, IteratorsStayValid, ContainersTypeOK
<1>8. SeenIsThere'
  BY <1>1, <1>2, <1>3, OthersSee DEF ContainersTypeOK
<1> QED BY <1>4, <1>6, <1>7, <1>8 DEF ContainersInv

\* Dropping a thread's own list keeps the invariant of the containers.
LEMMA DropMineKeeps == ASSUME ContainersInv, NEW t \in Threads, DropMine(t) PROVE ContainersInv'
<1>1. /\ pc[t] = "idle" /\ mine' = [mine EXCEPT ![t] = <<>>]
      /\ UNCHANGED <<inUse, cs, contents, held, pc, on, call, seen, it>>
  BY DEF DropMine
<1>2. ContainersTypeOK /\ SectionsExclude /\ IteratorsNeedLock /\ IteratorsStayValid /\ SeenIsThere
  BY DEF ContainersInv
<1>3. ContainersTypeOK'
  BY <1>1, <1>2 DEF ContainersTypeOK
<1>4. \A u \in Threads, p \in Containers : (IsIn(u, p)' <=> IsIn(u, p)) /\ Depth(u, p)' = Depth(u, p)
  BY <1>1 DEF IsIn, Depth, InMethod
<1>5. SectionsExclude'
  BY <1>1, <1>2, <1>4, Untouched
<1>6. IteratorsNeedLock' /\ IteratorsStayValid'
  BY <1>1, <1>2 DEF IteratorsNeedLock, IteratorsStayValid
<1>8. ASSUME NEW u \in Threads PROVE StillThere(u)'
  <2>1. CASE u = t
    BY <1>1, <2>1 DEF StillThere
  <2>2. CASE u # t
    <3>1. StillThere(u) /\ mine'[u] = mine[u]
      BY <1>1, <1>2, <2>2 DEF SeenIsThere, ContainersTypeOK
    <3> QED BY <1>1, <3>1, StillThereAfter
  <2> QED BY <2>1, <2>2
<1> QED BY <1>3, <1>5, <1>6, <1>8 DEF ContainersInv, SeenIsThere
------------------------------------------------------------------------------------
(* The writes *)

\* A method changes nothing but what it writes to.
LEMMA WritesOnly == ASSUME ContainersInv, NEW t \in Threads, Write(t), NEW o \in Containers, o \notin Writes(t)
                    PROVE  contents'[o] = contents[o]
<1>1. pc[t] = "inside" /\ ContainersTypeOK /\ StillThere(t) /\ on[t] \in Containers
  BY DEF Write, ContainersInv, SeenIsThere, ContainersTypeOK
<1>2. /\ Uses(t) = {on[t]} \cup (IF HasRight(t) THEN {Other(on[t])} ELSE {})
      /\ Other(on[t]) # on[t] /\ Other(on[t]) \in Containers
  BY <1>1, Others DEF Uses
<1>3. CASE IsList(on[t])
  <2> DEFINE after == AfterListCall(call[t], seen[t], mine[t])
  <2>1. contents' = [contents EXCEPT ![on[t]] = after[1]]
    BY <1>3 DEF Write
  <2>2. CASE o = on[t]
    <3>1. call[t].op \in {"read", "=="}
      BY <1>2, <1>3, <2>2 DEF Writes
    <3>2. call[t].op = "read"
      BY <1>1, <1>3, <3>1 DEF StillThere, ListCalls, CarefulCalls, CopyCalls, Call
    <3>3. after[1] = seen[t]
      BY <3>2 DEF AfterListCall
    <3> QED BY <1>1, <1>3, <2>1, <2>2, <3>3 DEF StillThere, ContainersTypeOK
  <2>3. CASE o # on[t]
    BY <1>1, <2>1, <2>3 DEF ContainersTypeOK
  <2> QED BY <2>2, <2>3
<1>4. CASE ~ IsList(on[t])
  <2> DEFINE after == AfterMapCall(call[t], seen[t][1], seen[t][2])
             right == IF call[t].op = "swap" THEN after[2] ELSE contents[Other(on[t])]
  <2>1. contents' = [contents EXCEPT ![on[t]] = after[1], ![Other(on[t])] = right]
    BY <1>4 DEF Write
  <2>2. CASE o = on[t]
    <3>1. call[t].op \in {"read", "=="}
      BY <1>2, <1>4, <2>2 DEF Writes
    <3>2. after[1] = seen[t][1]
      BY <3>1 DEF AfterMapCall
    <3> QED BY <1>1, <1>2, <1>4, <2>1, <2>2, <3>2 DEF StillThere, ContainersTypeOK
  <2>3. CASE o = Other(on[t])
    <3>1. call[t].op # "swap"
      <4>1. call[t].op = "swap" => Writes(t) = Uses(t) /\ HasRight(t)
        BY <1>4 DEF Writes, HasRight
      <4> QED BY <1>2, <2>3, <4>1
    <3> QED BY <1>1, <1>2, <2>1, <2>3, <3>1 DEF ContainersTypeOK
  <2>4. CASE o # on[t] /\ o # Other(on[t])
    BY <1>1, <2>1, <2>4 DEF ContainersTypeOK
  <2> QED BY <2>2, <2>3, <2>4
<1> QED BY <1>3, <1>4

\* Two threads inside methods are in methods of different containers; where both use
\* a container, it is on the right hand of one of them.
LEMMA OnRight == ASSUME ContainersInv, NEW t \in Threads, NEW u \in Threads \ {t}, NEW o \in Uses(t) \cap Uses(u)
                 PROVE  /\ pc[t] = "inside" /\ pc[u] = "inside" /\ on[u] = Other(on[t]) /\ on[t] = Other(on[u])
                        /\ o \in {on[t], on[u]}
<1>1. pc[t] = "inside" /\ pc[u] = "inside"
  BY UsesTwo
<1>2. on[t] \in Containers /\ on[u] \in Containers /\ SectionsExclude
  BY DEF ContainersInv, ContainersTypeOK
<1>3. on[t] # on[u]
  BY <1>1, <1>2, Excludes DEF IsIn, InMethod
<1>4. o \in {on[t], Other(on[t])} /\ o \in {on[u], Other(on[u])}
  BY UsesTwo
<1> QED BY <1>1, <1>2, <1>3, <1>4, Others

\* What a method of t writes to nobody else is using: its own container's section is
\* t's, and at the right hand it would be a race.
LEMMA WriteKeeps == ASSUME ContainersInv, ~ Racing, NEW t \in Threads, Write(t) PROVE ContainersInv'
<1> DEFINE o == on[t]
<1>1. /\ pc[t] = "inside" /\ pc' = [pc EXCEPT ![t] = "written"]
      /\ call' = [call EXCEPT ![t] = NoCall] /\ seen' = [seen EXCEPT ![t] = <<>>]
      /\ UNCHANGED <<inUse, cs, held, on>>
  BY DEF Write
<1>2. ContainersTypeOK /\ SectionsExclude /\ IteratorsNeedLock /\ IteratorsStayValid /\ SeenIsThere
  BY DEF ContainersInv
<1>3. o \in Containers /\ IsIn(t, o)
  BY <1>1, <1>2 DEF ContainersTypeOK, IsIn, InMethod
<1>4. \A u \in Threads, p \in Containers : (IsIn(u, p)' <=> IsIn(u, p)) /\ Depth(u, p)' = Depth(u, p)
  BY <1>1, <1>2 DEF ContainersTypeOK, IsIn, Depth, InMethod
<1>5. SectionsExclude'
  BY <1>1, <1>2, <1>4, Untouched
<1>6. ASSUME NEW u \in Threads \ {t}
      PROVE  mine'[u] = mine[u] /\ it'[u] = it[u]
  BY <1>2 DEF Write, ContainersTypeOK
<1>7. DOMAIN contents' = Containers /\ DOMAIN mine' = Threads /\ DOMAIN it' = Threads
  BY <1>2 DEF Write, ContainersTypeOK
<1>8. ContainersTypeOK'
  BY <1>1, <1>2, <1>7 DEF ContainersTypeOK
<1>9. "list" \in Containers
  BY DEF Containers, Atomic!Containers, Atomic!Lists
<1>10. it'[t] # END => it'[t] = it[t] /\ it'[t] \in ToSet(contents'["list"])
  <2>1. CASE o = "list"
    BY <1>2, <2>1 DEF Write, IsList, Atomic!Lists, ContainersTypeOK
  <2>2. CASE o # "list"
    <3>1. it'[t] = it[t]
      BY <1>2, <2>2 DEF Write, ContainersTypeOK
    <3>2. ASSUME it[t] # END PROVE contents'["list"] = contents["list"]
      <4>1. CASE o = "other"
        <5>1. IsList(o) /\ contents' = [contents EXCEPT ![o] = AfterListCall(call[t], seen[t], mine[t])[1]]
          BY <4>1 DEF Write, IsList, Atomic!Lists
        <5> QED BY <1>2, <1>9, <2>2, <5>1 DEF ContainersTypeOK
      <4>2. CASE o # "other"
        <5>1. "list" \notin Uses(t)
          BY <1>3, <2>2, <4>2, UsesTwo
             DEF Other, Containers, Atomic!Containers, Atomic!Other, Atomic!Lists, Atomic!Maps
        <5> QED BY <1>9, <5>1, UsesTwo, WritesOnly
      <4> QED BY <4>1, <4>2
    <3> QED BY <1>2, <3>1, <3>2 DEF IteratorsStayValid
  <2> QED BY <2>1, <2>2
<1>11. ASSUME NEW u \in Threads \ {t}, it[u] # END PROVE contents'["list"] = contents["list"]
  <2>1. "list" \in held[u] /\ o # "list"
    BY <1>2, <1>3, <1>11, Excludes DEF IteratorsNeedLock, IsIn
  <2>2. CASE IsList(o)
    <3>1. contents' = [contents EXCEPT ![o] = AfterListCall(call[t], seen[t], mine[t])[1]]
      BY <2>2 DEF Write
    <3> QED BY <1>2, <1>9, <2>1, <3>1 DEF ContainersTypeOK
  <2>3. CASE ~ IsList(o)
    <3>1. "list" \notin Uses(t)
      BY <1>3, <2>1, <2>3, UsesTwo, Others DEF IsList, Atomic!Lists
    <3> QED BY <1>9, <3>1, UsesTwo, WritesOnly
  <2> QED BY <2>2, <2>3
<1>12. IteratorsNeedLock' /\ IteratorsStayValid'
  <2>1. ASSUME NEW u \in Threads, it'[u] # END
        PROVE  "list" \in held'[u] /\ it'[u] \in ToSet(contents'["list"])
    <3>1. CASE u = t
      BY <1>1, <1>2, <1>10, <2>1, <3>1 DEF IteratorsNeedLock
    <3>2. CASE u # t
      BY <1>1, <1>2, <1>6, <1>11, <2>1, <3>2 DEF IteratorsNeedLock, IteratorsStayValid
    <3> QED BY <3>1, <3>2
  <2> QED BY <2>1 DEF IteratorsNeedLock, IteratorsStayValid
<1>13. ASSUME NEW u \in Threads PROVE StillThere(u)'
  <2>1. CASE u = t \/ pc[u] # "inside"
    BY <1>1, <1>2, <2>1 DEF StillThere, ContainersTypeOK
  <2>2. CASE u # t /\ pc[u] = "inside"
    <3>1. ASSUME NEW p \in Uses(u) PROVE p \notin Writes(t)
      <4>1. SUFFICES ASSUME p \in Writes(t) PROVE FALSE
        OBVIOUS
      <4>2. p \in Uses(t) \cap Uses(u)
        BY <4>1, UsesTwo
      <4>3. on[u] = Other(on[t]) /\ on[t] = Other(on[u]) /\ p \in {on[t], on[u]}
        BY <2>2, <4>2, OnRight
      <4>4. Clash(t, u) \/ Clash(u, t)
        BY <2>2, <4>1, <4>2, <4>3 DEF Clash
      <4> QED BY <4>4 DEF Racing
    <3>2. on[u] \in Containers /\ Other(on[u]) \in Containers
      BY <1>2, Others DEF ContainersTypeOK
    <3>3. contents'[on[u]] = contents[on[u]]
      BY <2>2, <3>1, <3>2, UsesTwo, WritesOnly
    <3>4. HasRight(u) => contents'[Other(on[u])] = contents[Other(on[u])]
      BY <2>2, <3>1, <3>2, UsesTwo, WritesOnly
    <3>5. /\ pc'[u] = pc[u] /\ on'[u] = on[u] /\ call'[u] = call[u] /\ seen'[u] = seen[u]
          /\ it'[u] = it[u] /\ mine'[u] = mine[u] /\ StillThere(u)
      BY <1>1, <1>2, <1>6, <2>2 DEF SeenIsThere, ContainersTypeOK
    <3> QED BY <3>3, <3>4, <3>5, StillThereAfter
  <2> QED BY <2>1, <2>2
<1> QED BY <1>5, <1>8, <1>12, <1>13 DEF ContainersInv, SeenIsThere

\* Every step keeps the invariant.
LEMMA Inductive == ContainersInv /\ [Next]_vars => ContainersInv'
<1> SUFFICES ASSUME ContainersInv, [Next]_vars PROVE ContainersInv'
  OBVIOUS
<1>1. CASE UNCHANGED vars
  <2>1. ContainersTypeOK'
    BY <1>1 DEF vars, ContainersInv, ContainersTypeOK
  <2>2. SectionsExclude'
    BY <1>1 DEF vars, ContainersInv, SectionsExclude, IsIn, Depth, InMethod
  <2>3. IteratorsNeedLock' /\ IteratorsStayValid'
    BY <1>1 DEF vars, ContainersInv, IteratorsNeedLock, IteratorsStayValid
  <2>4. SeenIsThere'
    <3> SUFFICES ASSUME NEW t \in Threads PROVE StillThere(t)'
      BY DEF SeenIsThere
    <3>1. StillThere(t)
      BY DEF ContainersInv, SeenIsThere
    <3>2. /\ pc' = pc /\ on' = on /\ seen' = seen /\ contents' = contents /\ call' = call
          /\ it' = it /\ mine' = mine /\ held' = held
      BY <1>1 DEF vars
    <3> QED BY <3>1, <3>2, StillThereAfter
  <2> QED BY <2>1, <2>2, <2>3, <2>4 DEF ContainersInv
<1>2. CASE Next
  BY <1>1, <1>2, WantKeeps, LockKeeps, UnlockKeeps, EnterKeeps, WriteKeeps, LeaveKeeps, TakeIteratorKeeps,
     DropMineKeeps DEF Next, RaceIsUndefined
<1> QED BY <1>1, <1>2
------------------------------------------------------------------------------------
(* The theorems *)

\* For any threads and nodes: an iterator that is kept while the section is held stays
\* in the list, whatever the other threads and the owner itself call meanwhile.
THEOREM IteratorsValid == Spec => []IteratorsStayValid
<1>1. ContainersInv => IteratorsStayValid
  BY DEF ContainersInv
<1> QED BY <1>1, Initially, Inductive, PTL DEF Spec

\* For any threads: a caller that holds the section of its right hand is in no race,
\* the protection that safe_map.hpp asks of external locking.
THEOREM RightProtected == Spec => []RightHandProtected
<1>1. ContainersInv => RightHandProtected
  <2> SUFFICES ASSUME ContainersInv, NEW t \in Threads, NEW u \in Threads,
                      Other(on[t]) \in held[t], Clash(t, u) \/ Clash(u, t)
               PROVE  FALSE
    BY DEF RightHandProtected
  <2>1. u \in Threads \ {t} /\ Uses(t) \cap Uses(u) # {}
    BY UsesTwo DEF Clash
  <2>2. pc[u] = "inside" /\ on[u] = Other(on[t])
    BY <2>1, OnRight
  <2>3. on[u] \in Containers /\ SectionsExclude
    BY DEF ContainersInv, ContainersTypeOK
  <2> QED BY <2>1, <2>2, <2>3, Excludes DEF IsIn, InMethod
<1> QED BY <1>1, Initially, Inductive, PTL DEF Spec

\* A method writes what the call makes of its containers at that moment.
LEMMA WriteIsCall == ASSUME ContainersInv, NEW t \in Threads, Write(t) PROVE Atomic!Next
<1> DEFINE o == on[t]
           c == call[t]
<1>1. pc[t] = "inside" /\ ContainersTypeOK /\ IteratorsStayValid /\ StillThere(t) /\ o \in Containers
  BY DEF Write, ContainersInv, SeenIsThere, ContainersTypeOK
<1>2. CASE IsList(o)
  <2> DEFINE at == IteratorInto(t, o)
  <2>1. o \in Atomic!Lists /\ Atomic!CallList(t, o, c)
    BY <1>1, <1>2 DEF Write, StillThere, IsList, Atomic!CallList
  <2>2. at \in Atomic!ToSet(contents[o]) \cup {END}
    BY <1>1, <1>2 DEF IteratorInto, IteratorsStayValid, ToSet, Atomic!ToSet
  <2>3. c \in ListCalls(at, Nodes, mine[t]) \cup CarefulCalls(contents[o], at, mine[t])
              \cup CopyCalls(contents[Atomic!Other(o)], Nodes)
    BY <1>1, <1>2 DEF StillThere, Other
  <2> HIDE DEF at
  <2> QED BY <2>1, <2>2, <2>3 DEF Atomic!Next
<1>3. CASE ~ IsList(o)
  <2> DEFINE other == Other(o)
             after == AfterMapCall(c, seen[t][1], seen[t][2])
             right == IF c.op = "swap" THEN after[2] ELSE contents[other]
             goal == AfterMapCall(c, contents[o], contents[other])
  <2>1. /\ contents' = [contents EXCEPT ![o] = after[1], ![other] = right]
        /\ UNCHANGED mine
    BY <1>3 DEF Write
  <2>2. /\ seen[t][1] = contents[o] /\ c \in Atomic!MapCalls
        /\ c.op \in {"=", "==", "swap"} => seen[t][2] = contents[other]
    BY <1>1, <1>3 DEF StillThere, HasRight
  <2>3. c.op \in {"read", "clear", "=", "==", "swap", "erase", "insert"}
    BY <2>2 DEF Atomic!MapCalls
  <2>4. after[1] = goal[1] /\ right = goal[2]
    BY <2>2, <2>3 DEF AfterMapCall
  <2>5. Atomic!CallMap(o, c)
    BY <2>1, <2>4 DEF Atomic!CallMap, Other
  <2>6. o \in Atomic!Maps
    BY <1>1, <1>3 DEF IsList, Containers, Atomic!Containers
  <2> QED BY <2>2, <2>5, <2>6 DEF Atomic!Next
<1> QED BY <1>2, <1>3

\* For any threads, nodes, keys and values: up to the first race at a right hand, every
\* method of the shared lists or maps takes effect at once, at its write, on what its
\* containers hold at that moment.
THEOREM ContainersAtomic == Spec => ImplementsAtomicContainers
<1>1. Init => Atomic!Init
  BY DEF Init, Atomic!Init, Atomic!NoNodes, Containers, IsList
<1>2. ContainersInv /\ [Next]_vars => [Atomic!Next]_<<contents, mine>>
  <2> SUFFICES ASSUME ContainersInv, [Next]_vars PROVE [Atomic!Next]_<<contents, mine>>
    OBVIOUS
  <2>1. CASE UNCHANGED vars
    BY <2>1 DEF vars
  <2>2. ASSUME NEW t \in Threads, NEW o \in inUse, Want(t, o, "holding") \/ Want(t, o, "calling") \/ Unlock(t, o)
        PROVE  UNCHANGED <<contents, mine>>
    BY <2>2 DEF Want, Unlock
  <2>3. ASSUME NEW t \in Threads, Lock(t) \/ Enter(t) \/ Leave(t) \/ TakeIterator(t)
        PROVE  UNCHANGED <<contents, mine>>
    BY <2>3 DEF Lock, Enter, Leave, TakeIterator
  <2>4. ASSUME NEW t \in Threads, DropMine(t) PROVE Atomic!Next
    BY <2>4 DEF DropMine, Atomic!DropMine, Atomic!Next
  <2>5. CASE RaceIsUndefined
    BY <2>5 DEF RaceIsUndefined, vars
  <2> QED BY <2>1, <2>2, <2>3, <2>4, <2>5, WriteIsCall DEF Next
<1> QED BY <1>1, <1>2, Initially, Inductive, PTL DEF Spec, ImplementsAtomicContainers, Atomic!Spec
=====================================================================================
