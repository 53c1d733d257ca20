---------------------------------- MODULE BTree ----------------------------------
(***************************************************************************)
(* The B-tree of btree/btree.hpp and btree/impl_/node.hpp, in the blocks   *)
(* of an mmap_file.  A node is the content of a block; block numbers are   *)
(* its pointers and 0 is the null pointer (block 0 is never a node, the    *)
(* first node is block 1).                                                 *)
(*                                                                         *)
(* Nothing in btree locks, so that an insert is one step.  What can happen *)
(* in the middle of one is that allocate_block throws, or that a block     *)
(* that was not used since the file was opened cannot be mapped;           *)
(* InsertThrows and MappingThrows leave the blocks as they were at that    *)
(* moment.  The search within a node is modelled by its result; NodeSearch *)
(* shows that the code's loop finds it.                                    *)
(***************************************************************************)
EXTENDS Integers, Sequences, FiniteSets, Functions

CONSTANTS
    Keys, Records,
    NoRecord,            \* the null pointer that find returns
    records_per_node,
    MaxBlocks,           \* bound: the blocks of the file
    AllocationMayFail,   \* TRUE: allocate_block may throw
    MappingMayFail       \* TRUE: get_reference may throw in split_node

\* split_node reads entries_[middle_] of a full node, which exists from 3 records
\* per node on.
ASSUME SizeAssumption == records_per_node \in Nat /\ records_per_node >= 3
ASSUME KeyAssumption == Keys \subseteq Int /\ NoRecord \notin Records
ASSUME BlockAssumption ==
    /\ MaxBlocks \in Nat \ {0}
    /\ AllocationMayFail \in BOOLEAN
    /\ MappingMayFail \in BOOLEAN

VARIABLES
    nodes,         \* nodes[b]: the node in block b, for each block in use
    root,          \* root_, the block it points into
    block_count,   \* the blocks of the file, block 0 included
    torn           \* TRUE once split_node was left with a node half split

vars == <<nodes, root, block_count, torn>>

Blocks == 1 .. MaxBlocks
middle_ == records_per_node \div 2 + 1

Node == [parent : Blocks \cup {0}, larger : Blocks \cup {0},
         entries : Seq([smaller : Blocks \cup {0}, key : Keys, record : Records])]

\* The constructor sets no larger node; a block the file was extended by is zero.
EmptyNode == [parent |-> 0, larger |-> 0, entries |-> <<>>]

\* A new file has one block, and the constructor of btree allocates the root.
Init ==
    /\ nodes = [b \in {1} |-> EmptyNode]
    /\ root = 1
    /\ block_count = 2
    /\ torn = FALSE
--------------------------------------------------------------------------------
(* Reading the tree: t is a function from blocks to nodes *)

IsFull(node) == Len(node.entries) = records_per_node
Pointers(node) ==
    {node.entries[i].smaller : i \in DOMAIN node.entries} \cup {node.larger}
Children(node) == Pointers(node) \ {0}

\* find_record_and_node within one node: the entry of the key, if there is one.
EntryOf(node, k) == {i \in DOMAIN node.entries : node.entries[i].key = k}

\* find_position: the first entry with a greater key, or the end.
Position(node, k) ==
    CHOOSE i \in 1 .. Len(node.entries) + 1 :
        /\ \A j \in 1 .. i - 1 : node.entries[j].key < k
        /\ i <= Len(node.entries) => k < node.entries[i].key

ChildFor(node, k) ==
    LET i == Position(node, k)
    IN  IF i > Len(node.entries) THEN node.larger ELSE node.entries[i].smaller

\* The node where the key is, or the node it would be in if it existed.
Location(t, from, k) ==
    LET down[b \in DOMAIN t] ==
            IF EntryOf(t[b], k) # {} \/ ChildFor(t[b], k) = 0
            THEN b ELSE down[ChildFor(t[b], k)]
    IN  down[from]

RecordAt(t, b, k) ==
    IF EntryOf(t[b], k) = {} THEN NoRecord
    ELSE t[b].entries[CHOOSE i \in EntryOf(t[b], k) : TRUE].record

Find(t, from, k) == RecordAt(t, Location(t, from, k), k)

FindRoot(t, from) ==
    LET up[b \in DOMAIN t] == IF t[b].parent = 0 THEN b ELSE up[t[b].parent]
    IN  up[from]
--------------------------------------------------------------------------------
(* Writing the tree *)

\* parent_node(p) on each of the blocks, null pointers left out.
WithParent(t, blocks, p) ==
    [b \in DOMAIN t |-> IF b \in blocks THEN [t[b] EXCEPT !.parent = p] ELSE t[b]]

\* A node in a block that allocate_block returned.
Placed(t, new, node) == [b \in DOMAIN t \cup {new} |-> IF b = new THEN node ELSE t[b]]

InsertAt(s, i, x) == SubSeq(s, 1, i - 1) \o <<x>> \o SubSeq(s, i, Len(s))

\* insert_into_node: when a split supplies a larger node, the pointer to the node
\* that was split moves over to it, for the entry now points to the smaller half.
InsertIntoNode(t, b, entry, larger) ==
    LET redirect(c) == IF larger # 0 /\ c = entry.smaller THEN larger ELSE c
        redirected(e) == [e EXCEPT !.smaller = redirect(@)]
        fixed == [t[b] EXCEPT
            !.larger = redirect(@),
            !.entries = [i \in DOMAIN @ |-> redirected(@[i])]]
        filled == [fixed EXCEPT
            !.entries = InsertAt(@, Position(fixed, entry.key), entry)]
    IN  WithParent([t EXCEPT ![b] = filled], {entry.smaller}, b)

\* split_node: entries above the middle move to the new block, the middle one
\* leaves both halves, and its smaller node becomes the larger node of the left.
Middle(t, b) == t[b].entries[middle_ + 1]

\* Mutants: the left half keeps its larger node; the right half gets none; the
\* moved children keep their parent.
SplitKeepsLarger(t, b, new) ==
    LET right == [t[b] EXCEPT !.entries = SubSeq(@, middle_ + 2, Len(@))]
        left == [t[b] EXCEPT !.entries = SubSeq(@, 1, middle_)]
    IN  WithParent(Placed([t EXCEPT ![b] = left], new, right), Children(right), new)
SplitDropsLarger(t, b, new) ==
    LET right == [t[b] EXCEPT !.entries = SubSeq(@, middle_ + 2, Len(@)), !.larger = 0]
        left == [t[b] EXCEPT !.entries = SubSeq(@, 1, middle_),
                             !.larger = Middle(t, b).smaller]
    IN  WithParent(Placed([t EXCEPT ![b] = left], new, right), Children(right), new)
SplitKeepsParents(t, b, new) ==
    LET right == [t[b] EXCEPT !.entries = SubSeq(@, middle_ + 2, Len(@))]
        left == [t[b] EXCEPT !.entries = SubSeq(@, 1, middle_),
                             !.larger = Middle(t, b).smaller]
    IN  Placed([t EXCEPT ![b] = left], new, right)

SplitNode(t, b, new) ==
    LET right == [t[b] EXCEPT
            !.entries = SubSeq(@, middle_ + 2, Len(@))]
        left == [t[b] EXCEPT
            !.entries = SubSeq(@, 1, middle_),
            !.larger = Middle(t, b).smaller]
    IN  WithParent(Placed([t EXCEPT ![b] = left], new, right), Children(right), new)

\* split, for a node with a parent.
SplitInner(t, b, new) ==
    InsertIntoNode(SplitNode(t, b, new), t[b].parent,
                   [Middle(t, b) EXCEPT !.smaller = b], new)

\* split_root: the new root has one entry, the middle one, between the halves.
SplitRoot(t, b, new) ==
    LET top == [parent |-> 0, larger |-> new,
                entries |-> <<[Middle(t, b) EXCEPT !.smaller = b]>>]
    IN  WithParent(Placed(SplitNode(t, b, new), new + 1, top), {b, new}, new + 1)

Split(t, b, new) ==
    IF t[b].parent = 0 THEN SplitRoot(t, b, new) ELSE SplitInner(t, b, new)

\* The nodes that make_room splits, topmost first: the run of full nodes that
\* ends in b.
FullPath(t, b) ==
    LET path[c \in DOMAIN t] ==
            IF ~ IsFull(t[c]) THEN <<>>
            ELSE IF t[c].parent = 0 THEN <<c>>
            ELSE Append(path[t[c].parent], c)
    IN  path[b]

\* make_room, up to and including the i-th node of the path.  Splitting the root
\* takes two blocks, and it can only be the first of the path.
BlocksFor(t, path, i) ==
    IF i > 0 /\ t[path[1]].parent = 0 THEN i + 1 ELSE i
MakeRoom(t, path, new, i) ==
    LET after[j \in 0 .. i] ==
            IF j = 0 THEN t
            ELSE Split(after[j - 1], path[j], new + BlocksFor(t, path, j - 1))
    IN  after[i]
--------------------------------------------------------------------------------
(* The operations *)

\* node::insert starts at the root of the tree, wherever root_ points.
Top == FindRoot(nodes, root)
Absent(k) == Find(nodes, Top, k) = NoRecord
PathFor(k) == FullPath(nodes, Location(nodes, Top, k))

\* Mutant: btree::insert does not look for the new root.
InsertKeepsRoot(k, r) ==
    LET path == PathFor(k)
        needed == BlocksFor(nodes, path, Len(path))
        roomy == MakeRoom(nodes, path, block_count, Len(path))
        entry == [smaller |-> 0, key |-> k, record |-> r]
    IN  /\ ~ torn
        /\ Absent(k)
        /\ block_count + needed <= MaxBlocks + 1
        /\ nodes' = InsertIntoNode(roomy, Location(roomy, FindRoot(roomy, root), k), entry, 0)
        /\ block_count' = block_count + needed
        /\ UNCHANGED <<root, torn>>

\* insert: make room, find the location again when that split anything, put the
\* record there; btree::insert then looks for the root.  A key that is present is
\* refused ("node already exists") and nothing changes.
Insert(k, r) ==
    LET path == PathFor(k)
        needed == BlocksFor(nodes, path, Len(path))
        roomy == MakeRoom(nodes, path, block_count, Len(path))
        top == FindRoot(roomy, root)
        entry == [smaller |-> 0, key |-> k, record |-> r]
    IN  /\ ~ torn
        /\ Absent(k)
        /\ block_count + needed <= MaxBlocks + 1
        /\ nodes' = InsertIntoNode(roomy, Location(roomy, top, k), entry, 0)
        /\ root' = top
        /\ block_count' = block_count + needed
        /\ UNCHANGED torn

\* Mutant: split_node allocates its block last for every node.
InsertThrowsLate(k) ==
    LET path == PathFor(k)
    IN  /\ AllocationMayFail
        /\ ~ torn
        /\ Absent(k)
        /\ \E i \in 1 .. Len(path) :
             LET used == block_count + BlocksFor(nodes, path, i - 1)
             IN  /\ nodes' = SplitNode(MakeRoom(nodes, path, block_count, i - 1),
                                       path[i], used)
                 /\ block_count' = used + 1
        /\ block_count' <= MaxBlocks + 1
        /\ UNCHANGED <<root, torn>>

\* allocate_block throws for the i-th node of the path.  The file may already be
\* longer (MapViewOfFile failed) or not (CreateFileMapping failed).  split_node
\* allocates before it changes anything, but split_root calls it first and then
\* allocates once more.  The exception skips btree::insert's find_root.
InsertThrows(k) ==
    LET path == PathFor(k)
    IN  /\ AllocationMayFail
        /\ ~ torn
        /\ Absent(k)
        /\ \E i \in 1 .. Len(path), extended \in {0, 1} :
             LET used == block_count + BlocksFor(nodes, path, i - 1)
                 done == MakeRoom(nodes, path, block_count, i - 1)
             IN  \/ /\ nodes' = done
                    /\ block_count' = used + extended
                 \/ /\ nodes[path[i]].parent = 0
                    /\ nodes' = SplitNode(done, path[i], used)
                    /\ block_count' = used + 1 + extended
        /\ block_count' <= MaxBlocks + 1
        /\ UNCHANGED <<root, torn>>

\* get_reference throws for a child of b that is to be linked to another node; the
\* child on the way to the key was mapped by the search.  The new node has the
\* entries before it, or all of them when the child is the larger node (323), or is
\* finished and b has the middle's smaller node as its larger one already (326, 454).
HalfSplits(t, b, new, mapped) ==
    LET e == t[b].entries
        part(n) == [parent |-> t[b].parent, larger |-> 0,
                    entries |-> SubSeq(e, middle_ + 2, n)]
        right == [part(Len(e)) EXCEPT !.larger = t[b].larger]
        half(left, node, linked) ==
            WithParent(Placed([t EXCEPT ![b] = left], new, node), Children(linked), new)
        unmapped(child) == child \notin {0, mapped}
    IN  {half(t[b], part(n - 1), part(n - 1)) :
             n \in {m \in middle_ + 2 .. Len(e) : unmapped(e[m].smaller)}}
        \cup {half(t[b], right, part(Len(e))) :
             child \in {c \in {t[b].larger} : unmapped(c)}}
        \cup {half([t[b] EXCEPT !.larger = child], right, right) :
             child \in {c \in {Middle(t, b).smaller} : unmapped(c)}}

\* A mapping fails while the i-th node of the path is split.  Which blocks a run
\* of the program has mapped is not kept: after Reopen it is none but those on the
\* way from block 1 to the root, which no split links anew.
MappingThrows(k) ==
    LET path == PathFor(k)
    IN  /\ MappingMayFail
        /\ ~ torn
        /\ Absent(k)
        /\ \E i \in 1 .. Len(path) - 1 :
             LET new == block_count + BlocksFor(nodes, path, i - 1)
                 done == MakeRoom(nodes, path, block_count, i - 1)
             IN  /\ nodes' \in HalfSplits(done, path[i], new, path[i + 1])
                 /\ block_count' = new + 1
        /\ block_count' <= MaxBlocks + 1
        /\ torn' = TRUE
        /\ UNCHANGED root

\* The program ends and the btree is constructed again on the same file.
Reopen ==
    /\ ~ torn
    /\ root' = FindRoot(nodes, 1)
    /\ UNCHANGED <<nodes, block_count, torn>>

\* What is done with a tree that has a node half split is not modelled.
Stopped ==
    /\ torn
    /\ UNCHANGED vars

Next ==
    \/ \E k \in Keys, r \in Records : Insert(k, r)
    \/ \E k \in Keys : InsertThrows(k)
    \/ \E k \in Keys : MappingThrows(k)
    \/ Reopen
    \/ Stopped

Spec == Init /\ [][Next]_vars
--------------------------------------------------------------------------------
(* Properties *)

\* Every block in use holds a node with at most records_per_node entries and
\* pointers into the file.
TypeOK ==
    /\ torn \in BOOLEAN
    /\ DOMAIN nodes \subseteq 1 .. block_count - 1
    /\ block_count \in 2 .. MaxBlocks + 1
    /\ root \in DOMAIN nodes
    /\ \A b \in DOMAIN nodes :
         /\ nodes[b] \in Node
         /\ Len(nodes[b].entries) <= records_per_node
         /\ Children(nodes[b]) \subseteq DOMAIN nodes

\* The nodes below b, level by level: Level(b)[d] is what is d edges away.
Level(b) ==
    LET level[d \in 0 .. MaxBlocks] ==
            IF d = 0 THEN {b}
            ELSE UNION {Children(nodes[c]) : c \in level[d - 1]}
    IN  level
Below(b) == UNION Range(Level(b))
KeysIn(b) == {nodes[b].entries[i].key : i \in DOMAIN nodes[b].entries}
KeysBelow(b) == IF b = 0 THEN {} ELSE UNION {KeysIn(c) : c \in Below(b)}

\* Between two keys of a node lie all the keys of the subtree between them, at
\* any depth; btree::validate() compares a key with the keys of the child only.
Ordered ==
    \A b \in Below(Top) :
        LET e == nodes[b].entries IN
        /\ \A i \in DOMAIN e :
             /\ \A k \in KeysBelow(e[i].smaller) : k < e[i].key
             /\ i > 1 => \A k \in KeysBelow(e[i].smaller) \cup {e[i].key} : e[i - 1].key < k
        /\ e # <<>> => \A k \in KeysBelow(nodes[b].larger) : e[Len(e)].key < k

\* Each child points back to the node it hangs from, which is what find_root and
\* the next split rely on ("parent/child invariant violated" in validate()).
ParentLinks ==
    /\ nodes[Top].parent = 0
    /\ \A b \in Below(Top) : \A c \in Children(nodes[b]) : nodes[c].parent = b

\* Nothing is reached twice, and an inner node has all of its children.
Shape ==
    /\ \A b, c \in Below(Top) :
         b # c => Children(nodes[b]) \cap Children(nodes[c]) = {}
    /\ \A b \in Below(Top) :
         Cardinality(Children(nodes[b])) \in {0, Len(nodes[b].entries) + 1}

\* All null pointers are at one depth, so that the depth depth() finds along the
\* smallest nodes is the depth of the tree.
UniformDepth ==
    \A d \in DOMAIN Level(Top) :
        (\E b \in Level(Top)[d] : 0 \in Pointers(nodes[b])) =>
            \A b \in Level(Top)[d] : Pointers(nodes[b]) = {0}

\* The tree that find_root reaches is a search tree that later inserts can work on:
\* ordered, linked both ways, a tree and not a graph, of one depth.  An allocation
\* that throws in the middle of a split may take records from it, never this.  Only
\* a mapping that fails in split_node breaks it; every pointer is still to a node.
WellFormed ==
    /\ TypeOK
    /\ ~ torn => Ordered /\ ParentLinks /\ Shape /\ UniformDepth

\* The tree is the dictionary of the keys inserted so far: find returns what was
\* inserted for the key, and an insert changes what find returns for no other key.
Dict == INSTANCE Dictionary WITH map <- [k \in Keys |-> Find(nodes, root, k)]
ImplementsDictionary == Dict!Spec

\* With failing allocations: insert finds a key where find does not look.  find
\* is to return "the record, if it exists" (node.hpp:339).
FindSeesWhatInsertSees ==
    \A k \in Keys : Find(nodes, root, k) = Find(nodes, Top, k)

\* With failing allocations and mappings: what is stored changes in no insert that
\* throws but one that was splitting a node, and then it is keys of that node's
\* subtree from its middle one on that are gone, never one that is kept and
\* changed.  An allocation that fails takes them from the root only.
Stored(k) == Find(nodes, Top, k)
LossOnlyInSplits ==
    [][\A k \in Keys : Stored(k) # NoRecord /\ Stored(k)' # Stored(k) =>
          /\ Stored(k)' = NoRecord
          /\ \E b \in Below(Top) :
               /\ IsFull(nodes[b])
               /\ k \in KeysBelow(b)
               /\ Middle(nodes, b).key <= k
               /\ b = Top \/ torn']_vars
==================================================================================
