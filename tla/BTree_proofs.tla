------------------------------ MODULE BTree_proofs ------------------------------
(***************************************************************************)
(* The structure of the B-tree, for nodes and trees of any size.           *)
(***************************************************************************)
EXTENDS BTree, NodeSearch, FiniteSetTheorems, SequenceTheorems, WellFoundedInduction, TLAPS

\* A non-empty set of natural numbers has a least member.
LEMMA LeastNumber == ASSUME NEW N \in SUBSET Nat, N # {}
                     PROVE  \E x \in N : \A y \in N : x <= y
<1>1. PICK x \in N : \A y \in N : ~ (<<y, x>> \in OpToRel(<, Nat))
  BY NatLessThanWellFounded, WFMin
<1>2. ASSUME NEW y \in N, y < x PROVE FALSE
  <2>1. <<y, x>> \in OpToRel(<, Nat)
    BY <1>2 DEF OpToRel
  <2> QED BY <1>1, <2>1
<1>3. \A y \in N : x <= y
  BY <1>2
<1> QED BY <1>3

\* One with the least or the greatest rank among those of M.
LEMMA LowestOf == ASSUME NEW M, M # {}, NEW H \in Nat, NEW rank, \A b \in M : rank[b] \in 0 .. H
                  PROVE  /\ \E b \in M : \A c \in M : rank[b] <= rank[c]
                         /\ \E b \in M : \A c \in M : rank[c] <= rank[b]
<1>1. \E b \in M : \A c \in M : rank[b] <= rank[c]
  <2> DEFINE N == {rank[b] : b \in M}
  <2>1. N \in SUBSET Nat /\ N # {}
    OBVIOUS
  <2>2. PICK x \in N : \A y \in N : x <= y
    BY <2>1, LeastNumber
  <2> QED BY <2>2
<1>2. \E b \in M : \A c \in M : rank[c] <= rank[b]
  <2> DEFINE N == {H - rank[b] : b \in M}
  <2>1. N \in SUBSET Nat /\ N # {}
    <3>1. \A b \in M : H - rank[b] \in Nat
      OBVIOUS
    <3> QED BY <3>1, Zenon
  <2>2. PICK x \in N : \A y \in N : x <= y
    BY <2>1, LeastNumber
  <2>3. PICK b \in M : x = H - rank[b]
    BY <2>2
  <2>4. ASSUME NEW c \in M PROVE rank[c] <= rank[b]
    <3>1. H - rank[b] <= H - rank[c]
      BY <2>2, <2>3
    <3> QED BY <3>1
  <2> QED BY <2>4
<1> QED BY <1>1, <1>2

\* A function whose value at b comes from that at next[b], of lower rank, or is base[b].
Solves(f, D, stop, base, next, combine) ==
    f = [b \in D |-> IF b \in stop THEN base[b] ELSE combine[<<b, f[next[b]]>>]]

\* There is such a function, and there is only one.
LEMMA SolutionExists ==
    ASSUME NEW D, NEW Val, NEW H \in Nat, NEW rank \in [D -> 0 .. H], NEW stop,
           NEW base \in [D -> Val], NEW next, NEW combine \in [D \X Val -> Val],
           \A b \in D \ stop : next[b] \in D /\ rank[next[b]] < rank[b]
    PROVE  \E f \in [D -> Val] : Solves(f, D, stop, base, next, combine)
<1> DEFINE After(f) == [b \in D |-> IF b \in stop THEN base[b] ELSE combine[<<b, f[next[b]]>>]]
           Right(f, r) == \A b \in D : rank[b] < r => f[b] = After(f)[b]
           bad == {r \in 0 .. H + 1 : ~ \E f \in [D -> Val] : Right(f, r)}
<1>1. ASSUME NEW f \in [D -> Val] PROVE After(f) \in [D -> Val]
  <2> SUFFICES ASSUME NEW b \in D
      PROVE  (IF b \in stop THEN base[b] ELSE combine[<<b, f[next[b]]>>]) \in Val
    BY Zenon
  <2>1. CASE b \in stop
    BY <2>1
  <2>2. CASE b \notin stop
    <3>1. f[next[b]] \in Val
      BY <2>2
    <3>2. <<b, f[next[b]]>> \in D \X Val
      BY <3>1
    <3> QED BY <2>2, <3>2
  <2> QED BY <2>1, <2>2
<1>2. \E f \in [D -> Val] : Right(f, 0)
  <2>1. Right(base, 0)
    OBVIOUS
  <2> QED BY <2>1
<1>3. ASSUME NEW r \in Nat, NEW f \in [D -> Val], Right(f, r)
      PROVE  Right(After(f), r + 1)
  <2> SUFFICES ASSUME NEW b \in D, rank[b] < r + 1 PROVE After(f)[b] = After(After(f))[b]
    OBVIOUS
  <2>1. CASE b \in stop
    BY <2>1, Zenon
  <2>2. CASE b \notin stop
    <3>1. next[b] \in D /\ rank[next[b]] < r
      <4>1. next[b] \in D /\ rank[next[b]] < rank[b]
        BY <2>2
      <4>2. rank[next[b]] \in 0 .. H /\ rank[b] \in 0 .. H
        BY <4>1
      <4> HIDE DEF After
      <4> QED BY <4>1, <4>2
    <3>2. f[next[b]] = After(f)[next[b]]
      BY <1>3, <3>1, Zenon
    <3>3. After(f)[b] = combine[<<b, f[next[b]]>>]
      BY <2>2, Zenon
    <3>4. After(After(f))[b] = combine[<<b, After(f)[next[b]]>>]
      BY <2>2, Zenon
    <3> QED BY <3>2, <3>3, <3>4, Zenon
  <2> QED BY <2>1, <2>2
<1> HIDE DEF After, Right
<1>4. bad = {}
  <2> SUFFICES ASSUME bad # {} PROVE FALSE
    OBVIOUS
  <2>1. bad \in SUBSET Nat
    OBVIOUS
  <2>2. PICK r \in bad : \A x \in bad : r <= x
    BY <2>1, LeastNumber
  <2>3. r # 0
    BY <1>2, <2>2
  <2>4. r - 1 \in 0 .. H + 1 /\ r - 1 \in Nat /\ r - 1 \notin bad /\ (r - 1) + 1 = r
    BY <2>2, <2>3
  <2>5. PICK f \in [D -> Val] : Right(f, r - 1)
    BY <2>4
  <2>6. Right(After(f), r) /\ After(f) \in [D -> Val]
    BY <1>1, <1>3, <2>4, <2>5
  <2> QED BY <2>2, <2>6
<1>5. PICK f \in [D -> Val] : Right(f, H + 1)
  <2>1. \A r \in 0 .. H + 1 : \E f \in [D -> Val] : Right(f, r)
    BY <1>4, Zenon
  <2>2. H + 1 \in 0 .. H + 1
    OBVIOUS
  <2> QED BY <2>1, <2>2, Zenon
<1>6. \A b \in D : rank[b] < H + 1
  OBVIOUS
<1>7. \A b \in D : f[b] = After(f)[b]
  BY <1>5, <1>6, Zenon DEF Right
<1>8. f = [b \in D |-> f[b]]
  OBVIOUS
<1>9. Solves(f, D, stop, base, next, combine)
  BY <1>7, <1>8, Zenon DEF Solves, After
<1> QED BY <1>9

\* A descent that a rank bounds has one solution only.
LEMMA SolutionUnique ==
    ASSUME NEW D, NEW H \in Nat, NEW rank \in [D -> 0 .. H], NEW stop,
           NEW base, NEW next, NEW combine,
           \A b \in D \ stop : next[b] \in D /\ rank[next[b]] < rank[b],
           NEW f, Solves(f, D, stop, base, next, combine),
           NEW g, Solves(g, D, stop, base, next, combine)
    PROVE  f = g
<1>1. /\ f = [b \in D |-> f[b]] /\ g = [b \in D |-> g[b]]
      /\ \A b \in D : f[b] = IF b \in stop THEN base[b] ELSE combine[<<b, f[next[b]]>>]
      /\ \A b \in D : g[b] = IF b \in stop THEN base[b] ELSE combine[<<b, g[next[b]]>>]
  <2>1. \A b \in D : f[b] = IF b \in stop THEN base[b] ELSE combine[<<b, f[next[b]]>>]
    BY Zenon DEF Solves
  <2>2. \A b \in D : g[b] = IF b \in stop THEN base[b] ELSE combine[<<b, g[next[b]]>>]
    BY Zenon DEF Solves
  <2> QED BY <2>1, <2>2, Zenon DEF Solves
<1> DEFINE bad == {b \in D : f[b] # g[b]}
<1>2. bad = {}
  <2> SUFFICES ASSUME bad # {} PROVE FALSE
    OBVIOUS
  <2>1. \A b \in bad : rank[b] \in 0 .. H
    OBVIOUS
  <2>2. PICK b \in bad : \A c \in bad : rank[b] <= rank[c]
    BY <2>1, LowestOf
  <2>3. b \notin stop
    BY <1>1, <2>2
  <2>4. next[b] \in D /\ rank[next[b]] < rank[b]
    BY <2>2, <2>3
  <2>5. ~ (rank[b] <= rank[next[b]])
    BY <2>2, <2>4
  <2>6. f[next[b]] = g[next[b]]
    BY <2>2, <2>4, <2>5
  <2>7. f[b] = combine[<<b, f[next[b]]>>] /\ g[b] = combine[<<b, g[next[b]]>>]
    BY <1>1, <2>2, <2>3
  <2>8. b \in D /\ f[b] # g[b]
    BY <2>2
  <2> QED BY <2>6, <2>7, <2>8
<1> QED BY <1>1, <1>2, Zenon
---------------------------------------------------------------------------------
(* What is in a node *)

\* The keys and the pointers of a node, one pointer more than keys.
Size(node) == Len(node.entries)
Key(node, i) == node.entries[i].key
Ptr(node, i) == IF i <= Size(node) THEN node.entries[i].smaller ELSE node.larger
Slots(node) == 1 .. Size(node) + 1

Sorted(node) == \A i, j \in 1 .. Size(node) : i < j => Key(node, i) < Key(node, j)

\* x belongs to the i-th pointer: before the i-th key, behind the one before.
Gap(node, i, x) ==
    /\ i > 1 => Key(node, i - 1) < x
    /\ i <= Size(node) => x < Key(node, i)

\* What a typed node holds: its size, its pointers, and keys and records of the right types.
LEMMA NodeHas ==
    ASSUME NEW node \in Node
    PROVE  /\ Size(node) \in Nat /\ node.parent \in Blocks \cup {0}
           /\ node.larger \in Blocks \cup {0}
           /\ \A i \in 1 .. Size(node) :
                 /\ node.entries[i] \in [smaller : Blocks \cup {0}, key : Keys, record : Records]
                 /\ Key(node, i) \in Keys /\ Key(node, i) \in Int
           /\ \A i \in Slots(node) : Ptr(node, i) \in Blocks \cup {0}
           /\ DOMAIN node.entries = 1 .. Size(node)
           /\ node = [parent |-> node.parent, larger |-> node.larger, entries |-> node.entries]
<1>1. /\ node.entries \in Seq([smaller : Blocks \cup {0}, key : Keys, record : Records])
      /\ node.parent \in Blocks \cup {0} /\ node.larger \in Blocks \cup {0}
      /\ node = [parent |-> node.parent, larger |-> node.larger, entries |-> node.entries]
  BY DEF Node
<1>2. Size(node) \in Nat /\ DOMAIN node.entries = 1 .. Size(node)
  BY <1>1 DEF Size
<1>3. \A i \in 1 .. Size(node) :
         node.entries[i] \in [smaller : Blocks \cup {0}, key : Keys, record : Records]
  <2> DEFINE E == [smaller : Blocks \cup {0}, key : Keys, record : Records]
  <2>1. node.entries \in Seq(E)
    BY <1>1
  <2> HIDE DEF E
  <2>2. \A i \in 1 .. Len(node.entries) : node.entries[i] \in E
    BY <2>1, ElementOfSeq
  <2> QED BY <2>2 DEF E, Size
<1>4. \A i \in 1 .. Size(node) : Key(node, i) \in Keys /\ Key(node, i) \in Int
  BY <1>3, KeyAssumption DEF Key
<1>5. \A i \in Slots(node) : Ptr(node, i) \in Blocks \cup {0}
  BY <1>1, <1>2, <1>3 DEF Ptr, Slots
<1> QED BY <1>1, <1>2, <1>3, <1>4, <1>5

\* The pointers as a set; null is one of them in a leaf.
LEMMA PointersAre ==
    ASSUME NEW node \in Node
    PROVE  Pointers(node) = {Ptr(node, i) : i \in Slots(node)}
<1>1. Size(node) \in Nat /\ DOMAIN node.entries = 1 .. Size(node)
  BY NodeHas
<1>2. ASSUME NEW i \in Slots(node) PROVE Ptr(node, i) \in Pointers(node)
  <2>1. i <= Size(node) => i \in DOMAIN node.entries
    BY <1>1 DEF Slots
  <2> QED BY <2>1, Zenon DEF Ptr, Pointers
<1>3. ASSUME NEW c \in Pointers(node) PROVE \E i \in Slots(node) : c = Ptr(node, i)
  <2>1. ASSUME NEW i \in DOMAIN node.entries
        PROVE  i \in Slots(node) /\ Ptr(node, i) = node.entries[i].smaller
    BY <1>1 DEF Slots, Ptr
  <2>2. Size(node) + 1 \in Slots(node) /\ Ptr(node, Size(node) + 1) = node.larger
    BY <1>1 DEF Slots, Ptr
  <2> QED BY <2>1, <2>2, Zenon DEF Pointers
<1> QED BY <1>2, <1>3, Zenon

\* find_position finds the one gap for a key that the node does not have.
LEMMA PositionIs ==
    ASSUME NEW node \in Node, Sorted(node), NEW k \in Int,
           \A i \in 1 .. Size(node) : Key(node, i) # k
    PROVE  /\ Position(node, k) \in Slots(node) /\ Gap(node, Position(node, k), k)
           /\ \A i \in Slots(node) : Gap(node, i, k) => i = Position(node, k)
           /\ ChildFor(node, k) = Ptr(node, Position(node, k))
<1> DEFINE n == Size(node)
           Fits(i) == /\ \A j \in 1 .. i - 1 : Key(node, j) < k
                      /\ i <= n => k < Key(node, i)
<1>1. n \in Nat /\ \A i \in 1 .. n : Key(node, i) \in Int
  BY NodeHas
<1>2. Position(node, k) = CHOOSE i \in 1 .. n + 1 : Fits(i)
  BY Zenon DEF Position, Size, Key
<1>3. \A i, j \in 1 .. n : i < j => Key(node, i) < Key(node, j)
  BY DEF Sorted
<1>4. \A i \in 1 .. n : Key(node, i) # k
  OBVIOUS
<1>5. \A i : Gap(node, i, k) <=> (i > 1 => Key(node, i - 1) < k) /\ (i <= n => k < Key(node, i))
  BY DEF Gap
<1>6. Slots(node) = 1 .. n + 1
  BY DEF Slots
<1>7. ChildFor(node, k) = IF Position(node, k) > n THEN node.larger
                          ELSE node.entries[Position(node, k)].smaller
  BY Zenon DEF ChildFor, Size
<1>8. \A i : Ptr(node, i) = IF i <= n THEN node.entries[i].smaller ELSE node.larger
  BY DEF Ptr
<1> HIDE DEF n
<1>9. \E i \in 1 .. n + 1 : Fits(i)
  <2> DEFINE N == {i \in 1 .. n + 1 : i <= n => k < Key(node, i)}
  <2>1. N \in SUBSET Nat /\ N # {}
    <3>1. n + 1 \in N
      BY <1>1
    <3> QED BY <3>1
  <2>2. PICK i \in N : \A j \in N : i <= j
    BY <2>1, LeastNumber
  <2>3. ASSUME NEW j \in 1 .. i - 1 PROVE Key(node, j) < k
    <3>1. j \in 1 .. n /\ j \in 1 .. n + 1 /\ ~ (i <= j)
      BY <1>1, <2>2
    <3>2. ~ (k < Key(node, j))
      BY <2>2, <3>1
    <3> QED BY <1>1, <1>4, <3>1, <3>2
  <2> QED BY <2>2, <2>3
<1>10. PICK p \in 1 .. n + 1 : Fits(p) /\ p = Position(node, k)
  BY <1>2, <1>9, Zenon
<1>11. Gap(node, p, k)
  BY <1>1, <1>5, <1>10
<1>12. ASSUME NEW i \in 1 .. n + 1, Gap(node, i, k) PROVE i = p
  <2>1. ~ (i < p)
    <3>1. i < p => i \in 1 .. n /\ i \in 1 .. p - 1
      BY <1>1
    <3> QED BY <1>1, <1>5, <1>10, <1>12, <3>1
  <2>2. ~ (p < i)
    <3>1. p < i => p \in 1 .. n /\ i - 1 \in 1 .. n /\ i > 1 /\ p <= i - 1
      BY <1>1
    <3>2. p < i => Key(node, p) <= Key(node, i - 1)
      BY <1>1, <1>3, <3>1
    <3> QED BY <1>1, <1>5, <1>10, <1>12, <3>1, <3>2
  <2> QED BY <2>1, <2>2
<1>13. ChildFor(node, k) = Ptr(node, p)
  BY <1>1, <1>7, <1>8, <1>10
<1> QED BY <1>6, <1>10, <1>11, <1>12, <1>13

KeysAt(node) == {Key(node, i) : i \in 1 .. Size(node)}

\* EntryOf finds a key exactly when the sorted node holds it, and a key in a gap is not
\* held.
LEMMA KeysAtIs ==
    ASSUME NEW node \in Node, Sorted(node), NEW k \in Int
    PROVE  /\ EntryOf(node, k) = {} <=> k \notin KeysAt(node)
           /\ \A i \in Slots(node) : Gap(node, i, k) => k \notin KeysAt(node)
<1>1. /\ Size(node) \in Nat /\ DOMAIN node.entries = 1 .. Size(node)
      /\ \A j \in 1 .. Size(node) : Key(node, j) \in Int
  BY NodeHas
<1>2. EntryOf(node, k) = {} <=> k \notin KeysAt(node)
  <2>1. EntryOf(node, k) = {i \in 1 .. Size(node) : Key(node, i) = k}
    BY <1>1, Zenon DEF EntryOf, Key
  <2> QED BY <2>1 DEF KeysAt
<1>3. ASSUME NEW i \in Slots(node), Gap(node, i, k), NEW j \in 1 .. Size(node), Key(node, j) = k
      PROVE  FALSE
  <2>1. i > 1 => i - 1 \in 1 .. Size(node)
    BY <1>1 DEF Slots
  <2>2. i <= Size(node) => i \in 1 .. Size(node)
    BY <1>1 DEF Slots
  <2>3. CASE j < i
    <3>1. i > 1 /\ (j = i - 1 \/ j < i - 1)
      BY <2>3 DEF Slots
    <3> QED BY <1>1, <1>3, <2>1, <3>1 DEF Gap, Sorted
  <2>4. CASE i <= j
    <3>1. i <= Size(node) /\ (j = i \/ i < j)
      BY <1>1, <2>4 DEF Slots
    <3> QED BY <1>1, <1>3, <2>2, <3>1 DEF Gap, Sorted
  <2> QED BY <2>3, <2>4 DEF Slots
<1> QED BY <1>2, <1>3 DEF KeysAt
---------------------------------------------------------------------------------
(* What the writing operators leave *)

Entry == [smaller : Blocks \cup {0}, key : Keys, record : Records]
Rec(node, i) == node.entries[i].record

\* A file of nodes.
Typed(t) ==
    /\ t = [b \in DOMAIN t |-> t[b]] /\ DOMAIN t \subseteq Blocks
    /\ \A b \in DOMAIN t : t[b] \in Node

\* Nodes with the same entries and pointers, and perhaps other parents.
Same(node, other) == node.entries = other.entries /\ node.larger = other.larger

\* Nodes that differ in their parent only hold the same keys, pointers and records.
LEMMA SameHas ==
    ASSUME NEW node, NEW other, Same(node, other)
    PROVE  /\ Size(node) = Size(other) /\ Slots(node) = Slots(other)
           /\ \A i : Key(node, i) = Key(other, i) /\ Ptr(node, i) = Ptr(other, i)
                     /\ Rec(node, i) = Rec(other, i)
           /\ Sorted(node) <=> Sorted(other)
           /\ KeysAt(node) = KeysAt(other)
           /\ \A i, x : Gap(node, i, x) <=> Gap(other, i, x)
<1>1. Size(node) = Size(other) /\ Slots(node) = Slots(other)
  BY Zenon DEF Same, Size, Slots
<1>2. \A i : Key(node, i) = Key(other, i) /\ Rec(node, i) = Rec(other, i)
  BY Zenon DEF Same, Key, Rec
<1>3. \A i : Ptr(node, i) = Ptr(other, i)
  BY <1>1, Zenon DEF Same, Ptr
<1>4. Sorted(node) <=> Sorted(other)
  BY <1>1, <1>2 DEF Sorted
<1>5. ASSUME NEW i, NEW x PROVE Gap(node, i, x) <=> Gap(other, i, x)
  BY <1>1, <1>2 DEF Gap
<1>6. KeysAt(node) = KeysAt(other)
  BY <1>1, <1>2, Zenon DEF KeysAt
<1> QED BY <1>1, <1>2, <1>3, <1>4, <1>5, <1>6, Zenon

\* A node with another parent is a node that differs in its parent only.
LEMMA ParentedIs ==
    ASSUME NEW node \in Node, NEW p \in Blocks \cup {0}
    PROVE  /\ [node EXCEPT !.parent = p] \in Node /\ Same([node EXCEPT !.parent = p], node)
           /\ [node EXCEPT !.parent = p].parent = p
BY DEF Node, Same

\* WithParent gives the listed blocks their new parent and changes nothing else.
LEMMA WithParentIs ==
    ASSUME NEW t, Typed(t), NEW blocks, NEW p \in Blocks \cup {0}
    PROVE  /\ Typed(WithParent(t, blocks, p)) /\ DOMAIN WithParent(t, blocks, p) = DOMAIN t
           /\ \A x \in DOMAIN t :
                 /\ Same(WithParent(t, blocks, p)[x], t[x])
                 /\ WithParent(t, blocks, p)[x].parent = IF x \in blocks THEN p ELSE t[x].parent
<1> DEFINE u == WithParent(t, blocks, p)
<1>1. u = [b \in DOMAIN t |-> IF b \in blocks THEN [t[b] EXCEPT !.parent = p] ELSE t[b]]
  BY DEF WithParent
<1>2. DOMAIN t \subseteq Blocks /\ \A b \in DOMAIN t : t[b] \in Node
  BY DEF Typed
<1> HIDE DEF u
<1>3. DOMAIN u = DOMAIN t /\ u = [b \in DOMAIN u |-> u[b]]
  BY <1>1
<1>4. ASSUME NEW x \in DOMAIN t
      PROVE  /\ u[x] \in Node /\ Same(u[x], t[x])
             /\ u[x].parent = IF x \in blocks THEN p ELSE t[x].parent
  <2>1. u[x] = IF x \in blocks THEN [t[x] EXCEPT !.parent = p] ELSE t[x]
    BY <1>1
  <2>2. Same(t[x], t[x])
    BY DEF Same
  <2>3. CASE x \in blocks
    BY <1>2, <2>1, <2>3, ParentedIs
  <2>4. CASE x \notin blocks
    BY <1>2, <2>1, <2>2, <2>4
  <2> QED BY <2>3, <2>4
<1>5. Typed(u)
  BY <1>2, <1>3, <1>4 DEF Typed
<1> QED BY <1>3, <1>4, <1>5 DEF u

\* A node placed in a new block: the other blocks keep theirs.
LEMMA PlacedIs ==
    ASSUME NEW t, Typed(t), NEW new \in Blocks, NEW node \in Node
    PROVE  /\ Typed(Placed(t, new, node)) /\ DOMAIN Placed(t, new, node) = DOMAIN t \cup {new}
           /\ Placed(t, new, node)[new] = node
           /\ \A x \in DOMAIN t \ {new} : Placed(t, new, node)[x] = t[x]
BY DEF Typed, Placed

\* A node put in a block in use: the other blocks keep theirs.
LEMMA PutIs ==
    ASSUME NEW t, Typed(t), NEW b \in DOMAIN t, NEW node \in Node
    PROVE  /\ Typed([t EXCEPT ![b] = node]) /\ DOMAIN [t EXCEPT ![b] = node] = DOMAIN t
           /\ [t EXCEPT ![b] = node][b] = node
           /\ \A x \in DOMAIN t \ {b} : [t EXCEPT ![b] = node][x] = t[x]
BY DEF Typed

\* A slice of the entries of a node, with a larger node of its own.
LEMMA SliceIs ==
    ASSUME NEW s \in Seq(Entry), NEW first \in 1 .. Len(s) + 1, NEW last \in first - 1 .. Len(s)
    PROVE  /\ SubSeq(s, first, last) \in Seq(Entry)
           /\ Len(SubSeq(s, first, last)) = last - first + 1
           /\ \A i \in 1 .. last - first + 1 : SubSeq(s, first, last)[i] = s[i + first - 1]
<1> HIDE DEF Entry
<1>1. first \in Int /\ last \in Int /\ Len(s) \in Nat
  OBVIOUS
<1>2. \A i \in first .. last : s[i] \in Entry
  BY <1>1, ElementOfSeq
<1>3. /\ SubSeq(s, first, last) \in Seq(Entry)
      /\ Len(SubSeq(s, first, last)) = IF first <= last THEN last - first + 1 ELSE 0
      /\ \A i \in 1 .. last - first + 1 : SubSeq(s, first, last)[i] = s[first + i - 1]
  BY <1>1, <1>2, SubSeqProperties
<1>4. \A i \in Int : first + i - 1 = i + first - 1
  BY <1>1
<1>5. ~ (first <= last) => last - first + 1 = 0
  BY <1>1
<1> QED BY <1>3, <1>4, <1>5

\* g is s with x inserted at i.
Inserted(g, s, i, x) ==
    /\ g \in Seq(Entry) /\ Len(g) = Len(s) + 1
    /\ \A j \in 1 .. Len(s) + 1 : g[j] = IF j < i THEN s[j] ELSE IF j = i THEN x ELSE s[j - 1]

\* InsertAt puts the item at place i and moves the later ones up by one.
LEMMA InsertAtIs ==
    ASSUME NEW s \in Seq(Entry), NEW i \in 1 .. Len(s) + 1, NEW x \in Entry
    PROVE  Inserted(InsertAt(s, i, x), s, i, x)
<1> HIDE DEF Entry
<1> DEFINE n == Len(s)
           front == SubSeq(s, 1, i - 1)
           back == SubSeq(s, i, n)
<1>1. n \in Nat /\ i \in Int
  OBVIOUS
<1>2. /\ front \in Seq(Entry) /\ Len(front) = i - 1
      /\ \A j \in 1 .. i - 1 : front[j] = s[j]
  <2>1. 1 \in 1 .. n + 1 /\ i - 1 \in 1 - 1 .. n /\ (i - 1) - 1 + 1 = i - 1
    OBVIOUS
  <2>2. \A j \in Int : j + 1 - 1 = j
    OBVIOUS
  <2> QED BY <2>1, <2>2, SliceIs
<1>3. /\ back \in Seq(Entry) /\ Len(back) = n - i + 1
      /\ \A j \in 1 .. n - i + 1 : back[j] = s[j + i - 1]
  <2>1. n \in i - 1 .. n
    OBVIOUS
  <2> QED BY <2>1, SliceIs
<1>4. InsertAt(s, i, x) = front \o <<x>> \o back
  BY DEF InsertAt
<1> HIDE DEF front, back, n
<1>5. /\ front \o <<x>> \in Seq(Entry) /\ Len(front \o <<x>>) = i
      /\ \A j \in 1 .. i : (front \o <<x>>)[j] = IF j < i THEN front[j] ELSE x
  BY <1>1, <1>2
<1>6. /\ front \o <<x>> \o back \in Seq(Entry) /\ Len(front \o <<x>> \o back) = n + 1
      /\ \A j \in 1 .. n + 1 : (front \o <<x>> \o back)[j]
                               = IF j <= i THEN (front \o <<x>>)[j] ELSE back[j - i]
  BY <1>1, <1>3, <1>5
<1>7. ASSUME NEW j \in 1 .. n + 1
      PROVE  (front \o <<x>> \o back)[j] = IF j < i THEN s[j] ELSE IF j = i THEN x ELSE s[j - 1]
  <2>1. ASSUME j < i PROVE (front \o <<x>> \o back)[j] = s[j]
    BY <1>1, <1>2, <1>5, <1>6, <2>1
  <2>2. ASSUME j = i PROVE (front \o <<x>> \o back)[j] = x
    BY <1>1, <1>5, <1>6, <2>2
  <2>3. ASSUME j > i PROVE (front \o <<x>> \o back)[j] = s[j - 1]
    <3>1. j - i \in 1 .. n - i + 1 /\ (j - i) + i - 1 = j - 1 /\ ~ (j <= i)
      BY <1>1, <2>3
    <3> QED BY <1>1, <1>3, <1>6, <2>3, <3>1
  <2>4. (j < i /\ j # i) \/ j = i \/ (j > i /\ j # i /\ ~ (j < i))
    BY <1>1
  <2>5. CASE j < i /\ j # i
    BY <2>1, <2>5
  <2>6. CASE j > i /\ j # i /\ ~ (j < i)
    <3>1. (front \o <<x>> \o back)[j] = s[j - 1]
      BY <2>3, <2>6
    <3> QED BY <2>6, <3>1, Zenon
  <2>7. CASE j = i
    <3>1. ~ (j < i)
      BY <1>1, <2>7
    <3> QED BY <2>2, <2>7, <3>1, Zenon
  <2> QED BY <2>4, <2>5, <2>6, <2>7
<1>8. Len(s) = n
  BY DEF n
<1> QED BY <1>4, <1>6, <1>7, <1>8 DEF Inserted
---------------------------------------------------------------------------------
(* split_node and insert_into_node *)

\* The entry that goes up lies inside a full node.
LEMMA MiddleIs == middle_ \in 2 .. records_per_node - 1 /\ records_per_node \in Nat
<1>1. records_per_node \in Nat /\ records_per_node >= 3
  BY SizeAssumption
<1>2. \A n \in Nat : n >= 3 => n \div 2 + 1 \in 2 .. n - 1
  OBVIOUS
<1> QED BY <1>1, <1>2, Zenon DEF middle_

\* The children that go with the upper half.
Moved(t, b) == {Ptr(t[b], i) : i \in middle_ + 2 .. records_per_node + 1} \ {0}

\* The two halves of a full node, without its middle entry.
SplitLeaves(t, b, new, u) ==
    /\ Typed(u) /\ DOMAIN u = DOMAIN t \cup {new}
    /\ Size(u[b]) = middle_ /\ Size(u[new]) = records_per_node - middle_ - 1
    /\ \A i \in 1 .. middle_ : Key(u[b], i) = Key(t[b], i)
    /\ \A i \in 1 .. middle_ + 1 : Ptr(u[b], i) = Ptr(t[b], i)
    /\ \A i \in 1 .. records_per_node - middle_ - 1 :
          Key(u[new], i) = Key(t[b], i + middle_ + 1)
    /\ \A i \in 1 .. records_per_node - middle_ :
          Ptr(u[new], i) = Ptr(t[b], i + middle_ + 1)
    /\ \A i \in 1 .. middle_ : Rec(u[b], i) = Rec(t[b], i)
    /\ \A i \in 1 .. records_per_node - middle_ - 1 :
          Rec(u[new], i) = Rec(t[b], i + middle_ + 1)
    /\ \A x \in DOMAIN t \ {b} : Same(u[x], t[x])
    /\ \A x \in DOMAIN u :
          u[x].parent = IF x \in Moved(t, b) THEN new
                        ELSE IF x = new THEN t[b].parent ELSE t[x].parent

\* What split_node leaves in the old block, in the new one and in the moved kids.
LEMMA SplitNodeIs ==
    ASSUME NEW t, Typed(t), NEW b \in DOMAIN t, NEW new \in Blocks \ DOMAIN t,
           Size(t[b]) = records_per_node
    PROVE  SplitLeaves(t, b, new, SplitNode(t, b, new))
<1> DEFINE n == records_per_node
           m == middle_
           s == t[b].entries
           moved == Moved(t, b)
           right == [t[b] EXCEPT !.entries = SubSeq(s, m + 2, n)]
           left == [t[b] EXCEPT !.entries = SubSeq(s, 1, m), !.larger = Middle(t, b).smaller]
           v == [t EXCEPT ![b] = left]
           w == Placed(v, new, right)
           u == WithParent(w, Children(right), new)
<1>1. m \in 2 .. n - 1 /\ n \in Nat
  BY MiddleIs
<1>2. t[b] \in Node /\ b \in Blocks
  BY DEF Typed
<1>3. s \in Seq(Entry) /\ Len(s) = n
  BY <1>2 DEF Node, Entry, Size
<1>4. u = SplitNode(t, b, new)
  BY <1>3, Zenon DEF SplitNode
<1> HIDE DEF m, n, s
<1>5. /\ SubSeq(s, m + 2, n) \in Seq(Entry) /\ Len(SubSeq(s, m + 2, n)) = n - m - 1
      /\ \A i \in 1 .. n - m - 1 : SubSeq(s, m + 2, n)[i] = s[i + m + 1]
  <2>1. /\ m + 2 \in 1 .. Len(s) + 1 /\ n \in (m + 2) - 1 .. Len(s)
        /\ n - (m + 2) + 1 = n - m - 1 /\ \A i \in Int : i + (m + 2) - 1 = i + m + 1
    BY <1>1, <1>3
  <2>2. /\ SubSeq(s, m + 2, n) \in Seq(Entry) /\ Len(SubSeq(s, m + 2, n)) = n - (m + 2) + 1
        /\ \A i \in 1 .. n - (m + 2) + 1 : SubSeq(s, m + 2, n)[i] = s[i + (m + 2) - 1]
    BY <1>3, <2>1, SliceIs
  <2> DEFINE z == SubSeq(s, m + 2, n)
  <2> HIDE DEF z
  <2>3. ASSUME NEW i \in 1 .. n - m - 1 PROVE z[i] = s[i + m + 1]
    <3>1. i \in Int /\ i \in 1 .. n - (m + 2) + 1
      BY <1>1
    <3>2. z[i] = s[i + (m + 2) - 1]
      BY <2>2, <3>1 DEF z
    <3> QED BY <2>1, <3>1, <3>2
  <2> QED BY <1>1, <2>1, <2>2, <2>3 DEF z
<1>6. /\ SubSeq(s, 1, m) \in Seq(Entry) /\ Len(SubSeq(s, 1, m)) = m
      /\ \A i \in 1 .. m : SubSeq(s, 1, m)[i] = s[i]
  <2>1. /\ 1 \in 1 .. Len(s) + 1 /\ m \in 1 - 1 .. Len(s)
        /\ m - 1 + 1 = m /\ \A i \in Int : i + 1 - 1 = i
    BY <1>1, <1>3
  <2>2. /\ SubSeq(s, 1, m) \in Seq(Entry) /\ Len(SubSeq(s, 1, m)) = m - 1 + 1
        /\ \A i \in 1 .. m - 1 + 1 : SubSeq(s, 1, m)[i] = s[i + 1 - 1]
    BY <1>3, <2>1, SliceIs
  <2> QED BY <2>1, <2>2
<1>7. /\ Size(t[b]) = n /\ \A i : Key(t[b], i) = s[i].key
      /\ \A i \in 1 .. n : Ptr(t[b], i) = s[i].smaller
      /\ Ptr(t[b], n + 1) = t[b].larger /\ Middle(t, b).smaller = Ptr(t[b], m + 1)
      /\ \A i \in 1 .. n : s[i] \in Entry
  <2>1. \A i \in 1 .. n : Ptr(t[b], i) = s[i].smaller
    BY <1>1, <1>3 DEF Ptr, Size, s
  <2>2. Ptr(t[b], n + 1) = t[b].larger
    BY <1>1, <1>3 DEF Ptr, Size, s
  <2>3. m + 1 \in 1 .. n
    BY <1>1
  <2>4. \A i \in 1 .. n : s[i] \in Entry
    <3> HIDE DEF Entry
    <3> QED BY <1>3, ElementOfSeq
  <2> QED BY <1>3, <2>1, <2>2, <2>3, <2>4 DEF Size, Key, Middle, s, m
<1>8. /\ right \in Node /\ right.entries = SubSeq(s, m + 2, n) /\ right.larger = t[b].larger
      /\ right.parent = t[b].parent
  BY <1>2, <1>5 DEF Node, Entry
<1>9. /\ left \in Node /\ left.entries = SubSeq(s, 1, m) /\ left.larger = Ptr(t[b], m + 1)
      /\ left.parent = t[b].parent
  <2>1. m + 1 \in 1 .. n
    BY <1>1
  <2>2. Ptr(t[b], m + 1) \in Blocks \cup {0}
    BY <1>7, <2>1 DEF Entry
  <2> QED BY <1>2, <1>6, <1>7, <2>2 DEF Node, Entry
<1> HIDE DEF left, right
<1>10. /\ Typed(v) /\ DOMAIN v = DOMAIN t /\ v[b] = left
       /\ \A x \in DOMAIN t \ {b} : v[x] = t[x]
  BY <1>9, PutIs
<1> HIDE DEF v
<1>11. /\ Typed(w) /\ DOMAIN w = DOMAIN t \cup {new} /\ w[new] = right /\ w[b] = left
       /\ \A x \in DOMAIN t \ {b} : w[x] = t[x]
  <2>1. /\ Typed(w) /\ DOMAIN w = DOMAIN v \cup {new} /\ w[new] = right
        /\ \A x \in DOMAIN v \ {new} : w[x] = v[x]
    <3>1. Typed(v) /\ new \in Blocks /\ right \in Node
      BY <1>8, <1>10
    <3>2. /\ Typed(Placed(v, new, right)) /\ DOMAIN Placed(v, new, right) = DOMAIN v \cup {new}
          /\ Placed(v, new, right)[new] = right
          /\ \A x \in DOMAIN v \ {new} : Placed(v, new, right)[x] = v[x]
      <4> HIDE DEF moved, w, u
      <4> QED BY <3>1, PlacedIs
    <3> QED BY <3>2
  <2> HIDE DEF w
  <2> QED BY <1>10, <2>1
<1> HIDE DEF w
<1>12. /\ Typed(u) /\ DOMAIN u = DOMAIN w
       /\ \A x \in DOMAIN w :
             /\ Same(u[x], w[x])
             /\ u[x].parent = IF x \in Children(right) THEN new ELSE w[x].parent
  <2>1. new \in Blocks \cup {0}
    OBVIOUS
  <2> QED BY <1>11, <2>1, WithParentIs
<1> HIDE DEF u
<1>13. /\ Size(right) = n - m - 1 /\ \A i \in 1 .. n - m - 1 : Key(right, i) = Key(t[b], i + m + 1)
       /\ \A i \in 1 .. n - m : Ptr(right, i) = Ptr(t[b], i + m + 1)
  <2>1. Size(right) = n - m - 1 /\ n - m - 1 \in Nat
    BY <1>1, <1>5, <1>8 DEF Size
  <2>2. \A i \in 1 .. n - m - 1 : Key(right, i) = Key(t[b], i + m + 1)
    <3> SUFFICES ASSUME NEW i \in 1 .. n - m - 1 PROVE Key(right, i) = Key(t[b], i + m + 1)
      OBVIOUS
    <3>1. SubSeq(s, m + 2, n)[i] = s[i + m + 1]
      BY <1>5
    <3>2. Key(right, i) = SubSeq(s, m + 2, n)[i].key
      BY <1>8 DEF Key
    <3> QED BY <1>7, <3>1, <3>2
  <2>3. ASSUME NEW i \in 1 .. n - m - 1 PROVE Ptr(right, i) = Ptr(t[b], i + m + 1)
    <3>1. i + m + 1 \in 1 .. n /\ i <= n - m - 1
      BY <1>1
    <3>2. Ptr(right, i) = SubSeq(s, m + 2, n)[i].smaller
      BY <1>8, <2>1, <3>1, Zenon DEF Ptr
    <3> QED BY <1>5, <1>7, <3>1, <3>2
  <2>4. Ptr(right, n - m) = Ptr(t[b], n - m + m + 1)
    <3>1. ~ (n - m <= n - m - 1) /\ n - m + m + 1 = n + 1
      BY <1>1
    <3>2. Ptr(right, n - m) = t[b].larger
      BY <1>8, <2>1, <3>1, Zenon DEF Ptr
    <3> QED BY <1>7, <3>1, <3>2
  <2>5. \A i \in 1 .. n - m : i \in 1 .. n - m - 1 \/ i = n - m
    BY <1>1
  <2> QED BY <2>1, <2>2, <2>3, <2>4, <2>5
<1>14. /\ Size(left) = m /\ \A i \in 1 .. m : Key(left, i) = Key(t[b], i)
       /\ \A i \in 1 .. m + 1 : Ptr(left, i) = Ptr(t[b], i)
  <2>1. Size(left) = m
    BY <1>6, <1>9 DEF Size
  <2>2. \A i \in 1 .. m : Key(left, i) = Key(t[b], i)
    BY <1>6, <1>7, <1>9 DEF Key
  <2>3. ASSUME NEW i \in 1 .. m PROVE Ptr(left, i) = Ptr(t[b], i)
    <3>1. i \in 1 .. n /\ i <= m
      BY <1>1
    <3>2. Ptr(left, i) = SubSeq(s, 1, m)[i].smaller
      BY <1>9, <2>1, <3>1, Zenon DEF Ptr
    <3> QED BY <1>6, <1>7, <3>1, <3>2
  <2>4. Ptr(left, m + 1) = Ptr(t[b], m + 1)
    <3>1. ~ (m + 1 <= m)
      BY <1>1
    <3> QED BY <1>9, <2>1, <3>1, Zenon DEF Ptr
  <2>5. \A i \in 1 .. m + 1 : i \in 1 .. m \/ i = m + 1
    BY <1>1
  <2> QED BY <2>1, <2>2, <2>3, <2>4, <2>5
<1>15. Children(right) = moved
  <2>1. Slots(right) = 1 .. n - m
    BY <1>1, <1>13 DEF Slots
  <2>2. Pointers(right) = {Ptr(right, i) : i \in 1 .. n - m}
    BY <1>8, <2>1, PointersAre
  <2>3. {Ptr(right, i) : i \in 1 .. n - m} = {Ptr(t[b], i) : i \in m + 2 .. n + 1}
    <3>1. ASSUME NEW i \in 1 .. n - m
          PROVE  Ptr(right, i) \in {Ptr(t[b], j) : j \in m + 2 .. n + 1}
      <4>1. i + m + 1 \in m + 2 .. n + 1
        BY <1>1
      <4> QED BY <1>13, <4>1
    <3>2. ASSUME NEW i \in m + 2 .. n + 1
          PROVE  Ptr(t[b], i) \in {Ptr(right, j) : j \in 1 .. n - m}
      <4>1. i - m - 1 \in 1 .. n - m /\ i - m - 1 + m + 1 = i
        BY <1>1
      <4>2. Ptr(right, i - m - 1) = Ptr(t[b], i)
        BY <1>13, <4>1
      <4> QED BY <4>1, <4>2
    <3> QED BY <3>1, <3>2
  <2> QED BY <2>2, <2>3 DEF Children, Moved, m, n
<1> HIDE DEF moved, Moved, m, n
<1>16. /\ Same(u[b], left) /\ Same(u[new], right) /\ b # new
       /\ \A x \in DOMAIN t \ {b} : Same(u[x], t[x])
  BY <1>11, <1>12
<1>17. /\ Size(u[b]) = m /\ \A i \in 1 .. m : Key(u[b], i) = Key(t[b], i)
       /\ \A i \in 1 .. m + 1 : Ptr(u[b], i) = Ptr(t[b], i)
  <2>1. /\ Size(u[b]) = Size(left)
        /\ \A i : Key(u[b], i) = Key(left, i) /\ Ptr(u[b], i) = Ptr(left, i)
    BY <1>16, SameHas
  <2> QED BY <1>14, <2>1
<1>18. /\ Size(u[new]) = n - m - 1
       /\ \A i \in 1 .. n - m - 1 : Key(u[new], i) = Key(t[b], i + m + 1)
       /\ \A i \in 1 .. n - m : Ptr(u[new], i) = Ptr(t[b], i + m + 1)
  <2>1. /\ Size(u[new]) = Size(right)
        /\ \A i : Key(u[new], i) = Key(right, i) /\ Ptr(u[new], i) = Ptr(right, i)
    BY <1>16, SameHas
  <2> QED BY <1>13, <2>1
<1>19. ASSUME NEW x \in DOMAIN u
       PROVE  u[x].parent = IF x \in moved THEN new
                            ELSE IF x = new THEN t[b].parent ELSE t[x].parent
  <2>1. u[x].parent = IF x \in moved THEN new ELSE w[x].parent
    BY <1>12, <1>15
  <2>2. w[x].parent = IF x = new THEN t[b].parent ELSE t[x].parent
    <3>1. x = new \/ x = b \/ x \in DOMAIN t \ {b}
      BY <1>11, <1>12
    <3> QED BY <1>8, <1>9, <1>11, <1>16, <3>1
  <2> QED BY <2>1, <2>2
<1>20. /\ \A i \in 1 .. m : Rec(u[b], i) = Rec(t[b], i)
       /\ \A i \in 1 .. n - m - 1 : Rec(u[new], i) = Rec(t[b], i + m + 1)
  <2>1. /\ \A i : Rec(u[b], i) = Rec(left, i)
        /\ \A i : Rec(u[new], i) = Rec(right, i)
    BY <1>16, SameHas
  <2>2. ASSUME NEW i \in 1 .. m PROVE Rec(left, i) = Rec(t[b], i)
    BY <1>6, <1>9 DEF Rec, s
  <2>3. ASSUME NEW i \in 1 .. n - m - 1 PROVE Rec(right, i) = Rec(t[b], i + m + 1)
    <3>1. SubSeq(s, m + 2, n)[i] = s[i + m + 1]
      BY <1>5
    <3> QED BY <1>8, <3>1 DEF Rec, s
  <2> QED BY <2>1, <2>2, <2>3
<1> QED
  <2> HIDE DEF u, n, m
  <2>1. Typed(u) /\ DOMAIN u = DOMAIN t \cup {new} /\ Size(u[b]) = m
    BY <1>11, <1>12, <1>17
  <2>2. \A x \in DOMAIN t \ {b} : Same(u[x], t[x])
    BY <1>11, <1>12, <1>16
  <2>3. SplitLeaves(t, b, new, u)
    BY <1>17, <1>18, <1>19, <1>20, <2>1, <2>2, Zenon DEF SplitLeaves, n, m, moved
  <2> QED BY <1>4, <2>3

\* What becomes of a pointer when its node was split.
Redirected(c, smaller, larger) == IF larger # 0 /\ c = smaller THEN larger ELSE c

\* The node with one entry more, and the pointer behind it moved over.
LEMMA InsertIntoNodeIs ==
    ASSUME NEW t, Typed(t), NEW p \in DOMAIN t, NEW entry \in Entry,
           NEW larger \in Blocks \cup {0}, Sorted(t[p]),
           \A i \in 1 .. Size(t[p]) : Key(t[p], i) # entry.key
    PROVE  LET u == InsertIntoNode(t, p, entry, larger)
               q == Position(t[p], entry.key)
               old(i) == Redirected(Ptr(t[p], i), entry.smaller, larger)
           IN  /\ Typed(u) /\ DOMAIN u = DOMAIN t
               /\ Size(u[p]) = Size(t[p]) + 1
               /\ q \in Slots(t[p]) /\ Gap(t[p], q, entry.key)
               /\ \A j \in 1 .. Size(t[p]) + 1 :
                     Key(u[p], j) = IF j < q THEN Key(t[p], j)
                                    ELSE IF j = q THEN entry.key ELSE Key(t[p], j - 1)
               /\ \A j \in 1 .. Size(t[p]) + 2 :
                     Ptr(u[p], j) = IF j < q THEN old(j)
                                    ELSE IF j = q THEN entry.smaller ELSE old(j - 1)
               /\ \A j \in 1 .. Size(t[p]) + 1 :
                     Rec(u[p], j) = IF j < q THEN Rec(t[p], j)
                                    ELSE IF j = q THEN entry.record ELSE Rec(t[p], j - 1)
               /\ \A x \in DOMAIN t \ {p} : Same(u[x], t[x])
               /\ \A x \in DOMAIN t :
                     u[x].parent = IF x = entry.smaller THEN p ELSE t[x].parent
<1> DEFINE node == t[p]
           s == node.entries
           n == Len(s)
           k == entry.key
           redirect(c) == Redirected(c, entry.smaller, larger)
           f == [i \in DOMAIN s |-> [s[i] EXCEPT !.smaller = redirect(s[i].smaller)]]
           fixed == [node EXCEPT !.larger = redirect(node.larger), !.entries = f]
           q == Position(fixed, k)
           filled == [fixed EXCEPT !.entries = InsertAt(f, q, entry)]
           v == [t EXCEPT ![p] = filled]
           u == WithParent(v, {entry.smaller}, p)
<1>1. node \in Node /\ p \in Blocks
  BY DEF Typed
<1>2. /\ s \in Seq(Entry) /\ n \in Nat /\ DOMAIN s = 1 .. n /\ \A i \in 1 .. n : s[i] \in Entry
      /\ Size(node) = n
  <2>1. s \in Seq(Entry)
    BY <1>1 DEF Node, Entry
  <2> HIDE DEF Entry
  <2> QED BY <2>1, ElementOfSeq DEF Size
<1>3. \A c \in Blocks \cup {0} : redirect(c) \in Blocks \cup {0}
  BY DEF Redirected
<1>4. k \in Keys /\ k \in Int /\ entry.smaller \in Blocks \cup {0}
  BY KeyAssumption DEF Entry
<1> HIDE DEF redirect
<1>5. /\ f \in Seq(Entry) /\ Len(f) = n
      /\ \A i \in 1 .. n : /\ f[i].key = s[i].key /\ f[i].record = s[i].record
                           /\ f[i].smaller = redirect(s[i].smaller)
  <2>1. ASSUME NEW i \in 1 .. n
        PROVE  /\ [s[i] EXCEPT !.smaller = redirect(s[i].smaller)] \in Entry
               /\ [s[i] EXCEPT !.smaller = redirect(s[i].smaller)].key = s[i].key
               /\ [s[i] EXCEPT !.smaller = redirect(s[i].smaller)].record = s[i].record
               /\ [s[i] EXCEPT !.smaller = redirect(s[i].smaller)].smaller = redirect(s[i].smaller)
    BY <1>2, <1>3 DEF Entry
  <2>2. f = [i \in 1 .. n |-> [s[i] EXCEPT !.smaller = redirect(s[i].smaller)]]
    BY <1>2
  <2> HIDE DEF f, Entry, n, s
  <2>3. f \in [1 .. n -> Entry]
    BY <2>1, <2>2
  <2>4. f \in Seq(Entry) /\ Len(f) = n
    BY <1>2, <2>3
  <2> QED BY <2>1, <2>2, <2>4
<1>6. /\ fixed \in Node /\ fixed.entries = f /\ fixed.parent = node.parent
      /\ fixed.larger = redirect(node.larger)
  <2>1. node.larger \in Blocks \cup {0}
    BY <1>1 DEF Node
  <2>2. redirect(node.larger) \in Blocks \cup {0}
    BY <1>3, <2>1
  <2> HIDE DEF f
  <2> QED BY <1>1, <1>5, <2>2 DEF Node, Entry
<1>7. u = InsertIntoNode(t, p, entry, larger)
  BY Zenon DEF InsertIntoNode, redirect, Redirected
<1> HIDE DEF fixed, f
<1>8. Size(fixed) = n /\ \A i \in 1 .. n : Key(fixed, i) = Key(node, i)
  BY <1>2, <1>5, <1>6 DEF Size, Key
<1> HIDE DEF n, s, k
<1>9. Sorted(fixed) /\ \A i \in 1 .. n : Key(fixed, i) # k
  BY <1>2, <1>8 DEF Sorted, k, node
<1>10. q \in 1 .. n + 1 /\ Gap(fixed, q, k)
  BY <1>4, <1>6, <1>8, <1>9, PositionIs DEF Slots
<1> HIDE DEF q
<1>11. q \in Slots(node) /\ Gap(node, q, k) /\ q = Position(node, k)
  <2>1. q \in Slots(node)
    BY <1>2, <1>10 DEF Slots
  <2>2. Gap(node, q, k)
    <3>1. q > 1 => q - 1 \in 1 .. n
      BY <1>2, <1>10
    <3>2. q <= n => q \in 1 .. n
      BY <1>2, <1>10
    <3> QED BY <1>2, <1>8, <1>10, <3>1, <3>2 DEF Gap
  <2>3. Sorted(node) /\ \A i \in 1 .. Size(node) : Key(node, i) # k
    BY DEF node, k
  <2> HIDE DEF node
  <2> QED BY <1>1, <1>4, <2>1, <2>2, <2>3, PositionIs
<1> DEFINE g == InsertAt(f, q, entry)
<1>12. /\ g \in Seq(Entry) /\ Len(g) = n + 1
       /\ \A j \in 1 .. n + 1 : g[j] = IF j < q THEN f[j] ELSE IF j = q THEN entry ELSE f[j - 1]
  <2>1. q \in 1 .. Len(f) + 1
    BY <1>5, <1>10
  <2>2. f \in Seq(Entry) /\ entry \in Entry /\ Len(f) = n
    BY <1>5
  <2>3. Inserted(g, f, q, entry)
    <3> HIDE DEF f, Entry
    <3> QED BY <2>1, <2>2, InsertAtIs
  <2> HIDE DEF f, n, Entry, g
  <2> QED BY <2>2, <2>3 DEF Inserted
<1> HIDE DEF g
<1>13. /\ filled \in Node /\ filled.entries = g /\ filled.parent = node.parent
       /\ filled.larger = redirect(node.larger)
  BY <1>6, <1>12 DEF Node, Entry, g
<1> HIDE DEF filled
<1>14. Size(filled) = n + 1
  BY <1>12, <1>13 DEF Size
<1>15. ASSUME NEW j \in 1 .. n + 1
       PROVE  Key(filled, j) = IF j < q THEN Key(node, j)
                               ELSE IF j = q THEN k ELSE Key(node, j - 1)
  <2>1. Key(filled, j) = g[j].key
    BY <1>13 DEF Key
  <2>2. \A i \in 1 .. n : f[i].key = Key(node, i)
    BY <1>5 DEF Key, s
  <2>3. (j < q => j \in 1 .. n) /\ (~ (j < q) /\ j # q => j - 1 \in 1 .. n)
    BY <1>2, <1>10
  <2> QED BY <1>12, <2>1, <2>2, <2>3, Zenon DEF k
<1>16. \A i \in 1 .. n + 1 : (IF i <= n THEN f[i].smaller ELSE redirect(node.larger))
                             = redirect(Ptr(node, i))
  <2>1. \A i \in 1 .. n + 1 : i <= n => i \in 1 .. n
    BY <1>2
  <2> QED BY <1>2, <1>5, <2>1, Zenon DEF Ptr, s
<1>17. ASSUME NEW j \in 1 .. n + 2
       PROVE  Ptr(filled, j) = IF j < q THEN redirect(Ptr(node, j))
                               ELSE IF j = q THEN entry.smaller ELSE redirect(Ptr(node, j - 1))
  <2>1. Ptr(filled, j) = IF j <= n + 1 THEN g[j].smaller ELSE redirect(node.larger)
    BY <1>13, <1>14, Zenon DEF Ptr
  <2>2. CASE j < q
    <3>1. j \in 1 .. n + 1 /\ j <= n /\ j <= n + 1
      BY <1>2, <1>10, <2>2
    <3>2. Ptr(filled, j) = f[j].smaller
      BY <1>12, <2>1, <2>2, <3>1, Zenon
    <3>3. f[j].smaller = redirect(Ptr(node, j))
      BY <1>16, <3>1
    <3> QED BY <2>2, <3>2, <3>3
  <2>3. CASE j = q
    <3>1. j \in 1 .. n + 1 /\ ~ (j < q) /\ j <= n + 1
      BY <1>2, <1>10, <2>3
    <3> QED BY <1>12, <2>1, <2>3, <3>1, Zenon
  <2>4. CASE ~ (j < q) /\ j # q
    <3>1. j - 1 \in 1 .. n + 1 /\ (j <= n + 1 => j \in 1 .. n + 1)
          /\ (j <= n + 1 <=> j - 1 <= n)
      BY <1>2, <1>10, <2>4
    <3>2. Ptr(filled, j) = IF j - 1 <= n THEN f[j - 1].smaller ELSE redirect(node.larger)
      BY <1>12, <2>1, <2>4, <3>1, Zenon
    <3>3. Ptr(filled, j) = redirect(Ptr(node, j - 1))
      BY <1>16, <3>1, <3>2
    <3> QED BY <2>4, <3>3, Zenon
  <2> QED BY <2>2, <2>3, <2>4
<1>18. /\ Typed(v) /\ DOMAIN v = DOMAIN t /\ v[p] = filled
       /\ \A x \in DOMAIN t \ {p} : v[x] = t[x]
  BY <1>13, PutIs
<1> HIDE DEF v
<1>19. /\ Typed(u) /\ DOMAIN u = DOMAIN v
       /\ \A x \in DOMAIN v :
             /\ Same(u[x], v[x])
             /\ u[x].parent = IF x \in {entry.smaller} THEN p ELSE v[x].parent
  <2>1. p \in Blocks \cup {0}
    BY <1>1
  <2> QED BY <1>18, <2>1, WithParentIs
<1> HIDE DEF u
<1>20. /\ Size(u[p]) = Size(filled)
       /\ \A i : Key(u[p], i) = Key(filled, i) /\ Ptr(u[p], i) = Ptr(filled, i)
  <2>1. Same(u[p], filled)
    BY <1>18, <1>19
  <2> QED BY <2>1, SameHas
<1>21. \A x \in DOMAIN t : u[x].parent = IF x = entry.smaller THEN p ELSE t[x].parent
  BY <1>13, <1>18, <1>19
<1>22. \A j \in 1 .. Size(node) + 1 :
          Key(u[p], j) = IF j < q THEN Key(node, j) ELSE IF j = q THEN k ELSE Key(node, j - 1)
  BY <1>2, <1>15, <1>20
<1>23. \A j \in 1 .. Size(node) + 2 :
          Ptr(u[p], j) = IF j < q THEN redirect(Ptr(node, j))
                         ELSE IF j = q THEN entry.smaller ELSE redirect(Ptr(node, j - 1))
  BY <1>2, <1>17, <1>20
<1>24. \A x \in DOMAIN t \ {p} : Same(u[x], t[x])
  BY <1>18, <1>19
<1>25. \A j \in 1 .. Size(node) + 1 :
          Rec(u[p], j) = IF j < q THEN Rec(node, j)
                         ELSE IF j = q THEN entry.record ELSE Rec(node, j - 1)
  <2> SUFFICES ASSUME NEW j \in 1 .. n + 1
      PROVE  Rec(u[p], j) = IF j < q THEN Rec(node, j)
                            ELSE IF j = q THEN entry.record ELSE Rec(node, j - 1)
    BY <1>2
  <2>1. Rec(u[p], j) = g[j].record
    <3>1. Same(u[p], filled)
      BY <1>18, <1>19
    <3> QED BY <1>13, <3>1 DEF Same, Rec
  <2>2. \A i \in 1 .. n : f[i].record = Rec(node, i)
    BY <1>5 DEF Rec, s
  <2>3. (j < q => j \in 1 .. n) /\ (~ (j < q) /\ j # q => j - 1 \in 1 .. n)
    BY <1>2, <1>10
  <2> QED BY <1>12, <2>1, <2>2, <2>3, Zenon
<1> QED
  BY <1>2, <1>7, <1>11, <1>14, <1>18, <1>19, <1>20, <1>21, <1>22, <1>23, <1>24, <1>25, Zenon
     DEF node, k, redirect
---------------------------------------------------------------------------------
(* What is stored in a node *)

Holds(node, k, r) == \E i \in 1 .. Size(node) : Key(node, i) = k /\ Rec(node, i) = r

\* Nodes that differ in their parent only hold the same pairs.
LEMMA SameHolds ==
    ASSUME NEW node, NEW other, Same(node, other), NEW k, NEW r
    PROVE  Holds(node, k, r) <=> Holds(other, k, r)
<1>1. /\ Size(node) = Size(other)
      /\ \A i : Key(node, i) = Key(other, i) /\ Rec(node, i) = Rec(other, i)
  BY SameHas
<1> QED BY <1>1, Zenon DEF Holds

IsMiddle(t, b, k, r) == Middle(t, b).key = k /\ Middle(t, b).record = r

\* The entries of b after it gave its upper half to new: the middle one is in the
\* nodes of touched.
Parted(t, b, new, u, touched) ==
    \A k, r :
        /\ Holds(t[b], k, r) <=>
              Holds(u[b], k, r) \/ Holds(u[new], k, r) \/ IsMiddle(t, b, k, r)
        /\ \A x \in touched :
              Holds(u[x], k, r) <=> Holds(t[x], k, r) \/ IsMiddle(t, b, k, r)

\* split_node divides the pairs of the node between the two halves and the middle entry.
LEMMA SplitParts ==
    ASSUME NEW t, Typed(t), NEW b \in DOMAIN t, NEW new \in Blocks \ DOMAIN t,
           Size(t[b]) = records_per_node
    PROVE  Parted(t, b, new, SplitNode(t, b, new), {})
<1> DEFINE n == records_per_node
           m == middle_
           u == SplitNode(t, b, new)
<1>1. m \in 2 .. n - 1 /\ n \in Nat
  BY MiddleIs
<1>2. /\ Size(u[b]) = m /\ Size(u[new]) = n - m - 1
      /\ \A i \in 1 .. m : Key(u[b], i) = Key(t[b], i)
      /\ \A i \in 1 .. n - m - 1 : Key(u[new], i) = Key(t[b], i + m + 1)
      /\ \A i \in 1 .. m : Rec(u[b], i) = Rec(t[b], i)
      /\ \A i \in 1 .. n - m - 1 : Rec(u[new], i) = Rec(t[b], i + m + 1)
  <2>1. SplitLeaves(t, b, new, u)
    BY SplitNodeIs
  <2> HIDE DEF u
  <2> QED BY <2>1, Zenon DEF SplitLeaves, n, m
<1>3. Middle(t, b).key = Key(t[b], m + 1) /\ Middle(t, b).record = Rec(t[b], m + 1)
  BY Zenon DEF Middle, Key, Rec, m
<1>4. Size(t[b]) = n
  OBVIOUS
<1> HIDE DEF n, m, u
<1>5. ASSUME NEW k, NEW r
      PROVE  Holds(t[b], k, r) <=>
                Holds(u[b], k, r) \/ Holds(u[new], k, r) \/ IsMiddle(t, b, k, r)
  <2>1. ASSUME NEW i \in 1 .. n, Key(t[b], i) = k, Rec(t[b], i) = r
        PROVE  Holds(u[b], k, r) \/ Holds(u[new], k, r) \/ IsMiddle(t, b, k, r)
    <3>1. CASE i \in 1 .. m
      BY <1>2, <2>1, <3>1 DEF Holds
    <3>2. CASE i = m + 1
      BY <1>3, <2>1, <3>2 DEF IsMiddle
    <3>3. CASE i \in m + 2 .. n
      <4> DEFINE j == i - m - 1
      <4>1. j \in 1 .. n - m - 1 /\ j + m + 1 = i
        BY <1>1, <3>3
      <4> HIDE DEF j
      <4>2. Key(u[new], j) = k /\ Rec(u[new], j) = r
        BY <1>2, <2>1, <4>1
      <4> QED BY <1>2, <4>1, <4>2 DEF Holds
    <3> QED BY <1>1, <3>1, <3>2, <3>3
  <2>2. Holds(u[b], k, r) => Holds(t[b], k, r)
    <3>1. \A i \in 1 .. m : i \in 1 .. n
      BY <1>1
    <3> QED BY <1>2, <1>4, <3>1 DEF Holds
  <2>3. Holds(u[new], k, r) => Holds(t[b], k, r)
    <3>1. \A i \in 1 .. n - m - 1 : i + m + 1 \in 1 .. n
      BY <1>1
    <3> QED BY <1>2, <1>4, <3>1 DEF Holds
  <2>4. IsMiddle(t, b, k, r) => Holds(t[b], k, r)
    <3>1. m + 1 \in 1 .. n
      BY <1>1
    <3> QED BY <1>3, <1>4, <3>1 DEF Holds, IsMiddle
  <2>5. Holds(t[b], k, r) =>
           Holds(u[b], k, r) \/ Holds(u[new], k, r) \/ IsMiddle(t, b, k, r)
    <3> SUFFICES ASSUME Holds(t[b], k, r)
        PROVE  Holds(u[b], k, r) \/ Holds(u[new], k, r) \/ IsMiddle(t, b, k, r)
      OBVIOUS
    <3>1. PICK i \in 1 .. n : Key(t[b], i) = k /\ Rec(t[b], i) = r
      BY <1>4 DEF Holds
    <3> QED BY <2>1, <3>1
  <2> QED BY <2>2, <2>3, <2>4, <2>5, Zenon
<1> QED BY <1>5, Zenon DEF Parted, u

\* insert_into_node adds the pair of the entry and loses none.
LEMMA InsertHolds ==
    ASSUME NEW t, Typed(t), NEW p \in DOMAIN t, NEW entry \in Entry,
           NEW larger \in Blocks \cup {0}, Sorted(t[p]),
           \A i \in 1 .. Size(t[p]) : Key(t[p], i) # entry.key,
           NEW k, NEW r
    PROVE  Holds(InsertIntoNode(t, p, entry, larger)[p], k, r) <=>
              Holds(t[p], k, r) \/ (entry.key = k /\ entry.record = r)
<1> DEFINE u == InsertIntoNode(t, p, entry, larger)
           q == Position(t[p], entry.key)
           n == Size(t[p])
<1>1. /\ Size(u[p]) = n + 1 /\ q \in Slots(t[p])
      /\ \A j \in 1 .. n + 1 :
            Key(u[p], j) = IF j < q THEN Key(t[p], j)
                           ELSE IF j = q THEN entry.key ELSE Key(t[p], j - 1)
      /\ \A j \in 1 .. n + 1 :
            Rec(u[p], j) = IF j < q THEN Rec(t[p], j)
                           ELSE IF j = q THEN entry.record ELSE Rec(t[p], j - 1)
  BY InsertIntoNodeIs
<1>2. n \in Nat
  <2>1. t[p] \in Node
    BY DEF Typed
  <2> QED BY <2>1, NodeHas
<1> HIDE DEF u, q, n
<1>3. q \in 1 .. n + 1
  BY <1>1 DEF Slots, n
<1>4. ASSUME NEW j \in 1 .. n + 1, Key(u[p], j) = k, Rec(u[p], j) = r
      PROVE  Holds(t[p], k, r) \/ (entry.key = k /\ entry.record = r)
  <2>1. CASE j < q
    <3>1. j \in 1 .. n
      BY <1>2, <1>3, <2>1
    <3>2. Key(t[p], j) = k /\ Rec(t[p], j) = r
      BY <1>1, <1>4, <2>1
    <3> QED BY <3>1, <3>2 DEF Holds, n
  <2>2. CASE j = q
    <3>1. ~ (j < q)
      BY <1>3, <2>2
    <3> QED BY <1>1, <1>4, <2>2, <3>1
  <2>3. CASE ~ (j < q) /\ j # q
    <3>1. j - 1 \in 1 .. n
      BY <1>2, <1>3, <2>3
    <3>2. Key(t[p], j - 1) = k /\ Rec(t[p], j - 1) = r
      BY <1>1, <1>4, <2>3
    <3> QED BY <3>1, <3>2 DEF Holds, n
  <2> QED BY <2>1, <2>2, <2>3
<1>5. ASSUME NEW j \in 1 .. n, Key(t[p], j) = k, Rec(t[p], j) = r
      PROVE  \E i \in 1 .. n + 1 : Key(u[p], i) = k /\ Rec(u[p], i) = r
  <2>1. CASE j < q
    <3>1. j \in 1 .. n + 1
      BY <1>2
    <3> QED BY <1>1, <1>5, <2>1, <3>1
  <2>2. CASE ~ (j < q)
    <3>1. j + 1 \in 1 .. n + 1 /\ ~ (j + 1 < q) /\ j + 1 # q /\ (j + 1) - 1 = j
      BY <1>2, <1>3, <2>2
    <3>2. Key(u[p], j + 1) = Key(t[p], j) /\ Rec(u[p], j + 1) = Rec(t[p], j)
      BY <1>1, <3>1
    <3> QED BY <1>5, <3>1, <3>2
  <2> QED BY <2>1, <2>2
<1>6. Key(u[p], q) = entry.key /\ Rec(u[p], q) = entry.record
  <2>1. ~ (q < q)
    BY <1>3
  <2> QED BY <1>1, <1>3, <2>1
<1>7. Holds(u[p], k, r) <=> \E i \in 1 .. n + 1 : Key(u[p], i) = k /\ Rec(u[p], i) = r
  BY <1>1, Zenon DEF Holds
<1>8. Holds(t[p], k, r) <=> \E i \in 1 .. n : Key(t[p], i) = k /\ Rec(t[p], i) = r
  BY Zenon DEF Holds, n
<1>9. Holds(u[p], k, r) => Holds(t[p], k, r) \/ (entry.key = k /\ entry.record = r)
  BY <1>4, <1>7
<1>10. Holds(t[p], k, r) => Holds(u[p], k, r)
  BY <1>5, <1>7, <1>8
<1>11. entry.key = k /\ entry.record = r => Holds(u[p], k, r)
  BY <1>3, <1>6, <1>7
<1> QED BY <1>9, <1>10, <1>11, Zenon DEF u
---------------------------------------------------------------------------------
(* A file of B-trees *)

\* h is the height of each node and R[b] a set in which the keys from b on lie.

Fits(t, R, b) ==
    /\ Size(t[b]) <= records_per_node /\ Sorted(t[b])
    /\ \A i \in 1 .. Size(t[b]) : Key(t[b], i) \in R[b]

\* The pointers of a leaf are null; those of an inner node are distinct nodes one
\* level down that point back, each with its part of the keys.
Linked(t, h, R, b) ==
    \A i \in Slots(t[b]) :
        IF h[b] = 0 THEN Ptr(t[b], i) = 0
        ELSE /\ Ptr(t[b], i) \in DOMAIN t
             /\ t[Ptr(t[b], i)].parent = b
             /\ h[b] = h[Ptr(t[b], i)] + 1
             /\ \A x \in R[Ptr(t[b], i)] : x \in R[b] /\ Gap(t[b], i, x)
             /\ \A j \in Slots(t[b]) : Ptr(t[b], j) = Ptr(t[b], i) => j = i

\* A node with a parent is one of its pointers.
Owned(t, h, b) ==
    t[b].parent # 0 =>
        /\ t[b].parent \in DOMAIN t
        /\ h[t[b].parent] # 0
        /\ \E i \in Slots(t[t[b].parent]) : Ptr(t[t[b].parent], i) = b

\* In the middle of a split one node, the loose one, is not yet in its parent.
Tree(t, H, h, R, loose) ==
    /\ Typed(t) /\ H \in Nat
    /\ h \in [DOMAIN t -> 0 .. H] /\ R \in [DOMAIN t -> SUBSET Int]
    /\ \A b \in DOMAIN t : Fits(t, R, b) /\ Linked(t, h, R, b)
    /\ \A b \in DOMAIN t \ loose : Owned(t, h, b)

\* A child named by an inner node: its parent, its height and the range of its keys.
LEMMA ChildIs ==
    ASSUME NEW t, NEW H, NEW h, NEW R, NEW loose, Tree(t, H, h, R, loose),
           NEW b \in DOMAIN t, NEW i \in Slots(t[b]), h[b] # 0
    PROVE  /\ Ptr(t[b], i) \in DOMAIN t /\ Ptr(t[b], i) # 0
           /\ t[Ptr(t[b], i)].parent = b
           /\ h[b] = h[Ptr(t[b], i)] + 1 /\ h[b] \in Nat /\ h[Ptr(t[b], i)] \in Nat
           /\ \A x \in R[Ptr(t[b], i)] : x \in Int /\ x \in R[b] /\ Gap(t[b], i, x)
           /\ \A j \in Slots(t[b]) : Ptr(t[b], j) = Ptr(t[b], i) => j = i
<1>1. Linked(t, h, R, b) /\ h \in [DOMAIN t -> 0 .. H] /\ R \in [DOMAIN t -> SUBSET Int]
      /\ DOMAIN t \subseteq Blocks
  BY DEF Tree, Typed
<1>2. /\ Ptr(t[b], i) \in DOMAIN t
      /\ t[Ptr(t[b], i)].parent = b /\ h[b] = h[Ptr(t[b], i)] + 1
      /\ \A x \in R[Ptr(t[b], i)] : x \in R[b] /\ Gap(t[b], i, x)
      /\ \A j \in Slots(t[b]) : Ptr(t[b], j) = Ptr(t[b], i) => j = i
  BY <1>1, Zenon DEF Linked
<1>3. 0 \notin Blocks
  BY DEF Blocks
<1> QED BY <1>1, <1>2, <1>3

\* The parent of a node that is not loose names it in one of its slots.
LEMMA ParentIs ==
    ASSUME NEW t, NEW H, NEW h, NEW R, NEW loose, Tree(t, H, h, R, loose),
           NEW b \in DOMAIN t \ loose, t[b].parent # 0
    PROVE  /\ t[b].parent \in DOMAIN t /\ h[t[b].parent] # 0
           /\ h[t[b].parent] = h[b] + 1 /\ h[b] \in Nat /\ h[t[b].parent] \in 0 .. H
           /\ \E i \in Slots(t[t[b].parent]) :
                 /\ Ptr(t[t[b].parent], i) = b
                 /\ \A x \in R[b] : x \in Int /\ x \in R[t[b].parent] /\ Gap(t[t[b].parent], i, x)
<1> DEFINE p == t[b].parent
<1>1. p \in DOMAIN t /\ h[p] # 0 /\ \E i \in Slots(t[p]) : Ptr(t[p], i) = b
  BY Zenon DEF Tree, Owned
<1> HIDE DEF p
<1>2. PICK i \in Slots(t[p]) : Ptr(t[p], i) = b
  BY <1>1
<1>3. /\ h[p] = h[b] + 1 /\ h[b] \in Nat
      /\ \A x \in R[b] : x \in Int /\ x \in R[p] /\ Gap(t[p], i, x)
  BY <1>1, <1>2, ChildIs
<1>4. h[p] \in 0 .. H
  BY <1>1 DEF Tree
<1> QED BY <1>1, <1>2, <1>3, <1>4 DEF p

\* find_root climbs one parent at a time and ends at a block without a parent.
LEMMA FindRootIs ==
    ASSUME NEW t, NEW H, NEW h, NEW R, Tree(t, H, h, R, {})
    PROVE  \A b \in DOMAIN t :
              /\ FindRoot(t, b) = IF t[b].parent = 0 THEN b ELSE FindRoot(t, t[b].parent)
              /\ FindRoot(t, b) \in DOMAIN t /\ t[FindRoot(t, b)].parent = 0
<1> DEFINE D == DOMAIN t
           IsUp(g) == g = [b \in D |-> IF t[b].parent = 0 THEN b ELSE g[t[b].parent]]
           up == CHOOSE g : IsUp(g)
<1>1. \A b \in D : FindRoot(t, b) = up[b]
  BY Zenon DEF FindRoot
<1>2. \A b \in D : t[b].parent # 0 =>
          /\ t[b].parent \in D /\ h[t[b].parent] = h[b] + 1
          /\ h[b] \in Nat /\ h[t[b].parent] \in 0 .. H
  <2> SUFFICES ASSUME NEW b \in D, t[b].parent # 0
      PROVE  /\ t[b].parent \in D /\ h[t[b].parent] = h[b] + 1
             /\ h[b] \in Nat /\ h[t[b].parent] \in 0 .. H
    OBVIOUS
  <2>1. b \in D \ {}
    OBVIOUS
  <2> QED BY <2>1, ParentIs
<1>3. H \in Nat /\ h \in [D -> 0 .. H]
  BY DEF Tree
<1> HIDE DEF D
<1>4. \E g : IsUp(g)
  <2> DEFINE rank == [b \in D |-> H - h[b]]
             stop == {b \in D : t[b].parent = 0}
             base == [b \in D |-> b]
             next == [b \in D |-> t[b].parent]
             combine == [x \in D \X D |-> x[2]]
  <2>1. rank \in [D -> 0 .. H] /\ base \in [D -> D] /\ combine \in [D \X D -> D]
    BY <1>3
  <2>2. ASSUME NEW b \in D \ stop PROVE next[b] \in D /\ rank[next[b]] < rank[b]
    <3>1. t[b].parent \in D /\ h[t[b].parent] = h[b] + 1
      BY <1>2
    <3>2. h[b] \in 0 .. H /\ h[t[b].parent] \in 0 .. H
      BY <1>3, <3>1
    <3> QED BY <1>3, <3>1, <3>2
  <2> HIDE DEF rank, stop, base, next, combine
  <2>3. PICK f \in [D -> D] : Solves(f, D, stop, base, next, combine)
    BY <1>3, <2>1, <2>2, SolutionExists
  <2>4. ASSUME NEW b \in D
        PROVE  f[b] = IF t[b].parent = 0 THEN b ELSE f[t[b].parent]
    <3>1. f[b] = IF b \in stop THEN base[b] ELSE combine[<<b, f[next[b]]>>]
      BY <2>3, Zenon DEF Solves
    <3>2. CASE t[b].parent = 0
      BY <3>1, <3>2 DEF stop, base
    <3>3. CASE t[b].parent # 0
      <4>1. t[b].parent \in D /\ f[t[b].parent] \in D
        BY <1>2, <3>3
      <4> QED BY <3>1, <3>3, <4>1 DEF stop, next, combine
    <3> QED BY <3>2, <3>3
  <2>5. f = [b \in D |-> f[b]]
    OBVIOUS
  <2>6. f = [b \in D |-> IF t[b].parent = 0 THEN b ELSE f[t[b].parent]]
    BY <2>4, <2>5
  <2> QED BY <2>6, Zenon
<1>5. IsUp(up)
  BY <1>4, Zenon
<1>6. \A b \in D : up[b] = IF t[b].parent = 0 THEN b ELSE up[t[b].parent]
  <2> HIDE DEF up
  <2> QED BY <1>5, Zenon
<1> HIDE DEF up
<1> DEFINE bad == {b \in D : ~ (up[b] \in D /\ t[up[b]].parent = 0)}
<1>7. bad = {}
  <2> SUFFICES ASSUME bad # {} PROVE FALSE
    OBVIOUS
  <2>1. \A b \in bad : h[b] \in 0 .. H
    BY <1>3
  <2> HIDE DEF bad
  <2>2. PICK b \in bad : \A c \in bad : h[c] <= h[b]
    BY <1>3, <2>1, LowestOf
  <2>3. b \in D /\ ~ (up[b] \in D /\ t[up[b]].parent = 0)
    BY <2>2 DEF bad
  <2>4. t[b].parent # 0 /\ up[b] = up[t[b].parent]
    BY <1>6, <2>3, Zenon
  <2>5. t[b].parent \in bad
    BY <1>2, <2>3, <2>4 DEF bad
  <2>6. h[t[b].parent] <= h[b] /\ h[t[b].parent] = h[b] + 1 /\ h[b] \in Nat
    BY <1>2, <2>2, <2>3, <2>4, <2>5
  <2> QED BY <2>6
<1>8. \A b \in D : up[b] \in D /\ t[up[b]].parent = 0
  BY <1>7
<1>9. ASSUME NEW b \in D
      PROVE  FindRoot(t, b) = IF t[b].parent = 0 THEN b ELSE FindRoot(t, t[b].parent)
  <2>1. CASE t[b].parent = 0
    BY <2>1, <1>1, <1>6
  <2>2. CASE t[b].parent # 0
    BY <2>2, <1>1, <1>2, <1>6
  <2> QED BY <2>1, <2>2
<1> QED BY <1>1, <1>8, <1>9, Zenon DEF D

\* Nothing else goes up from each node like FindRoot does.
LEMMA RootsAre ==
    ASSUME NEW t, NEW H, NEW h, NEW R, Tree(t, H, h, R, {}), NEW F,
           \A b \in DOMAIN t : F[b] = IF t[b].parent = 0 THEN b ELSE F[t[b].parent]
    PROVE  \A b \in DOMAIN t : FindRoot(t, b) = F[b]
<1> DEFINE bad == {b \in DOMAIN t : FindRoot(t, b) # F[b]}
<1>1. bad = {}
  <2> SUFFICES ASSUME bad # {} PROVE FALSE
    OBVIOUS
  <2>1. H \in Nat /\ \A b \in bad : h[b] \in 0 .. H
    BY DEF Tree
  <2> HIDE DEF bad
  <2>2. PICK b \in bad : \A c \in bad : h[c] <= h[b]
    BY <2>1, LowestOf
  <2>3. b \in DOMAIN t /\ FindRoot(t, b) # F[b]
    BY <2>2 DEF bad
  <2>4. FindRoot(t, b) = IF t[b].parent = 0 THEN b ELSE FindRoot(t, t[b].parent)
    BY <2>3, FindRootIs
  <2>5. t[b].parent # 0 /\ FindRoot(t, t[b].parent) # F[t[b].parent]
    BY <2>3, <2>4
  <2>6. t[b].parent \in DOMAIN t /\ h[t[b].parent] = h[b] + 1 /\ h[b] \in Nat
    <3>1. b \in DOMAIN t \ {}
      BY <2>3
    <3> QED BY <2>5, <3>1, ParentIs
  <2>7. t[b].parent \in bad
    BY <2>5, <2>6 DEF bad
  <2>8. h[t[b].parent] <= h[b]
    BY <2>2, <2>7
  <2> QED BY <2>6, <2>8
<1> QED BY <1>1

\* Where the search goes from a node that does not have the key.
LEMMA StepIs ==
    ASSUME NEW t, NEW H, NEW h, NEW R, NEW loose, Tree(t, H, h, R, loose),
           NEW b \in DOMAIN t, NEW k \in Int, EntryOf(t[b], k) = {}
    PROVE  /\ ChildFor(t[b], k) = 0 <=> h[b] = 0
           /\ h[b] # 0 => \E i \in Slots(t[b]) :
                /\ ChildFor(t[b], k) = Ptr(t[b], i) /\ Gap(t[b], i, k)
                /\ \A j \in Slots(t[b]) : Gap(t[b], j, k) => j = i
<1>1. t[b] \in Node /\ Sorted(t[b]) /\ Linked(t, h, R, b)
  BY DEF Tree, Typed, Fits
<1>2. \A i \in 1 .. Size(t[b]) : Key(t[b], i) # k
  <2>1. DOMAIN t[b].entries = 1 .. Size(t[b])
    BY <1>1, NodeHas
  <2> QED BY <2>1, Zenon DEF EntryOf, Key
<1>3. PICK i \in Slots(t[b]) : /\ ChildFor(t[b], k) = Ptr(t[b], i) /\ Gap(t[b], i, k)
                               /\ \A j \in Slots(t[b]) : Gap(t[b], j, k) => j = i
  BY <1>1, <1>2, PositionIs
<1>4. h[b] = 0 => Ptr(t[b], i) = 0
  BY <1>1 DEF Linked
<1>5. h[b] # 0 => Ptr(t[b], i) # 0
  BY ChildIs
<1> QED BY <1>3, <1>4, <1>5

\* The search goes down one child at a time, until the key or a leaf is met.
LEMMA LocationIs ==
    ASSUME NEW t, NEW H, NEW h, NEW R, Tree(t, H, h, R, {}), NEW k \in Int
    PROVE  \A b \in DOMAIN t :
              Location(t, b, k) = IF EntryOf(t[b], k) # {} \/ ChildFor(t[b], k) = 0 THEN b
                                  ELSE Location(t, ChildFor(t[b], k), k)
<1> DEFINE D == DOMAIN t
           ends(b) == EntryOf(t[b], k) # {} \/ ChildFor(t[b], k) = 0
           IsDown(g) == g = [b \in D |-> IF ends(b) THEN b ELSE g[ChildFor(t[b], k)]]
           down == CHOOSE g : IsDown(g)
<1>1. \A b \in D : Location(t, b, k) = down[b]
  BY Zenon DEF Location
<1>2. \A b \in D : ~ ends(b) =>
          /\ ChildFor(t[b], k) \in D /\ h[b] = h[ChildFor(t[b], k)] + 1
          /\ h[b] \in Nat /\ h[ChildFor(t[b], k)] \in Nat
  <2> SUFFICES ASSUME NEW b \in D, EntryOf(t[b], k) = {}, ChildFor(t[b], k) # 0
      PROVE  /\ ChildFor(t[b], k) \in D /\ h[b] = h[ChildFor(t[b], k)] + 1
             /\ h[b] \in Nat /\ h[ChildFor(t[b], k)] \in Nat
    BY Zenon
  <2>1. h[b] # 0 /\ \E i \in Slots(t[b]) : ChildFor(t[b], k) = Ptr(t[b], i)
    BY StepIs
  <2> QED BY <2>1, ChildIs
<1>3. H \in Nat /\ h \in [D -> 0 .. H]
  BY DEF Tree
<1> HIDE DEF D, ends
<1>4. \E g : IsDown(g)
  <2> DEFINE stop == {b \in D : ends(b)}
             base == [b \in D |-> b]
             next == [b \in D |-> ChildFor(t[b], k)]
             combine == [x \in D \X D |-> x[2]]
  <2>1. base \in [D -> D] /\ combine \in [D \X D -> D]
    OBVIOUS
  <2>2. ASSUME NEW b \in D \ stop PROVE next[b] \in D /\ h[next[b]] < h[b]
    BY <1>2
  <2> HIDE DEF stop, base, next, combine
  <2>3. PICK f \in [D -> D] : Solves(f, D, stop, base, next, combine)
    BY <1>3, <2>1, <2>2, SolutionExists
  <2>4. ASSUME NEW b \in D PROVE f[b] = IF ends(b) THEN b ELSE f[ChildFor(t[b], k)]
    <3>1. f[b] = IF b \in stop THEN base[b] ELSE combine[<<b, f[next[b]]>>]
      BY <2>3, Zenon DEF Solves
    <3>2. CASE ends(b)
      BY <3>1, <3>2 DEF stop, base
    <3>3. CASE ~ ends(b)
      <4>1. ChildFor(t[b], k) \in D /\ f[ChildFor(t[b], k)] \in D
        BY <1>2, <3>3
      <4> QED BY <3>1, <3>3, <4>1 DEF stop, next, combine
    <3> QED BY <3>2, <3>3
  <2>5. f = [b \in D |-> f[b]]
    OBVIOUS
  <2> QED BY <2>4, <2>5, Zenon
<1>5. IsDown(down)
  BY <1>4, Zenon
<1>6. \A b \in D : down[b] = IF ends(b) THEN b ELSE down[ChildFor(t[b], k)]
  <2> HIDE DEF down
  <2> QED BY <1>5, Zenon
<1> HIDE DEF down
<1>7. ASSUME NEW b \in D
      PROVE  Location(t, b, k) = IF ends(b) THEN b ELSE Location(t, ChildFor(t[b], k), k)
  BY <1>1, <1>2, <1>6, Zenon
<1> QED BY <1>7, Zenon DEF D, ends

\* The search from the root of a node comes by that node for the keys that lie from
\* it on.
LEMMA RouteIs ==
    ASSUME NEW t, NEW H, NEW h, NEW R, Tree(t, H, h, R, {}), NEW k \in Int,
           NEW b \in DOMAIN t, k \in R[b]
    PROVE  Location(t, FindRoot(t, b), k) = Location(t, b, k)
<1> DEFINE top(c) == FindRoot(t, c)
           bad == {c \in DOMAIN t : k \in R[c] /\ Location(t, top(c), k) # Location(t, c, k)}
<1>1. bad = {}
  <2> SUFFICES ASSUME bad # {} PROVE FALSE
    OBVIOUS
  <2>1. H \in Nat /\ \A c \in bad : h[c] \in 0 .. H
    BY DEF Tree
  <2> HIDE DEF bad
  <2>2. PICK c \in bad : \A d \in bad : h[d] <= h[c]
    BY <2>1, LowestOf
  <2>3. c \in DOMAIN t /\ k \in R[c] /\ Location(t, top(c), k) # Location(t, c, k)
    BY <2>2 DEF bad
  <2> DEFINE p == t[c].parent
  <2>4. top(c) = IF p = 0 THEN c ELSE top(p)
    BY <2>3, FindRootIs
  <2>5. p # 0 /\ top(c) = top(p)
    BY <2>3, <2>4
  <2> HIDE DEF top
  <2>6. /\ p \in DOMAIN t /\ h[p] # 0 /\ h[p] = h[c] + 1 /\ h[c] \in Nat
        /\ \E i \in Slots(t[p]) :
              Ptr(t[p], i) = c /\ \A x \in R[c] : x \in R[p] /\ Gap(t[p], i, x)
    <3>1. c \in DOMAIN t \ {}
      BY <2>3
    <3> QED BY <2>5, <3>1, ParentIs
  <2> HIDE DEF p
  <2>7. PICK i \in Slots(t[p]) : Ptr(t[p], i) = c /\ k \in R[p] /\ Gap(t[p], i, k)
    BY <2>3, <2>6
  <2>8. EntryOf(t[p], k) = {}
    <3>1. t[p] \in Node /\ Sorted(t[p])
      BY <2>6 DEF Tree, Typed, Fits
    <3> QED BY <2>7, <3>1, KeysAtIs
  <2>9. ChildFor(t[p], k) = c /\ ChildFor(t[p], k) # 0
    BY <2>6, <2>7, <2>8, StepIs
  <2>10. Location(t, p, k) = Location(t, c, k)
    BY <2>6, <2>8, <2>9, LocationIs
  <2>11. p \in bad
    BY <2>3, <2>5, <2>6, <2>7, <2>10 DEF bad
  <2>12. h[p] <= h[c]
    BY <2>2, <2>11
  <2> QED BY <2>6, <2>12
<1> QED BY <1>1

\* At a leaf the search ends.
LEMMA LeafIs ==
    ASSUME NEW t, NEW H, NEW h, NEW R, Tree(t, H, h, R, {}), NEW k \in Int,
           NEW b \in DOMAIN t, h[b] = 0
    PROVE  Location(t, b, k) = b
<1>1. EntryOf(t[b], k) = {} => ChildFor(t[b], k) = 0
  BY StepIs
<1> QED BY <1>1, LocationIs

\* As wide as can be: from a root all keys, from a child all keys of its gap.
Exact(t, h, R) ==
    \A b \in DOMAIN t :
        /\ t[b].parent = 0 => R[b] = Int
        /\ h[b] # 0 => \A i \in Slots(t[b]) :
                          \A x \in R[b] : Gap(t[b], i, x) => x \in R[Ptr(t[b], i)]

\* The ranges of a tree can be taken as wide as the keys around them allow.
LEMMA WidenIs ==
    ASSUME NEW t, NEW H, NEW h, NEW R, Tree(t, H, h, R, {})
    PROVE  \E W : /\ Tree(t, H, h, W, {}) /\ Exact(t, h, W)
                  /\ \A b \in DOMAIN t : R[b] \subseteq W[b]
<1> DEFINE D == DOMAIN t
           part(b) == {x \in Int : \E i \in Slots(t[t[b].parent]) :
                          Ptr(t[t[b].parent], i) = b /\ Gap(t[t[b].parent], i, x)}
           rank == [b \in D |-> H - h[b]]
           stop == {b \in D : t[b].parent = 0}
           base == [b \in D |-> Int]
           next == [b \in D |-> t[b].parent]
           combine == [z \in D \X SUBSET Int |-> z[2] \cap part(z[1])]
<1>1. H \in Nat /\ h \in [D -> 0 .. H] /\ R \in [D -> SUBSET Int]
  BY DEF Tree
<1>2. ASSUME NEW b \in D, t[b].parent # 0
      PROVE  /\ t[b].parent \in D /\ h[t[b].parent] # 0 /\ h[t[b].parent] = h[b] + 1
             /\ h[b] \in Nat /\ h[t[b].parent] \in 0 .. H
             /\ \A x \in R[b] : x \in R[t[b].parent] /\ x \in part(b)
  <2>1. b \in D \ {}
    OBVIOUS
  <2>2. /\ t[b].parent \in D /\ h[t[b].parent] # 0 /\ h[t[b].parent] = h[b] + 1
        /\ h[b] \in Nat /\ h[t[b].parent] \in 0 .. H
        /\ \E i \in Slots(t[t[b].parent]) :
              /\ Ptr(t[t[b].parent], i) = b
              /\ \A x \in R[b] : x \in Int /\ x \in R[t[b].parent] /\ Gap(t[t[b].parent], i, x)
    BY <1>2, <2>1, ParentIs
  <2> QED BY <2>2
<1>3. /\ rank \in [D -> 0 .. H] /\ base \in [D -> SUBSET Int]
      /\ combine \in [D \X SUBSET Int -> SUBSET Int]
  BY <1>1
<1>4. ASSUME NEW b \in D \ stop PROVE next[b] \in D /\ rank[next[b]] < rank[b]
  <2>1. t[b].parent \in D /\ h[t[b].parent] = h[b] + 1
    BY <1>2
  <2>2. h[b] \in 0 .. H /\ h[t[b].parent] \in 0 .. H
    BY <1>1, <2>1
  <2> QED BY <1>1, <2>1, <2>2
<1> HIDE DEF rank, stop, base, next, combine
<1>5. PICK W \in [D -> SUBSET Int] : Solves(W, D, stop, base, next, combine)
  BY <1>1, <1>3, <1>4, SolutionExists
<1>6. ASSUME NEW b \in D
      PROVE  W[b] = IF t[b].parent = 0 THEN Int ELSE W[t[b].parent] \cap part(b)
  <2>1. W[b] = IF b \in stop THEN base[b] ELSE combine[<<b, W[next[b]]>>]
    BY <1>5, Zenon DEF Solves
  <2>2. CASE t[b].parent = 0
    BY <2>1, <2>2 DEF stop, base
  <2>3. CASE t[b].parent # 0
    <3>1. t[b].parent \in D /\ W[t[b].parent] \in SUBSET Int
      BY <1>2, <2>3
    <3> HIDE DEF part
    <3>2. <<b, W[t[b].parent]>> \in D \X SUBSET Int
      BY <3>1
    <3> QED BY <2>1, <2>3, <3>1, <3>2 DEF stop, next, combine
  <2> QED BY <2>2, <2>3
<1> DEFINE bad == {b \in D : ~ (R[b] \subseteq W[b])}
<1>7. bad = {}
  <2> SUFFICES ASSUME bad # {} PROVE FALSE
    OBVIOUS
  <2>1. \A b \in bad : h[b] \in 0 .. H
    BY <1>1
  <2> HIDE DEF bad
  <2>2. PICK b \in bad : \A c \in bad : h[c] <= h[b]
    BY <1>1, <2>1, LowestOf
  <2>3. b \in D /\ ~ (R[b] \subseteq W[b])
    BY <2>2 DEF bad
  <2> HIDE DEF D, part
  <2>4. t[b].parent # 0 /\ W[b] = W[t[b].parent] \cap part(b)
    BY <1>1, <1>6, <2>3
  <2>5. ~ (R[t[b].parent] \subseteq W[t[b].parent])
    BY <1>2, <2>3, <2>4
  <2>6. t[b].parent \in bad
    BY <1>2, <2>3, <2>4, <2>5 DEF bad
  <2>7. h[t[b].parent] <= h[b] /\ h[t[b].parent] = h[b] + 1 /\ h[b] \in Nat
    BY <1>2, <2>2, <2>3, <2>4, <2>6
  <2> QED BY <2>7
<1>8. ASSUME NEW b \in D PROVE Fits(t, W, b)
  <2>1. Fits(t, R, b)
    BY DEF Tree
  <2> QED BY <1>7, <2>1 DEF Fits
<1>9. ASSUME NEW b \in D, h[b] # 0, NEW i \in Slots(t[b])
      PROVE  W[Ptr(t[b], i)] = {x \in W[b] : Gap(t[b], i, x)}
  <2> DEFINE c == Ptr(t[b], i)
  <2>1. c \in D /\ c # 0 /\ t[c].parent = b /\ \A j \in Slots(t[b]) : Ptr(t[b], j) = c => j = i
    BY <1>9, ChildIs
  <2> HIDE DEF c
  <2>2. W[c] = W[b] \cap part(c)
  <3>1. b # 0
    BY DEF Tree, Typed, Blocks
  <3> QED BY <1>6, <2>1, <3>1, Zenon
  <2>3. part(c) = {x \in Int : Gap(t[b], i, x)}
    BY <2>1 DEF c
  <2> QED BY <2>2, <2>3 DEF c
<1>10. ASSUME NEW b \in D PROVE Linked(t, h, W, b)
  <2>1. Linked(t, h, R, b)
    BY DEF Tree
  <2> SUFFICES ASSUME NEW i \in Slots(t[b]), h[b] # 0
      PROVE  \A x \in W[Ptr(t[b], i)] : x \in W[b] /\ Gap(t[b], i, x)
    BY <2>1, Zenon DEF Linked
  <2> QED BY <1>9
<1>11. Tree(t, H, h, W, {})
  BY <1>8, <1>10 DEF Tree
<1>12. Exact(t, h, W)
  <2>1. \A b \in D : t[b].parent = 0 => W[b] = Int
    BY <1>6, Zenon
  <2> QED BY <1>9, <2>1 DEF Exact
<1>13. \A b \in D : R[b] \subseteq W[b]
  BY <1>7
<1> QED BY <1>11, <1>12, <1>13

\* The search ends at the key or in a leaf, with the key among those that lie there.
LEMMA LocationFound ==
    ASSUME NEW t, NEW H, NEW h, NEW R, Tree(t, H, h, R, {}), Exact(t, h, R), NEW k \in Int,
           NEW b \in DOMAIN t, k \in R[b]
    PROVE  LET l == Location(t, b, k)
           IN  /\ l \in DOMAIN t /\ k \in R[l] /\ FindRoot(t, l) = FindRoot(t, b)
               /\ EntryOf(t[l], k) # {} \/ h[l] = 0
<1> DEFINE l(c) == Location(t, c, k)
           right(c) == /\ l(c) \in DOMAIN t /\ k \in R[l(c)] /\ FindRoot(t, l(c)) = FindRoot(t, c)
                       /\ EntryOf(t[l(c)], k) # {} \/ h[l(c)] = 0
           bad == {c \in DOMAIN t : k \in R[c] /\ ~ right(c)}
<1>1. bad = {}
  <2> SUFFICES ASSUME bad # {} PROVE FALSE
    OBVIOUS
  <2>1. H \in Nat /\ \A c \in bad : h[c] \in 0 .. H
    BY DEF Tree
  <2> HIDE DEF bad
  <2>2. PICK c \in bad : \A d \in bad : h[c] <= h[d]
    BY <2>1, LowestOf
  <2>3. c \in DOMAIN t /\ k \in R[c] /\ ~ right(c)
    BY <2>2 DEF bad
  <2>4. CASE EntryOf(t[c], k) # {} \/ ChildFor(t[c], k) = 0
    <3>1. l(c) = c
      BY <2>3, <2>4, LocationIs
    <3>2. EntryOf(t[c], k) # {} \/ h[c] = 0
      BY <2>3, <2>4, StepIs
    <3> QED BY <2>3, <3>1, <3>2, Zenon
  <2>5. CASE EntryOf(t[c], k) = {} /\ ChildFor(t[c], k) # 0
    <3> DEFINE d == ChildFor(t[c], k)
    <3>1. l(c) = l(d)
      BY <2>3, <2>5, LocationIs
    <3> HIDE DEF l
    <3>2. PICK i \in Slots(t[c]) : d = Ptr(t[c], i) /\ Gap(t[c], i, k) /\ h[c] # 0
      BY <2>3, <2>5, StepIs
    <3> HIDE DEF d
    <3>3. d \in DOMAIN t /\ t[d].parent = c /\ h[c] = h[d] + 1 /\ h[d] \in Nat
      BY <2>3, <3>2, ChildIs
    <3>4. k \in R[d]
      BY <2>3, <3>2 DEF Exact
    <3>5. FindRoot(t, d) = FindRoot(t, c)
      <4>1. c # 0
        BY <2>3 DEF Tree, Typed, Blocks
      <4> QED BY <3>3, <4>1, FindRootIs
    <3>6. ~ (h[c] <= h[d])
      BY <3>3
    <3>7. right(d)
      BY <2>2, <3>3, <3>4, <3>6, Zenon DEF bad
    <3> QED BY <2>3, <3>1, <3>5, <3>7, Zenon
  <2> QED BY <2>4, <2>5
<1> QED BY <1>1
---------------------------------------------------------------------------------
(* What is stored in a tree *)

\* The tree that y belongs to stores the record r for k.
Stores(t, y, k, r) ==
    \E x \in DOMAIN t : FindRoot(t, x) = FindRoot(t, y) /\ Holds(t[x], k, r)

\* Each tree of t is part of a tree of u that stores the same.
Keeps(t, u) ==
    \A y \in DOMAIN t :
        /\ \A k, r : Stores(u, y, k, r) <=> Stores(t, y, k, r)
        /\ \A x \in DOMAIN t :
              FindRoot(t, x) = FindRoot(t, y) => FindRoot(u, x) = FindRoot(u, y)

\* Keeping every pair, step after step.
LEMMA KeepsOn ==
    ASSUME NEW t, NEW u, NEW v, Keeps(t, u), Keeps(u, v), DOMAIN t \subseteq DOMAIN u
    PROVE  Keeps(t, v)
BY Zenon DEF Keeps

\* A set without a lower bound: the keys from a node of the left edge on.
Low(S) == \A m \in Int : \E y \in S : y < m

\* The part of a low range below a key is low.
LEMMA LowBelow ==
    ASSUME NEW S \in SUBSET Int, Low(S), NEW mid \in Int
    PROVE  Low({k \in S : k < mid})
<1> SUFFICES ASSUME NEW m \in Int PROVE \E y \in {k \in S : k < mid} : y < m
  BY DEF Low
<1>1. PICK y \in S : y < m
  BY DEF Low
<1>2. PICK z \in S : z < mid
  BY DEF Low
<1>3. y < mid \/ z < m
  BY <1>1, <1>2
<1> QED BY <1>1, <1>2, <1>3

\* A sorted node holds at most one record for a key, the one that RecordAt gives.
LEMMA RecordIs ==
    ASSUME NEW t, NEW b \in DOMAIN t, t[b] \in Node, Sorted(t[b]), NEW k
    PROVE  /\ EntryOf(t[b], k) = {} => RecordAt(t, b, k) = NoRecord
           /\ EntryOf(t[b], k) # {} => Holds(t[b], k, RecordAt(t, b, k))
           /\ \A r : Holds(t[b], k, r) =>
                /\ RecordAt(t, b, k) = r /\ r \in Records
                /\ EntryOf(t[b], k) # {} /\ k \in KeysAt(t[b]) /\ k \in Int
<1> DEFINE e == t[b].entries
           i == CHOOSE i \in EntryOf(t[b], k) : TRUE
<1>1. /\ DOMAIN e = 1 .. Size(t[b]) /\ Size(t[b]) \in Nat
      /\ \A j \in 1 .. Size(t[b]) :
            /\ e[j] \in [smaller : Blocks \cup {0}, key : Keys, record : Records]
            /\ Key(t[b], j) \in Int
  BY NodeHas
<1>2. \A j : j \in EntryOf(t[b], k) <=> j \in 1 .. Size(t[b]) /\ Key(t[b], j) = k
  BY <1>1, Zenon DEF EntryOf, Key
<1>3. EntryOf(t[b], k) = {} => RecordAt(t, b, k) = NoRecord
  BY Zenon DEF RecordAt
<1>4. EntryOf(t[b], k) # {} =>
          i \in EntryOf(t[b], k) /\ RecordAt(t, b, k) = Rec(t[b], i)
  BY Zenon DEF RecordAt, Rec
<1> HIDE DEF i
<1>5. EntryOf(t[b], k) # {} => Holds(t[b], k, RecordAt(t, b, k))
  BY <1>2, <1>4 DEF Holds
<1>6. ASSUME NEW r, Holds(t[b], k, r)
      PROVE  /\ RecordAt(t, b, k) = r /\ r \in Records
             /\ EntryOf(t[b], k) # {} /\ k \in KeysAt(t[b]) /\ k \in Int
  <2>1. PICK j \in 1 .. Size(t[b]) : Key(t[b], j) = k /\ Rec(t[b], j) = r
    BY <1>6 DEF Holds
  <2>2. j \in EntryOf(t[b], k) /\ k \in KeysAt(t[b]) /\ k \in Int
    BY <1>1, <1>2, <2>1 DEF KeysAt
  <2>3. r \in Records
    BY <1>1, <2>1 DEF Rec
  <2>4. i \in 1 .. Size(t[b]) /\ Key(t[b], i) = k
    BY <1>2, <1>4, <2>2
  <2>5. i = j
    <3>1. \A c, d \in 1 .. Size(t[b]) : c < d => Key(t[b], c) < Key(t[b], d)
      BY DEF Sorted
    <3>2. ~ (i < j) /\ ~ (j < i)
      BY <1>1, <2>1, <2>2, <2>4, <3>1
    <3> QED BY <2>4, <3>2
  <2> QED BY <1>4, <2>1, <2>2, <2>3, <2>5
<1> QED BY <1>3, <1>5, <1>6

\* The keys from a node on are among those from its root on.
LEMMA UpIs ==
    ASSUME NEW t, NEW H, NEW h, NEW R, Tree(t, H, h, R, {})
    PROVE  \A b \in DOMAIN t : R[b] \subseteq R[FindRoot(t, b)]
<1> DEFINE bad == {c \in DOMAIN t : ~ (R[c] \subseteq R[FindRoot(t, c)])}
<1>1. bad = {}
  <2> SUFFICES ASSUME bad # {} PROVE FALSE
    OBVIOUS
  <2>1. H \in Nat /\ \A c \in bad : h[c] \in 0 .. H
    BY DEF Tree
  <2> HIDE DEF bad
  <2>2. PICK c \in bad : \A d \in bad : h[d] <= h[c]
    BY <2>1, LowestOf
  <2>3. c \in DOMAIN t /\ ~ (R[c] \subseteq R[FindRoot(t, c)])
    BY <2>2 DEF bad
  <2> DEFINE p == t[c].parent
  <2>4. p # 0 /\ FindRoot(t, c) = FindRoot(t, p)
    BY <2>3, FindRootIs
  <2>5. p \in DOMAIN t /\ h[p] = h[c] + 1 /\ h[c] \in Nat /\ R[c] \subseteq R[p]
    <3>1. c \in DOMAIN t \ {}
      BY <2>3
    <3> QED BY <2>4, <3>1, ParentIs
  <2>6. p \in bad
    BY <2>3, <2>4, <2>5 DEF bad
  <2> HIDE DEF p
  <2>7. h[p] <= h[c]
    BY <2>2, <2>6
  <2> QED BY <2>5, <2>7
<1> QED BY <1>1

\* What is stored in a tree is what find finds from its root.
LEMMA FoundIs ==
    ASSUME NEW t, NEW H, NEW h, NEW R, Tree(t, H, h, R, {}),
           NEW b \in DOMAIN t, t[b].parent = 0, NEW k \in Int
    PROVE  /\ \A r : Stores(t, b, k, r) => Find(t, b, k) = r /\ r # NoRecord
           /\ Find(t, b, k) # NoRecord => Stores(t, b, k, Find(t, b, k))
<1>1. FindRoot(t, b) = b
  BY FindRootIs
<1>2. \A x \in DOMAIN t : t[x] \in Node /\ Sorted(t[x])
  BY DEF Tree, Typed, Fits
<1>3. ASSUME NEW r, Stores(t, b, k, r) PROVE Find(t, b, k) = r /\ r # NoRecord
  <2>1. PICK x \in DOMAIN t : FindRoot(t, x) = b /\ Holds(t[x], k, r)
    BY <1>1, <1>3 DEF Stores
  <2>2. /\ RecordAt(t, x, k) = r /\ r \in Records
        /\ EntryOf(t[x], k) # {} /\ k \in KeysAt(t[x])
    BY <1>2, <2>1, RecordIs
  <2>3. k \in R[x]
    BY <2>2 DEF Tree, Fits, KeysAt
  <2>4. Location(t, b, k) = x
    <3>1. Location(t, FindRoot(t, x), k) = Location(t, x, k)
      BY <2>3, RouteIs
    <3>2. Location(t, x, k) = x
      BY <2>2, LocationIs
    <3> QED BY <2>1, <3>1, <3>2
  <2> QED BY <2>2, <2>4, KeyAssumption DEF Find
<1>4. ASSUME Find(t, b, k) # NoRecord PROVE Stores(t, b, k, Find(t, b, k))
  <2>1. PICK W : Tree(t, H, h, W, {}) /\ Exact(t, h, W)
    BY WidenIs
  <2>2. k \in W[b]
    BY <2>1 DEF Exact
  <2> DEFINE l == Location(t, b, k)
  <2>3. l \in DOMAIN t /\ FindRoot(t, l) = FindRoot(t, b)
    BY <2>1, <2>2, LocationFound
  <2>4. Find(t, b, k) = RecordAt(t, l, k)
    BY DEF Find
  <2> HIDE DEF l
  <2>5. Holds(t[l], k, RecordAt(t, l, k))
    BY <1>2, <1>4, <2>3, <2>4, RecordIs
  <2> QED BY <2>3, <2>4, <2>5 DEF Stores
<1> QED BY <1>3, <1>4
---------------------------------------------------------------------------------
(* make_room *)

\* The path is the run of full nodes that ends in b, each the parent of the next.
LEMMA FullPathIs ==
    ASSUME NEW t, NEW H, NEW h, NEW R, Tree(t, H, h, R, {}), NEW l \in DOMAIN t
    PROVE  LET path == FullPath(t, l) IN
              /\ path \in Seq(DOMAIN t)
              /\ \A m \in 1 .. Len(path) : Size(t[path[m]]) = records_per_node
              /\ \A m \in 2 .. Len(path) : t[path[m]].parent = path[m - 1]
              /\ path # <<>> =>
                    /\ path[Len(path)] = l
                    /\ t[path[1]].parent # 0 =>
                          Size(t[t[path[1]].parent]) # records_per_node
              /\ path = <<>> => Size(t[l]) # records_per_node
<1> DEFINE D == DOMAIN t
           full(c) == Size(t[c]) = records_per_node
           rule(g, c) == IF ~ full(c) THEN <<>>
                         ELSE IF t[c].parent = 0 THEN <<c>> ELSE Append(g[t[c].parent], c)
           IsPath(g) == g = [c \in D |-> rule(g, c)]
           path == CHOOSE g : IsPath(g)
<1>1. \A c \in D : FullPath(t, c) = path[c]
  BY Zenon DEF FullPath, IsFull, Size
<1>2. \A b \in D : t[b].parent # 0 =>
          /\ t[b].parent \in D /\ h[t[b].parent] = h[b] + 1
          /\ h[b] \in Nat /\ h[t[b].parent] \in 0 .. H
  <2> SUFFICES ASSUME NEW b \in D, t[b].parent # 0
      PROVE  /\ t[b].parent \in D /\ h[t[b].parent] = h[b] + 1
             /\ h[b] \in Nat /\ h[t[b].parent] \in 0 .. H
    OBVIOUS
  <2>1. b \in D \ {}
    OBVIOUS
  <2> QED BY <2>1, ParentIs
<1>3. H \in Nat /\ h \in [D -> 0 .. H] /\ l \in D
  BY DEF Tree
<1> HIDE DEF D, full
<1>4. \E g : IsPath(g)
  <2> DEFINE rank == [b \in D |-> H - h[b]]
             stop == {b \in D : ~ full(b) \/ t[b].parent = 0}
             base == [b \in D |-> IF full(b) THEN <<b>> ELSE <<>>]
             next == [b \in D |-> t[b].parent]
             combine == [x \in D \X Seq(D) |-> Append(x[2], x[1])]
  <2>1. rank \in [D -> 0 .. H] /\ base \in [D -> Seq(D)] /\ combine \in [D \X Seq(D) -> Seq(D)]
    <3>1. rank \in [D -> 0 .. H]
      BY <1>3
    <3>2. base \in [D -> Seq(D)]
      OBVIOUS
    <3>3. combine \in [D \X Seq(D) -> Seq(D)]
      OBVIOUS
    <3> QED BY <3>1, <3>2, <3>3
  <2>2. ASSUME NEW b \in D \ stop PROVE next[b] \in D /\ rank[next[b]] < rank[b]
    <3>1. t[b].parent \in D /\ h[t[b].parent] = h[b] + 1
      BY <1>2
    <3>2. h[b] \in 0 .. H /\ h[t[b].parent] \in 0 .. H
      BY <1>3, <3>1
    <3> QED BY <1>3, <3>1, <3>2
  <2> HIDE DEF rank, stop, base, next, combine
  <2>3. PICK f \in [D -> Seq(D)] : Solves(f, D, stop, base, next, combine)
    BY <1>3, <2>1, <2>2, SolutionExists
  <2>4. ASSUME NEW b \in D PROVE f[b] = rule(f, b)
    <3>1. f[b] = IF b \in stop THEN base[b] ELSE combine[<<b, f[next[b]]>>]
      BY <2>3, Zenon DEF Solves
    <3>2. CASE b \in stop
      BY <3>1, <3>2 DEF stop, base
    <3>3. CASE full(b) /\ t[b].parent # 0
      <4>1. t[b].parent \in D /\ f[t[b].parent] \in Seq(D)
        BY <1>2, <3>3
      <4>2. <<b, f[t[b].parent]>> \in D \X Seq(D)
        BY <4>1
      <4> QED BY <3>1, <3>3, <4>1, <4>2 DEF stop, next, combine
    <3> QED BY <3>2, <3>3 DEF stop
  <2> HIDE DEF rule
  <2>5. f = [b \in D |-> f[b]]
    OBVIOUS
  <2> QED BY <2>4, <2>5, Zenon
<1>5. IsPath(path)
  BY <1>4, Zenon
<1>6. \A c \in D : path[c] = rule(path, c)
  <2> HIDE DEF path, rule
  <2> QED BY <1>5, Zenon
<1> HIDE DEF path
<1> DEFINE good(b) == /\ path[b] \in Seq(D)
                      /\ \A m \in 1 .. Len(path[b]) : full(path[b][m])
                      /\ \A m \in 2 .. Len(path[b]) : t[path[b][m]].parent = path[b][m - 1]
                      /\ path[b] # <<>> =>
                            /\ path[b][Len(path[b])] = b
                            /\ t[path[b][1]].parent # 0 => ~ full(t[path[b][1]].parent)
                      /\ path[b] = <<>> => ~ full(b)
           bad == {b \in D : ~ good(b)}
<1>7. bad = {}
  <2> SUFFICES ASSUME bad # {} PROVE FALSE
    OBVIOUS
  <2>1. \A b \in bad : h[b] \in 0 .. H
    BY <1>3
  <2> HIDE DEF bad
  <2>2. PICK b \in bad : \A c \in bad : h[c] <= h[b]
    BY <1>3, <2>1, LowestOf
  <2>3. b \in D /\ ~ good(b)
    BY <2>2 DEF bad
  <2>4. CASE ~ full(b)
    <3>1. path[b] = <<>>
      BY <1>6, <2>3, <2>4
    <3> QED BY <2>3, <2>4, <3>1
  <2>5. CASE full(b) /\ t[b].parent = 0
    <3>1. path[b] = <<b>>
      BY <1>6, <2>3, <2>5
    <3>2. good(b)
      BY <2>3, <2>5, <3>1
    <3> QED BY <2>3, <3>2
  <2>6. CASE full(b) /\ t[b].parent # 0
    <3> DEFINE p == t[b].parent
               q == path[p]
               n == Len(q)
    <3>1. path[b] = Append(q, b)
      BY <1>6, <2>3, <2>6
    <3>2. p \in D /\ h[p] = h[b] + 1 /\ h[b] \in Nat
      BY <1>2, <2>3, <2>6
    <3>3. good(p)
      <4>1. ~ (h[p] <= h[b])
        BY <3>2
      <4> QED BY <2>2, <3>2, <4>1 DEF bad
    <3>4. /\ q \in Seq(D) /\ n \in Nat /\ \A m \in 1 .. n : full(q[m])
          /\ \A m \in 2 .. n : t[q[m]].parent = q[m - 1]
          /\ q # <<>> => q[n] = p /\ (t[q[1]].parent # 0 => ~ full(t[q[1]].parent))
          /\ q = <<>> => ~ full(p)
      BY <3>3
    <3>5. /\ path[b] \in Seq(D) /\ Len(path[b]) = n + 1 /\ path[b][n + 1] = b
          /\ \A m \in 1 .. n : path[b][m] = q[m]
      <4>1. n = Len(q)
        OBVIOUS
      <4> HIDE DEF q, n
      <4>2. /\ Append(q, b) \in Seq(D) /\ Len(Append(q, b)) = Len(q) + 1
            /\ \A m \in 1 .. Len(q) : Append(q, b)[m] = q[m]
            /\ Append(q, b)[Len(q) + 1] = b
        BY <2>3, <3>4, AppendProperties
      <4> QED BY <3>1, <4>1, <4>2
    <3>6. (q = <<>> <=> n = 0) /\ p = t[b].parent
      BY <3>4
    <3> HIDE DEF p, q, n
    <3>7. ASSUME NEW m \in 1 .. n + 1 PROVE full(path[b][m])
      BY <2>6, <3>4, <3>5
    <3>8. ASSUME NEW m \in 2 .. n + 1 PROVE t[path[b][m]].parent = path[b][m - 1]
      <4>1. CASE m = n + 1
        <5>1. n # 0 /\ n \in 1 .. n /\ m - 1 = n
          BY <3>4, <4>1
        <5> QED BY <3>4, <3>5, <3>6, <4>1, <5>1
      <4>2. CASE m # n + 1
        <5>1. m \in 2 .. n /\ m \in 1 .. n /\ m - 1 \in 1 .. n
          BY <3>4, <4>2
        <5> QED BY <3>4, <3>5, <5>1
      <4> QED BY <4>1, <4>2
    <3>9. t[path[b][1]].parent # 0 => ~ full(t[path[b][1]].parent)
      <4>1. CASE n = 0
        BY <3>4, <3>5, <3>6, <4>1
      <4>2. CASE n # 0
        <5>1. 1 \in 1 .. n
          BY <3>4, <4>2
        <5> QED BY <3>4, <3>5, <3>6, <4>2, <5>1
      <4> QED BY <4>1, <4>2
    <3>10. path[b] # <<>>
      BY <3>4, <3>5
    <3> QED BY <2>3, <3>5, <3>7, <3>8, <3>9, <3>10
  <2> QED BY <2>4, <2>5, <2>6
<1>8. good(l)
  BY <1>3, <1>7
<1>9. FullPath(t, l) = path[l]
  BY <1>1, <1>3
<1> QED BY <1>8, <1>9, Zenon DEF full, D

\* The splits on the way up, one after the other.
LEMMA MakeRoomIs ==
    ASSUME NEW t, NEW path, NEW new, NEW n \in Nat
    PROVE  /\ MakeRoom(t, path, new, 0) = t
           /\ MakeRoom(t, path, new, n + 1)
              = Split(MakeRoom(t, path, new, n), path[n + 1], new + BlocksFor(t, path, n))
<1> DEFINE rule(f, j) == IF j = 0 THEN t
                         ELSE Split(f[j - 1], path[j], new + BlocksFor(t, path, j - 1))
           Is(f, i) == f = [j \in 0 .. i |-> rule(f, j)]
           after(i) == CHOOSE f : Is(f, i)
<1>1. \A i : MakeRoom(t, path, new, i) = after(i)[i]
  BY Zenon DEF MakeRoom
<1>2. ASSUME NEW i \in Nat, NEW f, Is(f, i), NEW j \in 0 .. i PROVE f[j] = rule(f, j)
  <2> HIDE DEF rule
  <2> QED BY <1>2, Zenon
<1>3. ASSUME NEW i \in Nat, NEW f, Is(f, i) PROVE \E g : Is(g, i + 1)
  <2> DEFINE g == [j \in 0 .. i + 1 |-> IF j = i + 1 THEN rule(f, i + 1) ELSE f[j]]
  <2>1. \A j \in 0 .. i : g[j] = f[j]
    <3> HIDE DEF rule
    <3> QED OBVIOUS
  <2>2. g[i + 1] = rule(f, i + 1)
    <3> HIDE DEF rule
    <3> QED OBVIOUS
  <2>3. g = [j \in 0 .. i + 1 |-> g[j]]
    <3> HIDE DEF rule
    <3> QED OBVIOUS
  <2> HIDE DEF g
  <2>4. ASSUME NEW j \in 0 .. i + 1 PROVE g[j] = rule(g, j)
    <3>1. \A x \in 1 .. i + 1 : x - 1 \in 0 .. i /\ x # 0
      OBVIOUS
    <3>2. CASE j = i + 1
      <4>1. j \in 1 .. i + 1
        BY <3>2
      <4>2. rule(f, j) = rule(g, j)
        BY <2>1, <3>1, <4>1, Zenon
      <4> QED BY <2>2, <3>2, <4>2, Zenon
    <3>3. CASE j \in 0 .. i
      <4>1. g[j] = rule(f, j)
        <5> HIDE DEF rule, Is
        <5> QED BY <1>2, <1>3, <2>1, <3>3
      <4>2. j # 0 => j \in 1 .. i + 1
        BY <3>3
      <4>3. rule(f, j) = rule(g, j)
        BY <2>1, <3>1, <4>2, Zenon
      <4> QED BY <4>1, <4>3, Zenon
    <3> QED BY <3>2, <3>3
  <2>5. Is(g, i + 1)
    <3> HIDE DEF rule
    <3> QED BY <2>3, <2>4, Zenon
  <2> QED BY <2>5, Zenon
<1>4. ASSUME NEW i \in Nat, NEW f, Is(f, i), NEW g, Is(g, i + 1), NEW j \in 0 .. i
      PROVE  f[j] = g[j]
  <2> DEFINE bad == {x \in 0 .. i : f[x] # g[x]}
  <2>1. bad = {}
    <3> SUFFICES ASSUME bad # {} PROVE FALSE
      OBVIOUS
    <3>1. bad \in SUBSET Nat
      OBVIOUS
    <3>2. PICK x \in bad : \A y \in bad : x <= y
      <4> HIDE DEF bad
      <4> QED BY <3>1, LeastNumber
    <3>3. x \in 0 .. i /\ x \in 0 .. i + 1 /\ f[x] # g[x] /\ i + 1 \in Nat
      BY <3>2
    <3>4. f[x] = rule(f, x) /\ g[x] = rule(g, x)
      <4> HIDE DEF rule, Is, bad
      <4> QED BY <1>2, <1>4, <3>3
    <3>5. CASE x = 0
      BY <3>3, <3>4, <3>5, Zenon
    <3>6. CASE x # 0
      <4>1. x - 1 \in 0 .. i /\ ~ (x <= x - 1)
        BY <3>3, <3>6
      <4>2. x - 1 \notin bad
        <5> HIDE DEF bad
        <5> QED BY <3>2, <4>1
      <4>3. f[x - 1] = g[x - 1]
        BY <4>1, <4>2, Zenon
      <4> QED BY <3>3, <3>4, <4>3, Zenon
    <3> QED BY <3>5, <3>6
  <2> QED BY <2>1, Zenon
<1>5. \E f : Is(f, 0)
  <2> DEFINE f == [j \in 0 .. 0 |-> t]
  <2>1. \A j \in 0 .. 0 : rule(f, j) = t
    <3>1. \A j \in 0 .. 0 : j = 0
      OBVIOUS
    <3> QED BY <3>1, Zenon
  <2>2. Is(f, 0)
    <3> HIDE DEF rule
    <3> QED BY <2>1, Zenon
  <2> QED BY <2>2, Zenon
<1> DEFINE none == {i \in Nat : ~ \E f : Is(f, i)}
<1> HIDE DEF Is
<1>6. none = {}
  <2> SUFFICES ASSUME none # {} PROVE FALSE
    OBVIOUS
  <2>1. none \in SUBSET Nat
    OBVIOUS
  <2>2. PICK i \in none : \A x \in none : i <= x
    <3> HIDE DEF none
    <3> QED BY <2>1, LeastNumber
  <2>3. i \in Nat /\ ~ \E f : Is(f, i)
    BY <2>2, Zenon
  <2>4. i # 0
    BY <1>5, <2>3, Zenon
  <2>5. i - 1 \in Nat /\ ~ (i <= i - 1) /\ (i - 1) + 1 = i
    BY <2>3, <2>4
  <2>6. \E f : Is(f, i - 1)
    <3>1. i - 1 \notin none
      <4> HIDE DEF none
      <4> QED BY <2>2, <2>5
    <3> QED BY <2>5, <3>1, Zenon
  <2>7. \E g : Is(g, (i - 1) + 1)
    BY <1>3, <2>5, <2>6, Zenon
  <2> QED BY <2>3, <2>5, <2>7
<1>7. \A i \in Nat : Is(after(i), i)
  BY <1>6, Zenon
<1> HIDE DEF after
<1>8. after(0)[0] = t
  <2>1. 0 \in Nat /\ 0 \in 0 .. 0
    OBVIOUS
  <2> QED BY <1>2, <1>7, <2>1, Zenon
<1>9. after(n + 1)[n + 1] = Split(after(n)[n], path[n + 1], new + BlocksFor(t, path, n))
  <2>1. n + 1 \in Nat /\ n + 1 \in 0 .. n + 1 /\ n \in 0 .. n /\ n + 1 # 0 /\ (n + 1) - 1 = n
    OBVIOUS
  <2>2. after(n + 1)[n + 1] = rule(after(n + 1), n + 1)
    <3> HIDE DEF rule
    <3> QED BY <1>2, <1>7, <2>1
  <2>3. rule(after(n + 1), n + 1)
        = Split(after(n + 1)[(n + 1) - 1], path[n + 1], new + BlocksFor(t, path, (n + 1) - 1))
    BY <2>1, Zenon
  <2>4. after(n)[n] = after(n + 1)[n]
    <3> HIDE DEF rule
    <3> QED BY <1>4, <1>7, <2>1
  <2> QED BY <2>1, <2>2, <2>3, <2>4, Zenon
<1> QED BY <1>1, <1>8, <1>9, Zenon
---------------------------------------------------------------------------------
(* Splitting keeps the trees *)

\* After split_node: the heights, and the keys from a node on.
SplitHeights(t, h, b, new) ==
    [x \in DOMAIN t \cup {new} |-> IF x = new THEN h[b] ELSE h[x]]
SplitRanges(t, R, b, new) ==
    [x \in DOMAIN t \cup {new} |->
        IF x = new THEN {k \in R[b] : Middle(t, b).key < k}
        ELSE IF x = b THEN {k \in R[b] : k < Middle(t, b).key} ELSE R[x]]

\* What u is after b gave its upper half to new: nothing is loose but the nodes of
\* that set, and the entries have changed in b and new and in the nodes of touched.
Halves(t, H, h, R, b, new, u, loose, touched) ==
    /\ Tree(u, H, SplitHeights(t, h, b, new), SplitRanges(t, R, b, new), loose)
    /\ Middle(t, b).key \in R[b] /\ Middle(t, b).key \in Int
    /\ Middle(t, b).key \in KeysAt(t[b])
    /\ KeysAt(u[b]) \subseteq KeysAt(t[b]) /\ KeysAt(u[new]) \subseteq KeysAt(t[b])
    /\ DOMAIN u = DOMAIN t \cup {new}
    /\ Size(u[b]) # records_per_node /\ Size(u[new]) # records_per_node
    /\ u[b].parent = t[b].parent /\ u[new].parent = t[b].parent
    /\ \A x \in DOMAIN t \ ({b} \cup touched) : Same(u[x], t[x])
    /\ \A x \in DOMAIN t : \/ u[x].parent = t[x].parent
                           \/ t[x].parent = b /\ u[x].parent = new /\ x # b
    /\ Parted(t, b, new, u, touched)

\* split_node leaves one node that its parent does not point to, the new one.
LEMMA SplitKeepsTree ==
    ASSUME NEW t, NEW H, NEW h, NEW R, Tree(t, H, h, R, {}),
           NEW b \in DOMAIN t, NEW new \in Blocks \ DOMAIN t, Size(t[b]) = records_per_node
    PROVE  Halves(t, H, h, R, b, new, SplitNode(t, b, new), {new}, {})
<1> DEFINE n == records_per_node
           m == middle_
           D == DOMAIN t
           mid == Middle(t, b).key
           moved == Moved(t, b)
           u == SplitNode(t, b, new)
           g == SplitHeights(t, h, b, new)
           S == SplitRanges(t, R, b, new)
<1>1. m \in 2 .. n - 1 /\ n \in Nat
  BY MiddleIs
<1>2. /\ Typed(t) /\ H \in Nat /\ h \in [D -> 0 .. H] /\ R \in [D -> SUBSET Int]
      /\ \A x \in D : Fits(t, R, x) /\ Linked(t, h, R, x) /\ Owned(t, h, x)
      /\ D \subseteq Blocks /\ 0 \notin Blocks /\ Size(t[b]) = n /\ new \notin D /\ new \in Blocks
      /\ b # new /\ new # 0 /\ b # 0
  BY DEF Tree, Typed, Blocks
<1>3. /\ Typed(u) /\ DOMAIN u = D \cup {new}
      /\ Size(u[b]) = m /\ Size(u[new]) = n - m - 1
      /\ \A i \in 1 .. m : Key(u[b], i) = Key(t[b], i)
      /\ \A i \in 1 .. m + 1 : Ptr(u[b], i) = Ptr(t[b], i)
      /\ \A i \in 1 .. n - m - 1 : Key(u[new], i) = Key(t[b], i + m + 1)
      /\ \A i \in 1 .. n - m : Ptr(u[new], i) = Ptr(t[b], i + m + 1)
      /\ \A x \in D \ {b} : Same(u[x], t[x])
      /\ \A x \in DOMAIN u : u[x].parent = IF x \in moved THEN new
                                           ELSE IF x = new THEN t[b].parent ELSE t[x].parent
  <2>1. Typed(t) /\ Size(t[b]) = records_per_node
    BY <1>2
  <2>2. SplitLeaves(t, b, new, u)
    BY <2>1, SplitNodeIs
  <2> HIDE DEF u
  <2> QED BY <2>2, Zenon DEF SplitLeaves, n, m, moved, D
<1>4. g = [x \in D \cup {new} |-> IF x = new THEN h[b] ELSE h[x]]
  BY DEF SplitHeights
<1>5. S = [x \in D \cup {new} |->
             IF x = new THEN {k \in R[b] : mid < k}
             ELSE IF x = b THEN {k \in R[b] : k < mid} ELSE R[x]]
  BY DEF SplitRanges
<1>6. /\ \A i \in 1 .. n : Key(t[b], i) \in R[b] /\ Key(t[b], i) \in Int
      /\ \A i, j \in 1 .. n : i < j => Key(t[b], i) < Key(t[b], j)
      /\ mid = Key(t[b], m + 1) /\ m + 1 \in 1 .. n
  <2>1. m + 1 \in 1 .. n
    BY <1>1
  <2>2. mid = Key(t[b], m + 1)
    BY DEF Middle, Key
  <2> QED BY <1>2, <2>1, <2>2 DEF Fits, Sorted
<1> HIDE DEF n, m, mid, u, g, S, moved
<1>7. /\ Slots(t[b]) = 1 .. n + 1 /\ Slots(u[b]) = 1 .. m + 1 /\ Slots(u[new]) = 1 .. n - m
  BY <1>1, <1>2, <1>3 DEF Slots
<1>8. /\ g \in [DOMAIN u -> 0 .. H] /\ g[new] = h[b] /\ \A x \in D : g[x] = h[x]
  BY <1>2, <1>3, <1>4
<1>9. /\ S \in [DOMAIN u -> SUBSET Int] /\ S[new] = {k \in R[b] : mid < k}
      /\ S[b] = {k \in R[b] : k < mid} /\ \A x \in D \ {b} : S[x] = R[x]
      /\ \A x \in D : S[x] \subseteq R[x]
  <2>1. S \in [DOMAIN u -> SUBSET Int]
    BY <1>2, <1>3, <1>5
  <2>2. S[new] = {k \in R[b] : mid < k}
    BY <1>5
  <2>3. S[b] = {k \in R[b] : k < mid}
    BY <1>2, <1>5
  <2>4. \A x \in D \ {b} : S[x] = R[x]
    BY <1>2, <1>5
  <2> QED BY <2>1, <2>2, <2>3, <2>4
\* The children of b.
<1>10. ASSUME NEW i \in 1 .. n + 1, h[b] # 0
       PROVE  /\ Ptr(t[b], i) \in D /\ Ptr(t[b], i) # 0 /\ Ptr(t[b], i) # b
              /\ t[Ptr(t[b], i)].parent = b
              /\ h[b] = h[Ptr(t[b], i)] + 1
              /\ \A x \in R[Ptr(t[b], i)] : x \in Int /\ x \in R[b] /\ Gap(t[b], i, x)
              /\ \A j \in 1 .. n + 1 : Ptr(t[b], j) = Ptr(t[b], i) => j = i
              /\ Ptr(t[b], i) \in moved <=> i > m + 1
  <2>1. /\ Ptr(t[b], i) \in D /\ Ptr(t[b], i) # 0
        /\ t[Ptr(t[b], i)].parent = b
        /\ h[b] = h[Ptr(t[b], i)] + 1 /\ h[b] \in Nat /\ h[Ptr(t[b], i)] \in Nat
        /\ \A x \in R[Ptr(t[b], i)] : x \in Int /\ x \in R[b] /\ Gap(t[b], i, x)
        /\ \A j \in Slots(t[b]) : Ptr(t[b], j) = Ptr(t[b], i) => j = i
    <3>1. i \in Slots(t[b])
      BY <1>7
    <3> QED BY <1>10, <3>1, ChildIs
  <2>2. Ptr(t[b], i) # b
    BY <2>1
  <2>3. Ptr(t[b], i) \in moved <=> i > m + 1
    BY <1>1, <1>7, <2>1 DEF moved, Moved, m, n
  <2> QED BY <1>7, <2>1, <2>2, <2>3
<1>11. ASSUME NEW i \in 1 .. n + 1, h[b] = 0 PROVE Ptr(t[b], i) = 0
  BY <1>2, <1>7, <1>11 DEF Linked
<1>12. ASSUME NEW x \in D, x \in moved PROVE h[b] # 0 /\ t[x].parent = b /\ x # b
  <2>1. PICK i \in m + 2 .. n + 1 : x = Ptr(t[b], i) /\ x # 0
    BY <1>12 DEF moved, Moved, m, n
  <2>2. i \in 1 .. n + 1
    BY <1>1
  <2> QED BY <1>10, <1>11, <2>1, <2>2
<1>13. ASSUME NEW x \in DOMAIN u PROVE Fits(u, S, x)
  <2>1. CASE x = b
    <3>1. \A i \in 1 .. m : i \in 1 .. n /\ i < m + 1
      BY <1>1
    <3>2. \A i \in 1 .. m : Key(u[b], i) \in S[b]
      BY <1>3, <1>6, <1>9, <3>1
    <3>3. Sorted(u[b])
      BY <1>3, <1>6, <3>1 DEF Sorted
    <3> QED BY <1>1, <1>3, <2>1, <3>2, <3>3 DEF Fits, n
  <2>2. CASE x = new
    <3>1. \A i \in 1 .. n - m - 1 : i + m + 1 \in 1 .. n /\ m + 1 < i + m + 1
      BY <1>1
    <3>2. \A i \in 1 .. n - m - 1 : Key(u[new], i) \in S[new]
      BY <1>3, <1>6, <1>9, <3>1
    <3>3. \A i, j \in 1 .. n - m - 1 : i < j => i + m + 1 < j + m + 1
      BY <1>1
    <3>4. Sorted(u[new])
      BY <1>3, <1>6, <3>1, <3>3 DEF Sorted
    <3>5. n - m - 1 <= n
      BY <1>1
    <3> QED BY <1>3, <2>2, <3>2, <3>4, <3>5 DEF Fits, n
  <2>3. CASE x \in D \ {b}
    <3>1. Same(u[x], t[x]) /\ S[x] = R[x] /\ Fits(t, R, x)
      BY <1>2, <1>3, <1>9, <2>3
    <3>2. Size(u[x]) = Size(t[x]) /\ \A i : Key(u[x], i) = Key(t[x], i)
      BY <3>1, SameHas
    <3>3. Sorted(u[x]) <=> Sorted(t[x])
      BY <3>1, SameHas, Zenon
    <3> QED BY <3>1, <3>2, <3>3 DEF Fits
  <2> QED BY <1>3, <2>1, <2>2, <2>3
<1>14. Linked(u, g, S, b)
  <2> SUFFICES ASSUME NEW i \in 1 .. m + 1
      PROVE  IF g[b] = 0 THEN Ptr(u[b], i) = 0
             ELSE /\ Ptr(u[b], i) \in DOMAIN u
                  /\ u[Ptr(u[b], i)].parent = b
                  /\ g[b] = g[Ptr(u[b], i)] + 1
                  /\ \A x \in S[Ptr(u[b], i)] : x \in S[b] /\ Gap(u[b], i, x)
                  /\ \A j \in Slots(u[b]) : Ptr(u[b], j) = Ptr(u[b], i) => j = i
    BY <1>7 DEF Linked
  <2> DEFINE c == Ptr(t[b], i)
  <2>1. i \in 1 .. n + 1 /\ Ptr(u[b], i) = c /\ ~ (i > m + 1)
    BY <1>1, <1>3
  <2>2. CASE h[b] = 0
    BY <1>8, <1>11, <2>1, <2>2
  <2>3. CASE h[b] # 0
    <3>1. /\ c \in D /\ c # 0 /\ c # b /\ t[c].parent = b /\ h[b] = h[c] + 1 /\ c \notin moved
          /\ \A x \in R[c] : x \in Int /\ x \in R[b] /\ Gap(t[b], i, x)
          /\ \A j \in 1 .. n + 1 : Ptr(t[b], j) = c => j = i
      BY <1>10, <2>1, <2>3
    <3> HIDE DEF c
    <3>2. u[c].parent = b /\ g[b] = g[c] + 1 /\ S[c] = R[c] /\ c # new
      BY <1>2, <1>3, <1>8, <1>9, <3>1
    <3>3. ASSUME NEW x \in S[c] PROVE x \in S[b] /\ Gap(u[b], i, x)
      <4>1. x \in Int /\ x \in R[b] /\ (i > 1 => Key(t[b], i - 1) < x)
            /\ (i <= n => x < Key(t[b], i))
        BY <1>2, <3>1, <3>2, <3>3 DEF Gap
      <4>2. i <= n /\ i \in 1 .. n /\ (i = m + 1 \/ i < m + 1)
        BY <1>1
      <4>3. x < mid
        BY <1>6, <4>1, <4>2
      <4>4. i > 1 => i - 1 \in 1 .. m
        BY <1>1
      <4>5. i <= m => i \in 1 .. m
        BY <1>1
      <4>6. Gap(u[b], i, x)
        BY <1>3, <4>1, <4>2, <4>4, <4>5 DEF Gap
      <4> QED BY <1>9, <4>1, <4>3, <4>6
    <3>4. \A j \in 1 .. m + 1 : Ptr(u[b], j) = c => j = i
      <4>1. \A j \in 1 .. m + 1 : j \in 1 .. n + 1
        BY <1>1
      <4> QED BY <1>3, <3>1, <4>1
    <3>5. g[b] # 0
      BY <1>2, <1>8, <2>3
    <3> QED BY <1>3, <1>7, <2>1, <3>1, <3>2, <3>3, <3>4, <3>5
  <2> QED BY <2>2, <2>3
<1>15. Linked(u, g, S, new)
  <2> SUFFICES ASSUME NEW i \in 1 .. n - m
      PROVE  IF g[new] = 0 THEN Ptr(u[new], i) = 0
             ELSE /\ Ptr(u[new], i) \in DOMAIN u
                  /\ u[Ptr(u[new], i)].parent = new
                  /\ g[new] = g[Ptr(u[new], i)] + 1
                  /\ \A x \in S[Ptr(u[new], i)] : x \in S[new] /\ Gap(u[new], i, x)
                  /\ \A j \in Slots(u[new]) : Ptr(u[new], j) = Ptr(u[new], i) => j = i
    BY <1>7 DEF Linked
  <2> DEFINE d == i + m + 1
             c == Ptr(t[b], d)
  <2>1. d \in 1 .. n + 1 /\ Ptr(u[new], i) = c /\ d > m + 1
    BY <1>1, <1>3
  <2>2. CASE h[b] = 0
    <3> HIDE DEF d
    <3> QED BY <1>8, <1>11, <2>1, <2>2
  <2>3. CASE h[b] # 0
    <3>1. /\ c \in D /\ c # 0 /\ c # b /\ t[c].parent = b /\ h[b] = h[c] + 1 /\ c \in moved
          /\ \A x \in R[c] : x \in Int /\ x \in R[b] /\ Gap(t[b], d, x)
          /\ \A j \in 1 .. n + 1 : Ptr(t[b], j) = c => j = d
      <4> HIDE DEF d
      <4> QED BY <1>10, <2>1, <2>3
    <3> HIDE DEF c
    <3>2. u[c].parent = new /\ g[new] = g[c] + 1 /\ S[c] = R[c] /\ c # new
      BY <1>2, <1>3, <1>8, <1>9, <3>1
    <3>3. ASSUME NEW x \in S[c] PROVE x \in S[new] /\ Gap(u[new], i, x)
      <4>1. x \in Int /\ x \in R[b] /\ (d > 1 => Key(t[b], d - 1) < x)
            /\ (d <= n => x < Key(t[b], d))
        BY <1>2, <3>1, <3>2, <3>3 DEF Gap
      <4>2. d > 1 /\ d - 1 \in 1 .. n /\ (d - 1 = m + 1 \/ m + 1 < d - 1)
        BY <1>1
      <4>3. mid < x
        BY <1>6, <4>1, <4>2
      <4>4. i > 1 => i - 1 \in 1 .. n - m - 1 /\ (i - 1) + m + 1 = d - 1
        BY <1>1
      <4>5. i <= n - m - 1 => i \in 1 .. n - m - 1 /\ d <= n
        BY <1>1
      <4>6. i > 1 => Key(u[new], i - 1) < x
        BY <1>3, <4>1, <4>2, <4>4
      <4>7. i <= n - m - 1 => x < Key(u[new], i)
        BY <1>3, <4>1, <4>5
      <4>8. Gap(u[new], i, x)
        BY <1>3, <4>6, <4>7 DEF Gap
      <4> QED BY <1>9, <4>1, <4>3, <4>8
    <3>4. \A j \in 1 .. n - m : Ptr(u[new], j) = c => j = i
      <4>1. \A j \in 1 .. n - m : j + m + 1 \in 1 .. n + 1 /\ (j + m + 1 = d => j = i)
        BY <1>1
      <4> QED BY <1>3, <3>1, <4>1
    <3>5. g[new] # 0
      BY <1>2, <1>8, <2>3
    <3> QED BY <1>3, <1>7, <2>1, <3>1, <3>2, <3>3, <3>4, <3>5
  <2> QED BY <2>2, <2>3
<1>16. ASSUME NEW y \in D \ {b} PROVE Linked(u, g, S, y)
  <2>1. /\ Size(u[y]) = Size(t[y]) /\ Slots(u[y]) = Slots(t[y])
        /\ \A i : Ptr(u[y], i) = Ptr(t[y], i) /\ \A x : Gap(u[y], i, x) <=> Gap(t[y], i, x)
    <3>1. Same(u[y], t[y])
      BY <1>3
    <3> QED BY <3>1, SameHas
  <2> SUFFICES ASSUME NEW i \in Slots(t[y])
      PROVE  IF g[y] = 0 THEN Ptr(t[y], i) = 0
             ELSE /\ Ptr(t[y], i) \in DOMAIN u
                  /\ u[Ptr(t[y], i)].parent = y
                  /\ g[y] = g[Ptr(t[y], i)] + 1
                  /\ \A x \in S[Ptr(t[y], i)] : x \in S[y] /\ Gap(t[y], i, x)
                  /\ \A j \in Slots(t[y]) : Ptr(t[y], j) = Ptr(t[y], i) => j = i
    BY <2>1, Zenon DEF Linked
  <2> DEFINE c == Ptr(t[y], i)
  <2>2. CASE h[y] = 0
    BY <1>2, <1>8, <2>2 DEF Linked
  <2>3. CASE h[y] # 0
    <3>1. /\ c \in D /\ t[c].parent = y /\ h[y] = h[c] + 1
          /\ \A x \in R[c] : x \in R[y] /\ Gap(t[y], i, x)
          /\ \A j \in Slots(t[y]) : Ptr(t[y], j) = c => j = i
      BY <2>3, ChildIs
    <3> HIDE DEF c
    <3>2. c \notin moved
      BY <1>12, <3>1
    <3>3. u[c].parent = y /\ g[y] = g[c] + 1 /\ S[c] \subseteq R[c] /\ S[y] = R[y] /\ g[y] = h[y]
      BY <1>2, <1>3, <1>8, <1>9, <3>1, <3>2
    <3> QED BY <1>3, <2>3, <3>1, <3>3 DEF c
  <2> QED BY <2>2, <2>3
<1>17. ASSUME NEW y \in D PROVE Owned(u, g, y)
  <2>1. CASE y \in moved
    <3>1. PICK i \in m + 2 .. n + 1 : y = Ptr(t[b], i)
      BY <2>1 DEF moved, Moved, m, n
    <3>2. i - m - 1 \in 1 .. n - m /\ i - m - 1 + m + 1 = i
      BY <1>1
    <3>3. Ptr(u[new], i - m - 1) = y
      BY <1>3, <3>1, <3>2
    <3>4. u[y].parent = new /\ g[new] # 0 /\ new \in DOMAIN u
      BY <1>3, <1>8, <1>12, <2>1
    <3> QED BY <1>7, <3>2, <3>3, <3>4 DEF Owned
  <2>2. CASE y \notin moved /\ t[y].parent # 0
    <3> DEFINE p == t[y].parent
    <3>1. u[y].parent = p
      BY <1>2, <1>3, <2>2
    <3>2. p \in D /\ h[p] # 0 /\ \E i \in Slots(t[p]) : Ptr(t[p], i) = y
      BY <1>2, <2>2, Zenon DEF Owned
    <3> HIDE DEF p
    <3>3. PICK i \in Slots(t[p]) : Ptr(t[p], i) = y
      BY <3>2
    <3>4. g[p] # 0 /\ p \in DOMAIN u
      BY <1>3, <1>8, <3>2
    <3>5. CASE p = b
      <4>1. i \in 1 .. n + 1 /\ ~ (i > m + 1)
        BY <1>7, <1>10, <2>2, <3>2, <3>3, <3>5
      <4>2. i \in 1 .. m + 1
        BY <1>1, <4>1
      <4> QED BY <1>3, <1>7, <3>1, <3>3, <3>4, <3>5, <4>2 DEF Owned
    <3>6. CASE p # b
      <4>1. Same(u[p], t[p])
        BY <1>3, <3>2, <3>6
      <4>2. Slots(u[p]) = Slots(t[p]) /\ Ptr(u[p], i) = Ptr(t[p], i)
        BY <4>1, SameHas
      <4> QED BY <3>1, <3>3, <3>4, <4>2 DEF Owned
    <3> QED BY <3>5, <3>6
  <2>3. CASE y \notin moved /\ t[y].parent = 0
    <3>1. u[y].parent = 0
      BY <1>2, <1>3, <2>3
    <3> QED BY <3>1 DEF Owned
  <2> QED BY <2>1, <2>2, <2>3
<1>18. Tree(u, H, g, S, {new})
  <2>1. \A x \in DOMAIN u : Linked(u, g, S, x)
    BY <1>3, <1>14, <1>15, <1>16
  <2>2. \A x \in DOMAIN u \ {new} : Owned(u, g, x)
    BY <1>3, <1>17
  <2> QED BY <1>2, <1>3, <1>8, <1>9, <1>13, <2>1, <2>2 DEF Tree
<1>19. m # n /\ n - m - 1 # n
  BY <1>1
<1>20. b \notin moved /\ new \notin moved
  <2>1. new \notin moved
    <3>1. ASSUME NEW i \in m + 2 .. n + 1, new = Ptr(t[b], i) PROVE FALSE
      <4>1. i \in 1 .. n + 1
        BY <1>1
      <4> QED BY <1>2, <1>10, <1>11, <3>1, <4>1
    <3> QED BY <3>1 DEF moved, Moved, m, n
  <2> QED BY <1>2, <1>12, <2>1
<1>21. u[b].parent = t[b].parent /\ u[new].parent = t[b].parent
  BY <1>2, <1>3, <1>20
<1>22. \A x \in D : \/ u[x].parent = t[x].parent
                    \/ t[x].parent = b /\ u[x].parent = new /\ x # b
  BY <1>2, <1>3, <1>12
<1>23. mid \in R[b] /\ mid \in Int /\ mid \in KeysAt(t[b])
  BY <1>2, <1>6 DEF KeysAt
<1>24. KeysAt(u[b]) \subseteq KeysAt(t[b]) /\ KeysAt(u[new]) \subseteq KeysAt(t[b])
  <2>1. /\ \A i \in 1 .. m : i \in 1 .. n
        /\ \A i \in 1 .. n - m - 1 : i + m + 1 \in 1 .. n
    BY <1>1
  <2>2. KeysAt(u[b]) \subseteq KeysAt(t[b])
    BY <1>2, <1>3, <2>1 DEF KeysAt
  <2>3. KeysAt(u[new]) \subseteq KeysAt(t[b])
    BY <1>2, <1>3, <2>1 DEF KeysAt
  <2> QED BY <2>2, <2>3
<1>25. Parted(t, b, new, u, {})
  BY <1>2, SplitParts DEF u, n
<1> QED BY <1>3, <1>18, <1>19, <1>21, <1>22, <1>23, <1>24, <1>25 DEF n, m, mid, u, g, S, Halves

\* A node that is not full still fits with one key more.
LEMMA FilledFits ==
    ASSUME NEW t, NEW H, NEW h, NEW R, NEW loose, Tree(t, H, h, R, loose),
           NEW p \in DOMAIN t, NEW entry \in Entry, NEW larger \in Blocks \cup {0},
           entry.key \in R[p], entry.key \notin KeysAt(t[p]), Size(t[p]) # records_per_node
    PROVE  Fits(InsertIntoNode(t, p, entry, larger), R, p)
<1> DEFINE u == InsertIntoNode(t, p, entry, larger)
           n == Size(t[p])
           k == entry.key
           q == Position(t[p], k)
           old(i) == Key(t[p], i)
<1>1. /\ Typed(t) /\ t[p] \in Node /\ Sorted(t[p]) /\ n <= records_per_node
      /\ \A i \in 1 .. n : old(i) \in R[p]
  BY DEF Tree, Typed, Fits
<1>2. /\ n \in Nat /\ k \in Int /\ records_per_node \in Nat
      /\ \A i \in 1 .. n : old(i) \in Int
  BY <1>1, NodeHas, KeyAssumption, SizeAssumption DEF Entry
<1>3. \A i \in 1 .. n : old(i) # k
  BY DEF KeysAt
<1>4. /\ Size(u[p]) = n + 1 /\ q \in Slots(t[p]) /\ Gap(t[p], q, k)
      /\ \A j \in 1 .. n + 1 :
            Key(u[p], j) = IF j < q THEN old(j) ELSE IF j = q THEN k ELSE old(j - 1)
  <2>1. Typed(t) /\ Sorted(t[p]) /\ \A i \in 1 .. Size(t[p]) : Key(t[p], i) # entry.key
    BY <1>1, <1>3
  <2> QED BY <2>1, InsertIntoNodeIs
<1>5. \A i, j \in 1 .. n : i < j => old(i) < old(j)
  BY <1>1 DEF Sorted
<1>6. k \in R[p] /\ n + 1 <= records_per_node
  BY <1>1, <1>2
<1>7. /\ q \in 1 .. n + 1 /\ (q > 1 => old(q - 1) < k) /\ (q <= n => k < old(q))
  BY <1>4 DEF Slots, Gap
<1> HIDE DEF u, n, k, q, old
<1>8. ASSUME NEW j \in 1 .. n, j < q PROVE old(j) < k
  <2>1. q > 1 /\ q - 1 \in 1 .. n /\ (j = q - 1 \/ j < q - 1)
    BY <1>2, <1>7, <1>8
  <2> QED BY <1>2, <1>5, <1>7, <2>1
<1>9. ASSUME NEW j \in 1 .. n, ~ (j < q) PROVE k < old(j)
  <2>1. q <= n /\ q \in 1 .. n /\ (j = q \/ q < j)
    BY <1>2, <1>7, <1>9
  <2> QED BY <1>2, <1>5, <1>7, <2>1
<1>10. ASSUME NEW j \in 1 .. n + 1
       PROVE  /\ j < q => j \in 1 .. n /\ Key(u[p], j) = old(j)
              /\ j = q => Key(u[p], j) = k
              /\ j > q => j - 1 \in 1 .. n /\ ~ (j - 1 < q) /\ Key(u[p], j) = old(j - 1)
  <2>1. CASE j < q
    BY <1>2, <1>4, <1>7, <2>1
  <2>2. CASE j = q
    BY <1>2, <1>4, <1>7, <2>2
  <2>3. CASE j > q
    <3>1. j - 1 \in 1 .. n /\ ~ (j - 1 < q) /\ ~ (j < q) /\ j # q
      BY <1>2, <1>7, <2>3
    <3> QED BY <1>4, <2>3, <3>1
  <2> QED BY <1>2, <1>7, <2>1, <2>2, <2>3
<1>11. ASSUME NEW j \in 1 .. n + 1 PROVE Key(u[p], j) \in R[p]
  <2>1. j < q \/ j = q \/ j > q
    BY <1>2, <1>7
  <2> QED BY <1>1, <1>6, <1>10, <2>1 DEF n
<1>12. ASSUME NEW i \in 1 .. n + 1, NEW j \in 1 .. n + 1, i < j
       PROVE  Key(u[p], i) < Key(u[p], j)
  <2>1. CASE j < q
    <3>1. i < q
      BY <1>2, <1>7, <1>12, <2>1
    <3> QED BY <1>5, <1>10, <1>12, <2>1, <3>1
  <2>2. CASE j = q
    <3>1. i < q
      BY <1>12, <2>2
    <3> QED BY <1>8, <1>10, <2>2, <3>1
  <2>3. CASE j > q
    <3>1. /\ j - 1 \in 1 .. n /\ ~ (j - 1 < q) /\ Key(u[p], j) = old(j - 1)
          /\ k < old(j - 1) /\ old(j - 1) \in Int
      BY <1>2, <1>9, <1>10, <2>3
    <3>2. CASE i < q
      <4>1. old(i) < k /\ Key(u[p], i) = old(i) /\ old(i) \in Int
        BY <1>2, <1>8, <1>10, <3>2
      <4> QED BY <1>2, <3>1, <4>1
    <3>3. CASE i = q
      BY <1>10, <3>1, <3>3
    <3>4. CASE i > q
      <4>1. i - 1 \in 1 .. n /\ Key(u[p], i) = old(i - 1)
        BY <1>10, <3>4
      <4>2. i - 1 < j - 1
        BY <1>12
      <4> QED BY <1>5, <3>1, <4>1, <4>2
    <3> QED BY <1>2, <1>7, <3>2, <3>3, <3>4
  <2> QED BY <1>2, <1>7, <2>1, <2>2, <2>3
<1>13. Sorted(u[p])
  BY <1>4, <1>12 DEF Sorted
<1> QED BY <1>4, <1>6, <1>11, <1>13 DEF Fits, u

\* A node whose entries, height, keys and children are as they were is still linked.
LEMMA SameLinked ==
    ASSUME NEW t, NEW h, NEW R, NEW b \in DOMAIN t, Linked(t, h, R, b),
           NEW u, NEW g, NEW S, Same(u[b], t[b]), g[b] = h[b], R[b] \subseteq S[b],
           \A c \in DOMAIN t : t[c].parent = b =>
              c \in DOMAIN u /\ u[c].parent = b /\ g[c] = h[c] /\ S[c] \subseteq R[c]
    PROVE  Linked(u, g, S, b)
<1>1. Slots(u[b]) = Slots(t[b]) /\ \A i : Ptr(u[b], i) = Ptr(t[b], i)
  BY SameHas
<1>2. \A i, x : Gap(u[b], i, x) <=> Gap(t[b], i, x)
  BY SameHas, Zenon
<1> SUFFICES ASSUME NEW i \in Slots(t[b])
    PROVE  IF h[b] = 0 THEN Ptr(t[b], i) = 0
           ELSE /\ Ptr(t[b], i) \in DOMAIN u
                /\ u[Ptr(t[b], i)].parent = b
                /\ h[b] = g[Ptr(t[b], i)] + 1
                /\ \A x \in S[Ptr(t[b], i)] : x \in S[b] /\ Gap(t[b], i, x)
                /\ \A j \in Slots(t[b]) : Ptr(t[b], j) = Ptr(t[b], i) => j = i
  BY <1>1, <1>2, Zenon DEF Linked
<1>3. CASE h[b] = 0
  BY <1>3 DEF Linked
<1>4. CASE h[b] # 0
  <2> DEFINE c == Ptr(t[b], i)
  <2>1. /\ c \in DOMAIN t /\ t[c].parent = b /\ h[b] = h[c] + 1
        /\ \A x \in R[c] : x \in R[b] /\ Gap(t[b], i, x)
        /\ \A j \in Slots(t[b]) : Ptr(t[b], j) = c => j = i
    BY <1>4, Zenon DEF Linked
  <2> HIDE DEF c
  <2>2. c \in DOMAIN u /\ u[c].parent = b /\ g[c] = h[c] /\ S[c] \subseteq R[c]
    BY <2>1
  <2> QED BY <1>4, <2>1, <2>2 DEF c
<1> QED BY <1>3, <1>4

\* A node stays owned while its parent keeps its entries and its height.
LEMMA SameOwned ==
    ASSUME NEW t, NEW h, NEW b \in DOMAIN t, Owned(t, h, b), NEW u, NEW g,
           u[b].parent = t[b].parent,
           t[b].parent # 0 /\ t[b].parent \in DOMAIN t =>
              /\ t[b].parent \in DOMAIN u /\ g[t[b].parent] = h[t[b].parent]
              /\ Same(u[t[b].parent], t[t[b].parent])
    PROVE  Owned(u, g, b)
<1> SUFFICES ASSUME t[b].parent # 0 PROVE Owned(u, g, b)
  BY DEF Owned
<1> DEFINE p == t[b].parent
<1>1. p \in DOMAIN t /\ h[p] # 0 /\ \E i \in Slots(t[p]) : Ptr(t[p], i) = b
  BY Zenon DEF Owned
<1>2. u[b].parent = p /\ p \in DOMAIN u /\ g[p] = h[p] /\ Same(u[p], t[p])
  BY <1>1
<1> HIDE DEF p
<1>3. Slots(u[p]) = Slots(t[p]) /\ \A i : Ptr(u[p], i) = Ptr(t[p], i)
  BY <1>2, SameHas
<1> QED BY <1>1, <1>2, <1>3 DEF Owned

\* A node stays within its range while its entries stay and the range grows.
LEMMA SameFits ==
    ASSUME NEW t, NEW R, NEW b, Fits(t, R, b), NEW u, NEW S, Same(u[b], t[b]), R[b] \subseteq S[b]
    PROVE  Fits(u, S, b)
<1>1. Size(u[b]) = Size(t[b]) /\ \A i : Key(u[b], i) = Key(t[b], i)
  BY SameHas
<1>2. Sorted(u[b]) <=> Sorted(t[b])
  BY SameHas, Zenon
<1> QED BY <1>1, <1>2 DEF Fits

\* The record goes into a leaf.
LEMMA InsertKeepsTree ==
    ASSUME NEW t, NEW H, NEW h, NEW R, Tree(t, H, h, R, {}), NEW b \in DOMAIN t, h[b] = 0,
           NEW entry \in Entry, entry.smaller = 0, entry.key \in R[b],
           entry.key \notin KeysAt(t[b]), Size(t[b]) # records_per_node
    PROVE  /\ Tree(InsertIntoNode(t, b, entry, 0), H, h, R, {})
           /\ DOMAIN InsertIntoNode(t, b, entry, 0) = DOMAIN t
<1> DEFINE u == InsertIntoNode(t, b, entry, 0)
           n == Size(t[b])
           q == Position(t[b], entry.key)
<1>1. /\ Typed(t) /\ Sorted(t[b]) /\ Linked(t, h, R, b)
      /\ \A x \in DOMAIN t : Fits(t, R, x) /\ Linked(t, h, R, x) /\ Owned(t, h, x)
      /\ 0 \notin DOMAIN t /\ 0 \in Blocks \cup {0} /\ t[b] \in Node
      /\ \A i \in 1 .. n : Key(t[b], i) # entry.key
  BY DEF Tree, Typed, Fits, Blocks, KeysAt
<1>2. /\ Typed(u) /\ DOMAIN u = DOMAIN t /\ Size(u[b]) = n + 1 /\ q \in Slots(t[b])
      /\ \A j \in 1 .. n + 2 :
            Ptr(u[b], j) = IF j < q THEN Redirected(Ptr(t[b], j), 0, 0)
                           ELSE IF j = q THEN 0 ELSE Redirected(Ptr(t[b], j - 1), 0, 0)
      /\ \A x \in DOMAIN t \ {b} : Same(u[x], t[x])
      /\ \A x \in DOMAIN t : u[x].parent = IF x = 0 THEN b ELSE t[x].parent
  BY <1>1, InsertIntoNodeIs
<1>3. n \in Nat
  BY <1>1, NodeHas
<1> HIDE DEF u, q
<1>4. \A x \in DOMAIN t : u[x].parent = t[x].parent
  BY <1>1, <1>2
<1>5. Fits(u, R, b)
  BY <1>1, FilledFits DEF u
<1>6. Linked(u, h, R, b)
  <2> SUFFICES ASSUME NEW j \in 1 .. n + 2 PROVE Ptr(u[b], j) = 0
    BY <1>2, <1>3 DEF Linked, Slots
  <2>1. \A i \in 1 .. n + 1 : Ptr(t[b], i) = 0
    BY <1>1, <1>3 DEF Linked, Slots
  <2>2. Redirected(0, 0, 0) = 0
    BY DEF Redirected
  <2>3. q \in 1 .. n + 1 /\ (j < q => j \in 1 .. n + 1)
        /\ (~ (j < q) /\ j # q => j - 1 \in 1 .. n + 1)
    BY <1>2, <1>3 DEF Slots
  <2> QED BY <1>2, <2>1, <2>2, <2>3
<1>7. ASSUME NEW x \in DOMAIN t \ {b} PROVE Linked(u, h, R, x) /\ Fits(u, R, x)
  <2>1. Same(u[x], t[x]) /\ Fits(t, R, x) /\ Linked(t, h, R, x) /\ R[x] \subseteq R[x]
    BY <1>1, <1>2
  <2>2. \A c \in DOMAIN t : t[c].parent = x =>
            c \in DOMAIN u /\ u[c].parent = x /\ h[c] = h[c] /\ R[c] \subseteq R[c]
    BY <1>2, <1>4
  <2>3. Linked(u, h, R, x)
    BY <2>1, <2>2, SameLinked
  <2> QED BY <2>1, <2>3, SameFits
<1>8. ASSUME NEW x \in DOMAIN t PROVE Owned(u, h, x)
  <2>1. Owned(t, h, x) /\ u[x].parent = t[x].parent
    BY <1>1, <1>4
  <2>2. t[x].parent # 0 => t[x].parent \in DOMAIN u /\ Same(u[t[x].parent], t[t[x].parent])
    <3>1. t[x].parent # 0 => t[x].parent \in DOMAIN t /\ t[x].parent # b
      BY <2>1 DEF Owned
    <3> QED BY <1>2, <3>1
  <2> QED BY <2>1, <2>2, SameOwned
<1>9. Tree(u, H, h, R, {})
  BY <1>2, <1>5, <1>6, <1>7, <1>8 DEF Tree
<1> QED BY <1>2, <1>9 DEF u

\* The middle entry with its pointer set is an entry with the same key and record.
LEMMA MiddleEntry ==
    ASSUME NEW t, NEW b \in DOMAIN t, t[b] \in Node, Size(t[b]) = records_per_node,
           NEW c \in Blocks
    PROVE  LET entry == [Middle(t, b) EXCEPT !.smaller = c]
           IN  /\ entry \in Entry /\ entry.smaller = c
               /\ entry.key = Middle(t, b).key /\ entry.record = Middle(t, b).record
<1>1. middle_ + 1 \in 1 .. Size(t[b])
  BY MiddleIs
<1>2. Middle(t, b) \in [smaller : Blocks \cup {0}, key : Keys, record : Records]
  BY <1>1, NodeHas DEF Middle
<1> QED BY <1>2 DEF Entry

\* A full node gives its middle entry to its parent, which has room for it.
LEMMA SplitInnerKeeps ==
    ASSUME NEW t, NEW H, NEW h, NEW R, Tree(t, H, h, R, {}),
           NEW b \in DOMAIN t, NEW new \in Blocks \ DOMAIN t, Size(t[b]) = records_per_node,
           t[b].parent # 0, Size(t[t[b].parent]) # records_per_node
    PROVE  Halves(t, H, h, R, b, new, SplitInner(t, b, new), {}, {t[b].parent})
<1> DEFINE D == DOMAIN t
           p == t[b].parent
           u == SplitNode(t, b, new)
           g == SplitHeights(t, h, b, new)
           S == SplitRanges(t, R, b, new)
           mid == Middle(t, b).key
           entry == [Middle(t, b) EXCEPT !.smaller = b]
           v == InsertIntoNode(u, p, entry, new)
           n == Size(u[p])
           q == Position(u[p], entry.key)
<1>1. v = SplitInner(t, b, new)
  BY DEF SplitInner
<1>2. /\ Tree(u, H, g, S, {new}) /\ mid \in R[b] /\ mid \in Int /\ mid \in KeysAt(t[b])
      /\ KeysAt(u[b]) \subseteq KeysAt(t[b]) /\ KeysAt(u[new]) \subseteq KeysAt(t[b])
      /\ DOMAIN u = D \cup {new}
      /\ Size(u[b]) # records_per_node /\ Size(u[new]) # records_per_node
      /\ u[b].parent = p /\ u[new].parent = p
      /\ \A x \in D \ {b} : Same(u[x], t[x])
      /\ \A x \in D : \/ u[x].parent = t[x].parent
                      \/ t[x].parent = b /\ u[x].parent = new /\ x # b
      /\ Parted(t, b, new, u, {})
  <2>1. Halves(t, H, h, R, b, new, u, {new}, {})
    BY SplitKeepsTree
  <2> HIDE DEF v, n, q, entry, u
  <2> QED BY <2>1 DEF Halves
<1>3. /\ entry \in Entry /\ entry.smaller = b /\ entry.key = mid
      /\ entry.record = Middle(t, b).record
  <2>1. t[b] \in Node /\ b \in Blocks
    BY DEF Tree, Typed
  <2> QED BY <2>1, MiddleEntry
<1>4. /\ p \in D /\ h[p] # 0 /\ h[p] = h[b] + 1 /\ h[b] \in Nat
      /\ \E i \in Slots(t[p]) : Ptr(t[p], i) = b /\ \A x \in R[b] : x \in R[p] /\ Gap(t[p], i, x)
  <2>1. b \in D \ {}
    OBVIOUS
  <2> QED BY <2>1, ParentIs
<1>5. /\ D \subseteq Blocks /\ 0 \notin Blocks /\ new \notin D /\ new \in Blocks /\ b \in D
      /\ b # new /\ new # 0 /\ b # 0 /\ p # b /\ p # new /\ p # 0 /\ Size(t[p]) # records_per_node
  BY <1>4 DEF Tree, Typed, Blocks
<1>6. /\ S = [x \in D \cup {new} |-> IF x = new THEN {k \in R[b] : mid < k}
                                     ELSE IF x = b THEN {k \in R[b] : k < mid} ELSE R[x]]
      /\ g = [x \in D \cup {new} |-> IF x = new THEN h[b] ELSE h[x]]
  BY DEF SplitRanges, SplitHeights
<1> HIDE DEF p, u, g, S, mid, entry
<1>7. /\ S[new] = {k \in R[b] : mid < k} /\ S[b] = {k \in R[b] : k < mid} /\ S[p] = R[p]
      /\ g[new] = h[b] /\ g[b] = h[b] /\ g[p] = h[p]
  BY <1>4, <1>5, <1>6
<1>8. Same(u[p], t[p])
  BY <1>2, <1>4, <1>5
<1>9. /\ Size(u[p]) = Size(t[p]) /\ Slots(u[p]) = Slots(t[p]) /\ KeysAt(u[p]) = KeysAt(t[p])
      /\ \A i : Ptr(u[p], i) = Ptr(t[p], i)
  BY <1>8, SameHas
<1>10. \A i, x : Gap(u[p], i, x) <=> Gap(t[p], i, x)
  BY <1>8, SameHas, Zenon
<1>11. PICK at \in Slots(u[p]) : Ptr(u[p], at) = b /\ \A x \in R[b] : x \in R[p] /\ Gap(u[p], at, x)
  BY <1>4, <1>9, <1>10
<1>12. /\ u[p] \in Node /\ Sorted(u[p]) /\ Typed(u) /\ p \in DOMAIN u /\ n \in Nat
       /\ \A i \in 1 .. n : Key(u[p], i) \in Int
  <2>1. u[p] \in Node /\ Sorted(u[p]) /\ Typed(u) /\ p \in DOMAIN u
    BY <1>2, <1>4 DEF Tree, Typed, Fits
  <2> QED BY <2>1, NodeHas
<1>13. mid \notin KeysAt(u[p]) /\ \A i \in 1 .. n : Key(u[p], i) # mid
  <2>1. Gap(u[p], at, mid)
    BY <1>2, <1>11
  <2>2. mid \notin KeysAt(u[p])
    BY <1>2, <1>11, <1>12, <2>1, KeysAtIs
  <2> QED BY <2>2 DEF KeysAt
<1>14. q = at
  <2>1. Gap(u[p], at, mid)
    BY <1>2, <1>11
  <2> QED BY <1>2, <1>3, <1>11, <1>12, <1>13, <2>1, PositionIs
<1>15. /\ Typed(v) /\ DOMAIN v = DOMAIN u /\ Size(v[p]) = n + 1
       /\ \A j \in 1 .. n + 1 :
             Key(v[p], j) = IF j < at THEN Key(u[p], j)
                            ELSE IF j = at THEN mid ELSE Key(u[p], j - 1)
       /\ \A j \in 1 .. n + 2 :
             Ptr(v[p], j) = IF j < at THEN Redirected(Ptr(u[p], j), b, new)
                            ELSE IF j = at THEN b ELSE Redirected(Ptr(u[p], j - 1), b, new)
       /\ \A x \in DOMAIN u \ {p} : Same(v[x], u[x])
       /\ \A x \in DOMAIN u : v[x].parent = IF x = b THEN p ELSE u[x].parent
  <2>1. Typed(u) /\ Sorted(u[p]) /\ p \in DOMAIN u /\ entry \in Entry /\ new \in Blocks \cup {0}
        /\ \A i \in 1 .. Size(u[p]) : Key(u[p], i) # entry.key
    BY <1>3, <1>5, <1>12, <1>13
  <2>2. /\ Typed(v) /\ DOMAIN v = DOMAIN u /\ Size(v[p]) = n + 1
        /\ \A j \in 1 .. n + 1 :
              Key(v[p], j) = IF j < q THEN Key(u[p], j)
                             ELSE IF j = q THEN entry.key ELSE Key(u[p], j - 1)
        /\ \A j \in 1 .. n + 2 :
              Ptr(v[p], j) = IF j < q THEN Redirected(Ptr(u[p], j), entry.smaller, new)
                             ELSE IF j = q THEN entry.smaller
                             ELSE Redirected(Ptr(u[p], j - 1), entry.smaller, new)
        /\ \A x \in DOMAIN u \ {p} : Same(v[x], u[x])
        /\ \A x \in DOMAIN u : v[x].parent = IF x = entry.smaller THEN p ELSE u[x].parent
    BY <2>1, InsertIntoNodeIs
  <2> HIDE DEF q, v, n
  <2> QED BY <1>3, <1>14, <2>2
<1>16. Fits(v, S, p)
  <2>1. entry.key \in S[p] /\ entry.key \notin KeysAt(u[p]) /\ Size(u[p]) # records_per_node
        /\ new \in Blocks \cup {0}
    BY <1>2, <1>3, <1>5, <1>7, <1>9, <1>11, <1>13
  <2> QED BY <1>2, <1>3, <1>12, <2>1, FilledFits
<1> HIDE DEF v, q, n
<1>17. \A x \in DOMAIN u : v[x].parent = u[x].parent
  BY <1>2, <1>15
<1>18. at \in 1 .. n + 1 /\ n \in Nat
  BY <1>11, <1>12 DEF Slots, n
\* The children of the parent, seen from before and after.
<1>19. ASSUME NEW j \in 1 .. n + 1
       PROVE  /\ Ptr(u[p], j) \in D /\ t[Ptr(u[p], j)].parent = p
              /\ h[p] = h[Ptr(u[p], j)] + 1
              /\ \A x \in R[Ptr(u[p], j)] : x \in Int /\ x \in R[p] /\ Gap(u[p], j, x)
              /\ \A i \in 1 .. n + 1 : Ptr(u[p], i) = Ptr(u[p], j) => i = j
  <2>1. Slots(t[p]) = 1 .. n + 1 /\ j \in Slots(t[p]) /\ Ptr(u[p], j) = Ptr(t[p], j)
    BY <1>9 DEF Slots, n
  <2> DEFINE c == Ptr(t[p], j)
  <2>2. /\ c \in D /\ t[c].parent = p /\ h[p] = h[c] + 1
        /\ \A x \in R[c] : x \in Int /\ x \in R[p] /\ Gap(t[p], j, x)
        /\ \A i \in Slots(t[p]) : Ptr(t[p], i) = c => i = j
    <3>1. p \in D /\ h[p] # 0 /\ j \in Slots(t[p])
      BY <1>4, <2>1
    <3> QED BY <3>1, ChildIs
  <2> HIDE DEF c
  <2>3. Ptr(u[p], j) = c
    BY <2>1 DEF c
  <2> QED BY <1>9, <1>10, <2>1, <2>2, <2>3
<1>20. ASSUME NEW j \in 1 .. n + 2
       PROVE  /\ j < at => j \in 1 .. n + 1 /\ Ptr(v[p], j) = Ptr(u[p], j) /\ Ptr(u[p], j) # b
              /\ j = at => Ptr(v[p], j) = b
              /\ j = at + 1 => Ptr(v[p], j) = new
              /\ j > at + 1 => /\ j - 1 \in 1 .. n + 1 /\ j - 1 > at /\ Ptr(u[p], j - 1) # b
                               /\ Ptr(v[p], j) = Ptr(u[p], j - 1)
  <2>1. CASE j < at
    <3>1. j \in 1 .. n + 1 /\ j # at
      BY <1>18, <2>1
    <3>2. Ptr(u[p], j) # b
      BY <1>11, <1>18, <1>19, <3>1
    <3> QED BY <1>15, <1>18, <2>1, <3>1, <3>2 DEF Redirected
  <2>2. CASE j = at
    <3>1. ~ (j < at)
      BY <1>18, <2>2
    <3> QED BY <1>15, <1>18, <2>2, <3>1
  <2>3. CASE j = at + 1
    <3>1. ~ (j < at) /\ j # at /\ j - 1 = at
      BY <1>18, <2>3
    <3>2. Ptr(v[p], j) = Redirected(b, b, new)
      BY <1>11, <1>15, <3>1
    <3> QED BY <1>5, <1>18, <2>3, <3>1, <3>2 DEF Redirected
  <2>4. CASE j > at + 1
    <3>1. ~ (j < at) /\ j # at /\ j - 1 \in 1 .. n + 1 /\ j - 1 > at /\ j - 1 # at
      BY <1>18, <2>4
    <3>2. Ptr(u[p], j - 1) # b
      BY <1>11, <1>18, <1>19, <3>1
    <3>3. Ptr(v[p], j) = Redirected(Ptr(u[p], j - 1), b, new)
      BY <1>15, <3>1
    <3> QED BY <1>18, <2>4, <3>1, <3>2, <3>3 DEF Redirected
  <2>5. j < at \/ j = at \/ j = at + 1 \/ j > at + 1
    BY <1>18
  <2> QED BY <2>1, <2>2, <2>3, <2>4, <2>5
<1>21. ASSUME NEW c \in D, t[c].parent = p, c # b, h[p] = h[c] + 1
       PROVE  /\ c \in DOMAIN v /\ v[c].parent = p /\ g[p] = g[c] + 1 /\ S[c] = R[c]
  <2>1. c \in DOMAIN u /\ c # new
    BY <1>2, <1>5
  <2>2. v[c].parent = p
    BY <1>2, <1>5, <1>17, <1>21, <2>1
  <2> QED BY <1>6, <1>7, <1>15, <1>21, <2>1, <2>2
<1>22. ASSUME NEW j \in 1 .. n + 2
       PROVE  /\ Ptr(v[p], j) \in DOMAIN v /\ v[Ptr(v[p], j)].parent = p
              /\ g[p] = g[Ptr(v[p], j)] + 1
              /\ \A x \in S[Ptr(v[p], j)] : x \in S[p] /\ Gap(v[p], j, x)
  <2>1. CASE j < at
    <3> DEFINE c == Ptr(u[p], j)
    <3>1. Ptr(v[p], j) = c /\ c # b /\ j \in 1 .. n + 1 /\ j \in 1 .. n
      BY <1>18, <1>20, <2>1
    <3>2. /\ c \in D /\ t[c].parent = p /\ h[p] = h[c] + 1
          /\ \A x \in R[c] : x \in Int /\ x \in R[p] /\ Gap(u[p], j, x)
      BY <1>19, <3>1
    <3> HIDE DEF c
    <3>3. c \in DOMAIN v /\ v[c].parent = p /\ g[p] = g[c] + 1 /\ S[c] = R[c]
      BY <1>21, <3>1, <3>2
    <3>4. ASSUME NEW x \in R[c] PROVE Gap(v[p], j, x)
      <4>1. (j > 1 => Key(u[p], j - 1) < x) /\ x < Key(u[p], j)
        BY <3>1, <3>2 DEF Gap, n
      <4>2. j > 1 => j - 1 \in 1 .. n + 1 /\ j - 1 < at
        BY <1>18, <2>1
      <4>3. Key(v[p], j) = Key(u[p], j) /\ (j > 1 => Key(v[p], j - 1) = Key(u[p], j - 1))
        BY <1>15, <2>1, <3>1, <4>2
      <4> QED BY <4>1, <4>3 DEF Gap
    <3> QED BY <1>7, <3>1, <3>2, <3>3, <3>4
  <2>2. CASE j = at
    <3>1. Ptr(v[p], j) = b /\ b \in DOMAIN v /\ v[b].parent = p /\ g[p] = g[b] + 1
      BY <1>2, <1>4, <1>5, <1>7, <1>15, <1>20, <2>2
    <3>2. ASSUME NEW x \in S[b] PROVE x \in S[p] /\ Gap(v[p], j, x)
      <4>1. x \in R[b] /\ x < mid /\ x \in R[p] /\ (at > 1 => Key(u[p], at - 1) < x)
        BY <1>7, <1>11 DEF Gap
      <4>2. j > 1 => j - 1 \in 1 .. n + 1 /\ j - 1 < at
        BY <1>18, <2>2
      <4>3. j \in 1 .. n + 1 /\ ~ (j < at)
        BY <1>18, <2>2
      <4>4. Key(v[p], j) = mid /\ (j > 1 => Key(v[p], j - 1) = Key(u[p], j - 1))
        BY <1>15, <2>2, <4>2, <4>3
      <4> QED BY <1>7, <2>2, <4>1, <4>4 DEF Gap
    <3> QED BY <3>1, <3>2
  <2>3. CASE j = at + 1
    <3>1. Ptr(v[p], j) = new /\ new \in DOMAIN v /\ v[new].parent = p /\ g[p] = g[new] + 1
      BY <1>2, <1>4, <1>5, <1>7, <1>15, <1>17, <1>20, <2>3
    <3>2. ASSUME NEW x \in S[new] PROVE x \in S[p] /\ Gap(v[p], j, x)
      <4>1. x \in R[b] /\ mid < x /\ x \in R[p] /\ (at <= n => x < Key(u[p], at))
        BY <1>7, <1>11 DEF Gap, n
      <4>2. j - 1 = at /\ at \in 1 .. n + 1 /\ ~ (at < at)
        BY <1>18, <2>3
      <4>3. j <= n + 1 => j \in 1 .. n + 1 /\ ~ (j < at) /\ j # at /\ at <= n
        BY <1>18, <2>3
      <4>4. Key(v[p], j - 1) = mid
        BY <1>15, <4>2
      <4>5. j <= n + 1 => Key(v[p], j) = Key(u[p], at)
        BY <1>15, <4>2, <4>3
      <4> QED BY <1>7, <1>15, <4>1, <4>3, <4>4, <4>5 DEF Gap
    <3> QED BY <3>1, <3>2
  <2>4. CASE j > at + 1
    <3> DEFINE c == Ptr(u[p], j - 1)
    <3>1. Ptr(v[p], j) = c /\ c # b /\ j - 1 \in 1 .. n + 1 /\ j - 1 > at
      BY <1>20, <2>4
    <3>2. /\ c \in D /\ t[c].parent = p /\ h[p] = h[c] + 1
          /\ \A x \in R[c] : x \in Int /\ x \in R[p] /\ Gap(u[p], j - 1, x)
      BY <1>19, <3>1
    <3> HIDE DEF c
    <3>3. c \in DOMAIN v /\ v[c].parent = p /\ g[p] = g[c] + 1 /\ S[c] = R[c]
      BY <1>21, <3>1, <3>2
    <3>4. ASSUME NEW x \in R[c] PROVE Gap(v[p], j, x)
      <4>1. /\ j - 1 > 1 => Key(u[p], (j - 1) - 1) < x
            /\ j - 1 <= n => x < Key(u[p], j - 1)
        BY <3>2 DEF Gap, n
      <4>2. /\ j - 1 > 1 /\ j - 1 \in 1 .. n + 1 /\ ~ (j - 1 < at) /\ j - 1 # at
            /\ j <= n + 1 => j \in 1 .. n + 1 /\ j - 1 <= n /\ ~ (j < at) /\ j # at
        BY <1>18, <2>4
      <4>3. Key(v[p], j - 1) = Key(u[p], (j - 1) - 1)
        BY <1>15, <4>2
      <4>4. j <= n + 1 => Key(v[p], j) = Key(u[p], j - 1)
        BY <1>15, <4>2
      <4> QED BY <1>15, <4>1, <4>2, <4>3, <4>4 DEF Gap
    <3> QED BY <1>7, <3>1, <3>2, <3>3, <3>4
  <2>5. j < at \/ j = at \/ j = at + 1 \/ j > at + 1
    BY <1>18
  <2> QED BY <2>1, <2>2, <2>3, <2>4, <2>5
<1>23. ASSUME NEW i \in 1 .. n + 2, NEW j \in 1 .. n + 2, i < j PROVE Ptr(v[p], i) # Ptr(v[p], j)
  <2> DEFINE was(x) == IF x < at THEN x ELSE x - 1
  <2>1. \A x \in 1 .. n + 1 : Ptr(u[p], x) \in D /\ Ptr(u[p], x) # new
    BY <1>5, <1>19
  <2>2. \A x \in 1 .. n + 2 : x < at \/ x = at \/ x = at + 1 \/ x > at + 1
    BY <1>18
  <2>3. CASE j = at
    <3>1. i < at
      BY <1>23, <2>3
    <3> QED BY <1>20, <2>3, <3>1
  <2>4. CASE j = at + 1
    <3>1. i < at \/ i = at
      BY <1>18, <1>23, <2>4
    <3> QED BY <1>5, <1>20, <2>1, <2>4, <3>1
  <2>5. CASE j < at
    <3>1. i < at /\ i # j /\ i \in 1 .. n + 1 /\ j \in 1 .. n + 1
      BY <1>18, <1>23, <2>5
    <3> QED BY <1>19, <1>20, <2>5, <3>1
  <2>6. CASE j > at + 1
    <3>1. /\ j - 1 \in 1 .. n + 1 /\ j - 1 > at /\ Ptr(u[p], j - 1) # b
          /\ Ptr(v[p], j) = Ptr(u[p], j - 1)
      BY <1>20, <2>6
    <3>2. CASE i < at
      <4>1. i \in 1 .. n + 1 /\ i # j - 1 /\ Ptr(v[p], i) = Ptr(u[p], i)
        BY <1>18, <1>20, <3>1, <3>2
      <4> QED BY <1>19, <3>1, <4>1
    <3>3. CASE i = at
      BY <1>20, <3>1, <3>3
    <3>4. CASE i = at + 1
      BY <1>20, <2>1, <3>1, <3>4
    <3>5. CASE i > at + 1
      <4>1. i - 1 \in 1 .. n + 1 /\ i - 1 # j - 1 /\ Ptr(v[p], i) = Ptr(u[p], i - 1)
        BY <1>18, <1>20, <1>23, <3>5
      <4> QED BY <1>19, <3>1, <4>1
    <3> QED BY <2>2, <3>2, <3>3, <3>4, <3>5
  <2> QED BY <2>2, <2>3, <2>4, <2>5, <2>6
<1>24. Linked(v, g, S, p)
  <2>1. Slots(v[p]) = 1 .. n + 2
    BY <1>15, <1>18 DEF Slots
  <2>2. g[p] # 0
    BY <1>4, <1>7
  <2>3. ASSUME NEW i \in 1 .. n + 2, NEW j \in 1 .. n + 2, Ptr(v[p], j) = Ptr(v[p], i)
        PROVE  j = i
    BY <1>23, <2>3
  <2> QED BY <1>22, <2>1, <2>2, <2>3 DEF Linked
<1>25. ASSUME NEW x \in DOMAIN u \ {p} PROVE Linked(v, g, S, x) /\ Fits(v, S, x)
  <2>1. Same(v[x], u[x]) /\ Fits(u, S, x) /\ Linked(u, g, S, x) /\ S[x] \subseteq S[x]
    BY <1>2, <1>15 DEF Tree
  <2>2. \A c \in DOMAIN u : u[c].parent = x =>
            c \in DOMAIN v /\ v[c].parent = x /\ g[c] = g[c] /\ S[c] \subseteq S[c]
    BY <1>15, <1>17
  <2>3. Linked(v, g, S, x)
    BY <2>1, <2>2, SameLinked
  <2> QED BY <2>1, <2>3, SameFits
<1>26. ASSUME NEW x \in DOMAIN v PROVE Owned(v, g, x)
  <2>1. Slots(v[p]) = 1 .. n + 2 /\ g[p] # 0 /\ p \in DOMAIN v
    BY <1>4, <1>7, <1>12, <1>15, <1>18 DEF Slots
  <2>2. CASE x = new
    <3>1. at + 1 \in 1 .. n + 2 /\ v[new].parent = p
      BY <1>2, <1>17, <1>18
    <3>2. Ptr(v[p], at + 1) = new
      BY <1>20, <3>1
    <3> QED BY <2>1, <2>2, <3>1, <3>2 DEF Owned
  <2>3. CASE x # new
    <3>1. x \in D /\ Owned(u, g, x) /\ v[x].parent = u[x].parent /\ x \in DOMAIN u
      BY <1>2, <1>15, <1>17, <2>3 DEF Tree
    <3>2. CASE u[x].parent = p
      <4>1. PICK i \in 1 .. n + 1 : Ptr(u[p], i) = x
        BY <1>5, <3>1, <3>2 DEF Owned, Slots, n
      <4>2. i \in 1 .. n + 2 /\ i + 1 \in 1 .. n + 2 /\ (i < at \/ i = at \/ i + 1 > at + 1)
            /\ (i + 1) - 1 = i
        BY <1>18
      <4>3. Ptr(v[p], i) = x \/ Ptr(v[p], i + 1) = x
        BY <1>11, <1>20, <4>1, <4>2
      <4> QED BY <2>1, <3>1, <3>2, <4>2, <4>3 DEF Owned
    <3>3. CASE u[x].parent # p
      <4>1. u[x].parent # 0 /\ u[x].parent \in DOMAIN u =>
               u[x].parent \in DOMAIN v /\ Same(v[u[x].parent], u[u[x].parent])
        BY <1>15, <3>3
      <4> QED BY <3>1, <4>1, SameOwned
    <3> QED BY <3>2, <3>3
  <2> QED BY <2>2, <2>3
<1>27. Tree(v, H, g, S, {})
  <2>1. \A x \in DOMAIN v : Fits(v, S, x) /\ Linked(v, g, S, x)
    BY <1>15, <1>16, <1>24, <1>25
  <2> QED BY <1>2, <1>15, <1>26, <2>1 DEF Tree
<1>28. /\ Size(v[b]) # records_per_node /\ Size(v[new]) # records_per_node
       /\ KeysAt(v[b]) \subseteq KeysAt(t[b]) /\ KeysAt(v[new]) \subseteq KeysAt(t[b])
  <2>1. Same(v[b], u[b]) /\ Same(v[new], u[new])
    BY <1>2, <1>5, <1>15
  <2>2. /\ Size(v[b]) = Size(u[b]) /\ KeysAt(v[b]) = KeysAt(u[b])
        /\ Size(v[new]) = Size(u[new]) /\ KeysAt(v[new]) = KeysAt(u[new])
    BY <2>1, SameHas
  <2> QED BY <1>2, <2>2
<1>29. \A x \in D \ {b, p} : Same(v[x], t[x])
  BY <1>2, <1>15 DEF Same
<1>30. /\ v[b].parent = p /\ v[new].parent = p
       /\ \A x \in D : \/ v[x].parent = t[x].parent
                       \/ t[x].parent = b /\ v[x].parent = new /\ x # b
  BY <1>2, <1>5, <1>17
<1>31. Parted(t, b, new, v, {p})
  <2> SUFFICES ASSUME NEW k, NEW r
      PROVE  /\ Holds(t[b], k, r) <=>
                   Holds(v[b], k, r) \/ Holds(v[new], k, r) \/ IsMiddle(t, b, k, r)
             /\ Holds(v[p], k, r) <=> Holds(t[p], k, r) \/ IsMiddle(t, b, k, r)
    BY Zenon DEF Parted
  <2>1. Holds(t[b], k, r) <=>
           Holds(u[b], k, r) \/ Holds(u[new], k, r) \/ IsMiddle(t, b, k, r)
    BY <1>2, Zenon DEF Parted
  <2>2. Same(v[b], u[b]) /\ Same(v[new], u[new])
    BY <1>2, <1>5, <1>15
  <2>3. /\ Holds(v[b], k, r) <=> Holds(u[b], k, r)
        /\ Holds(v[new], k, r) <=> Holds(u[new], k, r)
    BY <2>2, SameHolds
  <2>4. Holds(u[p], k, r) <=> Holds(t[p], k, r)
    BY <1>8, SameHolds
  <2>5. /\ Typed(u) /\ Sorted(u[p]) /\ p \in DOMAIN u /\ new \in Blocks \cup {0}
        /\ \A i \in 1 .. Size(u[p]) : Key(u[p], i) # entry.key
    BY <1>3, <1>5, <1>12, <1>13 DEF n
  <2>6. Holds(v[p], k, r) <=> Holds(u[p], k, r) \/ (entry.key = k /\ entry.record = r)
    BY <1>3, <2>5, InsertHolds DEF v
  <2>7. entry.key = Middle(t, b).key /\ entry.record = Middle(t, b).record
    BY <1>3 DEF mid
  <2> QED BY <2>1, <2>3, <2>4, <2>6, <2>7, Zenon DEF IsMiddle
<1> QED BY <1>1, <1>2, <1>15, <1>27, <1>28, <1>29, <1>30, <1>31 DEF p, u, g, S, mid, Halves

RootHeights(t, h, b, new) ==
    [x \in DOMAIN t \cup {new, new + 1} |->
        IF x = new + 1 THEN h[b] + 1 ELSE SplitHeights(t, h, b, new)[x]]
RootRanges(t, R, b, new) ==
    [x \in DOMAIN t \cup {new, new + 1} |->
        IF x = new + 1 THEN Int ELSE SplitRanges(t, R, b, new)[x]]

\* What v is after that, with a new root in the block behind new.
Rerooted(t, H, h, R, b, new, v) ==
    /\ Tree(v, H + 1, RootHeights(t, h, b, new), RootRanges(t, R, b, new), {})
    /\ Middle(t, b).key \in Int /\ Middle(t, b).key \in KeysAt(t[b])
    /\ KeysAt(v[b]) \subseteq KeysAt(t[b]) /\ KeysAt(v[new]) \subseteq KeysAt(t[b])
    /\ DOMAIN v = DOMAIN t \cup {new, new + 1}
    /\ Size(v[b]) # records_per_node /\ Size(v[new]) # records_per_node
    /\ v[b].parent = new + 1 /\ v[new].parent = new + 1 /\ v[new + 1].parent = 0
    /\ \A x \in DOMAIN t \ {b} :
          /\ Same(v[x], t[x])
          /\ \/ v[x].parent = t[x].parent
             \/ t[x].parent = b /\ v[x].parent = new
    /\ Parted(t, b, new, v, {})
    /\ \A k, r : Holds(v[new + 1], k, r) <=> IsMiddle(t, b, k, r)

\* A full root goes under a new one.
LEMMA SplitRootKeeps ==
    ASSUME NEW t, NEW H, NEW h, NEW R, Tree(t, H, h, R, {}),
           NEW b \in DOMAIN t, NEW new \in Blocks \ DOMAIN t, new + 1 \in Blocks \ DOMAIN t,
           Size(t[b]) = records_per_node, t[b].parent = 0
    PROVE  Rerooted(t, H, h, R, b, new, SplitRoot(t, b, new))
<1> DEFINE D == DOMAIN t
           r == new + 1
           u == SplitNode(t, b, new)
           g == SplitHeights(t, h, b, new)
           S == SplitRanges(t, R, b, new)
           g2 == RootHeights(t, h, b, new)
           S2 == RootRanges(t, R, b, new)
           mid == Middle(t, b).key
           entry == [Middle(t, b) EXCEPT !.smaller = b]
           top == [parent |-> 0, larger |-> new, entries |-> <<entry>>]
           w == Placed(u, r, top)
           v == WithParent(w, {b, new}, r)
<1>1. v = SplitRoot(t, b, new)
  BY DEF SplitRoot
<1>2. /\ r \in Blocks /\ r # new /\ r \notin D /\ b \in D /\ b \in Blocks /\ b # r /\ b # new
      /\ new \in Blocks /\ new \notin D /\ 0 \notin Blocks /\ r # 0
      /\ H \in Nat /\ D \subseteq Blocks
  BY DEF Tree, Typed, Blocks
<1>3. /\ Tree(u, H, g, S, {new}) /\ mid \in R[b] /\ mid \in Int /\ mid \in KeysAt(t[b])
      /\ KeysAt(u[b]) \subseteq KeysAt(t[b]) /\ KeysAt(u[new]) \subseteq KeysAt(t[b])
      /\ DOMAIN u = D \cup {new}
      /\ Size(u[b]) # records_per_node /\ Size(u[new]) # records_per_node
      /\ u[b].parent = 0 /\ u[new].parent = 0
      /\ \A x \in D \ {b} : Same(u[x], t[x])
      /\ \A x \in D : \/ u[x].parent = t[x].parent
                      \/ t[x].parent = b /\ u[x].parent = new /\ x # b
      /\ Parted(t, b, new, u, {})
  <2>1. Halves(t, H, h, R, b, new, u, {new}, {})
    BY SplitKeepsTree
  <2> HIDE DEF u, g2, S2, v, w, top
  <2> QED BY <2>1 DEF Halves
<1>4. /\ entry \in Entry /\ entry.smaller = b /\ entry.key = mid
      /\ entry.record = Middle(t, b).record
  <2>1. t[b] \in Node /\ b \in Blocks
    BY DEF Tree, Typed
  <2> QED BY <2>1, MiddleEntry
<1>5. /\ g2 = [x \in D \cup {new, r} |-> IF x = r THEN h[b] + 1 ELSE g[x]]
      /\ S2 = [x \in D \cup {new, r} |-> IF x = r THEN Int ELSE S[x]]
  BY DEF RootHeights, RootRanges
<1>6. /\ S[new] = {k \in R[b] : mid < k} /\ S[b] = {k \in R[b] : k < mid}
      /\ g[new] = h[b] /\ g[b] = h[b] /\ h[b] \in 0 .. H /\ R[b] \subseteq Int
  BY <1>2 DEF SplitRanges, SplitHeights, Tree
<1> HIDE DEF u, g, S, g2, S2, mid, entry, r
<1>7. /\ top \in Node /\ top.entries = <<entry>> /\ top.larger = new /\ top.parent = 0
  BY <1>2, <1>4 DEF Node, Entry
<1>8. /\ Size(top) = 1 /\ Key(top, 1) = mid /\ Ptr(top, 1) = b /\ Ptr(top, 2) = new
      /\ Rec(top, 1) = Middle(t, b).record
  BY <1>4, <1>7 DEF Size, Key, Ptr, Rec
<1> HIDE DEF top
<1>9. /\ Typed(w) /\ DOMAIN w = DOMAIN u \cup {r} /\ w[r] = top
      /\ \A x \in DOMAIN u \ {r} : w[x] = u[x]
  <2>1. Typed(u)
    BY <1>3 DEF Tree
  <2>2. r \in Blocks /\ top \in Node
    BY <1>2, <1>7
  <2>3. /\ Typed(Placed(u, r, top)) /\ DOMAIN Placed(u, r, top) = DOMAIN u \cup {r}
        /\ Placed(u, r, top)[r] = top
        /\ \A x \in DOMAIN u \ {r} : Placed(u, r, top)[x] = u[x]
    <3> HIDE DEF w, v
    <3> QED BY <2>1, <2>2, PlacedIs
  <2> QED BY <2>3
<1> HIDE DEF w
<1>10. /\ Typed(v) /\ DOMAIN v = DOMAIN w
       /\ \A x \in DOMAIN w :
             /\ Same(v[x], w[x])
             /\ v[x].parent = IF x \in {b, new} THEN r ELSE w[x].parent
  <2>1. r \in Blocks \cup {0}
    BY <1>2
  <2> QED BY <1>9, <2>1, WithParentIs
<1> HIDE DEF v
<1>11. /\ DOMAIN v = D \cup {new, r} /\ DOMAIN u = D \cup {new}
       /\ Same(v[r], top) /\ \A x \in DOMAIN u : Same(v[x], u[x])
       /\ v[b].parent = r /\ v[new].parent = r /\ v[r].parent = 0
       /\ \A x \in DOMAIN u \ {b, new} : v[x].parent = u[x].parent
  BY <1>2, <1>3, <1>7, <1>9, <1>10
<1>12. /\ Size(v[r]) = 1 /\ Key(v[r], 1) = mid /\ Ptr(v[r], 1) = b /\ Ptr(v[r], 2) = new
       /\ Slots(v[r]) = 1 .. 2
  <2>1. Size(v[r]) = 1 /\ Key(v[r], 1) = mid /\ Ptr(v[r], 1) = b /\ Ptr(v[r], 2) = new
    BY <1>8, <1>11, SameHas
  <2> QED BY <2>1 DEF Slots
<1>13. /\ g2[r] = h[b] + 1 /\ S2[r] = Int
       /\ \A x \in DOMAIN u : g2[x] = g[x] /\ S2[x] = S[x]
       /\ g2 \in [DOMAIN v -> 0 .. H + 1] /\ S2 \in [DOMAIN v -> SUBSET Int]
  <2>1. g \in [DOMAIN u -> 0 .. H] /\ S \in [DOMAIN u -> SUBSET Int]
    BY <1>3 DEF Tree
  <2>2. g2[r] = h[b] + 1 /\ S2[r] = Int
    BY <1>5
  <2>3. \A x \in DOMAIN u : g2[x] = g[x] /\ S2[x] = S[x]
    BY <1>2, <1>5, <1>11
  <2>4. g2 \in [DOMAIN v -> 0 .. H + 1]
    BY <1>2, <1>5, <1>6, <1>11, <2>1
  <2>5. S2 \in [DOMAIN v -> SUBSET Int]
    BY <1>2, <1>5, <1>11, <2>1
  <2> QED BY <2>2, <2>3, <2>4, <2>5
<1>14. Fits(v, S2, r)
  <2>1. 1 <= records_per_node
    BY SizeAssumption
  <2> QED BY <1>3, <1>12, <1>13, <2>1 DEF Fits, Sorted
<1>15. Linked(v, g2, S2, r)
  <2> SUFFICES ASSUME NEW i \in 1 .. 2
      PROVE  /\ Ptr(v[r], i) \in DOMAIN v
             /\ v[Ptr(v[r], i)].parent = r
             /\ g2[r] = g2[Ptr(v[r], i)] + 1
             /\ \A x \in S2[Ptr(v[r], i)] : x \in S2[r] /\ Gap(v[r], i, x)
             /\ \A j \in 1 .. 2 : Ptr(v[r], j) = Ptr(v[r], i) => j = i
    <3>1. g2[r] # 0
      BY <1>6, <1>13
    <3> QED BY <1>12, <3>1, Zenon DEF Linked
  <2>1. CASE i = 1
    <3>1. b \in DOMAIN v /\ v[b].parent = r /\ g2[r] = g2[b] + 1 /\ S2[b] = S[b]
      BY <1>2, <1>6, <1>11, <1>13
    <3>2. ASSUME NEW x \in S[b] PROVE x \in S2[r] /\ Gap(v[r], 1, x)
      BY <1>6, <1>12, <1>13 DEF Gap
    <3> QED BY <1>2, <1>12, <2>1, <3>1, <3>2
  <2>2. CASE i = 2
    <3>1. new \in DOMAIN v /\ v[new].parent = r /\ g2[r] = g2[new] + 1 /\ S2[new] = S[new]
      BY <1>2, <1>6, <1>11, <1>13
    <3>2. ASSUME NEW x \in S[new] PROVE x \in S2[r] /\ Gap(v[r], 2, x)
      BY <1>6, <1>12, <1>13 DEF Gap
    <3> QED BY <1>2, <1>12, <2>2, <3>1, <3>2
  <2> QED BY <2>1, <2>2
<1>16. ASSUME NEW x \in DOMAIN u PROVE Linked(v, g2, S2, x) /\ Fits(v, S2, x)
  <2>1. /\ Same(v[x], u[x]) /\ Fits(u, S, x) /\ Linked(u, g, S, x) /\ S[x] \subseteq S2[x]
        /\ g2[x] = g[x]
    BY <1>3, <1>11, <1>13 DEF Tree
  <2>2. ASSUME NEW c \in DOMAIN u, u[c].parent = x
        PROVE  c \in DOMAIN v /\ v[c].parent = x /\ g2[c] = g[c] /\ S2[c] \subseteq S[c]
    <3>1. c # b /\ c # new
      BY <1>2, <1>3, <2>2
    <3> QED BY <1>11, <1>13, <2>2, <3>1
  <2>3. Linked(v, g2, S2, x)
    BY <2>1, <2>2, SameLinked
  <2>4. Fits(v, S2, x)
    BY <2>1, SameFits
  <2> QED BY <2>3, <2>4
<1>17. ASSUME NEW x \in DOMAIN v PROVE Owned(v, g2, x)
  <2>1. r \in DOMAIN v /\ g2[r] # 0
    BY <1>6, <1>11, <1>13
  <2>2. CASE x = b
    <3>1. 1 \in Slots(v[r]) /\ Ptr(v[r], 1) = b
      BY <1>12
    <3> QED BY <1>11, <2>1, <2>2, <3>1 DEF Owned
  <2>3. CASE x = new
    <3>1. 2 \in Slots(v[r]) /\ Ptr(v[r], 2) = new
      BY <1>12
    <3> QED BY <1>11, <2>1, <2>3, <3>1 DEF Owned
  <2>4. CASE x = r
    BY <1>11, <2>4 DEF Owned
  <2>5. CASE x \in D \ {b}
    <3>1. Owned(u, g, x) /\ v[x].parent = u[x].parent /\ x \in DOMAIN u
      BY <1>2, <1>3, <1>11, <2>5 DEF Tree
    <3>2. u[x].parent # 0 /\ u[x].parent \in DOMAIN u =>
             /\ u[x].parent \in DOMAIN v /\ g2[u[x].parent] = g[u[x].parent]
             /\ Same(v[u[x].parent], u[u[x].parent])
      BY <1>11, <1>13
    <3> QED BY <3>1, <3>2, SameOwned
  <2> QED BY <1>11, <2>2, <2>3, <2>4, <2>5
<1>18. Tree(v, H + 1, g2, S2, {})
  <2>1. \A x \in DOMAIN v : Fits(v, S2, x) /\ Linked(v, g2, S2, x)
    BY <1>11, <1>14, <1>15, <1>16
  <2>2. H + 1 \in Nat
    BY <1>2
  <2> QED BY <1>10, <1>13, <1>17, <2>1, <2>2 DEF Tree
<1>19. /\ Size(v[b]) # records_per_node /\ Size(v[new]) # records_per_node
       /\ KeysAt(v[b]) \subseteq KeysAt(t[b]) /\ KeysAt(v[new]) \subseteq KeysAt(t[b])
  <2>1. Same(v[b], u[b]) /\ Same(v[new], u[new])
    BY <1>2, <1>11
  <2>2. /\ Size(v[b]) = Size(u[b]) /\ KeysAt(v[b]) = KeysAt(u[b])
        /\ Size(v[new]) = Size(u[new]) /\ KeysAt(v[new]) = KeysAt(u[new])
    BY <2>1, SameHas
  <2> QED BY <1>3, <2>2
<1>20. \A x \in D \ {b} : /\ Same(v[x], t[x])
                          /\ \/ v[x].parent = t[x].parent
                             \/ t[x].parent = b /\ v[x].parent = new
  <2>1. \A x \in D \ {b} : Same(v[x], t[x])
    BY <1>3, <1>11 DEF Same
  <2>2. \A x \in D \ {b} : x \in DOMAIN u \ {b, new}
    BY <1>2, <1>11
  <2> QED BY <1>3, <1>11, <2>1, <2>2
<1>21. Parted(t, b, new, v, {})
  <2> SUFFICES ASSUME NEW k, NEW rec
      PROVE  Holds(t[b], k, rec) <=>
                Holds(v[b], k, rec) \/ Holds(v[new], k, rec) \/ IsMiddle(t, b, k, rec)
    BY Zenon DEF Parted
  <2>1. Holds(t[b], k, rec) <=>
           Holds(u[b], k, rec) \/ Holds(u[new], k, rec) \/ IsMiddle(t, b, k, rec)
    BY <1>3, Zenon DEF Parted
  <2>2. Same(v[b], u[b]) /\ Same(v[new], u[new])
    BY <1>2, <1>11
  <2>3. /\ Holds(v[b], k, rec) <=> Holds(u[b], k, rec)
        /\ Holds(v[new], k, rec) <=> Holds(u[new], k, rec)
    BY <2>2, SameHolds
  <2> QED BY <2>1, <2>3, Zenon
<1>22. ASSUME NEW k, NEW rec PROVE Holds(v[r], k, rec) <=> IsMiddle(t, b, k, rec)
  <2>1. Holds(v[r], k, rec) <=> Holds(top, k, rec)
    BY <1>11, SameHolds
  <2>2. Holds(top, k, rec) <=> Key(top, 1) = k /\ Rec(top, 1) = rec
    BY <1>8 DEF Holds
  <2> QED BY <1>8, <2>1, <2>2, Zenon DEF IsMiddle, mid
<1> QED
  BY <1>1, <1>3, <1>11, <1>18, <1>19, <1>20, <1>21, <1>22 DEF r, g2, S2, mid, Rerooted

\* What a split does for the search of a key: the key stays reachable from every
\* node, from one of the halves for b, and under the same root.
SplitDone(t, h, R, b, new, v, g, S) ==
    /\ DOMAIN t \cup {new} \subseteq DOMAIN v /\ DOMAIN v \subseteq DOMAIN t \cup {new, new + 1}
    /\ t[b].parent # 0 => DOMAIN v = DOMAIN t \cup {new}
    /\ \A x \in DOMAIN t : g[x] = h[x]
    /\ g[new] = h[b]
    /\ \A x \in DOMAIN t \ {b} : R[x] \subseteq S[x]
    /\ \A k \in R[b] : k \notin KeysAt(t[b]) => k \in S[b] \/ k \in S[new]
    /\ KeysAt(v[b]) \subseteq KeysAt(t[b]) /\ KeysAt(v[new]) \subseteq KeysAt(t[b])
    /\ Size(v[b]) # records_per_node /\ Size(v[new]) # records_per_node
    /\ \A x \in DOMAIN t \ {b, t[b].parent} : Same(v[x], t[x])
    /\ \A x \in DOMAIN t \ {b} : \/ v[x].parent = t[x].parent
                                 \/ t[x].parent = b /\ v[x].parent = new
    /\ Keeps(t, v) /\ FindRoot(v, new) = FindRoot(v, b)
    /\ Low(R[b]) => Low(S[b])

\* Splitting a node below a parent with room leaves a tree that holds every pair.
LEMMA SplitInnerDone ==
    ASSUME NEW t, NEW H, NEW h, NEW R, Tree(t, H, h, R, {}),
           NEW b \in DOMAIN t, NEW new \in Blocks \ DOMAIN t, Size(t[b]) = records_per_node,
           t[b].parent # 0, Size(t[t[b].parent]) # records_per_node
    PROVE  \E g, S : /\ Tree(SplitInner(t, b, new), H, g, S, {})
                     /\ SplitDone(t, h, R, b, new, SplitInner(t, b, new), g, S)
<1> DEFINE D == DOMAIN t
           v == SplitInner(t, b, new)
           g == SplitHeights(t, h, b, new)
           S == SplitRanges(t, R, b, new)
           mid == Middle(t, b).key
<1>1. /\ Tree(v, H, g, S, {}) /\ mid \in R[b] /\ mid \in Int /\ mid \in KeysAt(t[b])
      /\ KeysAt(v[b]) \subseteq KeysAt(t[b]) /\ KeysAt(v[new]) \subseteq KeysAt(t[b])
      /\ DOMAIN v = D \cup {new}
      /\ Size(v[b]) # records_per_node /\ Size(v[new]) # records_per_node
      /\ v[b].parent = t[b].parent /\ v[new].parent = t[b].parent
      /\ \A x \in D \ {b, t[b].parent} : Same(v[x], t[x])
      /\ \A x \in D : \/ v[x].parent = t[x].parent
                      \/ t[x].parent = b /\ v[x].parent = new /\ x # b
      /\ Parted(t, b, new, v, {t[b].parent})
  <2>1. Halves(t, H, h, R, b, new, v, {}, {t[b].parent})
    BY SplitInnerKeeps
  <2> HIDE DEF v
  <2> QED BY <2>1 DEF Halves
<1>2. /\ new \notin D /\ b \in D /\ new # b /\ R[b] \subseteq Int /\ t[b].parent \in D
      /\ new # 0 /\ b # 0
  <2>1. b \in D \ {}
    OBVIOUS
  <2>2. t[b].parent \in D
    BY <2>1, ParentIs
  <2> QED BY <2>2 DEF Tree, Typed, Blocks
<1>3. /\ S[new] = {k \in R[b] : mid < k} /\ S[b] = {k \in R[b] : k < mid}
      /\ \A x \in D \ {b} : S[x] = R[x]
      /\ g[new] = h[b] /\ \A x \in D : g[x] = h[x]
  BY <1>2 DEF SplitRanges, SplitHeights
<1> HIDE DEF v, g, S, mid
<1>4. \A k \in R[b] : k \notin KeysAt(t[b]) => k \in S[b] \/ k \in S[new]
  BY <1>1, <1>2, <1>3
<1> DEFINE F == [x \in DOMAIN v |-> IF x = new THEN FindRoot(t, b) ELSE FindRoot(t, x)]
<1>5. \A x \in DOMAIN v : FindRoot(v, x) = F[x]
  <2>1. ASSUME NEW x \in DOMAIN v
        PROVE  F[x] = IF v[x].parent = 0 THEN x ELSE F[v[x].parent]
    <3>1. \A y \in D : FindRoot(t, y) = IF t[y].parent = 0 THEN y ELSE FindRoot(t, t[y].parent)
      BY FindRootIs
    <3>2. \A y \in D : t[y].parent # 0 => t[y].parent \in D
      <4>1. ASSUME NEW y \in D, t[y].parent # 0 PROVE t[y].parent \in D
        <5>1. y \in D \ {}
          OBVIOUS
        <5> QED BY <4>1, <5>1, ParentIs
      <4> QED BY <4>1
    <3>3. /\ F[new] = FindRoot(t, b) /\ \A y \in D : F[y] = FindRoot(t, y)
      BY <1>1, <1>2
    <3> HIDE DEF F
    <3>4. CASE x = new
      <4>1. FindRoot(t, b) = FindRoot(t, t[b].parent)
        BY <1>2, <3>1
      <4> QED BY <1>1, <1>2, <3>3, <3>4, <4>1
    <3>5. CASE x \in D /\ v[x].parent = t[x].parent
      BY <3>1, <3>2, <3>3, <3>5
    <3>6. CASE x \in D /\ t[x].parent = b /\ v[x].parent = new
      <4>1. FindRoot(t, x) = FindRoot(t, b)
        BY <1>2, <3>1, <3>6
      <4> QED BY <1>2, <3>3, <3>6, <4>1
    <3> QED BY <1>1, <3>4, <3>5, <3>6
  <2> HIDE DEF F
  <2> QED BY <1>1, <2>1, RootsAre
<1>6. FindRoot(v, new) = FindRoot(t, b) /\ \A x \in D : FindRoot(v, x) = FindRoot(t, x)
  BY <1>1, <1>2, <1>5
<1>7. Keeps(t, v)
  <2>1. ASSUME NEW k, NEW r, NEW y \in D PROVE Stores(v, y, k, r) <=> Stores(t, y, k, r)
    <3> DEFINE q == t[b].parent
    <3>1. /\ Holds(t[b], k, r) <=>
                Holds(v[b], k, r) \/ Holds(v[new], k, r) \/ IsMiddle(t, b, k, r)
          /\ Holds(v[q], k, r) <=> Holds(t[q], k, r) \/ IsMiddle(t, b, k, r)
      <4>1. q \in {q}
        OBVIOUS
      <4> QED BY <1>1, <4>1, Zenon DEF Parted
    <3>2. \A x \in D \ {b, q} : Holds(v[x], k, r) <=> Holds(t[x], k, r)
      BY <1>1, SameHolds
    <3>3. FindRoot(t, b) = FindRoot(t, q) /\ q \in D
      BY <1>2, FindRootIs
    <3> HIDE DEF q
    <3>4. ASSUME Stores(v, y, k, r) PROVE Stores(t, y, k, r)
      <4>1. PICK x \in DOMAIN v : FindRoot(v, x) = FindRoot(v, y) /\ Holds(v[x], k, r)
        BY <3>4 DEF Stores
      <4>2. CASE x = new \/ x = b
        <5>1. Holds(t[b], k, r) /\ FindRoot(t, b) = FindRoot(t, y)
          BY <1>2, <1>6, <3>1, <4>1, <4>2
        <5> QED BY <1>2, <5>1 DEF Stores
      <4>3. CASE x = q
        <5>1. FindRoot(t, b) = FindRoot(t, y) /\ FindRoot(t, q) = FindRoot(t, y)
          BY <1>6, <3>3, <4>1, <4>3
        <5>2. Holds(t[q], k, r) \/ Holds(t[b], k, r)
          BY <3>1, <4>1, <4>3
        <5> QED BY <1>2, <3>3, <5>1, <5>2 DEF Stores
      <4>4. CASE x \in D \ {b, q}
        BY <1>6, <3>2, <4>1, <4>4 DEF Stores
      <4> QED BY <1>1, <4>2, <4>3, <4>4
    <3>5. ASSUME Stores(t, y, k, r) PROVE Stores(v, y, k, r)
      <4>1. PICK x \in D : FindRoot(t, x) = FindRoot(t, y) /\ Holds(t[x], k, r)
        BY <3>5 DEF Stores
      <4>2. \A z \in D : z \in DOMAIN v /\ FindRoot(v, z) = FindRoot(t, z)
        BY <1>1, <1>6
      <4>3. CASE x = b
        <5>1. /\ FindRoot(v, b) = FindRoot(v, y) /\ FindRoot(v, q) = FindRoot(v, y)
              /\ FindRoot(v, new) = FindRoot(v, y) /\ new \in DOMAIN v
          BY <1>1, <1>2, <1>6, <3>3, <4>1, <4>2, <4>3
        <5>2. Holds(v[b], k, r) \/ Holds(v[new], k, r) \/ Holds(v[q], k, r)
          BY <3>1, <4>1, <4>3
        <5> QED BY <1>2, <3>3, <4>2, <5>1, <5>2 DEF Stores
      <4>4. CASE x # b
        <5>1. Holds(v[x], k, r)
          BY <3>1, <3>2, <4>1, <4>4
        <5> QED BY <4>1, <4>2, <5>1 DEF Stores
      <4> QED BY <4>3, <4>4
    <3> QED BY <3>4, <3>5
  <2>2. \A x, y \in D :
            FindRoot(t, x) = FindRoot(t, y) => FindRoot(v, x) = FindRoot(v, y)
    BY <1>6
  <2> QED BY <2>1, <2>2, Zenon DEF Keeps
<1>8. Low(R[b]) => Low(S[b])
  BY <1>1, <1>2, <1>3, LowBelow
<1>9. SplitDone(t, h, R, b, new, v, g, S)
  BY <1>1, <1>2, <1>3, <1>4, <1>6, <1>7, <1>8 DEF SplitDone
<1> QED BY <1>1, <1>9 DEF v

\* Splitting the top node leaves a tree, one level higher, that holds every pair.
LEMMA SplitRootDone ==
    ASSUME NEW t, NEW H, NEW h, NEW R, Tree(t, H, h, R, {}),
           NEW b \in DOMAIN t, NEW new \in Blocks \ DOMAIN t, new + 1 \in Blocks \ DOMAIN t,
           Size(t[b]) = records_per_node, t[b].parent = 0
    PROVE  \E g, S : /\ Tree(SplitRoot(t, b, new), H + 1, g, S, {})
                     /\ SplitDone(t, h, R, b, new, SplitRoot(t, b, new), g, S)
<1> DEFINE D == DOMAIN t
           r == new + 1
           v == SplitRoot(t, b, new)
           g == RootHeights(t, h, b, new)
           S == RootRanges(t, R, b, new)
           mid == Middle(t, b).key
<1>1. /\ Tree(v, H + 1, g, S, {}) /\ mid \in Int /\ mid \in KeysAt(t[b])
      /\ KeysAt(v[b]) \subseteq KeysAt(t[b]) /\ KeysAt(v[new]) \subseteq KeysAt(t[b])
      /\ DOMAIN v = D \cup {new, r}
      /\ Size(v[b]) # records_per_node /\ Size(v[new]) # records_per_node
      /\ v[b].parent = r /\ v[new].parent = r /\ v[r].parent = 0
      /\ \A x \in D \ {b} : /\ Same(v[x], t[x])
                            /\ \/ v[x].parent = t[x].parent
                               \/ t[x].parent = b /\ v[x].parent = new
      /\ Parted(t, b, new, v, {})
      /\ \A k, rec : Holds(v[r], k, rec) <=> IsMiddle(t, b, k, rec)
  <2>1. Rerooted(t, H, h, R, b, new, v)
    BY SplitRootKeeps
  <2> HIDE DEF v
  <2> QED BY <2>1 DEF Rerooted
<1>2. /\ new \notin D /\ b \in D /\ new # b /\ R[b] \subseteq Int /\ r \notin D /\ r # new
      /\ new # 0 /\ b # 0 /\ b # r /\ r # 0 /\ 0 \notin D
  BY DEF Tree, Typed, Blocks
<1>3. /\ S[new] = {k \in R[b] : mid < k} /\ S[b] = {k \in R[b] : k < mid}
      /\ \A x \in D \ {b} : S[x] = R[x]
      /\ g[new] = h[b] /\ \A x \in D : g[x] = h[x]
  BY <1>2 DEF SplitRanges, SplitHeights, RootRanges, RootHeights
<1> HIDE DEF v, g, S, mid, r
<1>4. \A k \in R[b] : k \notin KeysAt(t[b]) => k \in S[b] \/ k \in S[new]
  BY <1>1, <1>2, <1>3
<1> DEFINE F == [x \in DOMAIN v |-> IF x \in {new, r} \/ FindRoot(t, x) = b THEN r
                                    ELSE FindRoot(t, x)]
<1>5. \A y \in D : FindRoot(t, y) = IF t[y].parent = 0 THEN y ELSE FindRoot(t, t[y].parent)
  BY FindRootIs
<1>6. \A x \in DOMAIN v : FindRoot(v, x) = F[x]
  <2>1. ASSUME NEW x \in DOMAIN v
        PROVE  F[x] = IF v[x].parent = 0 THEN x ELSE F[v[x].parent]
    <3>1. \A y \in D : t[y].parent # 0 => t[y].parent \in D
      <4>1. ASSUME NEW y \in D, t[y].parent # 0 PROVE t[y].parent \in D
        <5>1. y \in D \ {}
          OBVIOUS
        <5> QED BY <4>1, <5>1, ParentIs
      <4> QED BY <4>1
    <3>2. /\ F[new] = r /\ F[r] = r
          /\ \A y \in D : F[y] = IF FindRoot(t, y) = b THEN r ELSE FindRoot(t, y)
      BY <1>1, <1>2
    <3> HIDE DEF F
    <3>3. FindRoot(t, b) = b
      BY <1>2, <1>5
    <3>4. CASE x \in {new, r}
      BY <1>1, <1>2, <3>2, <3>4
    <3>5. CASE x = b
      BY <1>1, <1>2, <3>2, <3>3, <3>5
    <3>6. CASE x \in D \ {b} /\ v[x].parent = t[x].parent
      <4>1. CASE t[x].parent = 0
        <5>1. FindRoot(t, x) = x
          BY <1>5, <3>6, <4>1
        <5> QED BY <3>2, <3>6, <4>1, <5>1
      <4>2. CASE t[x].parent # 0
        <5>1. FindRoot(t, x) = FindRoot(t, t[x].parent) /\ t[x].parent \in D
          BY <1>5, <3>1, <3>6, <4>2
        <5> QED BY <3>2, <3>6, <4>2, <5>1
      <4> QED BY <4>1, <4>2
    <3>7. CASE x \in D \ {b} /\ t[x].parent = b /\ v[x].parent = new
      <4>1. FindRoot(t, x) = b
        BY <1>2, <1>5, <3>3, <3>7
      <4> QED BY <1>2, <3>2, <3>7, <4>1
    <3>8. x \in {new, r} \/ x = b \/ x \in D \ {b}
      BY <1>1
    <3> QED BY <1>1, <3>4, <3>5, <3>6, <3>7, <3>8
  <2> HIDE DEF F
  <2> QED BY <1>1, <2>1, RootsAre
<1>7. /\ FindRoot(v, new) = r /\ FindRoot(v, b) = r
      /\ \A x \in D : FindRoot(v, x) = IF FindRoot(t, x) = b THEN r ELSE FindRoot(t, x)
  <2>1. FindRoot(t, b) = b
    BY <1>2, <1>5
  <2> QED BY <1>1, <1>2, <1>6, <2>1
<1>8. Keeps(t, v)
  <2>1. \A x, y \in D :
            FindRoot(v, x) = FindRoot(v, y) <=> FindRoot(t, x) = FindRoot(t, y)
    <3>1. \A x \in D : FindRoot(t, x) # r
      <4>1. \A x \in D : FindRoot(t, x) \in D
        BY FindRootIs
      <4> QED BY <1>2, <4>1
    <3> QED BY <1>7, <3>1
  <2>2. ASSUME NEW k, NEW rec, NEW y \in D
        PROVE  Stores(v, y, k, rec) <=> Stores(t, y, k, rec)
    <3>1. /\ Holds(t[b], k, rec) <=>
                Holds(v[b], k, rec) \/ Holds(v[new], k, rec) \/ IsMiddle(t, b, k, rec)
          /\ Holds(v[r], k, rec) <=> IsMiddle(t, b, k, rec)
      BY <1>1, Zenon DEF Parted
    <3>2. \A x \in D \ {b} : Holds(v[x], k, rec) <=> Holds(t[x], k, rec)
      BY <1>1, SameHolds
    <3>3. /\ FindRoot(v, new) = FindRoot(v, b) /\ FindRoot(v, r) = FindRoot(v, b)
          /\ b \in DOMAIN v /\ new \in DOMAIN v /\ r \in DOMAIN v /\ D \subseteq DOMAIN v
      <4>1. FindRoot(v, r) = r
        BY <1>1, <1>6
      <4> QED BY <1>1, <1>2, <1>7, <4>1
    <3>4. ASSUME Stores(v, y, k, rec) PROVE Stores(t, y, k, rec)
      <4>1. PICK x \in DOMAIN v : FindRoot(v, x) = FindRoot(v, y) /\ Holds(v[x], k, rec)
        BY <3>4 DEF Stores
      <4>2. CASE x = new \/ x = b \/ x = r
        <5>1. Holds(t[b], k, rec) /\ FindRoot(t, b) = FindRoot(t, y)
          BY <1>2, <2>1, <3>1, <3>3, <4>1, <4>2
        <5> QED BY <1>2, <5>1 DEF Stores
      <4>3. CASE x \in D \ {b}
        BY <2>1, <3>2, <4>1, <4>3 DEF Stores
      <4> QED BY <1>1, <4>2, <4>3
    <3>5. ASSUME Stores(t, y, k, rec) PROVE Stores(v, y, k, rec)
      <4>1. PICK x \in D : FindRoot(t, x) = FindRoot(t, y) /\ Holds(t[x], k, rec)
        BY <3>5 DEF Stores
      <4>2. FindRoot(v, x) = FindRoot(v, y)
        BY <2>1, <4>1
      <4>3. CASE x = b
        <5>1. Holds(v[b], k, rec) \/ Holds(v[new], k, rec) \/ Holds(v[r], k, rec)
          BY <3>1, <4>1, <4>3
        <5> QED BY <3>3, <4>2, <4>3, <5>1 DEF Stores
      <4>4. CASE x # b
        <5>1. Holds(v[x], k, rec)
          BY <3>2, <4>1, <4>4
        <5> QED BY <3>3, <4>2, <5>1 DEF Stores
      <4> QED BY <4>3, <4>4
    <3> QED BY <3>4, <3>5
  <2> QED BY <2>1, <2>2, Zenon DEF Keeps
<1>9. Low(R[b]) => Low(S[b])
  BY <1>1, <1>2, <1>3, LowBelow
<1>10. SplitDone(t, h, R, b, new, v, g, S)
  <2>1. D \cup {new} \subseteq DOMAIN v /\ DOMAIN v \subseteq D \cup {new, r}
    BY <1>1
  <2> QED BY <1>1, <1>2, <1>3, <1>4, <1>7, <1>8, <1>9, <2>1 DEF SplitDone, r
<1> QED BY <1>1, <1>10 DEF v

\* A split leaves a tree that holds every pair.
LEMMA SplitIs ==
    ASSUME NEW t, NEW H, NEW h, NEW R, Tree(t, H, h, R, {}),
           NEW b \in DOMAIN t, NEW new \in Blocks \ DOMAIN t, Size(t[b]) = records_per_node,
           t[b].parent = 0 => new + 1 \in Blocks \ DOMAIN t,
           t[b].parent # 0 => Size(t[t[b].parent]) # records_per_node
    PROVE  \E G, g, S : /\ Tree(Split(t, b, new), G, g, S, {})
                        /\ SplitDone(t, h, R, b, new, Split(t, b, new), g, S)
<1>1. CASE t[b].parent = 0
  <2>1. Split(t, b, new) = SplitRoot(t, b, new)
    BY <1>1 DEF Split
  <2>2. \E g, S : /\ Tree(SplitRoot(t, b, new), H + 1, g, S, {})
                  /\ SplitDone(t, h, R, b, new, SplitRoot(t, b, new), g, S)
    BY <1>1, SplitRootDone
  <2> QED BY <2>1, <2>2
<1>2. CASE t[b].parent # 0
  <2>1. Split(t, b, new) = SplitInner(t, b, new)
    BY <1>2 DEF Split
  <2>2. \E g, S : /\ Tree(SplitInner(t, b, new), H, g, S, {})
                  /\ SplitDone(t, h, R, b, new, SplitInner(t, b, new), g, S)
    BY <1>2, SplitInnerDone
  <2> QED BY <2>1, <2>2
<1> QED BY <1>1, <1>2

\* The nodes of the path are one below the other, and the key lies from each on.
LEMMA PathIs ==
    ASSUME NEW t, NEW H, NEW h, NEW R, Tree(t, H, h, R, {}), NEW l \in DOMAIN t, h[l] = 0,
           NEW k \in Int, k \in R[l], k \notin KeysAt(t[l])
    PROVE  LET path == FullPath(t, l)
           IN  \A m \in 1 .. Len(path) :
                  /\ h[path[m]] = Len(path) - m
                  /\ k \in R[path[m]] /\ k \notin KeysAt(t[path[m]])
                  /\ FindRoot(t, path[m]) = FindRoot(t, l)
<1> DEFINE path == FullPath(t, l)
           n == Len(path)
           good(m) == /\ h[path[m]] = n - m
                      /\ k \in R[path[m]] /\ k \notin KeysAt(t[path[m]])
                      /\ FindRoot(t, path[m]) = FindRoot(t, l)
           bad == {m \in 1 .. n : ~ good(m)}
<1>1. /\ path \in Seq(DOMAIN t)
      /\ \A m \in 2 .. n : t[path[m]].parent = path[m - 1]
      /\ path # <<>> => path[n] = l
  BY FullPathIs
<1>2. n \in Nat /\ (path # <<>> <=> n # 0) /\ \A m \in 1 .. n : path[m] \in DOMAIN t
  BY <1>1
<1> HIDE DEF path, n
<1>3. bad = {}
  <2> SUFFICES ASSUME bad # {} PROVE FALSE
    OBVIOUS
  <2> DEFINE rank == [m \in 1 .. n |-> m]
  <2>1. \A m \in bad : rank[m] \in 0 .. n
    BY <1>2
  <2> HIDE DEF bad
  <2>2. PICK m \in bad : \A i \in bad : rank[i] <= rank[m]
    <3> HIDE DEF rank
    <3> QED BY <1>2, <2>1, LowestOf
  <2>3. m \in 1 .. n /\ ~ good(m)
    <3> HIDE DEF good, rank
    <3> QED BY <2>2 DEF bad
  <2>4. m # n
    <3>1. m = n => path[m] = l
      BY <1>1, <1>2, <2>3
    <3>2. n - n = 0
      BY <1>2
    <3> QED BY <2>3, <3>1, <3>2
  <2>5. m + 1 \in 1 .. n /\ m + 1 \in 2 .. n /\ (m + 1) - 1 = m /\ m + 1 \notin bad
    <3>1. m + 1 \in 1 .. n /\ m + 1 \in 2 .. n /\ (m + 1) - 1 = m
      BY <1>2, <2>3, <2>4
    <3>2. rank[m] = m /\ rank[m + 1] = m + 1 /\ m \in Nat
      BY <2>3, <3>1
    <3> HIDE DEF rank
    <3>3. m + 1 \notin bad
      BY <2>2, <3>2
    <3> QED BY <3>1, <3>3
  <2>6. good(m + 1)
    BY <2>5 DEF bad
  <2> DEFINE c == path[m + 1]
             p == path[m]
  <2>7. /\ c \in DOMAIN t \ {} /\ p \in DOMAIN t /\ t[c].parent = p /\ p # 0
        /\ h[c] = n - (m + 1) /\ k \in R[c] /\ FindRoot(t, c) = FindRoot(t, l)
    <3>1. 0 \notin DOMAIN t
      BY DEF Tree, Typed, Blocks
    <3> QED BY <1>1, <1>2, <2>3, <2>5, <2>6, <3>1
  <2> HIDE DEF c, p
  <2>8. /\ h[p] = h[c] + 1
        /\ \E i \in Slots(t[p]) :
              Ptr(t[p], i) = c /\ \A x \in R[c] : x \in Int /\ x \in R[p] /\ Gap(t[p], i, x)
    BY <2>7, ParentIs
  <2>9. k \in R[p] /\ \E i \in Slots(t[p]) : Gap(t[p], i, k)
    BY <2>7, <2>8
  <2>10. k \notin KeysAt(t[p])
    <3>1. t[p] \in Node /\ Sorted(t[p])
      BY <2>7 DEF Tree, Typed, Fits
    <3> QED BY <2>9, <3>1, KeysAtIs
  <2>11. h[p] = n - m
    BY <1>2, <2>3, <2>7, <2>8
  <2>12. FindRoot(t, p) = FindRoot(t, l)
    BY <2>7, FindRootIs
  <2> QED BY <2>3, <2>9, <2>10, <2>11, <2>12 DEF p
<1> QED BY <1>3 DEF path, n

\* When make_room has split the first j nodes of the path: the others are as they
\* were, with room in the parent of the next, and when it is done there is room in
\* the leaf for the key.
RoomMade(t, l, from, k, new, j, v, G, g, S) ==
    LET path == FullPath(t, l)
        n == Len(path)
    IN  /\ Tree(v, G, g, S, {}) /\ Low(S[1]) /\ Low(S[from]) /\ Keeps(t, v)
        /\ j = 0 => v = t
        /\ DOMAIN t \subseteq DOMAIN v
        /\ DOMAIN v \subseteq 1 .. new + BlocksFor(t, path, j) - 1
        /\ \A m \in j + 1 .. n :
              /\ Size(v[path[m]]) = records_per_node /\ g[path[m]] = n - m
              /\ k \in S[path[m]] /\ k \notin KeysAt(v[path[m]])
        /\ \A m \in j + 2 .. n : v[path[m]].parent = path[m - 1]
        /\ j < n => LET p == v[path[j + 1]].parent
                    IN  /\ p # 0 => Size(v[p]) # records_per_node
                        /\ j > 0 => p # 0
        /\ \E z \in DOMAIN v :
              /\ g[z] = 0 /\ k \in S[z] /\ k \notin KeysAt(v[z])
              /\ FindRoot(v, z) = FindRoot(v, from)
              /\ j < n => z = l
              /\ j = n => Size(v[z]) # records_per_node

\* Before the first split, the invariant of making room holds.
LEMMA RoomStarts ==
    ASSUME NEW t, NEW H, NEW h, NEW R, Tree(t, H, h, R, {}), NEW l \in DOMAIN t, h[l] = 0,
           NEW k \in Int, k \in R[l], k \notin KeysAt(t[l]),
           NEW from \in DOMAIN t, FindRoot(t, l) = FindRoot(t, from),
           Low(R[1]), Low(R[from]), NEW new \in Nat, DOMAIN t \subseteq 1 .. new - 1
    PROVE  RoomMade(t, l, from, k, new, 0, t, H, h, R)
<1> DEFINE path == FullPath(t, l)
           n == Len(path)
<1>1. /\ path \in Seq(DOMAIN t)
      /\ \A m \in 1 .. n : Size(t[path[m]]) = records_per_node
      /\ \A m \in 2 .. n : t[path[m]].parent = path[m - 1]
      /\ path # <<>> =>
            (t[path[1]].parent # 0 => Size(t[t[path[1]].parent]) # records_per_node)
      /\ path = <<>> => Size(t[l]) # records_per_node
  BY FullPathIs
<1>2. \A m \in 1 .. n : /\ h[path[m]] = n - m
                        /\ k \in R[path[m]] /\ k \notin KeysAt(t[path[m]])
  BY PathIs
<1>3. BlocksFor(t, path, 0) = 0
  BY DEF BlocksFor
<1>4. n \in Nat /\ (path # <<>> <=> n # 0)
  BY <1>1
<1> HIDE DEF path, n
<1>5. new + BlocksFor(t, path, 0) - 1 = new - 1
  BY <1>3
<1>6. 0 + 1 = 1 /\ 0 + 2 = 2 /\ ~ (0 > 0)
  OBVIOUS
<1>7. \E z \in DOMAIN t :
          /\ h[z] = 0 /\ k \in R[z] /\ k \notin KeysAt(t[z])
          /\ FindRoot(t, z) = FindRoot(t, from)
          /\ 0 < n => z = l
          /\ 0 = n => Size(t[z]) # records_per_node
  BY <1>1, <1>4
<1>8. 0 < n => path # <<>>
  BY <1>4
<1>9. Keeps(t, t)
  BY Zenon DEF Keeps
<1> QED BY <1>1, <1>2, <1>5, <1>6, <1>7, <1>8, <1>9, Zenon DEF RoomMade, path, n

\* The blocks that the splits take: two for the top node, one for every other.
LEMMA BlocksForIs ==
    ASSUME NEW t, NEW path, NEW j \in Nat
    PROVE  /\ BlocksFor(t, path, 0) = 0 /\ BlocksFor(t, path, j) \in Nat
           /\ j > 0 => BlocksFor(t, path, j + 1) = BlocksFor(t, path, j) + 1
           /\ BlocksFor(t, path, 1) = IF t[path[1]].parent = 0 THEN 2 ELSE 1
           /\ BlocksFor(t, path, j) < BlocksFor(t, path, j + 1)
BY DEF BlocksFor

\* One more split keeps the invariant of making room.
LEMMA RoomGrows ==
    ASSUME NEW t, NEW l \in DOMAIN t, NEW from \in DOMAIN t, 1 \in DOMAIN t,
           NEW k \in Int, NEW new \in Nat,
           NEW j \in Nat, j < Len(FullPath(t, l)),
           new + BlocksFor(t, FullPath(t, l), j + 1) <= MaxBlocks + 1,
           FullPath(t, l) \in Seq(DOMAIN t),
           FullPath(t, l) # <<>> => FullPath(t, l)[Len(FullPath(t, l))] = l,
           NEW v, NEW G, NEW g, NEW S, RoomMade(t, l, from, k, new, j, v, G, g, S),
           NEW w,
           w = Split(v, FullPath(t, l)[j + 1], new + BlocksFor(t, FullPath(t, l), j))
    PROVE  \E G2, g2, S2 : RoomMade(t, l, from, k, new, j + 1, w, G2, g2, S2)
<1> DEFINE path == FullPath(t, l)
           n == Len(path)
           used(i) == BlocksFor(t, path, i)
           b == path[j + 1]
           next == new + used(j)
           p == v[b].parent
<1>1. /\ Tree(v, G, g, S, {}) /\ (j = 0 => v = t)
      /\ DOMAIN t \subseteq DOMAIN v /\ DOMAIN v \subseteq 1 .. new + used(j) - 1
      /\ \A m \in j + 1 .. n : /\ Size(v[path[m]]) = records_per_node /\ g[path[m]] = n - m
                               /\ k \in S[path[m]] /\ k \notin KeysAt(v[path[m]])
      /\ \A m \in j + 2 .. n : v[path[m]].parent = path[m - 1]
      /\ p # 0 => Size(v[p]) # records_per_node
      /\ j > 0 => p # 0
  BY Zenon DEF RoomMade
<1>2. PICK z \in DOMAIN v : /\ g[z] = 0 /\ k \in S[z] /\ k \notin KeysAt(v[z])
                            /\ FindRoot(v, z) = FindRoot(v, from) /\ z = l
  BY Zenon DEF RoomMade
<1>3. /\ used(0) = 0 /\ used(j) \in Nat /\ used(j + 1) \in Nat
      /\ j > 0 => used(j + 1) = used(j) + 1
      /\ used(1) = IF t[path[1]].parent = 0 THEN 2 ELSE 1
      /\ used(j) < used(j + 1)
  <2>1. j + 1 \in Nat
    OBVIOUS
  <2> QED BY <2>1, BlocksForIs
<1>4. /\ n \in Nat /\ \A m \in 1 .. n : path[m] \in DOMAIN t /\ path[m] \in DOMAIN v
      /\ path[n] = l
  <2>1. n \in Nat /\ \A m \in 1 .. n : path[m] \in DOMAIN t
    OBVIOUS
  <2>2. path # <<>>
    <3>1. n > 0
      BY <2>1
    <3> QED BY <3>1
  <2>3. path[n] = l
    BY <2>2
  <2> QED BY <1>1, <2>1, <2>3
<1>5. j + 1 \in j + 1 .. n /\ j + 1 \in 1 .. n
  BY <1>4
<1>6. new + used(j + 1) <= MaxBlocks + 1 /\ MaxBlocks \in Nat /\ Blocks = 1 .. MaxBlocks
  BY BlockAssumption DEF Blocks
<1>7. w = Split(v, b, next)
  OBVIOUS
<1> HIDE DEF used, n, path
<1>8. next \in Blocks \ DOMAIN v
  <2>1. DOMAIN v \subseteq 1 .. next - 1
    <3>1. new + used(j) - 1 = next - 1
      BY <1>3
    <3> HIDE DEF next
    <3> QED BY <1>1, <3>1
  <2>2. next \in Nat /\ next < new + used(j + 1) /\ next <= MaxBlocks
    <3>1. used(j) \in Nat /\ used(j + 1) \in Nat /\ used(j) < used(j + 1)
      BY <1>3, Zenon
    <3>2. next \in Nat /\ next < new + used(j + 1)
      BY <3>1
    <3> HIDE DEF next
    <3> QED BY <1>6, <3>1, <3>2
  <2>3. DOMAIN v # {}
    BY <1>4
  <2>4. next \notin DOMAIN v /\ next > 0
    <3>1. PICK x \in DOMAIN v : x \in 1 .. next - 1
      BY <2>1, <2>3
    <3>2. next \notin 1 .. next - 1
      BY <2>2
    <3> HIDE DEF next
    <3> QED BY <2>1, <2>2, <3>1, <3>2
  <2> HIDE DEF next
  <2> QED BY <1>6, <2>2, <2>4
<1>9. p = 0 => next + 1 \in Blocks \ DOMAIN v /\ j = 0 /\ used(j + 1) = 2 /\ used(j) = 0
  <2>1. p = 0 => j = 0
    BY <1>1
  <2>2. p = 0 => used(j + 1) = 2 /\ used(j) = 0
    BY <1>1, <1>3, <2>1
  <2>3. p = 0 => next + 1 \in Blocks \ DOMAIN v
    BY <1>1, <1>3, <1>6, <2>2
  <2> QED BY <2>1, <2>2, <2>3
<1>10. b \in DOMAIN v /\ Size(v[b]) = records_per_node /\ g[b] = n - (j + 1)
       /\ k \in S[b] /\ k \notin KeysAt(v[b])
  BY <1>1, <1>4, <1>5
<1> HIDE DEF b, next, p
<1>11. 0 \notin DOMAIN v /\ 0 \notin Blocks
  <2>1. 0 \notin Blocks
    BY DEF Blocks
  <2>2. DOMAIN v \subseteq Blocks
    BY <1>1 DEF Tree, Typed
  <2> QED BY <2>1, <2>2
<1>12. PICK G2, g2, S2 : Tree(w, G2, g2, S2, {}) /\ SplitDone(v, g, S, b, next, w, g2, S2)
  <2>1. /\ v[b].parent = 0 => next + 1 \in Blocks \ DOMAIN v
        /\ v[b].parent # 0 => Size(v[v[b].parent]) # records_per_node
    BY <1>1, <1>9 DEF p
  <2> QED BY <1>1, <1>7, <1>8, <1>10, <2>1, SplitIs
<1>13. /\ DOMAIN v \cup {next} \subseteq DOMAIN w
       /\ DOMAIN w \subseteq DOMAIN v \cup {next, next + 1}
       /\ p # 0 => DOMAIN w = DOMAIN v \cup {next}
       /\ \A x \in DOMAIN v : g2[x] = g[x]
       /\ g2[next] = g[b]
       /\ \A x \in DOMAIN v \ {b} : S[x] \subseteq S2[x]
       /\ k \in S2[b] \/ k \in S2[next]
       /\ KeysAt(w[b]) \subseteq KeysAt(v[b]) /\ KeysAt(w[next]) \subseteq KeysAt(v[b])
       /\ Size(w[b]) # records_per_node /\ Size(w[next]) # records_per_node
       /\ \A x \in DOMAIN v \ {b, p} : Same(w[x], v[x])
       /\ \A x \in DOMAIN v \ {b} : \/ w[x].parent = v[x].parent
                                    \/ v[x].parent = b /\ w[x].parent = next
       /\ \A x, y \in DOMAIN v :
             FindRoot(v, x) = FindRoot(v, y) => FindRoot(w, x) = FindRoot(w, y)
       /\ FindRoot(w, next) = FindRoot(w, b)
       /\ Low(S[b]) => Low(S2[b])
       /\ Keeps(v, w)
  <2>1. Keeps(v, w)
    BY <1>12, Zenon DEF SplitDone
  <2>2. \A x, y \in DOMAIN v :
            FindRoot(v, x) = FindRoot(v, y) => FindRoot(w, x) = FindRoot(w, y)
    BY <2>1, Zenon DEF Keeps
  <2> QED BY <1>10, <1>12, <2>1, <2>2 DEF SplitDone, p
<1>14. DOMAIN w \subseteq 1 .. new + used(j + 1) - 1
  <2>1. CASE p = 0
    <3>1. DOMAIN v \subseteq 1 .. new - 1 /\ next = new /\ next \in Blocks
      BY <1>1, <1>8, <1>9, <2>1 DEF next
    <3>2. /\ new + used(j + 1) - 1 = new + 1 /\ new \in 1 .. new + 1 /\ new + 1 \in 1 .. new + 1
          /\ \A x \in 1 .. new - 1 : x \in 1 .. new + 1
      BY <1>9, <2>1, <1>6, <3>1
    <3> QED BY <1>13, <3>1, <3>2
  <2>2. CASE p # 0
    <3>1. next \in 1 .. new + used(j + 1) - 1
      BY <1>3, <1>8, <1>6 DEF next
    <3>2. \A x \in 1 .. new + used(j) - 1 : x \in 1 .. new + used(j + 1) - 1
      BY <1>3
    <3> QED BY <1>1, <1>13, <2>2, <3>1, <3>2
  <2> QED BY <2>1, <2>2
<1>15. p # 0 => g[p] = g[b] + 1
  <2>1. b \in DOMAIN v \ {}
    BY <1>10
  <2> QED BY <1>1, <2>1, ParentIs DEF p
\* The nodes further down are not touched.
<1>16. ASSUME NEW m \in j + 2 .. n
       PROVE  /\ m \in 1 .. n /\ m \in j + 1 .. n /\ path[m] \in DOMAIN v
              /\ path[m] # b /\ path[m] # p /\ Same(w[path[m]], v[path[m]])
              /\ Size(w[path[m]]) = records_per_node /\ g2[path[m]] = n - m
              /\ k \in S2[path[m]] /\ k \notin KeysAt(w[path[m]])
  <2>1. m \in 1 .. n /\ m \in j + 1 .. n
    BY <1>4
  <2>2. path[m] \in DOMAIN v /\ g[path[m]] = n - m /\ Size(v[path[m]]) = records_per_node
        /\ k \in S[path[m]] /\ k \notin KeysAt(v[path[m]])
    BY <1>1, <1>4, <2>1
  <2>3. path[m] # b /\ path[m] # p
    <3>1. n - m # n - (j + 1) /\ n - m # n - (j + 1) + 1
      BY <1>4, <2>1
    <3>2. path[m] # 0
      BY <1>11, <2>2
    <3> QED BY <1>10, <1>15, <2>2, <3>1, <3>2
  <2>4. Same(w[path[m]], v[path[m]])
    BY <1>13, <2>2, <2>3
  <2>5. Size(w[path[m]]) = Size(v[path[m]]) /\ KeysAt(w[path[m]]) = KeysAt(v[path[m]])
    BY <2>4, SameHas
  <2>6. g2[path[m]] = n - m /\ k \in S2[path[m]]
    BY <1>13, <2>2, <2>3
  <2> QED BY <2>1, <2>2, <2>3, <2>4, <2>5, <2>6
<1>17. ASSUME NEW m \in j + 3 .. n PROVE w[path[m]].parent = path[m - 1]
  <2>1. m \in j + 2 .. n /\ m - 1 \in j + 2 .. n
    BY <1>4
  <2>2. v[path[m]].parent = path[m - 1] /\ path[m - 1] # b /\ path[m] # b /\ path[m] \in DOMAIN v
    BY <1>1, <1>16, <2>1
  <2> QED BY <1>13, <2>2
<1>18. ASSUME j + 1 < n
       PROVE  /\ w[path[j + 2]].parent # 0
              /\ Size(w[w[path[j + 2]].parent]) # records_per_node
  <2>1. j + 2 \in j + 2 .. n /\ (j + 2) - 1 = j + 1
    BY <1>4, <1>18
  <2>2. v[path[j + 2]].parent = b /\ path[j + 2] \in DOMAIN v /\ path[j + 2] # b
    BY <1>1, <1>16, <2>1 DEF b
  <2>3. b # 0 /\ next # 0
    BY <1>8, <1>10, <1>11
  <2> QED BY <1>13, <2>2, <2>3
<1>19. \E y \in DOMAIN w :
          /\ g2[y] = 0 /\ k \in S2[y] /\ k \notin KeysAt(w[y])
          /\ FindRoot(w, y) = FindRoot(w, from)
          /\ j + 1 < n => y = l
          /\ j + 1 = n => Size(w[y]) # records_per_node
  <2>1. from \in DOMAIN v /\ l \in DOMAIN v /\ DOMAIN v \subseteq DOMAIN w /\ next \in DOMAIN w
    BY <1>1, <1>13
  <2>2. FindRoot(w, l) = FindRoot(w, from)
    BY <1>2, <1>13, <2>1
  <2>3. CASE j + 1 < n
    <3>1. n \in j + 2 .. n /\ path[n] = l
      BY <1>4, <2>3
    <3>2. k \in S2[l] /\ k \notin KeysAt(w[l]) /\ g2[l] = 0
      BY <1>2, <1>13, <1>16, <3>1
    <3> QED BY <1>4, <2>1, <2>2, <2>3, <3>2
  <2>4. CASE j + 1 = n
    <3>1. b = l
      BY <1>4, <2>4 DEF b
    <3>2. g2[b] = 0 /\ g2[next] = 0
      BY <1>2, <1>10, <1>13, <3>1
    <3>3. k \notin KeysAt(w[b]) /\ k \notin KeysAt(w[next])
      BY <1>10, <1>13
    <3>4. FindRoot(w, b) = FindRoot(w, from) /\ FindRoot(w, next) = FindRoot(w, from)
      BY <1>13, <2>2, <3>1
    <3>5. ~ (j + 1 < n)
      BY <1>4, <2>4
    <3> QED BY <1>13, <2>1, <3>1, <3>2, <3>3, <3>4, <3>5
  <2> QED BY <1>4, <1>5, <2>3, <2>4
<1>20. /\ DOMAIN t \subseteq DOMAIN w /\ j + 1 # 0 /\ (j + 1) + 1 = j + 2 /\ (j + 1) + 2 = j + 3
  BY <1>1, <1>13
<1>21. \A m \in j + 2 .. n : /\ Size(w[path[m]]) = records_per_node /\ g2[path[m]] = n - m
                             /\ k \in S2[path[m]] /\ k \notin KeysAt(w[path[m]])
  BY <1>16
<1>22. Low(S[1]) /\ Low(S[from]) /\ Keeps(t, v)
  BY Zenon DEF RoomMade
<1>23. Keeps(t, w)
  BY <1>1, <1>13, <1>22, KeepsOn
<1>24. ASSUME NEW x \in {1, from} PROVE Low(S2[x])
  <2>1. x \in DOMAIN v /\ Low(S[x])
    BY <1>1, <1>22
  <2>2. x # b => S[x] \subseteq S2[x]
    BY <1>13, <2>1
  <2> QED BY <1>13, <2>1, <2>2 DEF Low
<1>25. RoomMade(t, l, from, k, new, j + 1, w, G2, g2, S2)
  BY <1>12, <1>14, <1>17, <1>18, <1>19, <1>20, <1>21, <1>23, <1>24, Zenon
     DEF RoomMade, used, path, n
<1> QED BY <1>25

\* make_room, after any number of the nodes of the path, leaves a tree, and after
\* the whole path a leaf with room for the key.
LEMMA MakeRoomKeeps ==
    ASSUME NEW t, NEW H, NEW h, NEW R, Tree(t, H, h, R, {}), NEW l \in DOMAIN t, h[l] = 0,
           NEW k \in Int, k \in R[l], k \notin KeysAt(t[l]),
           NEW from \in DOMAIN t, FindRoot(t, l) = FindRoot(t, from),
           1 \in DOMAIN t, Low(R[1]), Low(R[from]),
           NEW new \in Nat, DOMAIN t \subseteq 1 .. new - 1
    PROVE  LET path == FullPath(t, l)
           IN  \A j \in 0 .. Len(path) :
                  new + BlocksFor(t, path, j) <= MaxBlocks + 1 =>
                     \E G, g, S : RoomMade(t, l, from, k, new, j,
                                           MakeRoom(t, path, new, j), G, g, S)
<1> DEFINE path == FullPath(t, l)
           n == Len(path)
           used(j) == BlocksFor(t, path, j)
           room(j) == MakeRoom(t, path, new, j)
           made(j) == \E G, g, S : RoomMade(t, l, from, k, new, j, room(j), G, g, S)
           bad == {j \in 0 .. n : new + used(j) <= MaxBlocks + 1 /\ ~ made(j)}
<1>1. path \in Seq(DOMAIN t) /\ (path # <<>> => path[n] = l)
  BY FullPathIs
<1>2. n \in Nat
  BY <1>1
<1>3. bad = {}
  <2> SUFFICES ASSUME bad # {} PROVE FALSE
    OBVIOUS
  <2>1. bad \in SUBSET Nat
    BY <1>2
  <2> HIDE DEF bad
  <2>2. PICK i \in bad : \A j \in bad : i <= j
    BY <2>1, LeastNumber
  <2>3. i \in 0 .. n /\ new + used(i) <= MaxBlocks + 1 /\ ~ made(i)
    BY <2>2 DEF bad
  <2>4. i # 0
    <3>1. room(0) = t
      BY MakeRoomIs
    <3>2. RoomMade(t, l, from, k, new, 0, t, H, h, R)
      BY RoomStarts
    <3> QED BY <2>3, <3>1, <3>2
  <2> DEFINE j == i - 1
  <2>5. j \in Nat /\ j < n /\ j \in 0 .. n /\ j + 1 = i /\ ~ (i <= j)
    BY <1>2, <2>3, <2>4
  <2> HIDE DEF j, path, n, room
  <2>6. used(j) < used(j + 1) /\ used(j) \in Nat /\ used(j + 1) \in Nat
    <3>1. j + 1 \in Nat
      BY <2>5
    <3> QED BY <2>5, <3>1, BlocksForIs
  <2>7. new + used(j) <= MaxBlocks + 1
    <3> HIDE DEF used
    <3> QED BY <2>3, <2>5, <2>6, BlockAssumption
  <2>8. PICK G, g, S : RoomMade(t, l, from, k, new, j, room(j), G, g, S)
    BY <2>2, <2>5, <2>7, Zenon DEF bad
  <2>9. room(i) = Split(room(j), path[j + 1], new + used(j))
    BY <2>5, MakeRoomIs DEF room
  <2>10. made(j + 1)
    <3>1. /\ j < Len(FullPath(t, l)) /\ new + BlocksFor(t, FullPath(t, l), j + 1) <= MaxBlocks + 1
          /\ FullPath(t, l) \in Seq(DOMAIN t)
          /\ FullPath(t, l) # <<>> => FullPath(t, l)[Len(FullPath(t, l))] = l
      BY <1>1, <2>3, <2>5 DEF path, n
    <3>2. room(i) = Split(room(j), FullPath(t, l)[j + 1], new + BlocksFor(t, FullPath(t, l), j))
      BY <2>9 DEF path
    <3>3. \E G2, g2, S2 : RoomMade(t, l, from, k, new, j + 1, room(i), G2, g2, S2)
      BY <2>5, <2>8, <3>1, <3>2, RoomGrows
    <3> QED BY <2>5, <3>3
  <2> QED BY <2>3, <2>5, <2>10
<1> HIDE DEF made
<1>4. \A j \in 0 .. n : new + used(j) <= MaxBlocks + 1 => made(j)
  BY <1>3
<1> QED BY <1>4 DEF made
---------------------------------------------------------------------------------
(* The operations *)

\* The blocks below next hold trees, and the first block and from lie on the left edge
\* of the same one.
Sound(t, next, from) ==
    /\ \E H, h, R : Tree(t, H, h, R, {}) /\ Low(R[1]) /\ Low(R[from])
    /\ DOMAIN t \subseteq 1 .. next - 1
    /\ 1 \in DOMAIN t /\ from \in DOMAIN t /\ FindRoot(t, 1) = FindRoot(t, from)

\* A tree sound for some number of blocks is sound for a greater one.
LEMMA SoundGrows ==
    ASSUME NEW t, NEW from, NEW low \in Nat, NEW high \in Nat, low <= high,
           Sound(t, low, from)
    PROVE  Sound(t, high, from)
<1>1. DOMAIN t \subseteq 1 .. low - 1
  BY DEF Sound
<1>2. \A x \in 1 .. low - 1 : x \in 1 .. high - 1
  OBVIOUS
<1>3. DOMAIN t \subseteq 1 .. high - 1
  BY <1>1, <1>2
<1> QED BY <1>3, Zenon DEF Sound

\* The root is on the left edge when a node of its tree is.
LEMMA LowUp ==
    ASSUME NEW t, NEW H, NEW h, NEW R, Tree(t, H, h, R, {}), NEW x \in DOMAIN t, Low(R[x])
    PROVE  Low(R[FindRoot(t, x)])
BY UpIs DEF Low

\* What is stored is what find finds from the root.
LEMMA StoredIs ==
    ASSUME NEW t, NEW next, NEW from, Sound(t, next, from), NEW k \in Int
    PROVE  /\ \A r : Stores(t, from, k, r) =>
                        Find(t, FindRoot(t, from), k) = r /\ r # NoRecord
           /\ Find(t, FindRoot(t, from), k) # NoRecord =>
                 Stores(t, from, k, Find(t, FindRoot(t, from), k))
<1>1. PICK H, h, R : Tree(t, H, h, R, {})
  BY DEF Sound
<1> DEFINE b == FindRoot(t, from)
<1>2. b \in DOMAIN t /\ t[b].parent = 0 /\ FindRoot(t, b) = b
  <2>1. from \in DOMAIN t
    BY DEF Sound
  <2> QED BY <1>1, <2>1, FindRootIs
<1>3. \A r : Stores(t, b, k, r) <=> Stores(t, from, k, r)
  BY <1>2, Zenon DEF Stores
<1> HIDE DEF b
<1>4. /\ \A r : Stores(t, b, k, r) => Find(t, b, k) = r /\ r # NoRecord
      /\ Find(t, b, k) # NoRecord => Stores(t, b, k, Find(t, b, k))
  BY <1>1, <1>2, FoundIs
<1> QED BY <1>3, <1>4, Zenon DEF b

\* A key that find does not find belongs to the leaf that the search ends in.
LEMMA AbsentIs ==
    ASSUME NEW t, NEW H, NEW h, NEW R, Tree(t, H, h, R, {}), Exact(t, h, R),
           NEW b \in DOMAIN t, t[b].parent = 0, NEW k \in Int, Find(t, b, k) = NoRecord
    PROVE  LET l == Location(t, b, k)
           IN  /\ l \in DOMAIN t /\ h[l] = 0 /\ k \in R[l] /\ k \notin KeysAt(t[l])
               /\ FindRoot(t, l) = b
<1> DEFINE l == Location(t, b, k)
<1>1. k \in R[b]
  BY DEF Exact
<1>2. /\ l \in DOMAIN t /\ k \in R[l] /\ FindRoot(t, l) = FindRoot(t, b)
      /\ EntryOf(t[l], k) # {} \/ h[l] = 0
  BY <1>1, LocationFound
<1>3. FindRoot(t, b) = b
  BY FindRootIs
<1>4. RecordAt(t, l, k) = NoRecord
  BY DEF Find
<1> HIDE DEF l
<1>5. t[l] \in Node /\ Sorted(t[l])
  BY <1>2 DEF Tree, Typed, Fits
<1>6. EntryOf(t[l], k) = {}
  <2> SUFFICES ASSUME EntryOf(t[l], k) # {} PROVE FALSE
    OBVIOUS
  <2> DEFINE i == CHOOSE i \in EntryOf(t[l], k) : TRUE
  <2>1. i \in EntryOf(t[l], k)
    OBVIOUS
  <2>2. RecordAt(t, l, k) = t[l].entries[i].record
    BY Zenon DEF RecordAt
  <2> HIDE DEF i
  <2>3. i \in 1 .. Size(t[l])
    BY <1>5, <2>1, NodeHas DEF EntryOf
  <2>4. t[l].entries[i] \in [smaller : Blocks \cup {0}, key : Keys, record : Records]
    BY <1>5, <2>3, NodeHas
  <2>5. t[l].entries[i].record \in Records
    BY <2>4
  <2> QED BY <1>4, <2>2, <2>5, KeyAssumption
<1>7. k \notin KeysAt(t[l])
  BY <1>5, <1>6, KeysAtIs
<1> QED BY <1>2, <1>3, <1>6, <1>7 DEF l

\* make_room can follow the path as far as the file has blocks for it.
RoomAlong(t, new, from, k, l, path) ==
    /\ path \in Seq(DOMAIN t)
    /\ \A m \in 1 .. Len(path) : Size(t[path[m]]) = records_per_node
    /\ \A m \in 2 .. Len(path) : t[path[m]].parent = path[m - 1]
    /\ \A m \in 1 .. Len(path) : FindRoot(t, path[m]) = FindRoot(t, from)
    /\ \A j \in 0 .. Len(path) :
          new + BlocksFor(t, path, j) <= MaxBlocks + 1 =>
             \E G, g, S : RoomMade(t, l, from, k, new, j, MakeRoom(t, path, new, j), G, g, S)


\* What make_room leaves after the first j nodes of the path.
LEMMA RoomIsSound ==
    ASSUME NEW t, NEW new \in Nat, NEW from, Sound(t, new, from), NEW k \in Int,
           Find(t, FindRoot(t, from), k) = NoRecord
    PROVE  RoomAlong(t, new, from, k, Location(t, FindRoot(t, from), k),
                     FullPath(t, Location(t, FindRoot(t, from), k)))
<1>1. PICK H, h, R : Tree(t, H, h, R, {}) /\ Exact(t, h, R) /\ Low(R[1]) /\ Low(R[from])
  <2>1. PICK H, h, R : Tree(t, H, h, R, {}) /\ Low(R[1]) /\ Low(R[from])
    BY Zenon DEF Sound
  <2>2. PICK W : Tree(t, H, h, W, {}) /\ Exact(t, h, W) /\ \A b \in DOMAIN t : R[b] \subseteq W[b]
    BY <2>1, WidenIs
  <2>3. Low(W[1]) /\ Low(W[from])
    <3>1. 1 \in DOMAIN t /\ from \in DOMAIN t
      BY DEF Sound
    <3>2. R[1] \subseteq W[1] /\ R[from] \subseteq W[from]
      BY <2>2, <3>1
    <3> QED BY <2>1, <3>2 DEF Low
  <2> QED BY <2>2, <2>3
<1>2. from \in DOMAIN t /\ 1 \in DOMAIN t
  BY DEF Sound
<1> DEFINE b == FindRoot(t, from)
           l == Location(t, b, k)
<1>3. b \in DOMAIN t /\ t[b].parent = 0
  BY <1>1, <1>2, FindRootIs
<1> HIDE DEF b
<1>4. Find(t, b, k) = NoRecord
  BY DEF b
<1>5. l \in DOMAIN t /\ h[l] = 0 /\ k \in R[l] /\ k \notin KeysAt(t[l]) /\ FindRoot(t, l) = b
  BY <1>1, <1>3, <1>4, AbsentIs
<1> HIDE DEF l
<1> DEFINE path == FullPath(t, l)
<1>6. /\ path \in Seq(DOMAIN t)
      /\ \A m \in 1 .. Len(path) : Size(t[path[m]]) = records_per_node
      /\ \A m \in 2 .. Len(path) : t[path[m]].parent = path[m - 1]
  BY <1>1, <1>5, FullPathIs
<1>7. \A j \in 0 .. Len(path) :
         new + BlocksFor(t, path, j) <= MaxBlocks + 1 =>
            \E G, g, S : RoomMade(t, l, from, k, new, j, MakeRoom(t, path, new, j), G, g, S)
  <2>1. FindRoot(t, l) = FindRoot(t, from)
    BY <1>5 DEF b
  <2>2. DOMAIN t \subseteq 1 .. new - 1
    BY DEF Sound
  <2> QED BY <1>1, <1>5, <1>2, <2>1, <2>2, MakeRoomKeeps
<1>8. \A m \in 1 .. Len(path) : FindRoot(t, path[m]) = FindRoot(t, from)
  <2>1. \A m \in 1 .. Len(path) : FindRoot(t, path[m]) = FindRoot(t, l)
    BY <1>1, <1>5, PathIs
  <2> QED BY <1>5, <2>1 DEF b
<1>9. RoomAlong(t, new, from, k, l, path)
  <2> HIDE DEF path
  <2> QED BY <1>6, <1>7, <1>8, Zenon DEF RoomAlong
<1> QED BY <1>9 DEF l, b

\* The record joins those of its tree.
LEMMA LeafFilled ==
    ASSUME NEW t, NEW H, NEW h, NEW R, Tree(t, H, h, R, {}), NEW b \in DOMAIN t, h[b] = 0,
           NEW entry \in Entry, entry.smaller = 0, entry.key \in R[b],
           entry.key \notin KeysAt(t[b]), Size(t[b]) # records_per_node,
           NEW u, u = InsertIntoNode(t, b, entry, 0)
    PROVE  /\ \A y \in DOMAIN t : u[y].parent = t[y].parent /\ FindRoot(u, y) = FindRoot(t, y)
           /\ \A y \in DOMAIN t : \A k, r :
                 Stores(u, y, k, r) <=>
                    \/ Stores(t, y, k, r)
                    \/ FindRoot(t, b) = FindRoot(t, y) /\ entry.key = k /\ entry.record = r
<1>1. /\ Typed(t) /\ Sorted(t[b]) /\ 0 \notin DOMAIN t /\ 0 \in Blocks \cup {0}
      /\ \A i \in 1 .. Size(t[b]) : Key(t[b], i) # entry.key
  BY DEF Tree, Typed, Fits, Blocks, KeysAt
<1>2. /\ DOMAIN u = DOMAIN t
      /\ \A x \in DOMAIN t \ {b} : Same(u[x], t[x])
      /\ \A x \in DOMAIN t : u[x].parent = IF x = entry.smaller THEN b ELSE t[x].parent
  BY <1>1, InsertIntoNodeIs
<1>3. \A k, r : Holds(u[b], k, r) <=>
                   Holds(t[b], k, r) \/ (entry.key = k /\ entry.record = r)
  BY <1>1, InsertHolds
<1>4. Tree(u, H, h, R, {})
  BY InsertKeepsTree
<1>5. \A x \in DOMAIN t : u[x].parent = t[x].parent
  BY <1>1, <1>2
<1>6. \A y \in DOMAIN t : FindRoot(u, y) = FindRoot(t, y)
  <2> DEFINE F == [x \in DOMAIN u |-> FindRoot(t, x)]
  <2>1. ASSUME NEW x \in DOMAIN u
        PROVE  F[x] = IF u[x].parent = 0 THEN x ELSE F[u[x].parent]
    <3>1. FindRoot(t, x) = IF t[x].parent = 0 THEN x ELSE FindRoot(t, t[x].parent)
      BY <1>2, FindRootIs
    <3>2. t[x].parent # 0 => t[x].parent \in DOMAIN t
      <4>1. x \in DOMAIN t \ {}
        BY <1>2
      <4> QED BY <4>1, ParentIs
    <3> QED BY <1>2, <1>5, <3>1, <3>2
  <2> HIDE DEF F
  <2>2. \A y \in DOMAIN u : FindRoot(u, y) = F[y]
    BY <1>4, <2>1, RootsAre
  <2> QED BY <1>2, <2>2 DEF F
<1>7. ASSUME NEW y \in DOMAIN t, NEW k, NEW r
      PROVE  Stores(u, y, k, r) <=>
                \/ Stores(t, y, k, r)
                \/ FindRoot(t, b) = FindRoot(t, y) /\ entry.key = k /\ entry.record = r
  <2>1. \A x \in DOMAIN t \ {b} : Holds(u[x], k, r) <=> Holds(t[x], k, r)
    BY <1>2, SameHolds
  <2>2. Stores(u, y, k, r) <=>
           \E x \in DOMAIN t : FindRoot(t, x) = FindRoot(t, y) /\ Holds(u[x], k, r)
    BY <1>2, <1>6, Zenon DEF Stores
  <2> QED BY <1>3, <2>1, <2>2 DEF Stores
<1> QED BY <1>5, <1>6, <1>7

\* insert puts the record into the leaf with room that the second search finds.
LEMMA InsertIsSound ==
    ASSUME NEW t, NEW new \in Nat, NEW from, Sound(t, new, from),
           NEW k \in Keys, NEW r \in Records, Find(t, FindRoot(t, from), k) = NoRecord,
           NEW path, path = FullPath(t, Location(t, FindRoot(t, from), k)),
           new + BlocksFor(t, path, Len(path)) <= MaxBlocks + 1,
           NEW v, v = MakeRoom(t, path, new, Len(path)),
           NEW u, u = InsertIntoNode(v, Location(v, FindRoot(v, from), k),
                                     [smaller |-> 0, key |-> k, record |-> r], 0)
    PROVE  /\ Sound(u, new + BlocksFor(t, path, Len(path)), FindRoot(v, from))
           /\ u[FindRoot(v, from)].parent = 0
           /\ \A c, rec : Stores(u, FindRoot(v, from), c, rec) <=>
                             Stores(t, from, c, rec) \/ (k = c /\ r = rec)
<1> DEFINE l == Location(t, FindRoot(t, from), k)
           n == Len(path)
           entry == [smaller |-> 0, key |-> k, record |-> r]
           top == FindRoot(v, from)
<1>1. k \in Int
  BY KeyAssumption
<1>2. RoomAlong(t, new, from, k, l, path)
  BY <1>1, RoomIsSound
<1> HIDE DEF l
<1>3. path \in Seq(DOMAIN t) /\ n \in 0 .. n
  <2>1. path \in Seq(DOMAIN t)
    BY <1>2, Zenon DEF RoomAlong
  <2> QED BY <2>1
<1>4. PICK G, g, S : RoomMade(t, l, from, k, new, n, v, G, g, S)
  BY <1>3, <1>2 DEF RoomAlong
<1> HIDE DEF n
<1>5. /\ Tree(v, G, g, S, {}) /\ Low(S[1]) /\ Low(S[from]) /\ Keeps(t, v)
      /\ DOMAIN t \subseteq DOMAIN v
      /\ DOMAIN v \subseteq 1 .. new + BlocksFor(t, path, n) - 1
  <2>1. DOMAIN v \subseteq 1 .. new + BlocksFor(t, FullPath(t, l), n) - 1
    BY <1>4, Zenon DEF RoomMade
  <2>2. /\ Tree(v, G, g, S, {}) /\ Low(S[1]) /\ Low(S[from]) /\ Keeps(t, v)
        /\ DOMAIN t \subseteq DOMAIN v
    BY <1>4, Zenon DEF RoomMade
  <2>3. path = FullPath(t, l)
    BY DEF l
  <2> QED BY <2>1, <2>2, <2>3
<1>6. PICK z \in DOMAIN v : /\ g[z] = 0 /\ k \in S[z] /\ k \notin KeysAt(v[z])
                            /\ FindRoot(v, z) = FindRoot(v, from)
                            /\ n = Len(FullPath(t, l)) => Size(v[z]) # records_per_node
  BY <1>4, Zenon DEF RoomMade
<1>7. n = Len(FullPath(t, l))
  BY DEF n, l
<1>8. 1 \in DOMAIN v /\ from \in DOMAIN v /\ from \in DOMAIN t /\ FindRoot(v, 1) = top
  <2>1. 1 \in DOMAIN t /\ from \in DOMAIN t /\ FindRoot(t, 1) = FindRoot(t, from)
    BY DEF Sound
  <2> QED BY <1>5, <2>1 DEF Keeps
<1>9. Location(v, top, k) = z
  <2>1. Location(v, FindRoot(v, z), k) = Location(v, z, k)
    BY <1>1, <1>5, <1>6, RouteIs
  <2>2. Location(v, z, k) = z
    BY <1>1, <1>5, <1>6, LeafIs
  <2> QED BY <1>6, <2>1, <2>2
<1>10. /\ entry \in Entry /\ entry.smaller = 0 /\ entry.key \in S[z]
       /\ entry.key \notin KeysAt(v[z]) /\ entry.key = k /\ entry.record = r
  BY <1>6 DEF Entry
<1> HIDE DEF entry
<1>11. u = InsertIntoNode(v, z, entry, 0)
  BY <1>9 DEF entry
<1>12. /\ top \in DOMAIN v /\ v[top].parent = 0 /\ FindRoot(v, top) = top /\ Low(S[top])
  BY <1>5, <1>8, FindRootIs, LowUp
<1>13. Tree(u, G, g, S, {}) /\ DOMAIN u = DOMAIN v
  BY <1>5, <1>6, <1>7, <1>10, <1>11, InsertKeepsTree
<1>14. /\ \A y \in DOMAIN v : u[y].parent = v[y].parent /\ FindRoot(u, y) = FindRoot(v, y)
       /\ \A y \in DOMAIN v : \A c, rec :
             Stores(u, y, c, rec) <=>
                \/ Stores(v, y, c, rec)
                \/ FindRoot(v, z) = FindRoot(v, y) /\ entry.key = c /\ entry.record = rec
  BY <1>5, <1>6, <1>7, <1>10, <1>11, LeafFilled
<1>15. ASSUME NEW c, NEW rec
       PROVE  Stores(u, top, c, rec) <=> Stores(t, from, c, rec) \/ (k = c /\ r = rec)
  <2>1. Stores(v, from, c, rec) <=> Stores(t, from, c, rec)
    BY <1>5, <1>8, Zenon DEF Keeps
  <2>2. Stores(v, top, c, rec) <=> Stores(v, from, c, rec)
    BY <1>12, Zenon DEF Stores
  <2>3. Stores(u, top, c, rec) <=> Stores(v, top, c, rec) \/ (k = c /\ r = rec)
    BY <1>6, <1>10, <1>12, <1>14
  <2> QED BY <2>1, <2>2, <2>3, Zenon
<1> HIDE DEF top
<1>16. Sound(u, new + BlocksFor(t, path, n), top)
  <2>1. n \in Nat
    BY <1>3 DEF n
  <2>2. BlocksFor(t, path, n) \in Nat
    BY <2>1, BlocksForIs
  <2>3. new + BlocksFor(t, path, n) - 1 = (new + BlocksFor(t, path, n)) - 1
    BY <2>2
  <2>4. DOMAIN u \subseteq 1 .. (new + BlocksFor(t, path, n)) - 1
    BY <1>5, <1>13, <2>3, Zenon
  <2>5. FindRoot(u, 1) = FindRoot(u, top)
    BY <1>8, <1>12, <1>14
  <2> QED BY <1>5, <1>8, <1>12, <1>13, <2>4, <2>5, Zenon DEF Sound
<1>17. u[top].parent = 0
  BY <1>12, <1>14
<1> QED BY <1>15, <1>16, <1>17 DEF n, top

\* From the middle key of b on, the tree may have lost what it stored, and no more.
UpperLost(t, u, from, b) ==
    \A k, r :
        /\ Stores(u, from, k, r) => Stores(t, from, k, r)
        /\ Stores(t, from, k, r) /\ k < Middle(t, b).key => Stores(u, from, k, r)
        /\ Middle(t, b).key \in Int

\* split_node without the rest of split_root: the upper half is a tree of its own.
LEMMA HalfIsSound ==
    ASSUME NEW t, NEW new \in Nat, NEW from, Sound(t, new, from), NEW b,
           b = FindRoot(t, from), Size(t[b]) = records_per_node, new \in Blocks \ DOMAIN t,
           NEW u, u = SplitNode(t, b, new)
    PROVE  Sound(u, new + 1, from) /\ UpperLost(t, u, from, b)
<1> DEFINE D == DOMAIN t
           mid == Middle(t, b).key
<1>1. /\ DOMAIN t \subseteq 1 .. new - 1
      /\ 1 \in D /\ from \in D /\ FindRoot(t, 1) = b
  BY DEF Sound
<1>2. PICK H, h, R : Tree(t, H, h, R, {}) /\ Low(R[1]) /\ Low(R[from])
  BY Zenon DEF Sound
<1> DEFINE g == SplitHeights(t, h, b, new)
           S == SplitRanges(t, R, b, new)
<1>3. b \in D /\ t[b].parent = 0 /\ FindRoot(t, b) = b
  BY <1>1, <1>2, FindRootIs
<1>4. /\ Tree(u, H, g, S, {new}) /\ mid \in Int /\ DOMAIN u = D \cup {new}
      /\ u[b].parent = 0 /\ u[new].parent = 0
      /\ \A x \in D \ {b} : Same(u[x], t[x])
      /\ \A x \in D : \/ u[x].parent = t[x].parent
                      \/ t[x].parent = b /\ u[x].parent = new /\ x # b
      /\ Parted(t, b, new, u, {})
  <2>1. Halves(t, H, h, R, b, new, u, {new}, {})
    BY <1>2, <1>3, SplitKeepsTree
  <2> QED BY <1>3, <2>1 DEF Halves
<1>5. /\ new \notin D /\ b # new /\ 0 \notin D /\ new # 0 /\ R \in [D -> SUBSET Int]
  BY <1>2, <1>3 DEF Tree, Typed, Blocks
<1>6. /\ S[new] = {k \in R[b] : mid < k} /\ S[b] = {k \in R[b] : k < mid}
      /\ \A x \in D \ {b} : S[x] = R[x]
  BY <1>3, <1>5 DEF SplitRanges
<1> HIDE DEF g, S, mid
\* The new node has no parent, like the root it comes from.
<1>7. Tree(u, H, g, S, {})
  <2>1. Owned(u, g, new)
    BY <1>4 DEF Owned
  <2>2. \A x \in DOMAIN u \ {} : Owned(u, g, x)
    BY <1>4, <2>1 DEF Tree
  <2> QED BY <1>4, <2>2 DEF Tree
<1>8. \A x \in D : FindRoot(t, x) = IF FindRoot(u, x) = new THEN b ELSE FindRoot(u, x)
  <2> DEFINE F == [x \in D |-> IF FindRoot(u, x) = new THEN b ELSE FindRoot(u, x)]
  <2>1. ASSUME NEW x \in D PROVE F[x] = IF t[x].parent = 0 THEN x ELSE F[t[x].parent]
    <3>1. \A y \in DOMAIN u :
             FindRoot(u, y) = IF u[y].parent = 0 THEN y ELSE FindRoot(u, u[y].parent)
      BY <1>7, FindRootIs
    <3>2. t[x].parent # 0 => t[x].parent \in D
      <4>1. x \in D \ {}
        OBVIOUS
      <4> QED BY <1>2, <4>1, ParentIs
    <3>3. FindRoot(u, new) = new /\ FindRoot(u, b) = b /\ F[b] = b
      BY <1>3, <1>4, <1>5, <3>1
    <3>4. CASE u[x].parent = t[x].parent /\ t[x].parent = 0
      <4>1. FindRoot(u, x) = x
        BY <1>4, <3>1, <3>4
      <4> QED BY <1>5, <3>4, <4>1
    <3>5. CASE u[x].parent = t[x].parent /\ t[x].parent # 0
      <4>1. FindRoot(u, x) = FindRoot(u, t[x].parent)
        BY <1>4, <3>1, <3>5
      <4> QED BY <3>2, <3>5, <4>1
    <3>6. CASE t[x].parent = b /\ u[x].parent = new
      <4>1. FindRoot(u, x) = new
        BY <1>4, <1>5, <3>1, <3>3, <3>6
      <4> QED BY <1>3, <1>5, <3>3, <3>6, <4>1
    <3> QED BY <1>4, <3>4, <3>5, <3>6
  <2> HIDE DEF F
  <2>2. \A x \in D : FindRoot(t, x) = F[x]
    BY <1>2, <2>1, RootsAre
  <2> QED BY <2>2 DEF F
<1>9. ASSUME NEW x \in {1, from} PROVE FindRoot(u, x) = b /\ Low(S[x])
  <2>1. x \in D /\ x \in DOMAIN u /\ FindRoot(t, x) = b /\ Low(R[x])
    BY <1>1, <1>2, <1>4
  <2>2. Low(S[x])
    <3>1. R[b] \in SUBSET Int
      BY <1>3, <1>5
    <3>2. CASE x = b
      BY <1>4, <1>6, <2>1, <3>1, <3>2, LowBelow
    <3>3. CASE x # b
      BY <1>6, <2>1, <3>3
    <3> QED BY <3>2, <3>3
  <2>3. Low(S[FindRoot(u, x)])
    BY <1>7, <2>1, <2>2, LowUp
  <2>4. ~ Low(S[new])
    <3> SUFFICES ASSUME Low(S[new]) PROVE FALSE
      OBVIOUS
    <3>1. PICK y \in S[new] : y < mid
      BY <1>4 DEF Low
    <3>2. y \in Int /\ mid < y
      BY <1>3, <1>5, <1>6
    <3> QED BY <1>4, <3>1, <3>2
  <2>5. FindRoot(u, x) # new
    BY <2>3, <2>4
  <2> QED BY <1>8, <2>1, <2>2, <2>5
<1>10. Sound(u, new + 1, from)
  <2>1. DOMAIN u \subseteq 1 .. (new + 1) - 1
    <3>1. \A x \in 1 .. new - 1 : x \in 1 .. (new + 1) - 1
      OBVIOUS
    <3>2. new \in 1 .. (new + 1) - 1
      BY DEF Blocks
    <3> QED BY <1>1, <1>4, <3>1, <3>2
  <2> QED BY <1>1, <1>4, <1>7, <1>9, <2>1, Zenon DEF Sound
<1>11. ASSUME NEW k, NEW r
       PROVE  /\ Stores(u, from, k, r) => Stores(t, from, k, r)
              /\ Stores(t, from, k, r) /\ k < mid => Stores(u, from, k, r)
  <2>1. Holds(t[b], k, r) <=>
           Holds(u[b], k, r) \/ Holds(u[new], k, r) \/ IsMiddle(t, b, k, r)
    BY <1>4, Zenon DEF Parted
  <2>2. \A x \in D \ {b} : Holds(u[x], k, r) <=> Holds(t[x], k, r)
    BY <1>4, SameHolds
  <2>3. FindRoot(u, from) = b /\ FindRoot(t, from) = b /\ FindRoot(u, new) = new
    BY <1>4, <1>7, <1>9, FindRootIs
  <2>4. ASSUME Stores(u, from, k, r) PROVE Stores(t, from, k, r)
    <3>1. PICK x \in DOMAIN u : FindRoot(u, x) = b /\ Holds(u[x], k, r)
      BY <2>3, <2>4 DEF Stores
    <3>2. x \in D
      BY <1>4, <1>5, <2>3, <3>1
    <3>3. FindRoot(t, x) = b /\ Holds(t[x], k, r)
      BY <1>5, <1>8, <2>1, <2>2, <3>1, <3>2
    <3> QED BY <2>3, <3>2, <3>3 DEF Stores
  <2>5. ASSUME Stores(t, from, k, r), k < mid PROVE Stores(u, from, k, r)
    <3>1. PICK x \in D : FindRoot(t, x) = b /\ Holds(t[x], k, r)
      BY <2>3, <2>5 DEF Stores
    \* What is in the upper half has a greater key.
    <3>2. ASSUME NEW y \in DOMAIN u, FindRoot(u, y) = new, Holds(u[y], k, r) PROVE FALSE
      <4>1. u[y] \in Node /\ Sorted(u[y]) /\ \A i \in 1 .. Size(u[y]) : Key(u[y], i) \in S[y]
        BY <1>7 DEF Tree, Typed, Fits
      <4>2. k \in S[y]
        BY <3>2, <4>1 DEF Holds
      <4>3. S[y] \subseteq S[new]
        BY <1>7, <3>2, UpIs
      <4>4. k \in Int /\ mid < k
        BY <1>3, <1>5, <1>6, <4>2, <4>3
      <4> QED BY <1>4, <2>5, <4>4
    <3>3. CASE x = b
      <4>1. ~ Holds(u[new], k, r)
        BY <1>4, <2>3, <3>2
      <4>2. ~ IsMiddle(t, b, k, r)
        BY <1>4, <2>5 DEF IsMiddle, mid
      <4>3. Holds(u[b], k, r)
        BY <2>1, <3>1, <3>3, <4>1, <4>2
      <4>4. FindRoot(u, b) = b
        BY <1>3, <1>4, <1>7, FindRootIs
      <4> QED BY <1>3, <1>4, <2>3, <4>3, <4>4 DEF Stores
    <3>4. CASE x # b
      <4>1. Holds(u[x], k, r) /\ x \in DOMAIN u
        BY <1>4, <2>2, <3>1, <3>4
      <4>2. FindRoot(u, x) # new
        BY <3>2, <4>1
      <4>3. FindRoot(u, x) = FindRoot(u, from)
        BY <1>8, <2>3, <3>1, <4>2
      <4> QED BY <4>1, <4>3 DEF Stores
    <3> QED BY <3>3, <3>4
  <2> QED BY <2>4, <2>5
<1> QED BY <1>4, <1>10, <1>11, Zenon DEF UpperLost, mid

\* allocate_block may throw before the i-th node of the path is split, or, while the
\* root is, after split_node.
LEMMA ThrowIsSound ==
    ASSUME NEW t, NEW new \in Nat, NEW from, Sound(t, new, from),
           NEW k \in Keys, Find(t, FindRoot(t, from), k) = NoRecord,
           NEW path, path = FullPath(t, Location(t, FindRoot(t, from), k)),
           NEW i \in 1 .. Len(path), NEW used, used = new + BlocksFor(t, path, i - 1),
           NEW v, v = MakeRoom(t, path, new, i - 1)
    PROVE  /\ used \in Nat /\ used >= new
           /\ used <= MaxBlocks + 1 => Sound(v, used, from) /\ Keeps(t, v)
           /\ used <= MaxBlocks /\ t[path[i]].parent = 0 =>
                 /\ Sound(SplitNode(v, path[i], used), used + 1, from)
                 /\ UpperLost(t, SplitNode(v, path[i], used), from, FindRoot(t, from))
                 /\ Size(t[FindRoot(t, from)]) = records_per_node
<1> DEFINE l == Location(t, FindRoot(t, from), k)
           n == Len(path)
           j == i - 1
<1>1. k \in Int
  BY KeyAssumption
<1>2. /\ path \in Seq(DOMAIN t)
      /\ \A m \in 1 .. n : Size(t[path[m]]) = records_per_node
      /\ \A m \in 2 .. n : t[path[m]].parent = path[m - 1]
      /\ \A m \in 1 .. n : FindRoot(t, path[m]) = FindRoot(t, from)
      /\ \A m \in 0 .. n : new + BlocksFor(t, path, m) <= MaxBlocks + 1 =>
            \E G, g, S : RoomMade(t, l, from, k, new, m, MakeRoom(t, path, new, m), G, g, S)
  <2>1. RoomAlong(t, new, from, k, l, path)
    BY <1>1, RoomIsSound
  <2> HIDE DEF l
  <2> QED BY <2>1, Zenon DEF RoomAlong, n
<1>3. n \in Nat /\ \A m \in 1 .. n : path[m] \in DOMAIN t
  BY <1>2
<1>4. path = FullPath(t, l)
  OBVIOUS
<1> HIDE DEF l, n
<1>5. j \in Nat /\ j \in 0 .. n /\ i \in 1 .. n /\ (i # 1 => i \in 2 .. n)
  BY <1>3 DEF n
<1>6. used = new + BlocksFor(t, path, j) /\ v = MakeRoom(t, path, new, j)
      /\ BlocksFor(t, path, j) \in Nat
  BY <1>5, BlocksForIs
<1> HIDE DEF j
<1>7. used \in Nat /\ used >= new
  BY <1>6
<1>8. ASSUME used <= MaxBlocks + 1 PROVE Sound(v, used, from) /\ Keeps(t, v)
  <2>1. PICK G, g, S : RoomMade(t, l, from, k, new, j, v, G, g, S)
    BY <1>2, <1>5, <1>6, <1>8
  <2>2. /\ Tree(v, G, g, S, {}) /\ Low(S[1]) /\ Low(S[from]) /\ Keeps(t, v)
        /\ DOMAIN t \subseteq DOMAIN v
        /\ DOMAIN v \subseteq 1 .. new + BlocksFor(t, FullPath(t, l), j) - 1
    BY <2>1, Zenon DEF RoomMade
  <2>3. new + BlocksFor(t, FullPath(t, l), j) - 1 = used - 1
    BY <1>4, <1>6
  <2>4. 1 \in DOMAIN v /\ from \in DOMAIN v /\ FindRoot(v, 1) = FindRoot(v, from)
    BY <2>2, Zenon DEF Sound, Keeps
  <2> QED BY <2>2, <2>3, <2>4, Zenon DEF Sound
<1>9. ASSUME used <= MaxBlocks, t[path[i]].parent = 0
      PROVE  /\ Sound(SplitNode(v, path[i], used), used + 1, from)
             /\ UpperLost(t, SplitNode(v, path[i], used), from, FindRoot(t, from))
             /\ Size(t[FindRoot(t, from)]) = records_per_node
  <2> DEFINE b == path[i]
  <2>1. PICK H, h, R : Tree(t, H, h, R, {})
    BY DEF Sound
  <2>2. 0 \notin DOMAIN t /\ b \in DOMAIN t /\ Size(t[b]) = records_per_node
    <3>1. 0 \notin DOMAIN t
      BY <2>1 DEF Tree, Typed, Blocks
    <3> QED BY <1>2, <1>3, <1>5, <3>1
  <2>3. i = 1
    <3> SUFFICES ASSUME i # 1 PROVE FALSE
      OBVIOUS
    <3>1. i - 1 \in 1 .. n /\ t[path[i]].parent = path[i - 1]
      BY <1>2, <1>3, <1>5
    <3> QED BY <1>3, <1>9, <2>2, <3>1
  <2>4. used = new /\ v = t
    <3>1. j = 0
      BY <2>3 DEF j
    <3> QED BY <1>6, <3>1, BlocksForIs, MakeRoomIs
  <2>5. DOMAIN t \subseteq 1 .. new - 1
    BY DEF Sound
  <2>6. new \in Blocks \ DOMAIN t
    <3>1. b \in 1 .. new - 1
      BY <2>2, <2>5
    <3>2. new \notin 1 .. new - 1 /\ new > 0
      BY <3>1
    <3>3. new \in Blocks
      BY <1>9, <2>4, <3>2, BlockAssumption DEF Blocks
    <3> QED BY <2>5, <3>2, <3>3
  <2>7. b = FindRoot(t, from)
    <3>1. FindRoot(t, b) = b
      BY <1>9, <2>1, <2>2, FindRootIs
    <3> QED BY <1>2, <1>5, <3>1
  <2> HIDE DEF b
  <2>8. Sound(SplitNode(t, b, new), new + 1, from) /\ UpperLost(t, SplitNode(t, b, new), from, b)
    BY <2>2, <2>6, <2>7, HalfIsSound
  <2> QED BY <2>2, <2>4, <2>7, <2>8 DEF b
<1> QED BY <1>7, <1>8, <1>9

\* The nodes of a file are of the right size, and their pointers lead to nodes.
Closed(t) ==
    \A x \in DOMAIN t : Size(t[x]) <= records_per_node /\ Children(t[x]) \subseteq DOMAIN t

\* A tree is typed and closed.
LEMMA TreeIsClosed ==
    ASSUME NEW t, NEW H, NEW h, NEW R, NEW loose, Tree(t, H, h, R, loose)
    PROVE  Typed(t) /\ Closed(t)
<1> SUFFICES ASSUME NEW x \in DOMAIN t
             PROVE  Size(t[x]) <= records_per_node /\ Children(t[x]) \subseteq DOMAIN t
  BY DEF Tree, Closed
<1>1. t[x] \in Node /\ Fits(t, R, x) /\ Linked(t, h, R, x)
  BY DEF Tree, Typed
<1>2. ASSUME NEW c \in Children(t[x]) PROVE c \in DOMAIN t
  <2>1. PICK i \in Slots(t[x]) : c = Ptr(t[x], i)
    BY <1>1, PointersAre DEF Children
  <2>2. c # 0
    BY DEF Children
  <2> QED BY <1>1, <2>1, <2>2, Zenon DEF Linked
<1> QED BY <1>1, <1>2 DEF Fits

\* Two nodes written by a split that stops somewhere keep the file typed and closed.
LEMMA HalfIsClosed ==
    ASSUME NEW t, Typed(t), Closed(t), NEW b \in DOMAIN t, NEW new \in Blocks \ DOMAIN t,
           NEW left \in Node, Size(left) <= records_per_node, Children(left) \subseteq DOMAIN t,
           NEW right \in Node, Size(right) <= records_per_node,
           Children(right) \subseteq DOMAIN t, NEW linked,
           NEW u, u = WithParent(Placed([t EXCEPT ![b] = left], new, right), linked, new)
    PROVE  Typed(u) /\ Closed(u) /\ DOMAIN u = DOMAIN t \cup {new}
<1> DEFINE v == [t EXCEPT ![b] = left]
           w == Placed(v, new, right)
<1>1. /\ Typed(v) /\ DOMAIN v = DOMAIN t /\ v[b] = left
      /\ \A x \in DOMAIN t \ {b} : v[x] = t[x]
  BY PutIs
<1>2. u = WithParent(w, linked, new)
  OBVIOUS
<1> HIDE DEF v
<1>3. /\ Typed(w) /\ DOMAIN w = DOMAIN t \cup {new} /\ w[new] = right
      /\ \A x \in DOMAIN t \ {new} : w[x] = v[x]
  BY <1>1, PlacedIs
<1> HIDE DEF w
<1>4. /\ Typed(u) /\ DOMAIN u = DOMAIN w
      /\ \A x \in DOMAIN w : Same(u[x], w[x])
  <2>1. new \in Blocks \cup {0}
    OBVIOUS
  <2>2. LET z == WithParent(w, linked, new)
        IN  Typed(z) /\ DOMAIN z = DOMAIN w /\ \A x \in DOMAIN w : Same(z[x], w[x])
    BY <1>3, <2>1, WithParentIs, Zenon
  <2> QED BY <1>2, <2>2, Zenon
<1>5. ASSUME NEW x \in DOMAIN w
      PROVE  Size(w[x]) <= records_per_node /\ Children(w[x]) \subseteq DOMAIN t
  <2>1. CASE x = new
    BY <1>3, <2>1
  <2>2. CASE x = b
    BY <1>1, <1>3, <2>2
  <2>3. CASE x # new /\ x # b
    BY <1>1, <1>3, <2>3 DEF Closed
  <2> QED BY <2>1, <2>2, <2>3
<1>6. ASSUME NEW x \in DOMAIN u
      PROVE  Size(u[x]) = Size(w[x]) /\ Children(u[x]) = Children(w[x])
  <2>1. u[x].entries = w[x].entries /\ u[x].larger = w[x].larger
    BY <1>4 DEF Same
  <2>2. Size(u[x]) = Size(w[x])
    BY <2>1, Zenon DEF Size
  <2>3. Pointers(u[x]) = Pointers(w[x])
    BY <2>1, Zenon DEF Pointers
  <2> QED BY <2>2, <2>3, Zenon DEF Children
<1>7. Closed(u)
  BY <1>3, <1>4, <1>5, <1>6 DEF Closed
<1> QED BY <1>3, <1>4, <1>7

\* Wherever a mapping fails in split_node, the file stays typed and closed.
LEMMA HalfSplitIs ==
    ASSUME NEW t, Typed(t), Closed(t), NEW b \in DOMAIN t, NEW new \in Blocks \ DOMAIN t,
           Size(t[b]) = records_per_node, NEW mapped,
           NEW u, u \in HalfSplits(t, b, new, mapped)
    PROVE  Typed(u) /\ Closed(u) /\ DOMAIN u = DOMAIN t \cup {new}
<1> DEFINE e == t[b].entries
           part(n) == [parent |-> t[b].parent, larger |-> 0,
                       entries |-> SubSeq(e, middle_ + 2, n)]
           right == [part(Len(e)) EXCEPT !.larger = t[b].larger]
           mid == [t[b] EXCEPT !.larger = Middle(t, b).smaller]
           half(left, node, linked) ==
               WithParent(Placed([t EXCEPT ![b] = left], new, node), Children(linked), new)
<1>1. t[b] \in Node /\ e \in Seq(Entry) /\ Len(e) = records_per_node
      /\ t[b].parent \in Blocks \cup {0} /\ t[b].larger \in Blocks \cup {0}
  BY DEF Typed, Node, Entry, Size
<1>2. middle_ \in 2 .. records_per_node - 1 /\ records_per_node \in Nat
  BY MiddleIs
<1>3. /\ Children(t[b]) \subseteq DOMAIN t /\ DOMAIN e = 1 .. records_per_node
      /\ \A i \in 1 .. records_per_node : e[i] \in Entry
      /\ \A i \in 1 .. records_per_node : e[i].smaller \in Children(t[b]) \cup {0}
      /\ t[b].larger \in Children(t[b]) \cup {0}
  <2>1. Children(t[b]) \subseteq DOMAIN t
    BY DEF Closed
  <2>2. DOMAIN e = 1 .. records_per_node
    BY <1>1
  <2>3. \A i \in 1 .. records_per_node : e[i] \in Entry
    <3> HIDE DEF e
    <3> QED BY <1>1, ElementOfSeq
  <2> QED BY <2>1, <2>2, <2>3, Zenon DEF Children, Pointers
<1>4. ASSUME NEW n \in middle_ + 1 .. records_per_node
      PROVE  /\ part(n) \in Node /\ Size(part(n)) <= records_per_node
             /\ Children(part(n)) \subseteq DOMAIN t
             /\ [part(n) EXCEPT !.larger = t[b].larger] \in Node
             /\ Size([part(n) EXCEPT !.larger = t[b].larger]) <= records_per_node
             /\ Children([part(n) EXCEPT !.larger = t[b].larger]) \subseteq DOMAIN t
  <2> DEFINE s == SubSeq(e, middle_ + 2, n)
  <2>1. middle_ + 2 \in 1 .. Len(e) + 1 /\ n \in (middle_ + 2) - 1 .. Len(e)
    BY <1>1, <1>2
  <2>2. /\ s \in Seq(Entry) /\ Len(s) = n - (middle_ + 2) + 1
        /\ \A i \in 1 .. n - (middle_ + 2) + 1 : s[i] = e[i + (middle_ + 2) - 1]
    <3> HIDE DEF e
    <3> QED BY <1>1, <2>1, SliceIs
  <2> HIDE DEF s
  <2>3. ASSUME NEW i \in DOMAIN s PROVE s[i].smaller \in DOMAIN t \cup {0}
    <3>1. i \in 1 .. n - (middle_ + 2) + 1
      BY <2>2
    <3>2. i + (middle_ + 2) - 1 \in 1 .. records_per_node
      BY <1>2, <3>1
    <3> QED BY <1>3, <2>2, <3>1, <3>2
  <2>4. Len(s) <= records_per_node
    BY <1>2, <2>2
  <2>5. /\ part(n) = [parent |-> t[b].parent, larger |-> 0, entries |-> s]
        /\ [part(n) EXCEPT !.larger = t[b].larger] =
              [parent |-> t[b].parent, larger |-> t[b].larger, entries |-> s]
    <3>1. part(n) = [parent |-> t[b].parent, larger |-> 0, entries |-> s]
      BY Zenon DEF s
    <3> HIDE DEF part
    <3> QED BY <3>1
  <2>6. ASSUME NEW c \in {0, t[b].larger}
        PROVE  LET node == [parent |-> t[b].parent, larger |-> c, entries |-> s]
               IN  /\ node \in Node /\ Size(node) <= records_per_node
                   /\ Children(node) \subseteq DOMAIN t
    <3> DEFINE node == [parent |-> t[b].parent, larger |-> c, entries |-> s]
    <3>1. node \in Node
      BY <1>1, <2>2 DEF Node, Entry
    <3>2. Size(node) <= records_per_node
      BY <2>4 DEF Size
    <3>3. node.entries = s /\ node.larger = c
      OBVIOUS
    <3> HIDE DEF node
    <3>4. Children(node) \subseteq DOMAIN t
      <4>1. c \in DOMAIN t \cup {0}
        BY <1>3
      <4> QED BY <2>3, <3>3, <4>1 DEF Children, Pointers
    <3> QED BY <3>1, <3>2, <3>4 DEF node
  <2> QED BY <2>5, <2>6
<1>5. /\ mid \in Node /\ Size(mid) <= records_per_node /\ Children(mid) \subseteq DOMAIN t
      /\ Size(t[b]) <= records_per_node
  <2>1. middle_ + 1 \in 1 .. records_per_node
    BY <1>2
  <2>2. Middle(t, b) \in Entry /\ Middle(t, b).smaller \in Children(t[b]) \cup {0}
    BY <1>3, <2>1 DEF Middle
  <2>3. Middle(t, b).smaller \in Blocks \cup {0}
    BY <2>2 DEF Entry
  <2>4. mid.entries = e /\ mid.larger = Middle(t, b).smaller /\ mid \in Node
    BY <1>1, <2>3 DEF Node
  <2> HIDE DEF mid
  <2>5. Size(mid) <= records_per_node /\ Size(t[b]) <= records_per_node
    BY <1>1, <1>2, <2>4 DEF Size
  <2>6. Children(mid) \subseteq Children(t[b])
    BY <2>2, <2>4, Zenon DEF Children, Pointers
  <2> QED BY <1>3, <2>4, <2>5, <2>6
<1>6. \/ \E n \in middle_ + 2 .. records_per_node : u = half(t[b], part(n - 1), part(n - 1))
      \/ u = half(t[b], right, part(Len(e)))
      \/ u = half(mid, right, right)
  BY <1>1 DEF HalfSplits
<1>7. \A n \in middle_ + 2 .. records_per_node : n - 1 \in middle_ + 1 .. records_per_node
  BY <1>2
<1>8. Len(e) \in middle_ + 1 .. records_per_node
  BY <1>1, <1>2
<1>9. right = [part(Len(e)) EXCEPT !.larger = t[b].larger]
  OBVIOUS
<1> HIDE DEF part, right, mid, e
<1>10. ASSUME NEW left \in {t[b], mid}, NEW node, NEW linked,
              node = right \/ \E n \in middle_ + 1 .. records_per_node : node = part(n),
              u = half(left, node, linked)
       PROVE  Typed(u) /\ Closed(u) /\ DOMAIN u = DOMAIN t \cup {new}
  <2>1. /\ left \in Node /\ Size(left) <= records_per_node /\ Children(left) \subseteq DOMAIN t
        /\ node \in Node /\ Size(node) <= records_per_node /\ Children(node) \subseteq DOMAIN t
    BY <1>1, <1>3, <1>4, <1>5, <1>8, <1>9, <1>10
  <2> DEFINE kids == Children(linked)
  <2>2. u = WithParent(Placed([t EXCEPT ![b] = left], new, node), kids, new)
    BY <1>10, Zenon
  <2> HIDE DEF kids, half
  <2> QED BY <2>1, <2>2, HalfIsClosed
<1> HIDE DEF half
<1>11. CASE \E n \in middle_ + 2 .. records_per_node : u = half(t[b], part(n - 1), part(n - 1))
  BY <1>7, <1>10, <1>11, Zenon
<1>12. CASE u = half(t[b], right, part(Len(e)))
  BY <1>10, <1>12, Zenon
<1>13. CASE u = half(mid, right, right)
  BY <1>10, <1>13, Zenon
<1> QED BY <1>6, <1>11, <1>12, <1>13, Zenon

\* The tree that the nodes are while none is half split: root_ is on the left edge of
\* it, not always its root, and the first block is on that edge too.
IInv == Sound(nodes, block_count, root) /\ block_count \in 2 .. MaxBlocks + 1

\* The first states have such a tree.
LEMMA InitInv == Init => IInv
<1> SUFFICES ASSUME Init PROVE IInv
  OBVIOUS
<1> DEFINE h == [b \in {1} |-> 0]
           R == [b \in {1} |-> Int]
<1>1. /\ nodes = [b \in {1} |-> EmptyNode] /\ DOMAIN nodes = {1} /\ nodes[1] = EmptyNode
      /\ root = 1 /\ block_count = 2
  BY DEF Init
<1>2. 1 \in Blocks /\ MaxBlocks \in Nat /\ MaxBlocks >= 1
  BY BlockAssumption DEF Blocks
<1>3. /\ EmptyNode \in Node /\ Size(EmptyNode) = 0 /\ Slots(EmptyNode) = {1}
      /\ EmptyNode.parent = 0 /\ Ptr(EmptyNode, 1) = 0
  BY DEF EmptyNode, Node, Size, Slots, Ptr
<1>4. Typed(nodes)
  BY <1>1, <1>2, <1>3 DEF Typed
<1>5. Fits(nodes, R, 1)
  BY <1>1, <1>3, SizeAssumption DEF Fits, Sorted
<1>6. Linked(nodes, h, R, 1) /\ Owned(nodes, h, 1)
  BY <1>1, <1>3 DEF Linked, Owned
<1>7. h \in [{1} -> 0 .. 0] /\ R \in [{1} -> SUBSET Int]
  OBVIOUS
<1> HIDE DEF h, R
<1>8. Tree(nodes, 0, h, R, {})
  BY <1>1, <1>4, <1>5, <1>6, <1>7 DEF Tree
<1>9. Sound(nodes, block_count, root)
  <2>1. DOMAIN nodes \subseteq 1 .. block_count - 1
    BY <1>1
  <2>2. Low(R[1])
    <3> SUFFICES ASSUME NEW m \in Int PROVE \E y \in Int : y < m
      BY DEF Low, R
    <3>1. m - 1 \in Int /\ m - 1 < m
      OBVIOUS
    <3> QED BY <3>1
  <2> QED BY <1>1, <1>8, <2>1, <2>2, Zenon DEF Sound
<1> QED BY <1>1, <1>2, <1>9 DEF IInv

\* An insert stores its record, and nothing else is stored or lost.
LEMMA InsertStep ==
    ASSUME IInv, NEW k \in Keys, NEW r \in Records, Insert(k, r)
    PROVE  /\ IInv' /\ nodes'[root'].parent = 0
           /\ \A c, rec : Stores(nodes', root', c, rec) <=>
                             Stores(nodes, root, c, rec) \/ (k = c /\ r = rec)
<1> DEFINE path == FullPath(nodes, Location(nodes, FindRoot(nodes, root), k))
           needed == BlocksFor(nodes, path, Len(path))
           roomy == MakeRoom(nodes, path, block_count, Len(path))
           entry == [smaller |-> 0, key |-> k, record |-> r]
<1>1. /\ Sound(nodes, block_count, root) /\ MaxBlocks \in Nat
      /\ block_count \in 2 .. MaxBlocks + 1 /\ block_count \in Nat
  BY BlockAssumption DEF IInv
<1>2. /\ Find(nodes, FindRoot(nodes, root), k) = NoRecord
      /\ block_count + needed <= MaxBlocks + 1
      /\ nodes' = InsertIntoNode(roomy, Location(roomy, FindRoot(roomy, root), k), entry, 0)
      /\ root' = FindRoot(roomy, root) /\ block_count' = block_count + needed
  BY Zenon DEF Insert, Absent, PathFor, Top
<1>3. /\ Sound(nodes', block_count + needed, FindRoot(roomy, root))
      /\ nodes'[FindRoot(roomy, root)].parent = 0
      /\ \A c, rec : Stores(nodes', FindRoot(roomy, root), c, rec) <=>
                        Stores(nodes, root, c, rec) \/ (k = c /\ r = rec)
  BY <1>1, <1>2, InsertIsSound
<1>4. needed \in Nat
  <2>1. RoomAlong(nodes, block_count, root, k,
                  Location(nodes, FindRoot(nodes, root), k), path)
    <3>1. k \in Int
      BY KeyAssumption
    <3> QED BY <1>1, <1>2, <3>1, RoomIsSound
  <2>2. path \in Seq(DOMAIN nodes)
    BY <2>1, Zenon DEF RoomAlong
  <2> HIDE DEF path
  <2>3. Len(path) \in Nat
    BY <2>2
  <2> QED BY <2>3, BlocksForIs
<1> HIDE DEF path, needed, roomy
<1>5. block_count' \in 2 .. MaxBlocks + 1
  BY <1>1, <1>2, <1>4
<1>6. Sound(nodes', block_count', root')
  BY <1>2, <1>3
<1> QED BY <1>2, <1>3, <1>5, <1>6 DEF IInv

\* The blocks that the splits before an allocation that threw took are in the file.
LEMMA InFile ==
    ASSUME NEW M \in Nat, NEW a \in 2 .. M + 1, NEW c \in Nat, c >= a,
           NEW x \in {0, 1}, NEW e, e = c + x, e <= M + 1
    PROVE  c <= M + 1 /\ e \in 2 .. M + 1 /\ c <= e /\ e \in Nat
OBVIOUS

\* An insert that throws loses nothing, unless it was splitting the root.
LEMMA ThrowStep ==
    ASSUME IInv, NEW k \in Keys, InsertThrows(k)
    PROVE  /\ IInv' /\ root' = root
           /\ \/ Keeps(nodes, nodes')
              \/ /\ UpperLost(nodes, nodes', root, Top)
                 /\ Size(nodes[Top]) = records_per_node
<1> DEFINE path == FullPath(nodes, Location(nodes, FindRoot(nodes, root), k))
           used(j) == block_count + BlocksFor(nodes, path, j - 1)
           done(j) == MakeRoom(nodes, path, block_count, j - 1)
<1>1. /\ Sound(nodes, block_count, root) /\ MaxBlocks \in Nat
      /\ block_count \in 2 .. MaxBlocks + 1 /\ block_count \in Nat
  BY BlockAssumption DEF IInv
<1>2. /\ Find(nodes, FindRoot(nodes, root), k) = NoRecord
      /\ block_count' <= MaxBlocks + 1 /\ root' = root
  BY Zenon DEF InsertThrows, Absent, Top
<1>3. PICK i \in 1 .. Len(path), extended \in {0, 1} :
         \/ nodes' = done(i) /\ block_count' = used(i) + extended
         \/ /\ nodes[path[i]].parent = 0
            /\ nodes' = SplitNode(done(i), path[i], used(i))
            /\ block_count' = used(i) + 1 + extended
  BY Zenon DEF InsertThrows, PathFor, Top
<1> DEFINE c == used(i)
           v == done(i)
           w == SplitNode(v, path[i], c)
<1>4. /\ c \in Nat /\ c >= block_count
      /\ c <= MaxBlocks + 1 => Sound(v, c, root) /\ Keeps(nodes, v)
      /\ c <= MaxBlocks /\ nodes[path[i]].parent = 0 =>
            /\ Sound(w, c + 1, root) /\ UpperLost(nodes, w, root, FindRoot(nodes, root))
            /\ Size(nodes[FindRoot(nodes, root)]) = records_per_node
  <2>1. c = block_count + BlocksFor(nodes, path, i - 1)
        /\ v = MakeRoom(nodes, path, block_count, i - 1)
    OBVIOUS
  <2> HIDE DEF c, v
  <2> QED BY <1>1, <1>2, <2>1, ThrowIsSound
<1>5. \/ nodes' = v /\ block_count' = c + extended
      \/ /\ nodes[path[i]].parent = 0 /\ nodes' = w
         /\ block_count' = c + 1 + extended
  BY <1>3
<1> HIDE DEF w, c, v, path, used, done
<1>6. block_count \in 2 .. MaxBlocks + 1 /\ MaxBlocks \in Nat /\ block_count' <= MaxBlocks + 1
  BY <1>1, <1>2, Zenon
<1>7. c \in Nat /\ c >= block_count /\ extended \in {0, 1}
  BY <1>3, <1>4, Zenon
<1>8. CASE nodes' = v /\ block_count' = c + extended
  <2>1. c <= MaxBlocks + 1 /\ block_count' \in 2 .. MaxBlocks + 1 /\ c <= block_count'
        /\ block_count' \in Nat
    BY <1>6, <1>7, <1>8, InFile
  <2>2. Sound(nodes', block_count', root)
    BY <1>4, <1>8, <2>1, SoundGrows
  <2> QED BY <1>2, <1>4, <1>8, <2>1, <2>2 DEF IInv
<1>9. CASE /\ nodes[path[i]].parent = 0 /\ nodes' = w /\ block_count' = c + 1 + extended
  <2>1. c <= MaxBlocks /\ block_count' \in 2 .. MaxBlocks + 1 /\ c + 1 <= block_count'
        /\ c + 1 \in Nat /\ block_count' \in Nat
    <3>1. c + 1 \in Nat /\ c + 1 >= block_count /\ (c + 1 <= MaxBlocks + 1 => c <= MaxBlocks)
      BY <1>6, <1>7
    <3>2. block_count' = (c + 1) + extended
      BY <1>9, Zenon
    <3> DEFINE d == c + 1
    <3>3. d \in Nat /\ d >= block_count /\ block_count' = d + extended
      BY <3>1, <3>2, Zenon
    <3> HIDE DEF d
    <3>4. /\ d <= MaxBlocks + 1 /\ block_count' \in 2 .. MaxBlocks + 1
          /\ d <= block_count' /\ block_count' \in Nat
      BY <1>6, <1>7, <3>3, InFile
    <3> QED BY <3>1, <3>4, Zenon DEF d
  <2>2. Sound(nodes', block_count', root)
    BY <1>4, <1>9, <2>1, SoundGrows
  <2> QED BY <1>2, <1>4, <1>9, <2>1, <2>2 DEF IInv, Top
<1> QED BY <1>5, <1>8, <1>9, Zenon

\* Opening the file again keeps the nodes and finds the top node.
LEMMA ReopenStep ==
    ASSUME IInv, Reopen
    PROVE  IInv' /\ nodes' = nodes /\ root' = Top
<1>1. /\ root' = FindRoot(nodes, 1) /\ nodes' = nodes /\ block_count' = block_count
  BY DEF Reopen
<1>2. /\ Sound(nodes, block_count, root) /\ block_count \in 2 .. MaxBlocks + 1
  BY DEF IInv
<1>3. PICK H, h, R : Tree(nodes, H, h, R, {}) /\ Low(R[1]) /\ Low(R[root])
  BY <1>2 DEF Sound
<1> DEFINE top == FindRoot(nodes, 1)
<1>4. /\ 1 \in DOMAIN nodes /\ top = FindRoot(nodes, root) /\ Low(R[top])
      /\ top \in DOMAIN nodes /\ FindRoot(nodes, top) = top
      /\ DOMAIN nodes \subseteq 1 .. block_count - 1
  <2>1. /\ 1 \in DOMAIN nodes /\ top = FindRoot(nodes, root)
        /\ DOMAIN nodes \subseteq 1 .. block_count - 1
    BY <1>2 DEF Sound
  <2> QED BY <1>3, <2>1, FindRootIs, LowUp
<1>5. Sound(nodes, block_count, top)
  BY <1>3, <1>4, Zenon DEF Sound
<1> QED BY <1>1, <1>2, <1>4, <1>5 DEF IInv, Top

\* What the types say of a tree that is sound.
LEMMA TypeCorrect == ASSUME IInv, torn \in BOOLEAN PROVE TypeOK
<1>1. PICK H, h, R : Tree(nodes, H, h, R, {})
  BY DEF IInv, Sound
<1>2. Typed(nodes) /\ Closed(nodes)
  BY <1>1, TreeIsClosed
<1> QED BY <1>2 DEF IInv, Sound, TypeOK, Typed, Closed, Size

\* A mapping that fails in the middle of a split leaves nodes of the right types.
LEMMA MappedStep ==
    ASSUME IInv, NEW k \in Keys, MappingThrows(k)
    PROVE  TypeOK' /\ torn' /\ MappingMayFail
<1> DEFINE l == Location(nodes, FindRoot(nodes, root), k)
           path == FullPath(nodes, l)
           used(j) == block_count + BlocksFor(nodes, path, j - 1)
           done(j) == MakeRoom(nodes, path, block_count, j - 1)
<1>1. /\ Sound(nodes, block_count, root) /\ MaxBlocks \in Nat
      /\ block_count \in 2 .. MaxBlocks + 1 /\ block_count \in Nat
  BY BlockAssumption DEF IInv
<1>2. /\ Find(nodes, FindRoot(nodes, root), k) = NoRecord /\ MappingMayFail
      /\ block_count' <= MaxBlocks + 1 /\ root' = root /\ torn' = TRUE
  BY Zenon DEF MappingThrows, Absent, Top
<1>3. PICK i \in 1 .. Len(path) - 1 :
         /\ nodes' \in HalfSplits(done(i), path[i], used(i), path[i + 1])
         /\ block_count' = used(i) + 1
  BY Zenon DEF MappingThrows, PathFor, Top
<1> DEFINE n == Len(path)
           c == used(i)
           v == done(i)
           b == path[i]
<1>4. RoomAlong(nodes, block_count, root, k, l, path)
  <2>1. k \in Int
    BY KeyAssumption
  <2> QED BY <1>1, <1>2, <2>1, RoomIsSound
<1>5. /\ path \in Seq(DOMAIN nodes)
      /\ \A j \in 0 .. n :
            block_count + BlocksFor(nodes, path, j) <= MaxBlocks + 1 =>
               \E G, g, S : RoomMade(nodes, l, root, k, block_count, j,
                                    MakeRoom(nodes, path, block_count, j), G, g, S)
  <2> HIDE DEF l, path
  <2> QED BY <1>4, Zenon DEF RoomAlong, n
<1>6. n \in Nat /\ \A m \in 1 .. n : path[m] \in DOMAIN nodes
  BY <1>5
<1>7. /\ i \in 1 .. n /\ i - 1 \in 0 .. n /\ i - 1 \in Nat /\ i \in (i - 1) + 1 .. n
  BY <1>3, <1>6
<1>8. path = FullPath(nodes, l)
  OBVIOUS
<1>9. /\ nodes' \in HalfSplits(v, b, c, path[i + 1]) /\ block_count' = c + 1
      /\ c = block_count + BlocksFor(nodes, path, i - 1)
      /\ v = MakeRoom(nodes, path, block_count, i - 1)
  BY <1>3
<1> HIDE DEF l, path, used, done, n, c, v
<1>10. BlocksFor(nodes, path, i - 1) \in Nat
  BY <1>7, BlocksForIs
<1>11. /\ c \in Nat /\ c >= block_count /\ c <= MaxBlocks /\ c \in Blocks
       /\ c <= MaxBlocks + 1 /\ block_count' \in 2 .. MaxBlocks + 1
  BY <1>1, <1>2, <1>9, <1>10 DEF Blocks
<1>12. PICK G, g, S : RoomMade(nodes, l, root, k, block_count, i - 1, v, G, g, S)
  BY <1>5, <1>7, <1>9, <1>11, Zenon
<1>13. /\ Tree(v, G, g, S, {}) /\ DOMAIN nodes \subseteq DOMAIN v
       /\ DOMAIN v \subseteq 1 .. block_count + BlocksFor(nodes, path, i - 1) - 1
       /\ \A m \in (i - 1) + 1 .. Len(path) : Size(v[path[m]]) = records_per_node
  BY <1>8, <1>12, Zenon DEF RoomMade
<1>14. DOMAIN v \subseteq 1 .. c - 1
  <2>1. block_count + BlocksFor(nodes, path, i - 1) - 1 = c - 1
    BY <1>1, <1>9, <1>10
  <2> QED BY <1>13, <2>1
<1>15. /\ Size(v[b]) = records_per_node /\ b \in DOMAIN v /\ c \in Blocks \ DOMAIN v
  BY <1>6, <1>7, <1>11, <1>13, <1>14 DEF n
<1>16. Typed(v) /\ Closed(v)
  BY <1>13, TreeIsClosed
<1>17. Typed(nodes') /\ Closed(nodes') /\ DOMAIN nodes' = DOMAIN v \cup {c}
  <2> DEFINE u == nodes'
             mapped == path[i + 1]
  <2>1. u \in HalfSplits(v, b, c, mapped)
    BY <1>9, Zenon
  <2> HIDE DEF u, mapped
  <2>2. b \in DOMAIN v
    BY <1>15
  <2>3. c \in Blocks \ DOMAIN v
    BY <1>15
  <2>4. Size(v[b]) = records_per_node
    BY <1>15
  <2>5. Typed(v) /\ Closed(v)
    BY <1>16
  <2> HIDE DEF b
  <2>6. Typed(u) /\ Closed(u) /\ DOMAIN u = DOMAIN v \cup {c}
    <3>1. \A child, w : w \in HalfSplits(v, b, c, child) =>
                           Typed(w) /\ Closed(w) /\ DOMAIN w = DOMAIN v \cup {c}
      BY <2>2, <2>3, <2>4, <2>5, HalfSplitIs, Zenon
    <3> QED BY <2>1, <3>1, Zenon
  <2> QED BY <2>6 DEF u
<1>18. DOMAIN nodes' \subseteq 1 .. block_count' - 1
  BY <1>9, <1>11, <1>14, <1>17
<1>19. root' \in DOMAIN nodes'
  BY <1>1, <1>2, <1>13, <1>17 DEF Sound
<1> QED BY <1>2, <1>11, <1>17, <1>18, <1>19 DEF TypeOK, Typed, Closed, Size

\* The inductive invariant: a tree, unless a node of it was left half split.
TInv == TypeOK /\ (torn \/ IInv)

\* The first states satisfy the inductive invariant.
LEMMA InitTInv == Init => TInv /\ ~ torn
<1> SUFFICES ASSUME Init PROVE TInv /\ ~ torn
  OBVIOUS
<1>1. torn = FALSE
  BY DEF Init
<1>2. IInv
  BY InitInv
<1> QED BY <1>1, <1>2, TypeCorrect DEF TInv

\* Every step but a mapping that fails preserves the tree.
LEMMA TreeStep ==
    ASSUME TInv, [Next]_vars, ~ torn'
    PROVE  IInv /\ IInv' /\ ~ torn
<1>1. TypeOK /\ (torn \/ IInv) /\ torn \in BOOLEAN
  BY DEF TInv, TypeOK
<1>2. CASE \E k \in Keys, r \in Records : Insert(k, r)
  <2>1. PICK k \in Keys, r \in Records : Insert(k, r)
    BY <1>2
  <2>2. ~ torn
    BY <2>1, Zenon DEF Insert
  <2> QED BY <1>1, <2>1, <2>2, InsertStep
<1>3. CASE \E k \in Keys : InsertThrows(k)
  <2>1. PICK k \in Keys : InsertThrows(k)
    BY <1>3
  <2>2. ~ torn
    BY <2>1, Zenon DEF InsertThrows
  <2> QED BY <1>1, <2>1, <2>2, ThrowStep
<1>4. ASSUME NEW k \in Keys, MappingThrows(k) PROVE FALSE
  BY <1>4, Zenon DEF MappingThrows
<1>5. CASE Reopen
  <2>1. ~ torn
    BY <1>5 DEF Reopen
  <2> QED BY <1>1, <1>5, <2>1, ReopenStep
<1>6. CASE Stopped \/ UNCHANGED vars
  <2>1. UNCHANGED vars
    BY <1>6 DEF Stopped
  <2> QED BY <1>1, <2>1 DEF vars, IInv
<1> QED BY <1>2, <1>3, <1>4, <1>5, <1>6 DEF Next

\* Every step preserves the inductive invariant.
LEMMA StepInv == TInv /\ [Next]_vars => TInv'
<1> SUFFICES ASSUME TInv, [Next]_vars PROVE TInv'
  OBVIOUS
<1>1. torn' \in BOOLEAN
  <2>1. torn \in BOOLEAN
    BY DEF TInv, TypeOK
  <2> QED BY <2>1, Zenon
        DEF Next, Insert, InsertThrows, MappingThrows, Reopen, Stopped, vars
<1>2. CASE ~ torn'
  <2>1. IInv'
    BY <1>2, TreeStep
  <2>2. TypeOK'
    <3>1. PICK H, h, R : Tree(nodes', H, h, R, {})
      BY <2>1 DEF IInv, Sound
    <3>2. Typed(nodes') /\ Closed(nodes')
      BY <3>1, TreeIsClosed
    <3> QED BY <1>1, <2>1, <3>2 DEF IInv, Sound, TypeOK, Typed, Closed, Size
  <2> QED BY <2>1, <2>2 DEF TInv
<1>3. CASE torn'
  <2>1. CASE \E k \in Keys : MappingThrows(k)
    <3>1. PICK k \in Keys : MappingThrows(k)
      BY <2>1
    <3>2. ~ torn
      BY <3>1, Zenon DEF MappingThrows
    <3> QED BY <3>1, <3>2, MappedStep DEF TInv
  <2>2. CASE ~ \E k \in Keys : MappingThrows(k)
    <3>1. UNCHANGED vars
      BY <1>3, <2>2, Zenon DEF Next, Insert, InsertThrows, Reopen, Stopped
    <3> QED BY <3>1 DEF vars, TInv, TypeOK, IInv
  <2> QED BY <2>1, <2>2
<1> QED BY <1>1, <1>2, <1>3

\* For nodes of any size, files of any length, allocations that throw anywhere and
\* mappings that fail anywhere in split_node: the blocks hold a tree after any sequence
\* of inserts and root_ a node of it, unless a mapping failed.
THEOREM Invariant == Spec => []TInv
BY InitTInv, StepInv, PTL DEF Spec

\* While no mapping fails, no node is left half split.
LEMMA NeverTorn == ASSUME ~ MappingMayFail PROVE Spec => []~ torn
<1>1. Init => ~ torn
  BY InitTInv
<1>2. ~ torn /\ [Next]_vars => ~ torn'
  BY Zenon DEF Next, Insert, InsertThrows, MappingThrows, Reopen, Stopped, vars
<1> QED BY <1>1, <1>2, PTL DEF Spec
---------------------------------------------------------------------------------
(* The tree below a node *)

\* A leaf has no children; an inner node has one for each slot.
LEMMA ChildrenAre ==
    ASSUME NEW t, NEW H, NEW h, NEW R, Tree(t, H, h, R, {}), NEW b \in DOMAIN t
    PROVE  /\ h[b] = 0 => Pointers(t[b]) = {0} /\ Children(t[b]) = {}
           /\ h[b] # 0 => /\ Children(t[b]) = {Ptr(t[b], i) : i \in Slots(t[b])}
                          /\ 0 \notin Pointers(t[b])
           /\ \A c \in Children(t[b]) : /\ c \in DOMAIN t /\ t[c].parent = b
                                        /\ h[b] = h[c] + 1 /\ h[c] \in Nat
                                        /\ R[c] \subseteq R[b]
<1>1. /\ t[b] \in Node /\ Linked(t, h, R, b) /\ R \in [DOMAIN t -> SUBSET Int]
      /\ Pointers(t[b]) = {Ptr(t[b], i) : i \in Slots(t[b])}
  <2>1. t[b] \in Node /\ Linked(t, h, R, b) /\ R \in [DOMAIN t -> SUBSET Int]
    BY DEF Tree, Typed
  <2> QED BY <2>1, PointersAre
<1>2. 1 \in Slots(t[b])
  BY <1>1, NodeHas DEF Slots
<1>3. ASSUME h[b] = 0 PROVE Pointers(t[b]) = {0} /\ Children(t[b]) = {}
  <2>1. \A i \in Slots(t[b]) : Ptr(t[b], i) = 0
    BY <1>1, <1>3, Zenon DEF Linked
  <2> QED BY <1>1, <1>2, <2>1 DEF Children
<1>4. ASSUME h[b] # 0
      PROVE  /\ Children(t[b]) = {Ptr(t[b], i) : i \in Slots(t[b])}
             /\ 0 \notin Pointers(t[b])
             /\ \A i \in Slots(t[b]) : LET c == Ptr(t[b], i)
                                       IN  /\ c \in DOMAIN t /\ t[c].parent = b
                                           /\ h[b] = h[c] + 1 /\ h[c] \in Nat
                                           /\ R[c] \subseteq R[b]
  <2>1. \A i \in Slots(t[b]) : LET c == Ptr(t[b], i)
                               IN  /\ c \in DOMAIN t /\ t[c].parent = b /\ c # 0
                                   /\ h[b] = h[c] + 1 /\ h[c] \in Nat
                                   /\ \A x \in R[c] : x \in R[b]
    BY <1>4, ChildIs
  <2> QED BY <1>1, <2>1 DEF Children
<1> QED BY <1>3, <1>4, Zenon

\* The levels below a node, one from the other.
LEMMA LevelIs ==
    ASSUME NEW H, NEW h, NEW R, Tree(nodes, H, h, R, {}), NEW b \in DOMAIN nodes
    PROVE  /\ DOMAIN Level(b) = 0 .. MaxBlocks
           /\ Level(b)[0] = {b}
           /\ \A d \in 0 .. MaxBlocks : d # 0 =>
                 Level(b)[d] = UNION {Children(nodes[c]) : c \in Level(b)[d - 1]}
<1> DEFINE D == 0 .. MaxBlocks
           Val == SUBSET DOMAIN nodes
           IsLevel(f) == f = [d \in D |-> IF d = 0 THEN {b}
                                          ELSE UNION {Children(nodes[c]) : c \in f[d - 1]}]
           rank == [d \in D |-> d]
           base == [d \in D |-> {b}]
           next == [d \in D |-> d - 1]
           combine == [z \in D \X Val |-> UNION {Children(nodes[c]) : c \in z[2]}]
<1>1. MaxBlocks \in Nat
  BY BlockAssumption
<1>2. \E f : IsLevel(f)
  <2>1. rank \in [D -> 0 .. MaxBlocks] /\ base \in [D -> Val]
    BY <1>1
  <2>2. combine \in [D \X Val -> Val]
    <3>1. \A c \in DOMAIN nodes : Children(nodes[c]) \subseteq DOMAIN nodes
      BY ChildrenAre
    <3>2. ASSUME NEW X \in Val PROVE UNION {Children(nodes[c]) : c \in X} \in Val
      BY <3>1
    <3> QED BY <3>2
  <2>3. \A d \in D \ {0} : next[d] \in D /\ rank[next[d]] < rank[d]
    BY <1>1
  <2> HIDE DEF rank, base, combine
  <2>4. PICK f \in [D -> Val] : Solves(f, D, {0}, base, next, combine)
    BY <1>1, <2>1, <2>2, <2>3, SolutionExists
  <2>5. ASSUME NEW d \in D
        PROVE  f[d] = IF d = 0 THEN {b} ELSE UNION {Children(nodes[c]) : c \in f[d - 1]}
    <3>1. f[d] = IF d \in {0} THEN base[d] ELSE combine[<<d, f[next[d]]>>]
      BY <2>4 DEF Solves
    <3>2. CASE d = 0
      BY <3>1, <3>2 DEF base
    <3>3. CASE d # 0
      <4>1. next[d] = d - 1 /\ d - 1 \in D
        BY <1>1, <3>3
      <4>2. f[d - 1] \in Val
        BY <4>1
      <4>3. combine[<<d, f[d - 1]>>] = UNION {Children(nodes[c]) : c \in f[d - 1]}
        BY <4>2 DEF combine
      <4> QED BY <3>1, <3>3, <4>1, <4>3
    <3> QED BY <3>2, <3>3
  <2>6. f = [d \in D |-> f[d]]
    BY <2>4
  <2>7. f = [d \in D |-> IF d = 0 THEN {b} ELSE UNION {Children(nodes[c]) : c \in f[d - 1]}]
    BY <2>5, <2>6
  <2> QED BY <2>7, Zenon
<1> DEFINE level == CHOOSE f : IsLevel(f)
<1>3. Level(b) = level
  BY Zenon DEF Level
<1>4. IsLevel(level)
  BY <1>2
<1> HIDE DEF level
<1>5. /\ DOMAIN level = D
      /\ \A d \in D : level[d] = IF d = 0 THEN {b}
                                 ELSE UNION {Children(nodes[c]) : c \in level[d - 1]}
  BY <1>4, Zenon
<1>6. 0 \in D
  BY <1>1
<1> QED BY <1>3, <1>5, <1>6

\* A level down the height is one less, and the keys are fewer.
LEMMA LevelHas ==
    ASSUME NEW H, NEW h, NEW R, Tree(nodes, H, h, R, {}), NEW b \in DOMAIN nodes
    PROVE  \A d \in 0 .. MaxBlocks : \A c \in Level(b)[d] :
              c \in DOMAIN nodes /\ h[c] = h[b] - d /\ R[c] \subseteq R[b]
<1> DEFINE good(d) == \A c \in Level(b)[d] :
                         c \in DOMAIN nodes /\ h[c] = h[b] - d /\ R[c] \subseteq R[b]
           bad == {d \in 0 .. MaxBlocks : ~ good(d)}
<1>1. MaxBlocks \in Nat /\ H \in Nat /\ \A c \in DOMAIN nodes : h[c] \in Nat
  BY BlockAssumption DEF Tree
<1>2. bad = {}
  <2> SUFFICES ASSUME bad # {} PROVE FALSE
    OBVIOUS
  <2>1. bad \in SUBSET Nat
    BY <1>1
  <2> HIDE DEF bad
  <2>2. PICK d \in bad : \A e \in bad : d <= e
    BY <2>1, LeastNumber
  <2>3. d \in 0 .. MaxBlocks /\ ~ good(d)
    BY <2>2 DEF bad
  <2>4. d # 0
    <3>1. good(0)
      BY <1>1, LevelIs
    <3> QED BY <2>3, <3>1
  <2>5. d - 1 \in 0 .. MaxBlocks /\ ~ (d <= d - 1)
    BY <1>1, <2>3, <2>4
  <2>6. good(d - 1)
    BY <2>2, <2>5, Zenon DEF bad
  <2>7. Level(b)[d] = UNION {Children(nodes[c]) : c \in Level(b)[d - 1]}
    BY <2>3, <2>4, LevelIs
  <2>8. ASSUME NEW x \in Level(b)[d]
        PROVE  x \in DOMAIN nodes /\ h[x] = h[b] - d /\ R[x] \subseteq R[b]
    <3>1. PICK c \in Level(b)[d - 1] : x \in Children(nodes[c])
      BY <2>7
    <3>2. c \in DOMAIN nodes /\ h[c] = h[b] - (d - 1) /\ R[c] \subseteq R[b]
      BY <2>6
    <3>3. x \in DOMAIN nodes /\ h[c] = h[x] + 1 /\ R[x] \subseteq R[c]
      BY <3>1, <3>2, ChildrenAre
    <3> QED BY <1>1, <2>3, <3>2, <3>3
  <2> QED BY <2>3, <2>8
<1> QED BY <1>2

\* What is below a node lies in its range.
LEMMA BelowHas ==
    ASSUME NEW H, NEW h, NEW R, Tree(nodes, H, h, R, {}), NEW b \in DOMAIN nodes
    PROVE  /\ \A c \in Below(b) : c \in DOMAIN nodes
           /\ KeysBelow(b) \subseteq R[b] /\ KeysBelow(0) = {}
<1>1. DOMAIN Level(b) = 0 .. MaxBlocks
  BY LevelIs
<1>2. ASSUME NEW c \in Below(b) PROVE c \in DOMAIN nodes /\ R[c] \subseteq R[b]
  <2>1. PICK d \in 0 .. MaxBlocks : c \in Level(b)[d]
    BY <1>1, <1>2 DEF Below, Range
  <2> QED BY <2>1, LevelHas
<1>3. ASSUME NEW x \in KeysBelow(b) PROVE x \in R[b]
  <2>1. b # 0
    BY DEF Tree, Typed, Blocks
  <2>2. PICK c \in Below(b) : x \in KeysIn(c)
    BY <2>1 DEF KeysBelow
  <2>3. nodes[c] \in Node /\ Fits(nodes, R, c)
    BY <1>2 DEF Tree, Typed
  <2>4. DOMAIN nodes[c].entries = 1 .. Size(nodes[c])
    BY <2>3, NodeHas
  <2>5. PICK i \in 1 .. Size(nodes[c]) : x = Key(nodes[c], i)
    BY <2>2, <2>4 DEF KeysIn, Key
  <2> QED BY <1>2, <2>3, <2>5 DEF Fits
<1>4. KeysBelow(0) = {}
  BY DEF KeysBelow
<1> QED BY <1>2, <1>3, <1>4
---------------------------------------------------------------------------------
(* The properties *)

\* The top node is the root that every climb finds.
LEMMA TopIs ==
    ASSUME NEW H, NEW h, NEW R, Tree(nodes, H, h, R, {}), root \in DOMAIN nodes
    PROVE  Top \in DOMAIN nodes /\ nodes[Top].parent = 0 /\ FindRoot(nodes, Top) = Top
<1>1. Top \in DOMAIN nodes /\ nodes[Top].parent = 0
  BY FindRootIs DEF Top
<1> QED BY <1>1, FindRootIs

\* A sound tree has the order of the keys.
LEMMA OrderHolds == IInv => Ordered
<1> SUFFICES ASSUME IInv, NEW b \in Below(Top)
             PROVE  LET e == nodes[b].entries
                    IN  /\ \A i \in DOMAIN e :
                             /\ \A k \in KeysBelow(e[i].smaller) : k < e[i].key
                             /\ i > 1 => \A k \in KeysBelow(e[i].smaller) \cup {e[i].key} :
                                            e[i - 1].key < k
                        /\ e # <<>> => \A k \in KeysBelow(nodes[b].larger) : e[Len(e)].key < k
  BY DEF Ordered
<1>1. PICK H, h, R : Tree(nodes, H, h, R, {}) /\ root \in DOMAIN nodes
  BY DEF IInv, Sound
<1>2. b \in DOMAIN nodes
  BY <1>1, TopIs, BelowHas
<1> DEFINE node == nodes[b]
           n == Size(node)
<1>3. node \in Node /\ Sorted(node)
  BY <1>1, <1>2 DEF Tree, Typed, Fits
<1>4. /\ n \in Nat /\ DOMAIN node.entries = 1 .. n /\ Len(node.entries) = n
      /\ node.entries # <<>> => n # 0
      /\ \A i \in 1 .. n : Key(node, i) \in Int
  <2>1. /\ n \in Nat /\ DOMAIN node.entries = 1 .. n
        /\ \A i \in 1 .. n : Key(node, i) \in Int
    BY <1>3, NodeHas
  <2>2. Len(node.entries) = n
    BY DEF Size
  <2>3. node.entries # <<>> => n # 0
    <3> SUFFICES ASSUME n = 0 PROVE node.entries = <<>>
      OBVIOUS
    <3>1. node.entries \in Seq([smaller : Blocks \cup {0}, key : Keys, record : Records])
      BY <1>3 DEF Node
    <3> QED BY <2>2, <3>1, EmptySeq
  <2> QED BY <2>1, <2>2, <2>3
<1>5. ASSUME NEW i \in Slots(node), NEW k \in KeysBelow(Ptr(node, i)) PROVE Gap(node, i, k)
  <2>1. CASE h[b] = 0
    <3>1. Ptr(node, i) = 0
      BY <1>1, <1>2, <2>1 DEF Tree, Linked
    <3> QED BY <1>1, <1>2, <1>5, <3>1, BelowHas
  <2>2. CASE h[b] # 0
    <3>1. /\ Ptr(node, i) \in DOMAIN nodes
          /\ \A x \in R[Ptr(node, i)] : Gap(node, i, x)
      BY <1>1, <1>2, <2>2, ChildIs
    <3> QED BY <1>1, <1>5, <3>1, BelowHas
  <2> QED BY <2>1, <2>2
<1>6. ASSUME NEW i \in 1 .. n
      PROVE  /\ i \in Slots(node) /\ Ptr(node, i) = node.entries[i].smaller
             /\ Key(node, i) = node.entries[i].key /\ i <= n
             /\ i > 1 => i - 1 \in 1 .. n /\ Key(node, i - 1) = node.entries[i - 1].key
                         /\ Key(node, i - 1) < Key(node, i)
  <2>1. i \in Slots(node) /\ i <= n /\ (i > 1 => i - 1 \in 1 .. n /\ i - 1 < i)
    BY <1>4 DEF Slots
  <2>2. Ptr(node, i) = node.entries[i].smaller
    BY <2>1 DEF Ptr
  <2>3. /\ Key(node, i) = node.entries[i].key
        /\ Key(node, i - 1) = node.entries[i - 1].key
    BY DEF Key
  <2> QED BY <1>3, <2>1, <2>2, <2>3 DEF Sorted
<1>7. /\ n + 1 \in Slots(node) /\ Ptr(node, n + 1) = node.larger
      /\ n # 0 => n + 1 > 1 /\ (n + 1) - 1 = n /\ Key(node, n) = node.entries[n].key
  <2>1. n + 1 \in Slots(node) /\ ~ (n + 1 <= n) /\ (n # 0 => n + 1 > 1) /\ (n + 1) - 1 = n
    BY <1>4 DEF Slots
  <2>2. Ptr(node, n + 1) = node.larger
    BY <2>1 DEF Ptr
  <2> QED BY <2>1, <2>2 DEF Key
<1> HIDE DEF node, n
<1>8. ASSUME NEW i \in 1 .. n
      PROVE  /\ \A k \in KeysBelow(node.entries[i].smaller) : k < node.entries[i].key
             /\ i > 1 => \A k \in KeysBelow(node.entries[i].smaller) \cup {node.entries[i].key} :
                            node.entries[i - 1].key < k
  <2>1. \A k \in KeysBelow(node.entries[i].smaller) : Gap(node, i, k)
    BY <1>5, <1>6
  <2> QED BY <1>6, <2>1 DEF Gap, n
<1>9. n # 0 => \A k \in KeysBelow(node.larger) : node.entries[n].key < k
  <2>1. \A k \in KeysBelow(node.larger) : Gap(node, n + 1, k)
    BY <1>5, <1>7
  <2> QED BY <1>7, <2>1 DEF Gap
<1> QED BY <1>4, <1>8, <1>9 DEF node

\* A sound tree has the links between parents and children.
LEMMA LinksHold == IInv => ParentLinks
<1> SUFFICES ASSUME IInv PROVE ParentLinks
  OBVIOUS
<1>1. PICK H, h, R : Tree(nodes, H, h, R, {}) /\ root \in DOMAIN nodes
  BY DEF IInv, Sound
<1>2. Top \in DOMAIN nodes /\ nodes[Top].parent = 0
  BY <1>1, TopIs
<1>3. ASSUME NEW b \in Below(Top), NEW c \in Children(nodes[b]) PROVE nodes[c].parent = b
  <2>1. b \in DOMAIN nodes
    BY <1>1, <1>2, BelowHas
  <2> QED BY <1>1, <2>1, ChildrenAre
<1> QED BY <1>2, <1>3 DEF ParentLinks

\* A sound tree has the shape of the tree.
LEMMA ShapeHolds == IInv => Shape
<1> SUFFICES ASSUME IInv PROVE Shape
  OBVIOUS
<1>1. PICK H, h, R : Tree(nodes, H, h, R, {}) /\ root \in DOMAIN nodes
  BY DEF IInv, Sound
<1>2. \A b \in Below(Top) : b \in DOMAIN nodes
  BY <1>1, TopIs, BelowHas
<1>3. ASSUME NEW b \in Below(Top), NEW c \in Below(Top), b # c
      PROVE  Children(nodes[b]) \cap Children(nodes[c]) = {}
  BY <1>1, <1>2, <1>3, ChildrenAre
<1>4. ASSUME NEW b \in Below(Top)
      PROVE  Cardinality(Children(nodes[b])) \in {0, Len(nodes[b].entries) + 1}
  <2> DEFINE C == Children(nodes[b])
             S == Slots(nodes[b])
  <2>1. CASE h[b] = 0
    <3>1. C = {}
      BY <1>1, <1>2, <2>1, ChildrenAre
    <3> HIDE DEF C
    <3>2. Cardinality(C) = 0
      BY <3>1, FS_EmptySet
    <3> QED BY <3>2 DEF C
  <2>2. CASE h[b] # 0
    <3>1. nodes[b] \in Node
      BY <1>1, <1>2 DEF Tree, Typed
    <3>2. Size(nodes[b]) \in Nat /\ S = 1 .. Size(nodes[b]) + 1
      BY <3>1, NodeHas DEF Slots
    <3>3. C = {Ptr(nodes[b], i) : i \in S}
      BY <1>1, <1>2, <2>2, ChildrenAre
    <3>4. \A i, j \in S : Ptr(nodes[b], j) = Ptr(nodes[b], i) => j = i
      BY <1>1, <1>2, <2>2, ChildIs
    <3> HIDE DEF C, S
    <3> DEFINE f == [i \in S |-> Ptr(nodes[b], i)]
    <3>5. f \in Bijection(S, C)
      BY <3>3, <3>4, Zenon DEF Bijection, Injection, Surjection, IsInjective
    <3>6. ExistsBijection(S, C)
      BY <3>5 DEF ExistsBijection
    <3>7. IsFiniteSet(S) /\ Cardinality(S) = Size(nodes[b]) + 1
      BY <3>2, FS_Interval
    <3>8. Cardinality(C) = Size(nodes[b]) + 1
      BY <3>6, <3>7, FS_Bijection
    <3> QED BY <3>8 DEF Size, C
  <2> QED BY <2>1, <2>2
<1> QED BY <1>3, <1>4 DEF Shape

\* A sound tree has leaves of one depth.
LEMMA DepthHolds == IInv => UniformDepth
<1> SUFFICES ASSUME IInv, NEW d \in DOMAIN Level(Top),
                    NEW b \in Level(Top)[d], 0 \in Pointers(nodes[b]),
                    NEW c \in Level(Top)[d]
             PROVE  Pointers(nodes[c]) = {0}
  BY DEF UniformDepth
<1>1. PICK H, h, R : Tree(nodes, H, h, R, {}) /\ root \in DOMAIN nodes
  BY DEF IInv, Sound
<1>2. Top \in DOMAIN nodes
  BY <1>1, TopIs
<1>3. d \in 0 .. MaxBlocks
  BY <1>1, <1>2, LevelIs
<1>4. b \in DOMAIN nodes /\ c \in DOMAIN nodes /\ h[b] = h[c]
  BY <1>1, <1>2, <1>3, LevelHas
<1>5. h[b] = 0
  BY <1>1, <1>4, ChildrenAre
<1>6. h[c] = 0
  BY <1>4, <1>5
<1> QED BY <1>1, <1>4, <1>6, ChildrenAre

\* Always, also after an allocation that threw or a mapping that failed: the blocks have
\* nodes of at most records_per_node entries, whose pointers are blocks in use.
THEOREM TreeTypeCorrect == Spec => []TypeOK
<1>1. TInv => TypeOK
  BY DEF TInv
<1> QED BY <1>1, Invariant, PTL

\* Unless a mapping failed in split_node, also after an insert that threw: the keys of
\* each subtree lie between the two keys of the node that it hangs from, at any depth.
THEOREM TreeIsOrdered == Spec => [](torn \/ Ordered)
<1>1. TInv => torn \/ Ordered
  BY OrderHolds DEF TInv
<1> QED BY <1>1, Invariant, PTL

\* Unless a mapping failed in split_node, also after an insert that threw: each node that
\* can be reached points back to the node that points to it, on which find_root and the
\* next split rely.
THEOREM TreeIsLinked == Spec => [](torn \/ ParentLinks)
<1>1. TInv => torn \/ ParentLinks
  BY LinksHold DEF TInv
<1> QED BY <1>1, Invariant, PTL

\* Unless a mapping failed in split_node, also after an insert that threw: all leaves are
\* at one depth.
THEOREM TreeIsLevel == Spec => [](torn \/ UniformDepth)
<1>1. TInv => torn \/ UniformDepth
  BY DepthHolds DEF TInv
<1> QED BY <1>1, Invariant, PTL

\* All of this at once, and that no node is reached twice and none lacks a child: a
\* tree that later inserts can work on.
THEOREM TreeIsWellFormed == Spec => []WellFormed
<1>1. TInv => WellFormed
  BY OrderHolds, LinksHold, ShapeHolds, DepthHolds DEF TInv, WellFormed
<1> QED BY <1>1, Invariant, PTL
---------------------------------------------------------------------------------
(* What is stored *)

\* What find returns, from the root that the nodes lead to: the record that is stored.
LEMMA StoredHas ==
    ASSUME IInv, NEW k \in Keys
    PROVE  /\ \A r : Stores(nodes, root, k, r) => Stored(k) = r /\ r # NoRecord
           /\ Stored(k) # NoRecord => Stores(nodes, root, k, Stored(k))
<1>1. Sound(nodes, block_count, root) /\ k \in Int
  BY KeyAssumption DEF IInv
<1>2. Stored(k) = Find(nodes, FindRoot(nodes, root), k)
  BY Zenon DEF Stored, Top
<1> QED BY <1>1, <1>2, StoredIs, Zenon

\* What a key stores after a step, read from the tree after it.
LEMMA StoredHasNext ==
    ASSUME IInv', NEW k \in Keys
    PROVE  /\ \A r : Stores(nodes', root', k, r) => Stored(k)' = r /\ r # NoRecord
           /\ Stored(k)' # NoRecord => Stores(nodes', root', k, Stored(k)')
<1>1. Sound(nodes', block_count', root') /\ k \in Int
  BY KeyAssumption DEF IInv
<1>2. Stored(k)' = Find(nodes', FindRoot(nodes', root'), k)
  BY Zenon DEF Stored, Top
<1> QED BY <1>1, <1>2, StoredIs, Zenon

\* A tree is not higher than the file has blocks: a node of each height is in it.
LEMMA HeightIs ==
    ASSUME NEW H, NEW h, NEW R, Tree(nodes, H, h, R, {}), NEW b \in DOMAIN nodes
    PROVE  h[b] \in Nat /\ h[b] <= MaxBlocks
<1> DEFINE missing == {e \in 0 .. h[b] : \A x \in DOMAIN nodes : h[x] # h[b] - e}
<1>1. /\ H \in Nat /\ h \in [DOMAIN nodes -> 0 .. H] /\ h[b] \in Nat
      /\ DOMAIN nodes \subseteq 1 .. MaxBlocks /\ MaxBlocks \in Nat
  BY BlockAssumption DEF Tree, Typed, Blocks
<1>2. missing = {}
  <2> SUFFICES ASSUME missing # {} PROVE FALSE
    OBVIOUS
  <2>1. missing \in SUBSET Nat
    BY <1>1
  <2> HIDE DEF missing
  <2>2. PICK e \in missing : \A d \in missing : e <= d
    BY <2>1, LeastNumber
  <2>3. e \in 0 .. h[b] /\ \A x \in DOMAIN nodes : h[x] # h[b] - e
    BY <2>2 DEF missing
  <2>4. e - 1 \in 0 .. h[b] /\ ~ (e <= e - 1)
    <3>1. e # 0
      BY <1>1, <2>3
    <3> QED BY <1>1, <2>3, <3>1
  <2>5. PICK x \in DOMAIN nodes : h[x] = h[b] - (e - 1)
    BY <2>2, <2>4 DEF missing
  <2>6. h[x] # 0
    BY <1>1, <2>3, <2>4, <2>5
  <2>7. 1 \in Slots(nodes[x])
    <3>1. nodes[x] \in Node
      BY DEF Tree, Typed
    <3> QED BY <3>1, NodeHas DEF Slots
  <2>8. Ptr(nodes[x], 1) \in DOMAIN nodes /\ h[x] = h[Ptr(nodes[x], 1)] + 1
    BY <2>6, <2>7, ChildIs
  <2>9. h[Ptr(nodes[x], 1)] = h[b] - e
    BY <1>1, <2>3, <2>5, <2>8
  <2> QED BY <2>3, <2>8, <2>9
<1>3. \A e \in 0 .. h[b] : \E x \in DOMAIN nodes : h[x] = e
  <2> SUFFICES ASSUME NEW e \in 0 .. h[b] PROVE \E x \in DOMAIN nodes : h[x] = e
    OBVIOUS
  <2>1. h[b] - e \in 0 .. h[b] /\ h[b] - (h[b] - e) = e
    BY <1>1
  <2> QED BY <1>2, <2>1
<1> DEFINE S == 0 .. h[b]
           T == 1 .. MaxBlocks
           at == [e \in S |-> CHOOSE x \in DOMAIN nodes : h[x] = e]
<1>4. \A e \in S : at[e] \in T /\ h[at[e]] = e
  BY <1>1, <1>3
<1> HIDE DEF at
<1>5. at \in [S -> T]
  <2>1. at = [e \in S |-> at[e]]
    BY DEF at
  <2> QED BY <1>4, <2>1
<1>6. /\ IsFiniteSet(S) /\ Cardinality(S) = h[b] + 1
      /\ IsFiniteSet(T) /\ Cardinality(T) <= MaxBlocks /\ Cardinality(T) \in Nat
  <2> DEFINE top == h[b]
  <2>1. IsFiniteSet(S) /\ Cardinality(S) = IF 0 > h[b] THEN 0 ELSE h[b] - 0 + 1
    <3>1. top \in Int /\ 0 \in Int
      BY <1>1
    <3>2. S = 0 .. top
      OBVIOUS
    <3> HIDE DEF top, S
    <3>3. IsFiniteSet(S) /\ Cardinality(S) = IF 0 > top THEN 0 ELSE top - 0 + 1
      BY <3>1, <3>2, FS_Interval
    <3> QED BY <3>3 DEF top
  <2>2. IsFiniteSet(T) /\ Cardinality(T) = IF 1 > MaxBlocks THEN 0 ELSE MaxBlocks - 1 + 1
    BY <1>1, FS_Interval
  <2> HIDE DEF S, T
  <2> QED BY <1>1, <2>1, <2>2
<1> HIDE DEF S, T
<1>7. ASSUME Cardinality(T) < Cardinality(S) PROVE FALSE
  BY <1>4, <1>5, <1>6, <1>7, FS_PigeonHole
<1> QED BY <1>1, <1>6, <1>7

\* What leads to the top node lies below it.
LEMMA AllBelow ==
    ASSUME NEW H, NEW h, NEW R, Tree(nodes, H, h, R, {}), NEW b \in DOMAIN nodes,
           NEW x \in DOMAIN nodes, FindRoot(nodes, x) = b
    PROVE  x \in Below(b) /\ KeysIn(x) \subseteq KeysBelow(b)
<1> DEFINE near(d) == \A y \in DOMAIN nodes :
                         FindRoot(nodes, y) = b /\ h[y] = h[b] - d => y \in Level(b)[d]
           bad == {d \in 0 .. MaxBlocks : ~ near(d)}
<1>1. /\ MaxBlocks \in Nat /\ h[b] \in Nat /\ h[b] <= MaxBlocks
      /\ \A y \in DOMAIN nodes : h[y] \in Nat
  BY BlockAssumption, HeightIs
<1>2. \A y \in DOMAIN nodes : FindRoot(nodes, y) = b => y = b \/ h[y] < h[b]
  <2> DEFINE high == {y \in DOMAIN nodes :
                         FindRoot(nodes, y) = b /\ y # b /\ ~ (h[y] < h[b])}
  <2> SUFFICES ASSUME high # {} PROVE FALSE
    OBVIOUS
  <2>1. H \in Nat /\ \A y \in high : h[y] \in 0 .. H
    BY DEF Tree
  <2> HIDE DEF high
  <2>2. PICK y \in high : \A z \in high : h[z] <= h[y]
    BY <2>1, LowestOf
  <2>3. y \in DOMAIN nodes /\ FindRoot(nodes, y) = b /\ y # b /\ ~ (h[y] < h[b])
    BY <2>2 DEF high
  <2>4. nodes[y].parent # 0
    BY <2>3, FindRootIs
  <2> DEFINE p == nodes[y].parent
  <2>5. p \in DOMAIN nodes /\ h[p] = h[y] + 1 /\ FindRoot(nodes, p) = b
    BY <2>3, <2>4, ParentIs, FindRootIs
  <2> HIDE DEF p
  <2>6. p \notin high
    <3>1. ~ (h[p] <= h[y])
      BY <1>1, <2>3, <2>5
    <3> QED BY <2>2, <3>1
  <2>7. p = b \/ h[p] < h[b]
    BY <2>5, <2>6 DEF high
  <2> QED BY <1>1, <2>3, <2>5, <2>7
<1>3. bad = {}
  <2> SUFFICES ASSUME bad # {} PROVE FALSE
    OBVIOUS
  <2>1. bad \in SUBSET Nat
    BY <1>1
  <2> HIDE DEF bad
  <2>2. PICK d \in bad : \A e \in bad : d <= e
    BY <2>1, LeastNumber
  <2>3. d \in 0 .. MaxBlocks /\ ~ near(d)
    BY <2>2 DEF bad
  <2>4. PICK y \in DOMAIN nodes : FindRoot(nodes, y) = b /\ h[y] = h[b] - d
                                 /\ y \notin Level(b)[d]
    BY <2>3
  <2>5. d # 0
    <3> SUFFICES ASSUME d = 0 PROVE FALSE
      OBVIOUS
    <3>1. h[y] = h[b]
      BY <1>1, <2>4
    <3>2. y = b
      BY <1>1, <1>2, <2>4, <3>1
    <3> QED BY <2>4, <3>2, LevelIs
  <2>6. d - 1 \in 0 .. MaxBlocks /\ ~ (d <= d - 1)
    BY <1>1, <2>3, <2>5
  <2>7. near(d - 1)
    BY <2>2, <2>6, Zenon DEF bad
  <2>8. nodes[y].parent # 0
    <3>1. y # b
      BY <1>1, <2>3, <2>4, <2>5
    <3> QED BY <2>4, <3>1, FindRootIs
  <2> DEFINE p == nodes[y].parent
  <2>9. /\ p \in DOMAIN nodes /\ h[p] = h[y] + 1
        /\ \E i \in Slots(nodes[p]) : Ptr(nodes[p], i) = y
    BY <2>8, ParentIs
  <2>10. FindRoot(nodes, p) = b
    BY <2>4, <2>8, FindRootIs
  <2> HIDE DEF p
  <2>11. h[p] = h[b] - (d - 1)
    BY <1>1, <2>3, <2>4, <2>9
  <2>12. p \in Level(b)[d - 1]
    BY <2>7, <2>9, <2>10, <2>11
  <2>13. y \in Children(nodes[p])
    <3>1. nodes[p] \in Node /\ y # 0
      BY <2>9 DEF Tree, Typed, Blocks
    <3> QED BY <2>9, <3>1, PointersAre DEF Children
  <2>14. Level(b)[d] = UNION {Children(nodes[c]) : c \in Level(b)[d - 1]}
    BY <2>3, <2>5, LevelIs
  <2> QED BY <2>4, <2>12, <2>13, <2>14
<1>4. h[b] - h[x] \in 0 .. MaxBlocks /\ h[x] = h[b] - (h[b] - h[x])
  BY <1>1, <1>2
<1>5. x \in Level(b)[h[b] - h[x]]
  BY <1>3, <1>4
<1>6. x \in Below(b)
  <2>1. h[b] - h[x] \in DOMAIN Level(b)
    BY <1>4, LevelIs
  <2>2. Level(b)[h[b] - h[x]] \in Range(Level(b))
    BY <2>1, Zenon DEF Range
  <2> QED BY <1>5, <2>2, Zenon DEF Below
<1>7. b # 0
  BY DEF Tree, Typed, Blocks
<1> QED BY <1>6, <1>7 DEF KeysBelow

\* While no mapping fails, a step that changes what a key stores loses it, with the top
\* node full and the key at or above the middle one.
LEMMA LossStep ==
    ASSUME TInv, [Next]_vars, ~ torn',
           NEW k \in Keys, Stored(k) # NoRecord, Stored(k)' # Stored(k)
    PROVE  /\ Stored(k)' = NoRecord
           /\ \E b \in Below(Top) : /\ IsFull(nodes[b])
                                    /\ k \in KeysBelow(b)
                                    /\ Middle(nodes, b).key <= k
                                    /\ b = Top
<1>1. IInv /\ IInv' /\ ~ torn
  BY TreeStep
<1>2. ~ Stores(nodes', root', k, Stored(k)) /\ Stores(nodes, root, k, Stored(k))
  BY <1>1, StoredHas, StoredHasNext
<1>3. CASE \E c \in Keys, r \in Records : Insert(c, r)
  BY <1>1, <1>2, <1>3, InsertStep
<1>4. CASE \E c \in Keys : InsertThrows(c)
  <2>1. PICK c \in Keys : InsertThrows(c)
    BY <1>4
  <2>2. /\ root' = root
        /\ \/ Keeps(nodes, nodes')
           \/ /\ UpperLost(nodes, nodes', root, Top)
              /\ Size(nodes[Top]) = records_per_node
    BY <1>1, <2>1, ThrowStep
  <2>3. root \in DOMAIN nodes
    BY <1>1 DEF IInv, Sound
  <2>4. UpperLost(nodes, nodes', root, Top) /\ Size(nodes[Top]) = records_per_node
    BY <1>2, <2>2, <2>3, Zenon DEF Keeps
  <2>5. ~ (k < Middle(nodes, Top).key) /\ Middle(nodes, Top).key \in Int
    BY <1>2, <2>2, <2>4, Zenon DEF UpperLost
  <2>6. Middle(nodes, Top).key <= k
    <3>1. k \in Int
      BY KeyAssumption
    <3> QED BY <2>5, <3>1
  <2>7. Stored(k)' = NoRecord
    <3> SUFFICES ASSUME Stored(k)' # NoRecord PROVE FALSE
      OBVIOUS
    <3>1. Stores(nodes', root, k, Stored(k)')
      BY <1>1, <2>2, StoredHasNext
    <3>2. Stores(nodes, root, k, Stored(k)')
      BY <2>4, <3>1, Zenon DEF UpperLost
    <3> QED BY <1>1, <3>2, StoredHas
  <2>8. IsFull(nodes[Top])
    BY <2>4 DEF IsFull, Size
  <2>9. Top \in Below(Top) /\ k \in KeysBelow(Top)
    <3>1. PICK H, h, R : Tree(nodes, H, h, R, {}) /\ root \in DOMAIN nodes
      BY <1>1 DEF IInv, Sound
    <3>2. Top \in DOMAIN nodes /\ FindRoot(nodes, Top) = Top
      BY <3>1, TopIs
    <3>3. PICK x \in DOMAIN nodes : FindRoot(nodes, x) = FindRoot(nodes, root)
                                   /\ Holds(nodes[x], k, Stored(k))
      BY <1>2, Zenon DEF Stores
    <3>4. k \in KeysIn(x)
      <4>1. PICK i \in 1 .. Size(nodes[x]) : Key(nodes[x], i) = k
        BY <3>3, Zenon DEF Holds
      <4>2. nodes[x] \in Node
        BY <3>1 DEF Tree, Typed
      <4>3. i \in DOMAIN nodes[x].entries
        BY <4>1, <4>2, NodeHas
      <4> QED BY <4>1, <4>3, Zenon DEF KeysIn, Key
    <3>5. FindRoot(nodes, x) = Top
      BY <3>3 DEF Top
    <3>6. Top \in Below(Top) /\ KeysIn(x) \subseteq KeysBelow(Top)
      BY <3>1, <3>2, <3>3, <3>5, AllBelow
    <3> QED BY <3>4, <3>6
  <2> QED BY <2>6, <2>7, <2>8, <2>9
<1>5. CASE Reopen
  <2>1. nodes' = nodes /\ root' = Top
    BY <1>1, <1>5, ReopenStep
  <2>2. Stores(nodes, Top, k, Stored(k))
    <3>1. PICK H, h, R : Tree(nodes, H, h, R, {}) /\ root \in DOMAIN nodes
      BY <1>1 DEF IInv, Sound
    <3>2. FindRoot(nodes, Top) = FindRoot(nodes, root)
      BY <3>1, FindRootIs DEF Top
    <3> QED BY <1>2, <3>2, Zenon DEF Stores
  <2> QED BY <1>2, <2>1, <2>2
<1>6. CASE UNCHANGED vars
  BY <1>2, <1>6 DEF vars
<1>7. CASE Stopped
  BY <1>6, <1>7 DEF Stopped
<1>8. ASSUME NEW c \in Keys, MappingThrows(c) PROVE FALSE
  BY <1>8, Zenon DEF MappingThrows
<1> QED BY <1>3, <1>4, <1>5, <1>6, <1>7, <1>8 DEF Next

\* With allocations that throw anywhere, for nodes of any size, while no mapping fails in
\* split_node: a record is lost in no insert but one that was splitting the root, and then
\* its key was at or above the middle one.
THEOREM LossOnlyInRootSplit == ASSUME ~ MappingMayFail PROVE Spec => LossOnlyInSplits
<1>1. ASSUME TInv, ~ torn', [Next]_vars
      PROVE  [\A k \in Keys : Stored(k) # NoRecord /\ Stored(k)' # Stored(k) =>
                 /\ Stored(k)' = NoRecord
                 /\ \E b \in Below(Top) :
                      /\ IsFull(nodes[b])
                      /\ k \in KeysBelow(b)
                      /\ Middle(nodes, b).key <= k
                      /\ b = Top \/ torn']_vars
  BY <1>1, LossStep, Zenon
<1> QED BY <1>1, Invariant, NeverTorn, PTL DEF Spec, LossOnlyInSplits

\* Without failures root_ is always the root.
DictInv == TInv /\ ~ torn /\ nodes[root].parent = 0

\* Without failures what a key stores is what find returns.
LEMMA DictHas ==
    ASSUME DictInv
    PROVE  Top = root /\ \A k \in Keys : Stored(k) = Find(nodes, root, k)
<1>1. PICK H, h, R : Tree(nodes, H, h, R, {}) /\ root \in DOMAIN nodes
  BY DEF DictInv, TInv, IInv, Sound
<1>2. Top = root
  BY <1>1, FindRootIs DEF DictInv, Top
<1> QED BY <1>2 DEF Stored

\* The first states are those of the dictionary.
LEMMA DictInit == Init => DictInv /\ Dict!Init
<1> SUFFICES ASSUME Init PROVE DictInv /\ Dict!Init
  OBVIOUS
<1>1. nodes = [b \in {1} |-> EmptyNode] /\ root = 1
  BY DEF Init
<1>2. IInv /\ TInv /\ ~ torn
  BY InitInv, InitTInv
<1>3. DictInv
  BY <1>1, <1>2 DEF DictInv, EmptyNode
<1>4. ASSUME NEW k \in Keys PROVE Find(nodes, root, k) = NoRecord
  <2>1. \A r : ~ Stores(nodes, root, k, r)
    <3>1. Size(EmptyNode) = 0
      BY DEF EmptyNode, Size
    <3>2. 1 .. Size(EmptyNode) = {}
      BY <3>1
    <3>3. \A x \in DOMAIN nodes : nodes[x] = EmptyNode
      BY <1>1
    <3>4. \A x \in DOMAIN nodes : ~ \E i \in 1 .. Size(nodes[x]) : TRUE
      BY <3>2, <3>3
    <3> QED BY <3>4, Zenon DEF Stores, Holds
  <2>2. Stored(k) = NoRecord
    BY <1>2, <2>1, StoredHas
  <2> QED BY <1>3, <2>2, DictHas
<1>5. [k \in Keys |-> Find(nodes, root, k)] = [k \in Keys |-> NoRecord]
  BY <1>4
<1> QED BY <1>3, <1>5, Zenon DEF Dict!Init

\* Every step is a step of the dictionary, or a stutter.
LEMMA DictStep ==
    ASSUME ~ AllocationMayFail, ~ MappingMayFail, DictInv, [Next]_vars
    PROVE  DictInv' /\ [Dict!Next]_([k \in Keys |-> Find(nodes, root, k)])
<1> DEFINE map == [k \in Keys |-> Find(nodes, root, k)]
<1> SUFFICES DictInv' /\ (Dict!Next \/ map' = map)
  OBVIOUS
<1>1. IInv /\ IInv' /\ ~ torn' /\ nodes[root].parent = 0 /\ Top = root
  <2>1. TInv /\ ~ torn /\ nodes[root].parent = 0 /\ Top = root
    BY DictHas DEF DictInv
  <2>2. ~ torn'
    BY <2>1, Zenon DEF Next, Insert, InsertThrows, MappingThrows, Reopen, Stopped, vars
  <2> QED BY <2>1, <2>2, TreeStep
<1>0. TInv'
  BY StepInv DEF DictInv
<1>2. ASSUME NEW c \in Keys, NEW r \in Records, Insert(c, r)
      PROVE  DictInv' /\ Dict!Next
  <2>1. /\ nodes'[root'].parent = 0
        /\ \A k, rec : Stores(nodes', root', k, rec) <=>
                          Stores(nodes, root, k, rec) \/ (c = k /\ r = rec)
    BY <1>1, <1>2, InsertStep
  <2>2. DictInv'
    BY <1>0, <1>1, <2>1 DEF DictInv
  <2>3. Top' = root'
    <3>1. PICK H, h, R : Tree(nodes', H, h, R, {}) /\ root' \in DOMAIN nodes'
      BY <1>1 DEF IInv, Sound
    <3>2. FindRoot(nodes', root') = root'
      BY <2>1, <3>1, FindRootIs
    <3> QED BY <3>2, Zenon DEF Top
  <2>4. ASSUME NEW k \in Keys
        PROVE  /\ Stored(k) = Find(nodes, root, k)
               /\ Stored(k)' = Find(nodes', root', k)
    BY <1>1, <2>3, Zenon DEF Stored
  <2>5. Find(nodes, root, c) = NoRecord
    BY <1>1, <1>2, Zenon DEF Insert, Absent
  <2>6. Find(nodes', root', c) = r
    <3>1. Stores(nodes', root', c, r)
      BY <2>1
    <3> QED BY <1>1, <2>4, <3>1, StoredHasNext
  <2>7. ASSUME NEW k \in Keys, k # c PROVE Find(nodes', root', k) = Find(nodes, root, k)
    <3>1. \A rec : Stores(nodes', root', k, rec) <=> Stores(nodes, root, k, rec)
      BY <2>1, <2>7
    <3>2. CASE Stored(k) # NoRecord
      BY <1>1, <2>4, <3>1, <3>2, StoredHas, StoredHasNext
    <3>3. CASE Stored(k) = NoRecord
      <4>1. ASSUME Stored(k)' # NoRecord PROVE FALSE
        <5>1. Stores(nodes, root, k, Stored(k)')
          BY <1>1, <3>1, <4>1, StoredHasNext
        <5> QED BY <1>1, <3>3, <5>1, StoredHas
      <4> QED BY <2>4, <3>3, <4>1
    <3> QED BY <3>2, <3>3
  <2>8. [k \in Keys |-> Find(nodes', root', k)] =
           [[k \in Keys |-> Find(nodes, root, k)] EXCEPT ![c] = r]
    BY <2>6, <2>7
  <2>9. Dict!Insert(c, r)
    BY <2>5, <2>8 DEF Dict!Insert
  <2> QED BY <2>2, <2>9 DEF Dict!Next
<1>3. ASSUME NEW c \in Keys, InsertThrows(c) \/ MappingThrows(c) PROVE FALSE
  BY <1>3, Zenon DEF InsertThrows, MappingThrows
<1>4. CASE (nodes' = nodes /\ root' = root)
  BY <1>0, <1>1, <1>4 DEF DictInv
<1>5. CASE Reopen
  BY <1>0, <1>1, <1>4, <1>5, ReopenStep DEF DictInv
<1>6. CASE Stopped \/ UNCHANGED vars
  BY <1>4, <1>6 DEF vars, Stopped
<1> QED BY <1>2, <1>3, <1>5, <1>6 DEF Next

\* Without failing allocations and mappings, for nodes of any size and files of any
\* length: the tree is the dictionary of what was inserted, whatever the splits moved
\* and across reopening.
THEOREM IsDictionary ==
    ASSUME ~ AllocationMayFail, ~ MappingMayFail
    PROVE  Spec => ImplementsDictionary
<1>1. DictInv /\ [Next]_vars => DictInv' /\ [Dict!Next]_([k \in Keys |-> Find(nodes, root, k)])
  BY DictStep
<1> QED BY <1>1, DictInit, PTL DEF Spec, ImplementsDictionary, Dict!Spec
---------------------------------------------------------------------------------
(* The search within a node, for nodes of any size *)

\* What the integer divisions give: half the array, and half a step, at least one.
LEMMA HalfOf == ASSUME NEW n \in Nat
                PROVE  /\ n \div 2 \in Nat
                       /\ 2 * (n \div 2) <= n /\ n <= 2 * (n \div 2) + 1
BY SMT

\* A halved search step is never zero, and at most half of a step above one.
LEMMA HalvedStep ==
    ASSUME step \in Nat
    PROVE  /\ Halved \in Nat \ {0}
           /\ IF step <= 1 THEN Halved = 1 ELSE 2 * Halved <= step
BY HalfOf DEF Halved

\* The first states of the search satisfy its invariant.
LEMMA SearchInitInv == SearchInit => SearchInv
<1> SUFFICES ASSUME SearchInit PROVE SearchInv
  OBVIOUS
<1>1. record_count_ \in Nat /\ Ascends(entries, record_count_)
  BY ArrayAssumption DEF SearchInit
<1>2. /\ current \in Nat /\ step = current /\ result = Searching
      /\ 2 * current <= record_count_ /\ record_count_ <= 2 * current + 1
  BY <1>1, HalfOf DEF SearchInit
<1>3. SearchTypeOK
  BY <1>1, <1>2 DEF SearchTypeOK, Searching, SearchInit
<1>4. QED
  BY <1>1, <1>2, <1>3 DEF SearchInv, InBounds, Correct, Done

\* Each way for the loop to go on keeps the distance to both ends, and each way
\* to end is at the key's place.
LEMMA SearchStep == SearchInv /\ [SearchNext]_search_vars => SearchInv'
<1> SUFFICES ASSUME SearchInv, [SearchNext]_search_vars PROVE SearchInv'
  OBVIOUS
<1> USE DEF SearchInv, SearchTypeOK, InBounds, Correct, Done, Searching
<1>1. CASE FoundHere
  BY <1>1 DEF FoundHere, Ends, Inside, IsPlace
<1>2. CASE Descend
  <2>1. \A i \in 0 .. current - 1 : entries[i] < key
    <3>1. CASE current = 0
      BY <3>1
    <3>2. CASE current # 0
      <4>1. current - 1 \in 0 .. record_count_ - 1 /\ entries[current - 1] < key
        BY <1>2, <3>2, SoughtAssumption DEF Descend, Inside, Ascends
      <4>2. ASSUME NEW i \in 0 .. current - 1
            PROVE i = current - 1 \/ entries[i] < entries[current - 1]
        BY <4>1 DEF Ascends
      <4>3. QED
        BY <4>1, <4>2, SoughtAssumption DEF Ascends
    <3>3. QED
      BY <3>1, <3>2
  <2>2. Halved \in 0 .. record_count_ + 1
    BY <1>2, HalvedStep DEF Descend, Inside
  <2>3. QED
    BY <1>2, <2>1, <2>2 DEF Descend, Ends, Inside, IsPlace
<1>3. CASE StepDown
  <2>1. /\ current \in Nat \ {0} /\ current < record_count_
        /\ step <= current + 1 /\ step \in Nat /\ step <= record_count_ - current
    BY <1>3 DEF StepDown, Inside
  <2>2. /\ current - Halved \in 0 .. record_count_ - 1
        /\ Halved <= (current - Halved) + 1
        /\ Halved <= record_count_ - (current - Halved)
    BY <2>1, HalvedStep
  <2>3. QED
    BY <1>3, <2>1, <2>2, HalvedStep DEF StepDown
<1>4. CASE StepUp
  <2>1. /\ current \in Nat /\ current < record_count_ /\ entries[current] < key
        /\ step <= current + 1 /\ step \in Nat /\ step <= record_count_ - current
    BY <1>4, SoughtAssumption DEF StepUp, Inside, Ascends
  <2>2. /\ current + Halved \in 0 .. record_count_
        /\ Halved <= (current + Halved) + 1
        /\ Halved \in 0 .. record_count_ + 1
        /\ IF current + Halved = record_count_
           THEN current = record_count_ - 1
           ELSE Halved <= record_count_ - (current + Halved)
    BY <2>1, HalvedStep
  <2>3. ASSUME current = record_count_ - 1
        PROVE \A i \in 0 .. record_count_ - 1 : entries[i] < key
    <3>1. ASSUME NEW i \in 0 .. record_count_ - 1
          PROVE i = current \/ entries[i] < entries[current]
      BY <2>1, <2>3 DEF Ascends
    <3>2. QED
      BY <2>1, <2>3, <3>1, SoughtAssumption DEF Ascends
  <2>4. QED
    BY <1>4, <2>1, <2>2, <2>3 DEF StepUp
<1>5. CASE Leave
  <2>1. current = record_count_ /\ \A i \in 0 .. record_count_ - 1 : entries[i] < key
    BY <1>5 DEF Leave, Inside
  <2>2. QED
    BY <1>5, <2>1 DEF Leave, Ends, IsPlace
<1>6. CASE UNCHANGED search_vars
  BY <1>6 DEF search_vars, IsPlace
<1>7. QED
  BY <1>1, <1>2, <1>3, <1>4, <1>5, <1>6 DEF SearchNext

\* For nodes of any size and any keys: the index stays within the array and one
\* past it (so entries_[current] and entries_[current-1] exist where they are read).
THEOREM SearchTypeCorrect == SearchSpec => []SearchTypeOK
<1>1. SearchInv => SearchTypeOK
  BY DEF SearchInv
<1>2. QED
  BY <1>1, SearchInitInv, SearchStep, PTL DEF SearchSpec

\* For nodes of any size and any keys: no jump of the loop is longer than the way to
\* either end, until the step is one.
THEOREM SearchInBounds == SearchSpec => []InBounds
<1>1. SearchInv => InBounds
  BY DEF SearchInv
<1>2. QED
  BY <1>1, SearchInitInv, SearchStep, PTL DEF SearchSpec

\* For nodes of any size and any keys: when the loop ends, it has found the record,
\* or the one subtree that may hold it.
THEOREM SearchCorrect == SearchSpec => []Correct
<1>1. SearchInv => Correct
  BY DEF SearchInv
<1>2. QED
  BY <1>1, SearchInitInv, SearchStep, PTL DEF SearchSpec
=================================================================================
