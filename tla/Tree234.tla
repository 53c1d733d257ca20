--------------------------------- MODULE Tree234 ---------------------------------
(***************************************************************************)
(* The counted 2-3-4 tree of btree/tree234.c.  Nodes live on a heap and    *)
(* point to one another: a node has one to three elements, one kid more    *)
(* than elements, a cached count for each kid, and a pointer to its        *)
(* parent.  A tree whose cmp is NULL is unsorted and used by index only.   *)
(*                                                                         *)
(* A call works its way down and up the tree, one turn of a loop of the    *)
(* code after the other: each is a step here, and pc says which loop the   *)
(* call is in, with the locals that matter there.                          *)
(*                                                                         *)
(* The code sees elements only through cmp and addresses only as           *)
(* pointers, so that a tree is kept up to the renaming of both: after each *)
(* call its elements are renumbered 2, 4, 6, ... in order and its nodes    *)
(* after the places of their first elements (Renamed).  An even key is     *)
(* then in the tree and each odd one stands for all keys in its gap.  What *)
(* is checked of a call is checked of its result before the renaming.      *)
(***************************************************************************)
EXTENDS Integers, Sequences, FiniteSets, SequencesExt, FiniteSetsExt

CONSTANT MaxCount    \* bound: the elements of a tree

ASSUME CountAssumption == MaxCount \in Nat

VARIABLES tree,    \* the tree
          call,    \* the operation asked for, its arguments, and what the tree held then
          pc       \* where the call is

treeVars == <<tree, call, pc>>

\* The fixed arrays of node234_Tag, cut off behind the last element: what lies
\* beyond is NULL or 0.
NULL == 0
IsLeaf(node) == node.kids[1] = NULL
newtree234(sorted) == [root |-> NULL, nodes |-> <<>>, sorted |-> sorted]

SetNode(t, n, node) ==
    [t EXCEPT !.nodes = [m \in DOMAIN @ \cup {n} |-> IF m = n THEN node ELSE @[m]]]
Freed(t, n) == [t EXCEPT !.nodes = [m \in DOMAIN @ \ {n} |-> @[m]]]
mknew(t) == CHOOSE n \in 1 .. Cardinality(DOMAIN t.nodes) + 1 : n \notin DOMAIN t.nodes

\* The tree index of the first element of kid c, less that of the node.
Start(node, c) ==
    LET start[i \in DOMAIN node.counts] ==
            IF i = 1 THEN 0 ELSE start[i - 1] + node.counts[i - 1] + 1
    IN  start[c]

countnode234(t, n) ==
    LET node == t.nodes[n]
        last == Len(node.counts)
    IN  IF n = NULL THEN 0 ELSE Start(node, last) + node.counts[last]
count234(t) == countnode234(t, t.root)

\* The kids of n point back to it.
Adopted(t, n) ==
    [t EXCEPT !.nodes = [m \in DOMAIN @ |->
        IF m \in ToSet(@[n].kids) THEN [@[m] EXCEPT !.parent = n] ELSE @[m]]]

\* Which kid of its parent a node is.
ChildNum(t, n) ==
    LET kids == t.nodes[t.nodes[n].parent].kids
    IN  CHOOSE c \in DOMAIN kids : kids[c] = n
--------------------------------------------------------------------------------
(* Where a call is: after it has returned, between two calls, or at the top of one *)
(* of the loops.                                                                   *)

Rest == [in |-> "rest"]
Done(ret) == [in |-> "returned", ret |-> ret]

\* Looking for an index, for a key, and for the place of a new element.
Getting(n, index, answer) == [in |-> "index234", node |-> n, index |-> index, answer |-> answer]
Finding(n, index) == [in |-> "findrelpos234", node |-> n, index |-> index]
Placing(n, index) == [in |-> "place", node |-> n, index |-> index]

\* Element elem, with the subtrees left and right of it, goes in place of a kid.
Putting(n, kid, left, elem, right) ==
    [in |-> "put", node |-> n, kid |-> kid, left |-> left, elem |-> elem, right |-> right]

\* Going up: the counts of the parents are computed, or decreased by one.
Recounting(n) == [in |-> "recount", node |-> n]
Decreasing(n, ret) == [in |-> "decrease", node |-> n, ret |-> ret]

\* Going down to the element to delete, and to the neighbour that takes its place.
Seeking(n, index, ret) == [in |-> "seek", node |-> n, index |-> index, ret |-> ret]
Nearing(n, elem, m, left, ret) ==
    [in |-> "near", node |-> n, elem |-> elem, m |-> m, left |-> left, ret |-> ret]
--------------------------------------------------------------------------------
(* The lists trees stand for *)

\* The places of the elements, in order: <<node, number of the element>>.
InOrder(t) ==
    LET below[n \in DOMAIN t.nodes \cup {NULL}] ==
            LET kids == t.nodes[n].kids
                to[c \in DOMAIN kids] ==
                    IF c = 1 THEN below[kids[1]]
                    ELSE to[c - 1] \o <<<<n, c - 1>>>> \o below[kids[c]]
            IN  IF n = NULL THEN <<>> ELSE to[Len(kids)]
    IN  below[t.root]

Elements(t) ==
    LET places == InOrder(t)
    IN  [i \in DOMAIN places |-> t.nodes[places[i][1]].elems[places[i][2]]]

\* A node takes the number of the place of its first element, an element twice the
\* number of its place.
Renamed(t) ==
    LET places == InOrder(t)
        place(n, c) == CHOOSE i \in DOMAIN places : places[i] = <<n, c>>
        name(n) == IF n = NULL THEN NULL ELSE place(n, 1)
        named(n) ==
            LET old == t.nodes[n]
            IN  [parent |-> name(old.parent), counts |-> old.counts,
                 elems |-> [c \in DOMAIN old.elems |-> 2 * place(n, c)],
                 kids |-> [c \in DOMAIN old.kids |-> name(old.kids[c])]]
    IN  [root |-> name(t.root), sorted |-> t.sorted,
         nodes |-> [i \in {j \in DOMAIN places : places[j][2] = 1} |-> named(places[i][1])]]

Keys == 1 .. 2 * count234(tree) + 1
Fresh == 2 * count234(tree) + 1

\* findrelpos234 takes NULL for a key below or above all elements.
Lowest == -1
Highest == 2 * MaxCount + 2
Relations == {"EQ", "LT", "LE", "GT", "GE"}

\* A call begins.
Call(op, e, index, relation, first) ==
    /\ pc = Rest
    /\ call' = [op |-> op, e |-> e, index |-> index, relation |-> relation,
                list |-> Elements(tree)]
    /\ pc' = first
    /\ UNCHANGED tree
--------------------------------------------------------------------------------
(* Reading *)

\* The kid an index lies in, if it does not hit an element of the node.
KidAt(node, index) ==
    {c \in DOMAIN node.kids : Start(node, c) <= index /\ index < Start(node, c) + node.counts[c]}
ElemAt(node, index) ==
    {c \in DOMAIN node.elems : index = Start(node, c) + node.counts[c]}

\* What a call finds: the element and its index.
Found(elem, index) == [in |-> "returned", ret |-> elem, index |-> index]
NotFound == Found(NULL, -1)

index234(t, index) ==
    IF t.root = NULL \/ index \notin 0 .. countnode234(t, t.root) - 1 THEN NotFound
    ELSE Getting(t.root, index, index)

\* index234: one turn of its loop.
GetTurn ==
    /\ pc.in = "index234"
    /\ LET node == tree.nodes[pc.node]
       IN  \/ \E c \in KidAt(node, pc.index) :
                 pc' = Getting(node.kids[c], pc.index - Start(node, c), pc.answer)
           \/ \E c \in ElemAt(node, pc.index) : pc' = Found(node.elems[c], pc.answer)
    /\ UNCHANGED <<tree, call>>

\* The kid where e belongs, by cmp with one element after the other: the first
\* element that is not below e is the one right of it.
IsSlot(node, e, c) ==
    /\ \A i \in 1 .. c - 1 : node.elems[i] < e
    /\ c < Len(node.kids) => e <= node.elems[c]
Hits(node, e, c) == c < Len(node.kids) /\ e = node.elems[c]

\* Mutant: the search takes the count of the kid it descends into as well.
SmallerInKid(node, c) == Start(node, c) + node.counts[c]

Smaller(node, c) == Start(node, c)

\* What is returned or looked up after the search by key; del234 goes on to delete.
Sought(t, elem, index) ==
    LET hit == elem # NULL
        relation == call.relation
    IN  IF call.op = "del"
        THEN IF hit THEN Seeking(t.root, index, NULL) ELSE Done(NULL)
        ELSE IF hit /\ relation \in {"EQ", "LE", "GE"} THEN Found(elem, index)
        ELSE IF hit THEN index234(t, IF relation = "LT" THEN index - 1 ELSE index + 1)
        ELSE IF relation = "EQ" THEN NotFound
        ELSE index234(t, IF relation \in {"LT", "LE"} THEN index - 1 ELSE index)

\* findrelpos234: one turn of its loop.
FindTurn ==
    /\ pc.in = "findrelpos234"
    /\ LET node == tree.nodes[pc.node]
       IN  \E c \in DOMAIN node.kids :
             LET index == pc.index + Smaller(node, c)
             IN  /\ IsSlot(node, call.e, c)
                 /\ pc' = IF Hits(node, call.e, c)
                          THEN Sought(tree, node.elems[c], index + node.counts[c])
                          ELSE IF node.kids[c] = NULL THEN Sought(tree, NULL, index)
                          ELSE Finding(node.kids[c], index)
    /\ UNCHANGED <<tree, call>>

Index == \E i \in -1 .. MaxCount + 1 : Call("index", NULL, i, "EQ", index234(tree, i))

FindRel == \E e \in Keys \cup {Lowest, Highest}, relation \in Relations :
    /\ tree.sorted
    /\ Call("findrel", e, -1, relation,
            IF tree.root = NULL THEN NotFound ELSE Finding(tree.root, 0))
--------------------------------------------------------------------------------
(* Adding *)

\* The descent to the place of a new element: a node without a kid there, and the
\* kid's number.  An element that compares equal ends it.
PlaceByKey ==
    /\ pc.in = "place" /\ pc.index < 0
    /\ LET node == tree.nodes[pc.node]
       IN  \E c \in DOMAIN node.kids :
             /\ IsSlot(node, call.e, c)
             /\ pc' = IF Hits(node, call.e, c) THEN Done(node.elems[c])
                      ELSE IF node.kids[c] = NULL THEN Putting(pc.node, c, NULL, call.e, NULL)
                      ELSE Placing(node.kids[c], pc.index)
    /\ UNCHANGED <<tree, call>>

\* The same by index.  All four counts are looked at, the unused ones are 0 and
\* their kids NULL.
PlaceByIndex ==
    /\ pc.in = "place" /\ pc.index >= 0
    /\ LET node == tree.nodes[pc.node]
           used == Len(node.kids)
           fits(c) == pc.index <= Start(node, c) + node.counts[c]
           beyond == pc.index - Start(node, used) - node.counts[used]
       IN  IF IsLeaf(node) THEN pc' = Putting(pc.node, pc.index + 1, NULL, call.e, NULL)
           ELSE IF \E c \in DOMAIN node.kids : fits(c)
           THEN \E c \in DOMAIN node.kids :
                  /\ fits(c) /\ \A b \in 1 .. c - 1 : ~ fits(b)
                  /\ pc' = Placing(node.kids[c], pc.index - Start(node, c))
           ELSE pc' = IF beyond \in 1 .. 4 - used
                      THEN Putting(pc.node, used + beyond, NULL, call.e, NULL)
                      ELSE Done(NULL)
    /\ UNCHANGED <<tree, call>>

\* A 4-node with one element too many: m takes the first three kids, n keeps the
\* last two, and the element between them moves up.
Halves(t, n, wide, m) ==
    LET part(i, j) == [parent |-> wide.parent, elems |-> SubSeq(wide.elems, i, j),
                       kids |-> SubSeq(wide.kids, i, j + 1),
                       counts |-> SubSeq(wide.counts, i, j + 1)]
    IN  SetNode(SetNode(t, m, part(1, 2)), n, part(4, 4))
MovedUp(wide) == wide.elems[3]

\* Mutant: the kids of the new node keep their parent.
SplitWithoutAdopting(t, n, wide, m) == Adopted(Halves(t, n, wide, m), n)

SplitOff(t, n, wide, m) == Adopted(Adopted(Halves(t, n, wide, m), m), n)

\* e goes to position c of node n, with the subtrees left and right of it in
\* place of kid c; a position behind the last kid is taken for the last one.
Widened(t, n, c, left, e, right) ==
    LET node == t.nodes[n]
        last == Len(node.kids)
        pos == IF c < last THEN c ELSE last
        around(s, x, y) == ReplaceAt(InsertAt(s, pos, x), pos + 1, y)
    IN  [node EXCEPT !.elems = InsertAt(@, pos, e),
                     !.kids = around(@, left, right),
                     !.counts = around(@, countnode234(t, left), countnode234(t, right))]

NewRoot(t, left, e, right) ==
    LET top == [parent |-> NULL, elems |-> <<e>>, kids |-> <<left, right>>,
                counts |-> <<countnode234(t, left), countnode234(t, right)>>]
        r == mknew(t)
    IN  Adopted([SetNode(t, r, top) EXCEPT !.root = r], r)

\* There is no node to put the element into: it becomes that of a new root.
PutOnTop ==
    /\ pc.in = "put" /\ pc.node = NULL
    /\ tree' = NewRoot(tree, pc.left, pc.elem, pc.right)
    /\ pc' = Done(call.e)
    /\ UNCHANGED call

\* One turn of the loop that puts it into a node.
PutTurn ==
    /\ pc.in = "put" /\ pc.node # NULL
    /\ LET n == pc.node
           wide == Widened(tree, n, pc.kid, pc.left, pc.elem, pc.right)
           m == mknew(tree)
           up == tree.nodes[n].parent
       IN  IF Len(wide.elems) <= 3
           THEN /\ tree' = Adopted(SetNode(tree, n, wide), n)
                /\ pc' = Recounting(n)
           ELSE /\ tree' = SplitOff(tree, n, wide, m)
                /\ pc' = Putting(up, IF up = NULL THEN 0 ELSE ChildNum(tree, n),
                                 m, MovedUp(wide), n)
    /\ UNCHANGED call

\* Mutant: the loop does not go on to the parent.
RecountInPlace ==
    /\ pc.in = "recount"
    /\ pc' = IF tree.nodes[pc.node].parent = NULL THEN Done(call.e) ELSE pc
    /\ UNCHANGED <<tree, call>>

\* Back up the tree, bringing the counts up to date.
RecountTurn ==
    /\ pc.in = "recount"
    /\ LET n == pc.node
           up == tree.nodes[n].parent
       IN  IF up = NULL THEN pc' = Done(call.e) /\ UNCHANGED tree
           ELSE /\ tree' = [tree EXCEPT !.nodes[up].counts[ChildNum(tree, n)] =
                                countnode234(tree, n)]
                /\ pc' = Recounting(up)
    /\ UNCHANGED call

add234_internal(t, e, index) ==
    IF t.root = NULL THEN Putting(NULL, 0, NULL, e, NULL) ELSE Placing(t.root, index)

Add == \E e \in Keys :
    /\ count234(tree) < MaxCount
    /\ Call("add", e, -1, "EQ",
            IF tree.sorted THEN add234_internal(tree, e, -1) ELSE Done(NULL))

AddPos == \E i \in 0 .. count234(tree) :
    /\ count234(tree) < MaxCount
    /\ Call("addpos", Fresh, i, "EQ",
            IF tree.sorted THEN Done(NULL) ELSE add234_internal(tree, Fresh, i))
--------------------------------------------------------------------------------
(* Deleting *)

\* Kids c and c + 1 of n with the element between them, as one wide node.
Pair(t, n, c) ==
    LET node == t.nodes[n]
        a == t.nodes[node.kids[c]]
        b == t.nodes[node.kids[c + 1]]
    IN  [parent |-> n, elems |-> a.elems \o <<node.elems[c]>> \o b.elems,
         kids |-> a.kids \o b.kids, counts |-> a.counts \o b.counts]

\* Case 3a, either hand: kid c keeps the first k elements of the pair, the next
\* one goes to n, kid c + 1 keeps the others.
Shifted(t, n, c, k) ==
    LET node == t.nodes[n]
        pair == Pair(t, n, c)
        size == Len(pair.elems)
        part(i, j) == [parent |-> n, elems |-> SubSeq(pair.elems, i, j),
                       kids |-> SubSeq(pair.kids, i, j + 1),
                       counts |-> SubSeq(pair.counts, i, j + 1)]
        u == SetNode(SetNode(t, node.kids[c], part(1, k)), node.kids[c + 1], part(k + 2, size))
    IN  Adopted(Adopted(
            [u EXCEPT !.nodes[n].elems[c] = pair.elems[k + 1],
                      !.nodes[n].counts[c] = countnode234(u, node.kids[c]),
                      !.nodes[n].counts[c + 1] = countnode234(u, node.kids[c + 1])],
            node.kids[c]), node.kids[c + 1])

\* Cases 3b and 2c: keep, one of the kids c and c + 1 of n, takes in the other and
\* the element between them.
Merged(t, n, c, keep) ==
    LET node == t.nodes[n]
        gone == (IF keep = node.kids[c] THEN node.kids[c + 1] ELSE node.kids[c])
        u == Freed(Adopted(SetNode(t, keep, Pair(t, n, c)), keep), gone)
        less == [u.nodes[n] EXCEPT
                    !.elems = RemoveAt(@, c),
                    !.kids = ReplaceAt(RemoveAt(@, c + 1), c, keep),
                    !.counts = ReplaceAt(RemoveAt(@, c + 1), c, countnode234(u, keep))]
    IN  [u EXCEPT !.nodes[n] = less]

\* A root that is empty after that is replaced.
Joined(t, n, c, keep) ==
    LET u == Merged(t, n, c, keep)
    IN  IF u.nodes[n].elems # <<>> THEN u
        ELSE Freed([u EXCEPT !.root = keep, !.nodes[keep].parent = NULL], n)

\* From n into its kid c.  No node with a single element is entered: it borrows from a
\* neighbour that has more, or is joined with it.
Enter(n, c, within) ==
    LET node == tree.nodes[n]
        sub == node.kids[c]
        size(k) == IF k \in DOMAIN node.kids THEN Len(tree.nodes[node.kids[k]].elems) ELSE 0
    IN  IF size(c) > 1
        THEN pc' = Seeking(sub, within, pc.ret) /\ UNCHANGED tree
        ELSE IF size(c - 1) > 1
        THEN LET u == Shifted(tree, n, c - 1, size(c - 1) - 1)
             IN  /\ tree' = u
                 /\ pc' = Seeking(sub, within + node.counts[c - 1] - u.nodes[n].counts[c - 1],
                                  pc.ret)
        ELSE IF size(c + 1) > 1
        THEN tree' = Shifted(tree, n, c, 2) /\ pc' = Seeking(sub, within, pc.ret)
        ELSE IF c > 1
        THEN /\ tree' = Joined(tree, n, c - 1, sub)
             /\ pc' = Seeking(sub, within + node.counts[c - 1] + 1, pc.ret)
        ELSE /\ tree' = Joined(tree, n, c, node.kids[c + 1])
             /\ pc' = Seeking(node.kids[c + 1], within, pc.ret)

\* Down towards the element at an index.
SeekTurn ==
    /\ pc.in = "seek"
    /\ LET node == tree.nodes[pc.node]
       IN  \E c \in KidAt(node, pc.index) : Enter(pc.node, c, pc.index - Start(node, c))
    /\ UNCHANGED call

\* The element is reached.  In an inner node a neighbour takes its place and is deleted
\* instead, or it is joined into the subtree below.  The first one reached is returned.
DeleteTurn ==
    /\ pc.in = "seek"
    /\ LET n == pc.node
           node == tree.nodes[n]
       IN  \E c \in ElemAt(node, pc.index) :
             LET ret == IF pc.ret = NULL THEN node.elems[c] ELSE pc.ret
                 left == node.kids[c]
                 right == node.kids[c + 1]
                 joined == Joined(tree, n, c, left)
                 counts == joined.nodes[left].counts
                 removed == [node EXCEPT !.elems = RemoveAt(@, c), !.kids = Tail(@), !.counts = Tail(@)]
             IN  IF node.parent = NULL /\ IsLeaf(node) /\ Len(node.elems) = 1
                 THEN tree' = [Freed(tree, n) EXCEPT !.root = NULL] /\ pc' = Done(ret)
                 ELSE IF IsLeaf(node)                                      \* Case 1
                 THEN tree' = SetNode(tree, n, removed) /\ pc' = Decreasing(n, ret)
                 ELSE IF Len(tree.nodes[left].elems) > 1                   \* Case 2a
                 THEN pc' = Nearing(n, c, left, TRUE, ret) /\ UNCHANGED tree
                 ELSE IF Len(tree.nodes[right].elems) > 1                  \* Case 2b
                 THEN pc' = Nearing(n, c, right, FALSE, ret) /\ UNCHANGED tree
                 ELSE /\ tree' = joined                                    \* Case 2c
                      /\ pc' = Seeking(left, counts[1] + counts[2] + 1, ret)
    /\ UNCHANGED call

\* To the last element of the left subtree or the first of the right one, which then
\* takes the place and is sought itself.
NearTurn ==
    /\ pc.in = "near"
    /\ LET m == tree.nodes[pc.m]
           end(s) == IF pc.left THEN s[Len(s)] ELSE s[1]
           node == tree.nodes[pc.node]
       IN  IF ~ IsLeaf(m)
           THEN /\ pc' = Nearing(pc.node, pc.elem, end(m.kids), pc.left, pc.ret)
                /\ UNCHANGED tree
           ELSE /\ tree' = [tree EXCEPT !.nodes[pc.node].elems[pc.elem] = end(m.elems)]
                /\ pc' = IF pc.left
                         THEN Seeking(node.kids[pc.elem], node.counts[pc.elem] - 1, pc.ret)
                         ELSE Seeking(node.kids[pc.elem + 1], 0, pc.ret)
    /\ UNCHANGED call

\* Back up the tree, decreasing the counts.
DecreaseTurn ==
    /\ pc.in = "decrease"
    /\ LET n == pc.node
           up == tree.nodes[n].parent
       IN  IF up = NULL THEN pc' = Done(pc.ret) /\ UNCHANGED tree
           ELSE /\ tree' = [tree EXCEPT !.nodes[up].counts[ChildNum(tree, n)] = @ - 1]
                /\ pc' = Decreasing(up, pc.ret)
    /\ UNCHANGED call

Del == \E e \in Keys :
    /\ tree.sorted
    /\ Call("del", e, -1, "EQ",
            IF tree.root = NULL THEN Done(NULL) ELSE Finding(tree.root, 0))

DelPos == \E i \in 0 .. count234(tree) :
    Call("delpos", NULL, i, "EQ",
         IF i >= count234(tree) THEN Done(NULL) ELSE Seeking(tree.root, i, NULL))
--------------------------------------------------------------------------------
(* The program: main of the test, which has one sorted and one unsorted tree *)

NoCall == [op |-> "none"]

TreeInit == tree = newtree234(TRUE) /\ call = NoCall /\ pc = Rest

\* The caller goes on.
Finish ==
    /\ pc.in = "returned"
    /\ tree' = Renamed(tree) /\ call' = NoCall /\ pc' = Rest

\* freetree234, and a new tree of the other kind.
FreeTree == pc = Rest /\ tree' = newtree234(~ tree.sorted) /\ UNCHANGED <<call, pc>>

TreeTurn ==
    \/ GetTurn \/ FindTurn
    \/ PlaceByKey \/ PlaceByIndex \/ PutOnTop \/ PutTurn \/ RecountTurn
    \/ SeekTurn \/ DeleteTurn \/ NearTurn \/ DecreaseTurn

TreeNext ==
    \/ Index \/ FindRel \/ Add \/ AddPos \/ Del \/ DelPos
    \/ TreeTurn \/ Finish \/ FreeTree

TreeSpec == TreeInit /\ [][TreeNext]_treeVars
--------------------------------------------------------------------------------
(* Properties *)

\* The depths of the leaves.
Depths(t) ==
    LET depths[n \in DOMAIN t.nodes] ==
            IF IsLeaf(t.nodes[n]) THEN {1}
            ELSE {d + 1 : d \in UNION {depths[k] : k \in ToSet(t.nodes[n].kids)}}
    IN  depths[t.root]

Increasing(list) == \A i, j \in DOMAIN list : i < j => list[i] < list[j]

\* What chknode and verify of the test look for: kids and elements of each node,
\* parents, counts, one depth, and the order of a sorted tree.
chknode(t) ==
    /\ t.root # NULL => t.nodes[t.root].parent = NULL
    /\ \A n \in DOMAIN t.nodes :
         LET node == t.nodes[n]
         IN  /\ Len(node.elems) \in 1 .. 3
             /\ Len(node.kids) = Len(node.elems) + 1
             /\ \A c \in DOMAIN node.kids :
                  /\ node.kids[c] = NULL <=> IsLeaf(node)
                  /\ node.kids[c] # NULL => t.nodes[node.kids[c]].parent = n
                  /\ node.counts[c] = Len(InOrder([t EXCEPT !.root = node.kids[c]]))
    /\ t.root # NULL => \E d \in Depths(t) : Depths(t) = {d}
    /\ t.sorted => Increasing(Elements(t))

\* Nothing is lost on the heap and nothing is freed that is still in the tree: each
\* element of each node is in one place of the tree.
Tidy(t) ==
    LET places == InOrder(t)
        all == UNION {{<<n, c>> : c \in DOMAIN t.nodes[n].elems} : n \in DOMAIN t.nodes}
    IN  ToSet(places) = all /\ \A i, j \in DOMAIN places : places[i] = places[j] => i = j

Sound(t) == Tidy(t) /\ chknode(t)

Returns(op) == pc.in = "returned" /\ call.op = op
Holds(list) == Sound(tree) /\ Elements(tree) = list

\* Adding puts the new element, and only that, at its place in the list; an equal
\* element is left alone and returned.  The index of addpos is at most the count.
AddAgrees ==
    LET list == call.list
        inserted(i) == Holds(InsertAt(list, i + 1, call.e)) /\ pc.ret = call.e
        refused(ret) == Holds(list) /\ pc.ret = ret
    IN  /\ Returns("add") =>
             IF ~ tree.sorted THEN refused(NULL)
             ELSE IF call.e % 2 = 0 THEN refused(call.e)
             ELSE inserted(call.e \div 2)
        /\ Returns("addpos") => IF tree.sorted THEN refused(NULL) ELSE inserted(call.index)

\* Deleting takes the element at an index out of the list, and only that, and
\* returns it; del234 of an element that is not there changes nothing.
DeleteAgrees ==
    LET list == call.list
        removed(i) == Holds(RemoveAt(list, i)) /\ pc.ret = list[i]
        refused == Holds(list) /\ pc.ret = NULL
    IN  /\ Returns("del") => IF call.e % 2 = 0 THEN removed(call.e \div 2) ELSE refused
        /\ Returns("delpos") =>
             IF call.index < Len(list) THEN removed(call.index + 1) ELSE refused

\* The findtest of the test: for each relation the element nearest to the key and
\* its index, and by index the elements in order and nothing beyond.
Nearest(list, relation, e) ==
    LET fits(d) == \/ d = e /\ relation \in {"EQ", "LE", "GE"}
                   \/ d < e /\ relation \in {"LT", "LE"}
                   \/ d > e /\ relation \in {"GT", "GE"}
        in == {i \in DOMAIN list : fits(list[i])}
    IN  IF in = {} THEN 0 ELSE IF relation \in {"LT", "LE"} THEN Max(in) ELSE Min(in)
FindAgrees ==
    LET list == call.list
        nearest == Nearest(list, call.relation, call.e)
        item(i) == IF i \in DOMAIN list THEN list[i] ELSE NULL
    IN  /\ Returns("index") => pc.ret = item(call.index + 1)
        /\ Returns("findrel") => pc = Found(item(nearest), nearest - 1)

\* Each loop ends: every call returns.
CallsReturn == pc # Rest ~> pc.in = "returned"
==================================================================================
