---------------------------- MODULE Tree234_proofs ----------------------------
(***************************************************************************)
(* What the calls of the 2-3-4 tree do, for trees of any size: each search *)
(* finds what it should, and each call that adds or deletes leaves a whole *)
(* tree of the list it should have left.                                   *)
(*                                                                         *)
(* One invariant, TreeInv, says for each loop of the code what is true at  *)
(* its top: which list the tree stands for, which counts are off by one,   *)
(* and where the element is that the call adds or deletes.                 *)
(***************************************************************************)
EXTENDS Tree234Deleting_proofs


--------------------------------------------------------------------------------
(*****************************************************************************)
(* Each loop of the code, as a claim about one node that a turn passes on to *)
(* the next.                                                                 *)
(*****************************************************************************)

\* Tree t is in order and lists G.
Settled(t, G) == \E h, B : Standing(t, h, B, G) /\ Counted(t, B) /\ Sized(t)

\* It is but for the counts above node n, each too high by d.
ClimbAt(t, h, B, d, G, n, i) ==
    /\ Standing(t, h, B, G) /\ Sized(t) /\ n \in Nodes(t) /\ i \in Nat /\ Covers(B[n], i)
    /\ PathCounted(t, h, B, d, i, h[n])
Climbing(t, d, G, n) == \E h, B, i : ClimbAt(t, h, B, d, G, n, i)

\* The root has no parent.
LEMMA TopIs ==
    ASSUME NEW t, NEW h, NEW B, NEW G, Standing(t, h, B, G), NEW n, n \in Nodes(t)
    PROVE  t.nodes[n].parent = NULL <=> n = t.root
BY DEF Standing, Linked

\* At the root there are no counts above to put right.
LEMMA ClimbEnds ==
    ASSUME NEW t, NEW d, NEW G, NEW n, Climbing(t, d, G, n), t.nodes[n].parent = NULL
    PROVE  Settled(t, G)
<1>1. PICK h, B, i : ClimbAt(t, h, B, d, G, n, i)
  BY DEF Climbing
<1>2. Standing(t, h, B, G) /\ Sized(t) /\ n \in Nodes(t) /\ PathCounted(t, h, B, d, i, h[n])
  BY <1>1 DEF ClimbAt
<1>3. n = t.root
  BY <1>2, TopIs
<1>4. \A y \in Nodes(t) : ~ (h[y] > h[n])
  <2> SUFFICES ASSUME NEW y \in Nodes(t) PROVE ~ (h[y] > h[n])
    OBVIOUS
  <2>1. IsTree(t) /\ Layout(t, h, B, G)
    BY <1>2 DEF Standing
  <2>2. h[y] \in Nat /\ h[n] \in Nat /\ h[y] <= h[n]
    BY <1>2, <1>3, <2>1, NodeIs
  <2> QED BY <2>2
<1>5. Counted(t, B)
  BY <1>2, <1>4, PathIsOver
<1> QED BY <1>2, <1>5 DEF Settled

\* The count of its kid n is set in the parent.
LEMMA ClimbGoes ==
    ASSUME NEW t, NEW h, NEW B, NEW d, d \in Int, NEW G, NEW n, NEW i, ClimbAt(t, h, B, d, G, n, i),
           t.nodes[n].parent # NULL, NEW v, v = Hi(B[n]) - Lo(B[n]) - 1,
           NEW u, u = Recount(t, t.nodes[n].parent, ChildNum(t, n), v)
    PROVE  Climbing(u, d, G, t.nodes[n].parent) /\ u.sorted = t.sorted
<1>1. /\ Standing(t, h, B, G) /\ Sized(t) /\ n \in Nodes(t) /\ i \in Nat /\ Covers(B[n], i)
      /\ PathCounted(t, h, B, d, i, h[n])
  BY DEF ClimbAt
<1>2. n # t.root
  BY <1>1, TopIs
<1>3. PICK up : up = t.nodes[n].parent
  OBVIOUS
<1>4. /\ Standing(u, h, B, G) /\ u.sorted = t.sorted /\ Nodes(u) = Nodes(t)
      /\ up \in Nodes(t) /\ Covers(B[up], i)
      /\ \A y \in Nodes(t) : Size(u, y) = Size(t, y)
      /\ PathCounted(u, h, B, d, i, h[up])
  BY <1>1, <1>2, <1>3, PathStep
<1>5. Sized(u)
  BY <1>1, <1>4 DEF Sized
<1>6. ClimbAt(u, h, B, d, G, up, i)
  BY <1>1, <1>4, <1>5, ZenonT(40) DEF ClimbAt
<1> QED BY <1>3, <1>4, <1>6 DEF Climbing

\* After adding, the count of a node is computed from those of its kids
LEMMA ClimbRecounts ==
    ASSUME NEW t, NEW d, d \in Int, NEW G, NEW n, Climbing(t, d, G, n), NEW up, up = t.nodes[n].parent, up # NULL,
           NEW u, u = [t EXCEPT !.nodes[up].counts[ChildNum(t, n)] = countnode234(t, n)]
    PROVE  Climbing(u, d, G, up) /\ u.sorted = t.sorted
<1>1. PICK h, B, i : ClimbAt(t, h, B, d, G, n, i)
  BY DEF Climbing
<1>2. Standing(t, h, B, G) /\ n \in Nodes(t) /\ PathCounted(t, h, B, d, i, h[n])
  BY <1>1 DEF ClimbAt
<1>3. IsTree(t) /\ Layout(t, h, B, G)
  BY <1>2 DEF Standing
<1>4. h[n] \in Nat
  BY <1>2, <1>3, NodeIs
<1>5. ~ (h[n] > h[n])
  BY <1>4
<1>6. Exact(t.nodes[n], B[n])
  BY <1>2, <1>5, PathIsAbove
<1>7. countnode234(t, n) = Hi(B[n]) - Lo(B[n]) - 1
  BY <1>2, <1>6, NodeCount
<1>8. u = Recount(t, up, ChildNum(t, n), countnode234(t, n))
  BY ZenonT(40) DEF Recount
<1> QED BY <1>1, <1>7, <1>8, ClimbGoes

\* ... after deleting it is decreased.
LEMMA ClimbDecreases ==
    ASSUME NEW t, NEW G, NEW n, Climbing(t, 1, G, n), NEW up, up = t.nodes[n].parent, up # NULL,
           NEW u, u = [t EXCEPT !.nodes[up].counts[ChildNum(t, n)] = @ - 1]
    PROVE  Climbing(u, 1, G, up) /\ u.sorted = t.sorted
<1>1. PICK h, B, i : ClimbAt(t, h, B, 1, G, n, i)
  BY DEF Climbing
<1>2. /\ Standing(t, h, B, G) /\ n \in Nodes(t) /\ PathCounted(t, h, B, 1, i, h[n]) /\ Covers(B[n], i) /\ i \in Nat
  BY <1>1 DEF ClimbAt
<1>3. IsTree(t) /\ Layout(t, h, B, G) /\ Linked(t)
  BY <1>2 DEF Standing
<1>4. n # t.root
  BY <1>2, TopIs
<1>5. PICK c : c = ChildNum(t, n)
  OBVIOUS
<1>6. up \in Nodes(t) /\ h[up] = h[n] + 1 /\ c \in 1 .. Size(t, up) + 1 /\ IsKid(t, h, B, up, c, n)
  BY <1>2, <1>3, <1>4, <1>5, ParentIs, SMTT(40)
<1>7. h[n] \in Nat /\ Lo(B[n]) = B[up][c] /\ Hi(B[n]) = B[up][c + 1]
  BY <1>6, ZenonT(40) DEF IsKid
<1>8. InSlot(B[up], c, i)
  BY <1>2, <1>7, ZenonT(40) DEF InSlot, Covers
<1>9. h[up] > h[n]
  BY <1>6, <1>7, SMTT(40)
<1>10. t.nodes[up].counts[c] = B[up][c + 1] - B[up][c] - 1 + 1
  BY <1>2, <1>6, <1>8, <1>9, ZenonT(40) DEF PathCounted
<1>11. Bounds(B[up], Size(t, up))
  BY <1>3, <1>6, NodeIs, ZenonT(40)
<1>12. B[up][c] \in Nat /\ B[up][c + 1] \in Nat
  BY <1>6, <1>11, SlotIs, ZenonT(40)
<1>13. t.nodes[up].counts[c] - 1 = Hi(B[n]) - Lo(B[n]) - 1
  BY <1>7, <1>10, <1>12, SMTT(40)
<1>14. u = Recount(t, up, c, t.nodes[up].counts[c] - 1)
  BY <1>5, SMTT(40) DEF Recount
<1>15. PICK v : v = t.nodes[up].counts[c] - 1
  BY SMTT(40)
<1>16. v = Hi(B[n]) - Lo(B[n]) - 1 /\ u = Recount(t, t.nodes[n].parent, ChildNum(t, n), v)
  BY <1>5, <1>13, <1>14, <1>15, ZenonT(40)
<1>17. 1 \in Int /\ t.nodes[n].parent # NULL
  OBVIOUS
<1>18. Climbing(u, 1, G, t.nodes[n].parent) /\ u.sorted = t.sorted
  BY ONLY <1>1, <1>16, <1>17, ClimbGoes
<1> QED BY <1>18

\* What deleting element c of node n does, once its local definitions are expanded.
Deletes(t, n, c, ret, u, next) ==
    LET node == t.nodes[n]
        left == node.kids[c]
        right == node.kids[c + 1]
        joined == Joined(t, n, c, left)
        counts == joined.nodes[left].counts
    IN  IF node.parent = NULL /\ IsLeaf(node) /\ Len(node.elems) = 1
        THEN u = Emptied(t, n) /\ next = Done(ret)
        ELSE IF IsLeaf(node) THEN u = LeafCut(t, n, c) /\ next = Decreasing(n, ret)
        ELSE IF Size(t, left) > 1 THEN next = Nearing(n, c, left, TRUE, ret) /\ u = t
        ELSE IF Size(t, right) > 1 THEN next = Nearing(n, c, right, FALSE, ret) /\ u = t
        ELSE u = joined /\ next = Seeking(left, counts[1] + counts[2] + 1, ret)

\* A turn of the deleting loop that has found the element does what Deletes says.
LEMMA DeleteIs ==
    ASSUME NEW n, NEW index, NEW ret, pc = Seeking(n, index, ret), DeleteTurn
    PROVE  \E c \in ElemAt(tree.nodes[n], index) :
              Deletes(tree, n, c, IF ret = NULL THEN tree.nodes[n].elems[c] ELSE ret, tree', pc')
<1>1. pc.node = n /\ pc.index = index /\ pc.ret = ret
  BY DEF Seeking
<1>2. \E c \in ElemAt(tree.nodes[pc.node], pc.index) :
         Deletes(tree, pc.node, c,
                 IF pc.ret = NULL THEN tree.nodes[pc.node].elems[c] ELSE pc.ret, tree', pc')
  BY ZenonT(60) DEF DeleteTurn, Deletes, Emptied, LeafCut, ShortLeaf, Size
<1> QED BY ONLY <1>1, <1>2, Zenon

\* What it may come to: the search goes on with the same list, or the item is out of it.
Deleted(t, u, next, G, n, c, p, ret) ==
    \/ next = Done(ret) /\ Len(G) = 1 /\ IsEmpty(u, t)
    \/ next = Decreasing(n, ret) /\ Climbing(u, 1, RemoveAt(G, p), n) /\ u.sorted = t.sorted
    \/ /\ u = t
       /\ \E left \in BOOLEAN : \E h, B : /\ next = Nearing(n, c, Beside(t, n, c, left), left, ret)
                                          /\ NearAt(t, h, B, G, n, c, Beside(t, n, c, left), left, p)
    \/ \E n2, index2 : next = Seeking(n2, index2, ret) /\ GoesTo(t, u, G, n2, p, index2)

\* The second element of three.
IsMiddle(b, p, index) == index = p - Lo(b) - 1 /\ Lo(b) < p /\ p < Hi(b)

\* It is the one that the code goes on to delete after joining two nodes of one element.
LEMMA MiddleIs ==
    ASSUME NEW node, NEW b, Bounds(b, 3), Exact(node, b), Len(node.counts) = 4, NEW p, p = b[3],
           NEW index, index = node.counts[1] + node.counts[2] + 1
    PROVE  IsMiddle(b, p, index)
<1>1. \A j \in 1 .. 5 : b[j] \in Nat
  BY DEF Bounds
<1>2. PICK x1, x2, x3, x5 : x1 = b[1] /\ x2 = b[2] /\ x3 = b[3] /\ x5 = b[5]
  OBVIOUS
<1>3. x1 \in Nat /\ x2 \in Nat /\ x3 \in Nat /\ x5 \in Nat
  BY <1>1, <1>2
<1>4. Lo(b) = x1 /\ Hi(b) = x5
  BY <1>2 DEF Bounds
<1>5. x1 < x3 /\ x3 < x5
  <2>1. \A i, j \in 1 .. 5 : i < j => b[i] < b[j]
    BY SMTT(40) DEF Bounds
  <2> QED BY <1>2, <2>1
<1>6. \A j \in 1 .. 4 : node.counts[j] = b[j + 1] - b[j] - 1
  BY DEF Exact
<1>7. node.counts[1] = b[1 + 1] - b[1] - 1 /\ node.counts[2] = b[2 + 1] - b[2] - 1
  BY <1>6
<1>8. PICK y1, y2 : y1 = node.counts[1] /\ y2 = node.counts[2]
  OBVIOUS
<1>9. y1 = x2 - x1 - 1 /\ y2 = x3 - x2 - 1
  BY <1>2, <1>7, <1>8
<1>10. p = x3 /\ index = y1 + y2 + 1
  BY <1>2, <1>8
<1>11. index = p - x1 - 1 /\ x1 < p /\ p < x5
  BY ONLY <1>3, <1>5, <1>9, <1>10, SMTT(40)
<1> QED BY <1>4, <1>11 DEF IsMiddle

\* Kid c of node n; the index of the middle one of three elements, less that of the first.
HasKid(t, n, c, k) == k = t.nodes[n].kids[c]
Middle(node) == node.counts[1] + node.counts[2] + 1

\* Case 2c: the element is in the joined node.
LEMMA DeleteJoins ==
    ASSUME NEW t, NEW h, NEW B, NEW G, Standing(t, h, B, G), Counted(t, B), Sized(t), NEW n, NEW c, NEW p, p \in Nat,
           At(t, B, n, c, p), h[n] # 0, n = t.root \/ Size(t, n) >= 2,
           NEW a, HasKid(t, n, c, a), ~ (Size(t, a) > 1), NEW b, HasKid(t, n, c + 1, b), ~ (Size(t, b) > 1),
           NEW u, u = Joined(t, n, c, a), NEW index, index = Middle(u.nodes[a])
    PROVE  GoesTo(t, u, G, a, p, index)
<1>1. n \in Nodes(t) /\ c \in 1 .. Size(t, n) /\ B[n][c + 1] = p
  BY DEF At
<1>3. Bounds(B[n], Size(t, n)) /\ IsTree(t) /\ Layout(t, h, B, G)
  BY <1>1, NodeIs DEF Standing
<1>4. Size(t, n) \in Nat
  BY <1>3 DEF Bounds
<1>5. c \in 1 .. Size(t, n) + 1 /\ c + 1 \in 1 .. Size(t, n) + 1
  BY <1>1, <1>4
<1>6. Neighbour(t, B, n, c, a)
  <2>1. a = t.nodes[n].kids[c]
    BY ONLY HasKid(t, n, c, a) DEF HasKid
  <2> QED BY <1>1, <1>5, <2>1, NeighbourIs, ZenonT(40)
<1>7. Neighbour(t, B, n, c + 1, b)
  <2>1. b = t.nodes[n].kids[c + 1]
    BY ONLY HasKid(t, n, c + 1, b) DEF HasKid
  <2> QED BY <1>1, <1>5, <2>1, NeighbourIs, ZenonT(40)
<1>8. /\ a \in Nodes(t) /\ Lo(B[a]) = B[n][c] /\ Hi(B[a]) = B[n][c + 1] /\ Size(t, a) \in 1 .. 3
      /\ B[n][c] \in Nat /\ B[n][c + 1] \in Nat
  BY <1>6 DEF Neighbour
<1>9. b \in Nodes(t) /\ Size(t, b) \in 1 .. 3 /\ Lo(B[b]) \in Nat /\ Hi(B[b]) \in Nat
  BY <1>7, EndsIn DEF Neighbour
<1>10. Lo(B[b]) = p
  BY <1>1, <1>7 DEF Neighbour
<1>11. Size(t, a) = 1
  <2>1. Size(t, a) \in 1 .. 3 /\ ~ (Size(t, a) > 1)
    BY <1>8
  <2> QED BY ONLY <2>1
<1>12. Size(t, b) = 1
  <2>1. Size(t, b) \in 1 .. 3 /\ ~ (Size(t, b) > 1)
    BY <1>9
  <2> QED BY ONLY <2>1
<1>13. PICK h2, B2 : IsJoin(u, t, h2, B2, B, G, n, c, a, b, a, 3)
  <2>1. Size(t, a) + Size(t, b) + 1 = 3
    BY ONLY <1>11, <1>12
  <2>2. 3 \in 1 .. 3 /\ a \in {a, b}
    OBVIOUS
  <2>3. PICK three : three = 3
    OBVIOUS
  <2>4. Size(t, a) + Size(t, b) + 1 = three /\ three \in 1 .. 3
    BY <2>1, <2>2, <2>3
  <2>5. \E h2, B2 : IsJoin(u, t, h2, B2, B, G, n, c, a, b, a, three)
    <3>1. a = t.nodes[n].kids[c] /\ b = t.nodes[n].kids[c + 1]
      BY ONLY HasKid(t, n, c, a), HasKid(t, n, c + 1, b) DEF HasKid
    <3> QED BY <1>1, <2>2, <2>4, <3>1, JoinStands, ZenonT(40)
  <2> QED BY <2>3, <2>5, ZenonT(40)
<1>14. /\ Standing(u, h2, B2, G) /\ Counted(u, B2) /\ Sized(u) /\ u.sorted = t.sorted
       /\ a \in Nodes(u) /\ Lo(B2[a]) = Lo(B[a]) /\ Hi(B2[a]) = Hi(B[b])
       /\ Size(u, a) = 3 /\ B2[a][Size(t, a) + 2] = B[n][c + 1]
  BY <1>13, ZenonT(40) DEF IsJoin
<1>15. B2[a][3] = p
  <2>1. Size(t, a) + 2 = 3
    BY ONLY <1>11
  <2> QED BY <1>1, <1>14, <2>1, ZenonT(40)
<1>16. Bounds(B2[a], 3) /\ IsTree(u) /\ Layout(u, h2, B2, G)
       /\ Exact(u.nodes[a], B2[a]) /\ Len(u.nodes[a].counts) = 4
  <2>1. IsTree(u) /\ Layout(u, h2, B2, G)
    BY <1>14, ZenonT(40) DEF Standing
  <2>2. Bounds(B2[a], Size(u, a)) /\ u.nodes[a] \in Node234 /\ NodeFits(h2, B2, G, u.nodes[a], B2[a], h2[a])
    BY <1>14, <2>1, NodeIs, ZenonT(40)
  <2>3. Exact(u.nodes[a], B2[a])
    BY <1>14, ZenonT(40) DEF Counted
  <2>4. Len(u.nodes[a].counts) = Size(u, a) + 1
    BY <2>2, PartsAre, ZenonT(40) DEF Size
  <2>5. Size(u, a) = 3
    BY <1>14, ZenonT(40)
  <2>6. Len(u.nodes[a].counts) = 4
    BY ONLY <2>4, <2>5
  <2>7. Bounds(B2[a], 3)
    BY <2>2, <2>5, ZenonT(40)
  <2> QED BY <2>1, <2>3, <2>6, <2>7, ZenonT(40)
<1>17. IsMiddle(B2[a], p, index)
  <2>1. PICK node, b2 : node = u.nodes[a] /\ b2 = B2[a]
    BY ZenonT(40)
  <2>2. index = node.counts[1] + node.counts[2] + 1
    BY <2>1, ZenonT(40) DEF Middle
  <2>3. Bounds(b2, 3) /\ Exact(node, b2) /\ Len(node.counts) = 4 /\ p = b2[3]
    BY <1>15, <1>16, <2>1, ZenonT(40)
  <2>4. IsMiddle(b2, p, index)
    BY ONLY <2>2, <2>3, MiddleIs
  <2> QED BY <2>1, <2>4, ZenonT(40)
<1>18. Size(u, a) >= 2
  BY ONLY <1>14
<1>19. SeekAt(u, h2, B2, G, a, p, index)
  BY <1>14, <1>17, <1>18, ZenonT(40) DEF SeekAt, IsMiddle
<1> QED BY <1>14, <1>19, ZenonT(40) DEF GoesTo

\* Deleting an element at a node comes to one of these, in each case of the code.
LEMMA DeleteGoes ==
    ASSUME NEW t, NEW h, NEW B, NEW G, NEW n, NEW p, NEW index, SeekAt(t, h, B, G, n, p, index),
           NEW c, c \in ElemAt(t.nodes[n], index), NEW ret, NEW u, NEW next, Deletes(t, n, c, ret, u, next)
    PROVE  Deleted(t, u, next, G, n, c, p, ret) /\ At(t, B, n, c, p)
<1>1. Standing(t, h, B, G) /\ Counted(t, B) /\ Sized(t) /\ n \in Nodes(t) /\ p \in Nat /\ (n = t.root \/ Size(t, n) >= 2)
  BY DEF SeekAt
<1>2. c \in ElemAt(t.nodes[n], p - Lo(B[n]) - 1)
  BY DEF SeekAt
<1>3. At(t, B, n, c, p)
  BY <1>1, <1>2, ElemAtIs
<1>4. t.nodes[n].parent = NULL <=> n = t.root
  BY <1>1, TopIs
<1>5. IsLeaf(t.nodes[n]) <=> h[n] = 0
  BY <1>1, LeafIs
<1>6. Size(t, n) \in 1 .. 3 /\ Size(t, n) = Len(t.nodes[n].elems)
  BY <1>1 DEF Sized, Size
<1>7. PICK a, b : a = t.nodes[n].kids[c] /\ b = t.nodes[n].kids[c + 1]
  BY ZenonT(40)
<1>8. IF t.nodes[n].parent = NULL /\ IsLeaf(t.nodes[n]) /\ Size(t, n) = 1
      THEN u = Emptied(t, n) /\ next = Done(ret)
      ELSE IF IsLeaf(t.nodes[n]) THEN u = LeafCut(t, n, c) /\ next = Decreasing(n, ret)
      ELSE IF Size(t, a) > 1 THEN next = Nearing(n, c, a, TRUE, ret) /\ u = t
      ELSE IF Size(t, b) > 1 THEN next = Nearing(n, c, b, FALSE, ret) /\ u = t
      ELSE /\ u = Joined(t, n, c, a)
           /\ next = Seeking(a, Middle(Joined(t, n, c, a).nodes[a]), ret)
  BY <1>6, <1>7, ZenonT(40) DEF Deletes, Middle
<1>9. Beside(t, n, c, TRUE) = a /\ Beside(t, n, c, FALSE) = b
  BY <1>7 DEF Beside
<1>10. CASE t.nodes[n].parent = NULL /\ IsLeaf(t.nodes[n]) /\ Size(t, n) = 1
  <2>1. n = t.root /\ h[n] = 0 /\ Size(t, n) = 1
    BY <1>4, <1>5, <1>10
  <2>2. Len(G) = 1 /\ IsEmpty(Emptied(t, n), t)
    BY <1>1, <2>1, LastTaken
  <2> QED BY <1>3, <1>8, <1>10, <2>2 DEF Deleted
<1>11. CASE ~ (t.nodes[n].parent = NULL /\ IsLeaf(t.nodes[n]) /\ Size(t, n) = 1) /\ IsLeaf(t.nodes[n])
  <2>1. h[n] = 0
    BY <1>5, <1>11
  <2>2. Size(t, n) >= 2 /\ Size(t, n) - 1 \in 1 .. 3
    <3>1. PICK s : s = Size(t, n)
      OBVIOUS
    <3>2. s \in 1 .. 3 /\ (s # 1 \/ s >= 2)
      BY <1>1, <1>4, <1>6, <1>11, <3>1
    <3>3. s >= 2 /\ s - 1 \in 1 .. 3
      BY ONLY <3>2
    <3> QED BY <3>1, <3>3
  <2>3. PICK B2 : IsLeafCut(LeafCut(t, n, c), t, h, B2, RemoveAt(G, p), n, p)
    BY <1>1, <1>3, <2>1, <2>2, LeafCutStands
  <2>4. u = LeafCut(t, n, c) /\ next = Decreasing(n, ret)
    BY <1>8, <1>11
  <2>5. /\ Standing(u, h, B2, RemoveAt(G, p)) /\ PathCounted(u, h, B2, 1, p - 1, h[n]) /\ Covers(B2[n], p - 1)
        /\ Nodes(u) = Nodes(t) /\ u.sorted = t.sorted /\ Size(u, n) = Size(t, n) - 1
        /\ \A y \in Nodes(t) : y # n => Size(u, y) = Size(t, y)
    BY <2>3, <2>4 DEF IsLeafCut
  <2>6. Sized(u)
    <3> SUFFICES ASSUME NEW y \in Nodes(t) PROVE Size(u, y) \in 1 .. 3
      BY <2>5 DEF Sized
    <3>1. CASE y = n
      BY <2>2, <2>5, <3>1
    <3>2. CASE y # n
      BY <1>1, <2>5, <3>2 DEF Sized
    <3> QED BY <3>1, <3>2
  <2>7. p - 1 \in Nat
    <3>1. p \in 1 .. Len(G) /\ G \in Seq(Int)
      BY <1>1, <1>3, AtIs DEF Standing, Layout
    <3> QED BY <1>1, <3>1
  <2>8. ClimbAt(u, h, B2, 1, RemoveAt(G, p), n, p - 1)
    BY <1>1, <2>5, <2>6, <2>7 DEF ClimbAt
  <2>9. Climbing(u, 1, RemoveAt(G, p), n)
    BY <2>8 DEF Climbing
  <2> QED BY <1>3, <2>4, <2>5, <2>9 DEF Deleted
<1>12. CASE ~ IsLeaf(t.nodes[n]) /\ Size(t, a) > 1
  <2>1. h[n] # 0 /\ Size(t, a) >= 2 /\ TRUE \in BOOLEAN
    <3>1. Size(t, a) > 1 => Size(t, a) >= 2
      <4>1. IsBeside(t, h, B, n, c, a, TRUE, p)
        BY <1>1, <1>3, <1>5, <1>9, <1>12, BesideIs
      <4>2. a \in Nodes(t)
        BY <4>1 DEF IsBeside
      <4>3. Size(t, a) \in 1 .. 3
        BY <1>1, <4>2 DEF Sized
      <4> QED BY <4>3
    <3> QED BY <1>5, <1>12, <3>1
  <2>2. NearAt(t, h, B, G, n, c, a, TRUE, p)
    BY <1>1, <1>3, <1>9, <2>1, NearStarts
  <2>3. u = t /\ next = Nearing(n, c, a, TRUE, ret)
    BY <1>8, <1>12
  <2> QED BY <1>3, <1>9, <2>2, <2>3 DEF Deleted
<1>13. CASE ~ IsLeaf(t.nodes[n]) /\ ~ (Size(t, a) > 1) /\ Size(t, b) > 1
  <2>1. h[n] # 0 /\ Size(t, b) >= 2 /\ FALSE \in BOOLEAN
    <3>1. Size(t, b) > 1 => Size(t, b) >= 2
      <4>1. IsBeside(t, h, B, n, c, b, FALSE, p)
        BY <1>1, <1>3, <1>5, <1>9, <1>13, BesideIs
      <4>2. b \in Nodes(t)
        BY <4>1 DEF IsBeside
      <4>3. Size(t, b) \in 1 .. 3
        BY <1>1, <4>2 DEF Sized
      <4> QED BY <4>3
    <3> QED BY <1>5, <1>13, <3>1
  <2>2. NearAt(t, h, B, G, n, c, b, FALSE, p)
    BY <1>1, <1>3, <1>9, <2>1, NearStarts
  <2>3. u = t /\ next = Nearing(n, c, b, FALSE, ret)
    BY <1>8, <1>13
  <2> QED BY <1>3, <1>9, <2>2, <2>3 DEF Deleted
<1>14. CASE ~ IsLeaf(t.nodes[n]) /\ ~ (Size(t, a) > 1) /\ ~ (Size(t, b) > 1)
  <2>1. h[n] # 0
    BY <1>5, <1>14
  <2>2. PICK index2 : index2 = Middle(u.nodes[a])
    BY Zenon
  <2>3. u = Joined(t, n, c, a) /\ next = Seeking(a, index2, ret)
    BY <1>8, <1>14, <2>2, ZenonT(40)
  <2>4. HasKid(t, n, c, a) /\ HasKid(t, n, c + 1, b)
    BY <1>7, Zenon DEF HasKid
  <2>5. GoesTo(t, u, G, a, p, index2)
    BY <1>1, <1>3, <1>14, <2>1, <2>2, <2>3, <2>4, DeleteJoins, ZenonT(40)
  <2> QED BY <1>3, <2>3, <2>5, Zenon DEF Deleted
<1> QED BY <1>10, <1>11, <1>12, <1>13, <1>14

\* Element e is on its way into tree t, which will list G: into kid of node n, between the
\* subtrees left and right,
PutAt(t, G, n, kid, left, e, right) ==
    LET w == Widened(t, n, kid, left, e, right)
    IN  \E h, B, i : Pending(PutInto(t, n, w), t, n, w, h, B, G, i)
\* or on top of both.
PutOver(t, G, left, e, right) ==
    /\ Settled(NewRoot(t, left, e, right), G)
    /\ NewRoot(t, left, e, right).sorted = t.sorted

\* A leaf with a new element can be put in place.
IsLeafWidened(t, n, w) ==
    w \in Node234 /\ w.parent = t.nodes[n].parent /\ IsPutInto(PutInto(t, n, w), t, n, w)

\* It can: the new element is followed by no kid that is a node.
LEMMA WideLeafIs ==
    ASSUME NEW t, NEW h, NEW B, NEW L, Standing(t, h, B, L), NEW n, n \in Nodes(t), h[n] = 0,
           NEW c, c \in Nat, c >= 1, NEW e, e \in Int, NEW w, w = Widened(t, n, c, NULL, e, NULL)
    PROVE  IsLeafWidened(t, n, w)
<1>1. /\ IsTree(t) /\ t.nodes[n] \in Node234 /\ NodeFits(h, B, L, t.nodes[n], B[n], 0) /\ n # NULL
  BY NodeIs DEF Standing
<1>2. /\ t.nodes[n].kids \in Seq(Nat) /\ Len(t.nodes[n].kids) = Size(t, n) + 1 /\ Len(t.nodes[n].counts) = Size(t, n) + 1
      /\ DOMAIN t.nodes[n].kids = 1 .. Size(t, n) + 1 /\ Size(t, n) \in Nat
  BY <1>1, PartsAre DEF Size
<1>3. PICK pos : pos = IF c < Size(t, n) + 1 THEN c ELSE Size(t, n) + 1
  OBVIOUS
<1>4. pos \in 1 .. Size(t, n) + 1
  BY <1>2, <1>3
<1>5. countnode234(t, NULL) = 0 /\ NULL \in Nat /\ 0 \in Int
  BY NoNodeNoCount DEF NULL
<1>6. IsWide(w, t.nodes[n], pos, NULL, e, NULL, 0, 0)
  BY <1>1, <1>2, <1>3, <1>5, WidenedIs
<1>7. w \in Node234 /\ w.parent = t.nodes[n].parent /\ IsAround(w.kids, Nat, t.nodes[n].kids, pos, NULL, NULL)
  BY <1>6 DEF IsWide
<1>8. ToSet(t.nodes[n].kids) = {NULL}
  BY <1>1, LeafKids
<1>9. t.nodes[n].kids[pos] = NULL
  <2>1. t.nodes[n].kids[pos] \in ToSet(t.nodes[n].kids)
    BY <1>2, <1>4 DEF ToSet
  <2> QED BY <1>8, <2>1
<1>10. ToSet(w.kids) = {NULL}
  <2>1. pos \in 1 .. Len(t.nodes[n].kids)
    BY <1>2, <1>4
  <2>2. PICK s : s = t.nodes[n].kids
    OBVIOUS
  <2>3. PICK v, z : v = w.kids /\ z = NULL
    OBVIOUS
  <2>4. s \in Seq(Nat) /\ pos \in 1 .. Len(s) /\ z = s[pos] /\ IsAround(v, Nat, s, pos, z, z)
    BY <1>2, <1>7, <1>9, <2>1, <2>2, <2>3
  <2>5. ToSet(v) = ToSet(s) \cup {z}
    <3>1. PICK y, S : y = s[pos] /\ S = Nat
      OBVIOUS
    <3>2. IsAround(v, S, s, pos, z, y)
      BY <2>4, <3>1
    <3>3. s \in Seq(S) /\ pos \in 1 .. Len(s)
      BY <2>4, <3>1
    <3>4. y = s[pos]
      BY <3>1
    <3> QED BY ONLY <3>2, <3>3, <3>4, AroundSet
  <2> QED BY <1>8, <2>2, <2>3, <2>5
<1>11. n \notin ToSet(w.kids)
  BY <1>1, <1>10
<1>12. IsPutInto(PutInto(t, n, w), t, n, w)
  BY <1>1, <1>7, <1>11, PutIntoIs
<1> QED BY <1>7, <1>12 DEF IsLeafWidened

\* A new element for gap i of a leaf is then on its way in.
LEMMA LeafPends ==
    ASSUME NEW t, NEW h, NEW B, NEW L, Standing(t, h, B, L), Counted(t, B), Sized(t), NEW n, n \in Nodes(t), h[n] = 0,
           NEW c, c \in Nat, c >= 1, NEW pos, pos = (IF c < Size(t, n) + 1 THEN c ELSE Size(t, n) + 1),
           NEW i, i \in Nat, i = B[n][pos], NEW e, e \in Int
    PROVE  PutAt(t, InsertAt(L, i + 1, e), n, c, NULL, e, NULL)
<1>1. PICK w : w = Widened(t, n, c, NULL, e, NULL)
  OBVIOUS
<1>2. w \in Node234 /\ w.parent = t.nodes[n].parent /\ IsPutInto(PutInto(t, n, w), t, n, w)
  <2>1. Standing(t, h, B, L) /\ n \in Nodes(t) /\ h[n] = 0 /\ c \in Nat /\ c >= 1 /\ e \in Int
    OBVIOUS
  <2>2. IsLeafWidened(t, n, w)
    BY ONLY <1>1, <2>1, WideLeafIs
  <2> QED BY <2>2 DEF IsLeafWidened
<1>3. PICK q : q = PutInto(t, n, w)
  OBVIOUS
<1>4. q = LeafPut(t, n, c, e)
  BY <1>1, <1>3 DEF LeafPut
<1>5. PICK G : G = InsertAt(L, i + 1, e)
  OBVIOUS
<1>6. PICK B2 : IsLeafPut(q, t, h, B2, G, n, i)
  BY <1>4, <1>5, LeafPutStands
<1>7. /\ Standing(q, h, B2, G) /\ PathCounted(q, h, B2, -1, i, h[n]) /\ Covers(B2[n], i)
      /\ Size(q, n) = Size(t, n) + 1
      /\ \A y \in Nodes(t) : y # n => Size(q, y) = Size(t, y)
  BY <1>6 DEF IsLeafPut
<1>8. ASSUME NEW y \in Nodes(t) PROVE Size(q, y) \in 1 .. 3 \/ (y = n /\ Size(q, n) = 4)
  <2>1. CASE y # n
    BY <1>7, <2>1 DEF Sized
  <2>2. CASE y = n
    <3>1. PICK s, z : s = Size(t, n) /\ z = Size(q, n)
      OBVIOUS
    <3>2. s \in 1 .. 3 /\ z = s + 1
      BY <1>7, <3>1 DEF Sized
    <3>3. z \in 1 .. 3 \/ z = 4
      BY ONLY <3>2
    <3> QED BY <2>2, <3>1, <3>3
  <2> QED BY <2>1, <2>2
<1>9. Pending(q, t, n, w, h, B2, G, i)
  BY <1>2, <1>3, <1>7, <1>8 DEF Pending, Standing
<1> QED BY <1>1, <1>3, <1>5, <1>9 DEF PutAt

\* A turn with an element that fits in.
LEMMA PutFits ==
    ASSUME NEW t, NEW G, NEW n, NEW kid, NEW l, NEW e, NEW r, PutAt(t, G, n, kid, l, e, r),
           NEW w, w = Widened(t, n, kid, l, e, r), Len(w.elems) <= 3,
           NEW u, u = PutInto(t, n, w)
    PROVE  Climbing(u, -1, G, n) /\ u.sorted = t.sorted
<1>1. PICK h, B, i : Pending(u, t, n, w, h, B, G, i)
  BY DEF PutAt
<1>2. /\ n \in Nodes(t) /\ IsPutInto(u, t, n, w)
      /\ Standing(u, h, B, G) /\ PathCounted(u, h, B, -1, i, h[n]) /\ i \in Nat /\ Covers(B[n], i)
      /\ \A y \in Nodes(t) : Size(u, y) \in 1 .. 3 \/ (y = n /\ Size(u, n) = 4)
  BY <1>1 DEF Pending
<1>3. Nodes(u) = Nodes(t) /\ u.sorted = t.sorted /\ Content(u.nodes[n], w)
  BY <1>2 DEF IsPutInto
<1>4. Size(u, n) = Len(w.elems)
  BY <1>3 DEF Size, Content
<1>5. Size(u, n) # 4
  <2>1. PICK z : z = Size(u, n)
    OBVIOUS
  <2>2. z <= 3
    BY <1>4, <2>1
  <2>3. z # 4
    BY ONLY <2>2
  <2> QED BY <2>1, <2>3
<1>6. Sized(u)
  BY <1>2, <1>3, <1>5 DEF Sized
<1>7. ClimbAt(u, h, B, -1, G, n, i)
  BY <1>2, <1>3, <1>6 DEF ClimbAt
<1> QED BY <1>3, <1>7 DEF Climbing

\* A turn with one that does not: the node is split.
LEMMA PutSplits ==
    ASSUME NEW t, NEW G, NEW n, NEW kid, NEW l, NEW e, NEW r, PutAt(t, G, n, kid, l, e, r),
           NEW w, w = Widened(t, n, kid, l, e, r), ~ (Len(w.elems) <= 3),
           NEW m, m = mknew(t), NEW s, s = SplitOff(t, n, w, m), NEW up, up = t.nodes[n].parent
    PROVE  /\ s.sorted = t.sorted
           /\ IF up = NULL THEN PutOver(s, G, m, MovedUp(w), n)
              ELSE PutAt(s, G, up, ChildNum(t, n), m, MovedUp(w), n)
<1>1. PICK q : q = PutInto(t, n, w)
  OBVIOUS
<1>2. PICK h, B, i : Pending(q, t, n, w, h, B, G, i)
  BY <1>1 DEF PutAt
<1>3. /\ IsTree(t) /\ n \in Nodes(t) /\ w \in Node234 /\ IsPutInto(q, t, n, w)
      /\ Standing(q, h, B, G) /\ PathCounted(q, h, B, -1, i, h[n])
      /\ \A y \in Nodes(t) : Size(q, y) \in 1 .. 3 \/ (y = n /\ Size(q, n) = 4)
  BY <1>2 DEF Pending
<1>4. Nodes(q) = Nodes(t) /\ Content(q.nodes[n], w)
  BY <1>3 DEF IsPutInto
<1>5. Size(q, n) = 4
  <2>1. PICK z : z = Size(q, n)
    OBVIOUS
  <2>2. z = Len(w.elems)
    BY <1>4, <2>1 DEF Size, Content
  <2>3. z \in 1 .. 3 \/ z = 4
    BY <1>3, <2>1
  <2>4. ~ (z <= 3)
    BY <2>2
  <2>5. z = 4
    BY ONLY <2>3, <2>4
  <2> QED BY <2>1, <2>5
<1>6. m \in Nat \ {0} /\ m \notin Nodes(t)
  BY <1>3, MkNewIs
<1>7. s.sorted = t.sorted
  <2>1. h[n] \in Nat
    BY <1>3, <1>4, NodeIs DEF Standing
  <2>2. ~ (h[n] > h[n])
    BY <2>1
  <2>3. Exact(q.nodes[n], B[n])
    BY <1>3, <1>4, <2>2, PathIsAbove
  <2>4. PartsFit(q, n, w, h, B, G)
    BY <1>3, <1>4, <1>5, <2>3, PartsFitIn
  <2>5. LowPart(w) \in Node234 /\ HighPart(w) \in Node234
    BY <2>4 DEF PartsFit
  <2>6. IsSplit(s, t, n, m, LowPart(w), HighPart(w))
    BY <1>3, <1>6, <2>5, SplitIs DEF LowPart, HighPart
  <2> QED BY <2>6 DEF IsSplit
<1>8. PICK x : x = w.elems[3]
  OBVIOUS
<1>9. MovedUp(w) = x
  BY <1>8 DEF MovedUp
<1>10. CASE up = NULL
  <2>1. PICK u : u = NewRoot(s, m, x, n)
    OBVIOUS
  <2>2. \E h2, B2 : Standing(u, h2, B2, G) /\ Counted(u, B2) /\ Sized(u) /\ u.sorted = t.sorted
    <3>1. t.nodes[n].parent = NULL /\ s = SplitOff(t, n, w, m) /\ u = NewRoot(s, m, w.elems[3], n)
      BY <1>8, <1>10, <2>1
    <3> QED BY ONLY <1>2, <1>5, <1>6, <3>1, RootSplit
  <2>3. Settled(u, G) /\ u.sorted = s.sorted
    BY <1>7, <2>2 DEF Settled
  <2>4. PutOver(s, G, m, x, n)
    BY <2>1, <2>3 DEF PutOver
  <2> QED BY <1>7, <1>9, <1>10, <2>4
<1>11. CASE up # NULL
  <2>1. PICK cc : cc = ChildNum(t, n)
    OBVIOUS
  <2>2. PICK w2 : w2 = Widened(s, up, cc, m, x, n)
    OBVIOUS
  <2>3. \E h2, B2 : Pending(PutInto(s, up, w2), s, up, w2, h2, B2, G, i)
    <3>1. /\ s = SplitOff(t, n, w, m) /\ up = t.nodes[n].parent /\ up # NULL /\ cc = ChildNum(t, n)
          /\ w2 = Widened(s, up, cc, m, w.elems[3], n)
      BY <1>8, <1>11, <2>1, <2>2
    <3> QED BY ONLY <1>2, <1>5, <1>6, <3>1, SplitPends
  <2>4. PutAt(s, G, up, cc, m, x, n)
    BY <2>2, <2>3 DEF PutAt
  <2> QED BY <1>7, <1>9, <1>11, <2>1, <2>4
<1> QED BY <1>10, <1>11

\* The first element of a tree.
LEMMA PutFirst ==
    ASSUME NEW t, Settled(t, <<>>), t.root = NULL, NEW e, e \in Int
    PROVE  PutOver(t, <<e>>, NULL, e, NULL)
<1>1. PICK h, B : Standing(t, h, B, <<>>)
  BY DEF Settled
<1>2. IsTree(t) /\ Nodes(t) = {}
  BY <1>1 DEF Standing, Layout
<1>3. PICK u : u = NewRoot(t, NULL, e, NULL)
  OBVIOUS
<1>4. \E h2, B2 : Standing(u, h2, B2, <<e>>) /\ Counted(u, B2) /\ Sized(u) /\ u.sorted = t.sorted
  BY <1>2, <1>3, FirstElement
<1> QED BY <1>3, <1>4 DEF PutOver, Settled

\* Key e belongs below node n.
KeyAt(t, h, B, L, e, n) ==
    /\ Standing(t, h, B, L) /\ Counted(t, B) /\ Sized(t) /\ n \in Nodes(t)
    /\ e \in Int /\ Increasing(L) /\ Between(L, e, Lo(B[n]), Hi(B[n]))

\* At the root every key belongs below it.
LEMMA KeyBegins ==
    ASSUME NEW t, NEW h, NEW B, NEW L, Standing(t, h, B, L), Counted(t, B), Sized(t), Increasing(L), t.root # NULL,
           NEW e, e \in Int
    PROVE  KeyAt(t, h, B, L, e, t.root) /\ Lo(B[t.root]) = 0
<1>1. Layout(t, h, B, L)
  BY DEF Standing
<1>2. t.root \in Nodes(t) /\ Lo(B[t.root]) = 0 /\ Hi(B[t.root]) = Len(L) + 1 /\ L \in Seq(Int)
  BY <1>1 DEF Layout
<1>3. Len(L) \in Nat
  BY <1>2
<1>4. Between(L, e, 0, Len(L) + 1)
  BY <1>3 DEF Between
<1> QED BY <1>2, <1>4 DEF KeyAt

\* The key is element c of the node,
KeyHit(t, B, L, e, n, c, p) ==
    /\ p \in 1 .. Len(L) /\ p \in Nat /\ L[p] = e /\ t.nodes[n].elems[c] = e
    /\ Lo(B[n]) \in Nat /\ Lo(B[n]) + Start(t.nodes[n], c) + t.nodes[n].counts[c] = p - 1
\* or it is not in the tree, and would be in gap i,
KeyMiss(t, h, B, L, e, n, c, i) ==
    /\ h[n] = 0 /\ i \in Nat /\ i \in 0 .. Len(L) /\ i = B[n][c] /\ Between(L, e, i, i + 1)
    /\ Lo(B[n]) \in Nat /\ Lo(B[n]) + Start(t.nodes[n], c) = i
    /\ c \in Nat /\ c >= 1 /\ (c < Size(t, n) + 1 \/ c = Size(t, n) + 1)
\* or it belongs below kid c.
KeyBelow(t, h, B, L, e, n, c, k) ==
    /\ KeyAt(t, h, B, L, e, k) /\ Lo(B[n]) \in Nat /\ Lo(B[n]) + Start(t.nodes[n], c) = Lo(B[k])

\* The slot's element is the key: its position is the one findrelpos234 adds up.
LEMMA KeyHits ==
    ASSUME NEW t, NEW h, NEW B, NEW L, NEW e, NEW n, KeyAt(t, h, B, L, e, n),
           NEW c, c \in DOMAIN t.nodes[n].kids, IsSlot(t.nodes[n], e, c), Hits(t.nodes[n], e, c)
    PROVE  KeyHit(t, B, L, e, n, c, B[n][c + 1])
<1>1. /\ Standing(t, h, B, L) /\ Counted(t, B) /\ n \in Nodes(t) /\ e \in Int /\ Increasing(L)
      /\ Between(L, e, Lo(B[n]), Hi(B[n]))
  BY DEF KeyAt
<1>2. PICK p : p = B[n][c + 1]
  OBVIOUS
<1>3. c \in 1 .. Size(t, n) + 1 /\ At(t, B, n, c, p) /\ L[p] = e /\ t.nodes[n].elems[c] = e
  BY <1>1, <1>2, SlotOfKey
<1>4. p \in 1 .. Len(L) /\ p \in Nat
  BY <1>1, <1>3, AtIs
<1>5. Exact(t.nodes[n], B[n]) /\ Bounds(B[n], Size(t, n))
  BY <1>1, NodeIs DEF Counted, Standing
<1>6. PICK x, lo : x = B[n][c] /\ lo = Lo(B[n])
  OBVIOUS
<1>7. x \in Nat /\ lo \in Nat
  BY <1>3, <1>5, <1>6, SlotIs
<1>8. PICK f, g : f = Start(t.nodes[n], c) /\ g = t.nodes[n].counts[c]
  OBVIOUS
<1>9. f = x - lo /\ g = p - x - 1
  BY <1>1, <1>2, <1>3, <1>5, <1>6, <1>8, KidCount
<1>10. lo + f + g = p - 1
  BY ONLY <1>4, <1>7, <1>9
<1> QED BY <1>2, <1>3, <1>4, <1>6, <1>7, <1>8, <1>10 DEF KeyHit

\* Otherwise the key is missing if there is no kid, and else belongs below it.
LEMMA KeyMisses ==
    ASSUME NEW t, NEW h, NEW B, NEW L, NEW e, NEW n, KeyAt(t, h, B, L, e, n),
           NEW c, c \in DOMAIN t.nodes[n].kids, IsSlot(t.nodes[n], e, c), ~ Hits(t.nodes[n], e, c),
           NEW k, k = t.nodes[n].kids[c]
    PROVE  IF k = NULL THEN KeyMiss(t, h, B, L, e, n, c, B[n][c]) ELSE KeyBelow(t, h, B, L, e, n, c, k)
<1>1. /\ Standing(t, h, B, L) /\ Counted(t, B) /\ Sized(t) /\ n \in Nodes(t) /\ e \in Int /\ Increasing(L)
      /\ Between(L, e, Lo(B[n]), Hi(B[n]))
  BY DEF KeyAt
<1>2. c \in 1 .. Size(t, n) + 1 /\ Between(L, e, B[n][c], B[n][c + 1])
  BY <1>1, SlotOfKey
<1>3. Exact(t.nodes[n], B[n]) /\ Bounds(B[n], Size(t, n)) /\ IsTree(t) /\ Layout(t, h, B, L) /\ Linked(t)
      /\ Hi(B[n]) <= Len(L) + 1 /\ Len(L) \in Nat
  BY <1>1, NodeIs DEF Counted, Standing
<1>4. PICK x, y, lo, hi : x = B[n][c] /\ y = B[n][c + 1] /\ lo = Lo(B[n]) /\ hi = Hi(B[n])
  OBVIOUS
<1>5. x \in Nat /\ y \in Nat /\ x < y /\ lo <= x /\ y <= hi /\ lo \in Nat /\ hi \in Nat
  BY <1>2, <1>3, <1>4, SlotIs
<1>6. PICK f : f = Start(t.nodes[n], c)
  OBVIOUS
<1>7. f = x - lo
  BY <1>1, <1>2, <1>3, <1>4, <1>6, KidCount
<1>8. lo + f = x
  BY ONLY <1>5, <1>7
<1>9. IF h[n] = 0 THEN k = NULL /\ y = x + 1 ELSE IsKid(t, h, B, n, c, k)
  BY <1>1, <1>2, <1>3, <1>4, KidIs
<1>10. CASE h[n] = 0
  <2>1. k = NULL /\ y = x + 1
    BY <1>9, <1>10
  <2>2. Between(L, e, x, x + 1)
    BY <1>2, <1>4, <2>1
  <2>3. x \in 0 .. Len(L)
    <3>1. PICK M : M = Len(L)
      OBVIOUS
    <3>2. M \in Nat /\ hi <= M + 1
      BY <1>3, <1>4, <3>1
    <3>3. x \in 0 .. M
      BY ONLY <1>5, <3>2
    <3> QED BY <3>1, <3>3
  <2>4. c \in Nat /\ c >= 1 /\ (c < Size(t, n) + 1 \/ c = Size(t, n) + 1)
    <3>1. PICK s : s = Size(t, n)
      OBVIOUS
    <3>2. s \in Nat /\ c \in 1 .. s + 1
      BY <1>2, <1>3, <3>1 DEF Bounds
    <3>3. c \in Nat /\ c >= 1 /\ (c < s + 1 \/ c = s + 1)
      BY ONLY <3>2
    <3> QED BY <3>1, <3>3
  <2>5. KeyMiss(t, h, B, L, e, n, c, B[n][c])
    BY <1>4, <1>5, <1>6, <1>8, <1>10, <2>2, <2>3, <2>4 DEF KeyMiss
  <2> QED BY <2>1, <2>5
<1>11. CASE h[n] # 0
  <2>1. k \in Nodes(t) /\ Lo(B[k]) = x /\ Hi(B[k]) = y
    BY <1>4, <1>9, <1>11 DEF IsKid
  <2>2. k # NULL
    BY <1>3, <2>1, NodeIs
  <2>3. KeyAt(t, h, B, L, e, k)
    BY <1>1, <1>2, <1>4, <2>1 DEF KeyAt
  <2>4. KeyBelow(t, h, B, L, e, n, c, k)
    BY <1>4, <1>5, <1>6, <1>8, <2>1, <2>3 DEF KeyBelow
  <2> QED BY <2>2, <2>4
<1> QED BY <1>10, <1>11

\* In the leaf where it belongs the new key can be put in place.
LEMMA KeyPends ==
    ASSUME NEW t, NEW h, NEW B, NEW L, NEW e, NEW n, KeyAt(t, h, B, L, e, n), NEW c, NEW i, KeyMiss(t, h, B, L, e, n, c, i)
    PROVE  PutAt(t, InsertAt(L, i + 1, e), n, c, NULL, e, NULL)
<1>1. Standing(t, h, B, L) /\ Counted(t, B) /\ Sized(t) /\ n \in Nodes(t) /\ e \in Int
  BY DEF KeyAt
<1>2. h[n] = 0 /\ i \in Nat /\ i = B[n][c] /\ c \in Nat /\ c >= 1 /\ (c < Size(t, n) + 1 \/ c = Size(t, n) + 1)
  BY DEF KeyMiss
<1>3. PICK pos : pos = IF c < Size(t, n) + 1 THEN c ELSE Size(t, n) + 1
  OBVIOUS
<1>4. pos = c
  BY <1>2, <1>3
<1>5. i = B[n][pos]
  BY <1>2, <1>4
<1> QED BY ONLY <1>1, <1>2, <1>3, <1>5, LeafPends

\* Gap i is below node n.
GapAt(t, h, B, L, i, n) ==
    /\ Standing(t, h, B, L) /\ Counted(t, B) /\ Sized(t) /\ n \in Nodes(t) /\ i \in Nat /\ Covers(B[n], i)

\* Every gap is below the root.
LEMMA GapBegins ==
    ASSUME NEW t, NEW h, NEW B, NEW L, Standing(t, h, B, L), Counted(t, B), Sized(t), t.root # NULL,
           NEW i, i \in 0 .. Len(L)
    PROVE  GapAt(t, h, B, L, i, t.root) /\ Lo(B[t.root]) = 0
<1>1. Layout(t, h, B, L)
  BY DEF Standing
<1>2. t.root \in Nodes(t) /\ Lo(B[t.root]) = 0 /\ Hi(B[t.root]) = Len(L) + 1 /\ L \in Seq(Int)
  BY <1>1 DEF Layout
<1>3. Len(L) \in Nat
  BY <1>2
<1>4. i \in Nat /\ Covers(B[t.root], i)
  BY <1>2, <1>3 DEF Covers
<1> QED BY <1>2, <1>4 DEF GapAt

\* The gaps of a leaf are numbered.
LEMMA LeafGaps ==
    ASSUME NEW b, NEW k, k \in 1 .. 3, Bounds(b, k), \A c \in 1 .. k + 1 : b[c + 1] = b[c] + 1,
           NEW i, i \in Nat, Covers(b, i)
    PROVE  i - Lo(b) + 1 \in 1 .. k + 1 /\ b[i - Lo(b) + 1] = i
<1>1. PICK c \in 1 .. k + 1 : InSlot(b, c, i)
  BY SlotExists
<1>2. b[c] <= i /\ i < b[c + 1] /\ b[c + 1] = b[c] + 1 /\ b[c] \in Nat
  BY <1>1, SlotIs DEF InSlot
<1>3. b[c] = i
  BY ONLY <1>2, i \in Nat
<1>4. Lo(b) = b[1] /\ b[1] \in Nat
  BY DEF Bounds
<1>5. c = 1 \/ c = 2 \/ c = 3 \/ c = 4
  BY <1>1
<1>6. PICK x : x = Lo(b)
  OBVIOUS
<1>7. b[c] = x + c - 1
  <2>1. b[1] = x /\ x \in Nat
    BY <1>4, <1>6
  <2>2. k >= 1 => b[1 + 1] = b[1] + 1
    OBVIOUS
  <2>3. k >= 1 => b[2 + 1] = b[2] + 1
    OBVIOUS
  <2>4. k >= 2 => b[3 + 1] = b[3] + 1
    OBVIOUS
  <2>5. c >= 1
    BY <1>1
  <2>6. CASE c = 1
    BY <2>1, <2>6
  <2>7. CASE c = 2
    BY <2>1, <2>2, <2>7
  <2>8. CASE c = 3
    <3>1. b[2] = x + 1 /\ b[3] = b[2] + 1
      BY <2>1, <2>2, <2>3
    <3> QED BY <2>1, <2>8, <3>1
  <2>9. CASE c = 4
    <3>1. k >= 2
      BY <1>1, <2>9
    <3>2. b[2] = x + 1 /\ b[3] = b[2] + 1 /\ b[4] = b[3] + 1
      BY <2>1, <2>2, <2>3, <2>4, <3>1
    <3> QED BY <2>1, <2>9, <3>2
  <2> QED BY <1>5, <2>6, <2>7, <2>8, <2>9
<1>8. i - x + 1 = c
  <2>1. x \in Nat /\ c \in Nat /\ i = x + c - 1
    BY <1>1, <1>3, <1>4, <1>6, <1>7
  <2> QED BY ONLY <2>1
<1> QED BY <1>1, <1>3, <1>6, <1>8

\* In a leaf the gap's number says where the new element goes.
LEMMA GapPends ==
    ASSUME NEW t, NEW h, NEW B, NEW L, NEW i, NEW n, GapAt(t, h, B, L, i, n), h[n] = 0,
           NEW index, index = i - Lo(B[n]), NEW e, e \in Int
    PROVE  PutAt(t, InsertAt(L, i + 1, e), n, index + 1, NULL, e, NULL)
<1>1. Standing(t, h, B, L) /\ Counted(t, B) /\ Sized(t) /\ n \in Nodes(t) /\ i \in Nat /\ Covers(B[n], i)
  BY DEF GapAt
<1>2. PICK k, b : k = Size(t, n) /\ b = B[n]
  OBVIOUS
<1>3. k \in 1 .. 3
  BY <1>1, <1>2 DEF Sized
<1>4. Bounds(b, k) /\ NodeFits(h, B, L, t.nodes[n], b, 0)
  BY <1>1, <1>2, NodeIs DEF Standing
<1>5. \A c \in 1 .. k + 1 : b[c + 1] = b[c] + 1
  BY <1>2, <1>4, LeafSlots DEF Size
<1>6. Covers(b, i)
  BY <1>1, <1>2
<1>7. i - Lo(b) + 1 \in 1 .. k + 1 /\ b[i - Lo(b) + 1] = i
  BY ONLY <1>1, <1>3, <1>4, <1>5, <1>6, LeafGaps
<1>8. PICK c : c = index + 1
  OBVIOUS
<1>9. c \in 1 .. k + 1 /\ b[c] = i
  BY <1>2, <1>7, <1>8
<1>10. c \in Nat /\ c >= 1
  BY <1>9
<1>11. PICK pos : pos = IF c < Size(t, n) + 1 THEN c ELSE Size(t, n) + 1
  OBVIOUS
<1>12. pos = c
  <2>1. pos = IF c < k + 1 THEN c ELSE k + 1
    BY <1>2, <1>11
  <2> QED BY ONLY <1>3, <1>9, <2>1
<1>13. i = B[n][pos]
  BY <1>2, <1>9, <1>12
<1>14. h[n] = 0 /\ e \in Int
  OBVIOUS
<1>15. PutAt(t, InsertAt(L, i + 1, e), n, c, NULL, e, NULL)
  BY ONLY <1>1, <1>10, <1>11, <1>13, <1>14, LeafPends
<1> QED BY <1>8, <1>15

\* One of the counts of an inner node takes the gap in, and the first that does is that of
\* the kid it is below.
GapFits(node, index, c) == index <= Start(node, c) + node.counts[c]

\* A count takes the gap in if the gap is left of the slot's end.
LEMMA GapIn ==
    ASSUME NEW t, NEW h, NEW B, NEW L, NEW i, NEW n, GapAt(t, h, B, L, i, n),
           NEW index, index = i - Lo(B[n]), NEW c, c \in 1 .. Size(t, n) + 1
    PROVE  /\ GapFits(t.nodes[n], index, c) <=> i < B[n][c + 1]
           /\ Lo(B[n]) \in Nat /\ index - Start(t.nodes[n], c) = i - B[n][c] /\ B[n][c] \in Nat
<1>1. Standing(t, h, B, L) /\ Counted(t, B) /\ n \in Nodes(t) /\ i \in Nat
  BY DEF GapAt
<1>2. Exact(t.nodes[n], B[n]) /\ Bounds(B[n], Size(t, n))
  BY <1>1, NodeIs DEF Counted, Standing
<1>3. PICK x, y, lo : x = B[n][c] /\ y = B[n][c + 1] /\ lo = Lo(B[n])
  OBVIOUS
<1>4. x \in Nat /\ y \in Nat /\ lo \in Nat
  BY <1>2, <1>3, SlotIs
<1>5. PICK f, g : f = Start(t.nodes[n], c) /\ g = t.nodes[n].counts[c]
  OBVIOUS
<1>6. f = x - lo /\ g = y - x - 1
  BY <1>1, <1>2, <1>3, <1>5, KidCount
<1>7. index = i - lo
  BY <1>3
<1>8. (index <= f + g <=> i < y) /\ index - f = i - x
  BY ONLY <1>1, <1>4, <1>6, <1>7
<1> QED BY <1>3, <1>4, <1>5, <1>8 DEF GapFits

\* So the loop over the counts finds a kid, and the gap is below it.
LEMMA GapGoes ==
    ASSUME NEW t, NEW h, NEW B, NEW L, NEW i, NEW n, GapAt(t, h, B, L, i, n), h[n] # 0,
           NEW index, index = i - Lo(B[n])
    PROVE  /\ \E c \in DOMAIN t.nodes[n].kids : GapFits(t.nodes[n], index, c)
           /\ \A c \in DOMAIN t.nodes[n].kids :
                 GapFits(t.nodes[n], index, c) /\ (\A b \in 1 .. c - 1 : ~ GapFits(t.nodes[n], index, b)) =>
                    /\ GapAt(t, h, B, L, i, t.nodes[n].kids[c])
                    /\ index - Start(t.nodes[n], c) = i - Lo(B[t.nodes[n].kids[c]])
<1>1. Standing(t, h, B, L) /\ Counted(t, B) /\ Sized(t) /\ n \in Nodes(t) /\ i \in Nat /\ Covers(B[n], i)
  BY DEF GapAt
<1>2. /\ Bounds(B[n], Size(t, n)) /\ IsTree(t) /\ Layout(t, h, B, L) /\ Linked(t)
      /\ t.nodes[n] \in Node234 /\ NodeFits(h, B, L, t.nodes[n], B[n], h[n])
  BY <1>1, NodeIs DEF Standing
<1>3. DOMAIN t.nodes[n].kids = 1 .. Size(t, n) + 1
  BY <1>2, PartsAre DEF Size
<1>4. PICK k : k = Size(t, n)
  OBVIOUS
<1>5. \E c \in DOMAIN t.nodes[n].kids : GapFits(t.nodes[n], index, c)
  <2>1. PICK c \in 1 .. k + 1 : InSlot(B[n], c, i)
    BY <1>1, <1>2, <1>4, SlotExists
  <2>2. i < B[n][c + 1]
    BY <2>1 DEF InSlot
  <2>3. GapFits(t.nodes[n], index, c)
    BY <1>4, <2>1, <2>2, GapIn
  <2> QED BY <1>3, <1>4, <2>1, <2>3
<1>6. ASSUME NEW c \in DOMAIN t.nodes[n].kids, GapFits(t.nodes[n], index, c),
             \A b \in 1 .. c - 1 : ~ GapFits(t.nodes[n], index, b)
      PROVE  /\ GapAt(t, h, B, L, i, t.nodes[n].kids[c])
             /\ index - Start(t.nodes[n], c) = i - Lo(B[t.nodes[n].kids[c]])
  <2>1. c \in 1 .. k + 1 /\ c \in 1 .. Size(t, n) + 1
    BY <1>3, <1>4
  <2>2. i < B[n][c + 1] /\ index - Start(t.nodes[n], c) = i - B[n][c]
    BY <1>6, <2>1, GapIn
  <2>3. B[n][c] <= i
    <3>1. CASE c = 1
      <4>1. Lo(B[n]) <= i /\ Lo(B[n]) = B[n][1]
        BY <1>1, <1>2 DEF Covers, Bounds
      <4> QED BY <3>1, <4>1
    <3>2. CASE c # 1
      <4>1. PICK d : d = c - 1
        OBVIOUS
      <4>2. k \in Nat
        BY <1>2, <1>4 DEF Bounds
      <4>3. d \in 1 .. k + 1 /\ d \in 1 .. c - 1 /\ d + 1 = c
        BY ONLY <2>1, <3>2, <4>1, <4>2
      <4>4. ~ GapFits(t.nodes[n], index, d)
        BY <1>6, <4>3
      <4>5. ~ (i < B[n][d + 1])
        BY <1>4, <4>3, <4>4, GapIn
      <4>6. B[n][c] \in Nat
        BY <2>1, GapIn
      <4>7. ~ (i < B[n][c])
        BY <4>3, <4>5
      <4> QED BY ONLY <1>1, <4>6, <4>7
    <3> QED BY <3>1, <3>2
  <2>4. IsKid(t, h, B, n, c, t.nodes[n].kids[c])
    BY <1>1, <1>2, <2>1, KidIs
  <2>5. /\ t.nodes[n].kids[c] \in Nodes(t) /\ Lo(B[t.nodes[n].kids[c]]) = B[n][c]
        /\ Hi(B[t.nodes[n].kids[c]]) = B[n][c + 1]
    BY <2>4 DEF IsKid
  <2>6. Covers(B[t.nodes[n].kids[c]], i)
    BY <2>2, <2>3, <2>5 DEF Covers
  <2> QED BY <1>1, <2>2, <2>5, <2>6 DEF GapAt
<1> QED BY <1>5, <1>6

\* Position p is in node n or below it.
ItemAt(t, h, B, L, p, n) ==
    /\ Standing(t, h, B, L) /\ Counted(t, B) /\ Sized(t) /\ n \in Nodes(t) /\ p \in Nat
    /\ Lo(B[n]) < p /\ p < Hi(B[n])

\* Every position is below the root.
LEMMA ItemBegins ==
    ASSUME NEW t, NEW h, NEW B, NEW L, Standing(t, h, B, L), Counted(t, B), Sized(t), NEW p, p \in 1 .. Len(L)
    PROVE  ItemAt(t, h, B, L, p, t.root) /\ Lo(B[t.root]) = 0
<1>1. Layout(t, h, B, L)
  BY DEF Standing
<1>2. Len(L) \in Nat /\ p \in Nat /\ L # <<>>
  BY <1>1 DEF Layout
<1>3. t.root # NULL
  BY <1>1, <1>2 DEF Layout
<1>4. t.root \in Nodes(t) /\ Lo(B[t.root]) = 0 /\ Hi(B[t.root]) = Len(L) + 1
  BY <1>1, <1>3 DEF Layout
<1>5. 0 < p /\ p < Len(L) + 1
  BY <1>2
<1> QED BY <1>2, <1>4, <1>5 DEF ItemAt

\* The walk of index234 goes to the kid the position is in,
LEMMA ItemGoes ==
    ASSUME NEW t, NEW h, NEW B, NEW L, NEW p, NEW n, ItemAt(t, h, B, L, p, n),
           NEW index, index = p - Lo(B[n]) - 1, NEW c, c \in KidAt(t.nodes[n], index), NEW k, k = t.nodes[n].kids[c]
    PROVE  ItemAt(t, h, B, L, p, k) /\ index - Start(t.nodes[n], c) = p - Lo(B[k]) - 1
<1>1. Standing(t, h, B, L) /\ Counted(t, B) /\ Sized(t) /\ n \in Nodes(t) /\ p \in Nat
  BY DEF ItemAt
<1>2. /\ B[n][c] < p /\ p < B[n][c + 1] /\ B[n][c] \in Nat
      /\ Start(t.nodes[n], c) = B[n][c] - Lo(B[n]) /\ Lo(B[n]) \in Nat /\ IsKid(t, h, B, n, c, k)
  BY <1>1, KidAtIs
<1>3. k \in Nodes(t) /\ Lo(B[k]) = B[n][c] /\ Hi(B[k]) = B[n][c + 1]
  BY <1>2 DEF IsKid
<1>4. PICK x, lo, f : x = B[n][c] /\ lo = Lo(B[n]) /\ f = Start(t.nodes[n], c)
  OBVIOUS
<1>5. x \in Nat /\ lo \in Nat /\ f = x - lo /\ index = p - lo - 1
  BY <1>2, <1>4
<1>6. index - f = p - x - 1
  BY ONLY <1>1, <1>5
<1> QED BY <1>1, <1>2, <1>3, <1>4, <1>6 DEF ItemAt

\* or ends at its element.
LEMMA ItemEnds ==
    ASSUME NEW t, NEW h, NEW B, NEW L, NEW p, NEW n, ItemAt(t, h, B, L, p, n),
           NEW index, index = p - Lo(B[n]) - 1, NEW c, c \in ElemAt(t.nodes[n], index)
    PROVE  t.nodes[n].elems[c] = L[p]
<1>1. Standing(t, h, B, L) /\ Counted(t, B) /\ n \in Nodes(t) /\ p \in Nat
  BY DEF ItemAt
<1>2. At(t, B, n, c, p)
  BY <1>1, ElemAtIs
<1> QED BY <1>1, <1>2, AtIs

--------------------------------------------------------------------------------
(*****************************************************************************)
(* The lists before and after a call.                                        *)
(*****************************************************************************)

\* The list of a tree between two calls: 2, 4, 6 and so on.
IsEvens(L) == L \in Seq(Int) /\ Len(L) \in Nat /\ Increasing(L) /\ \A i \in 1 .. Len(L) : L[i] = 2 * i

\* Such a list increases.
LEMMA EvensAre == ASSUME NEW n, n \in Nat PROVE IsEvens(Evens(n))
<1>1. Evens(n) \in Seq(Int) /\ Len(Evens(n)) = n /\ DOMAIN Evens(n) = 1 .. n
  BY DEF Evens
<1>2. \A i \in 1 .. n : Evens(n)[i] = 2 * i
  BY DEF Evens
<1>3. \A i, j \in 1 .. n : i < j => 2 * i < 2 * j
  OBVIOUS
<1>4. Increasing(Evens(n))
  BY <1>1, <1>2, <1>3 DEF Increasing
<1> QED BY <1>1, <1>2, <1>4 DEF IsEvens

\* The keys a call may have.  An even one is in the tree,
IsKey(L, e) == e \in Int /\ 1 <= e /\ e <= 2 * Len(L) + 1

\* Halves of even and odd numbers.
LEMMA HalfOf ==
    ASSUME NEW e, e \in Int, NEW i, i \in Int
    PROVE  /\ e = 2 * i => e % 2 = 0 /\ e \div 2 = i
           /\ e = 2 * i + 1 => e % 2 = 1 /\ e \div 2 = i
OBVIOUS

\* at the position that is half of it;
LEMMA EvenKey ==
    ASSUME NEW L, IsEvens(L), NEW e, IsKey(L, e), NEW p, p \in 1 .. Len(L), L[p] = e
    PROVE  e % 2 = 0 /\ e \div 2 = p
<1>1. e \in Int /\ p \in Int /\ e = 2 * p
  BY DEF IsEvens, IsKey
<1> QED BY <1>1, HalfOf

\* ... an odd one belongs in a gap.
LEMMA OddKey ==
    ASSUME NEW L, IsEvens(L), NEW e, IsKey(L, e), NEW i, i \in 0 .. Len(L), Between(L, e, i, i + 1)
    PROVE  e % 2 = 1 /\ e \div 2 = i
<1>1. PICK m : m = Len(L)
  OBVIOUS
<1>2. m \in Nat /\ i \in 0 .. m /\ e \in Int /\ 1 <= e /\ e <= 2 * m + 1
  BY <1>1 DEF IsEvens, IsKey
<1>3. i \in 1 .. m => 2 * i < e
  <2>1. HAVE i \in 1 .. m
  <2>2. L[i] < e /\ L[i] = 2 * i
    BY <1>1, <2>1 DEF Between, IsEvens
  <2> QED BY <2>2
<1>4. i + 1 \in 1 .. m => 2 * (i + 1) > e
  <2>1. HAVE i + 1 \in 1 .. m
  <2>2. L[i + 1] > e /\ L[i + 1] = 2 * (i + 1)
    BY <1>1, <1>2, <2>1 DEF Between, IsEvens
  <2> QED BY <2>2
<1>5. e = 2 * i + 1
  BY ONLY <1>2, <1>3, <1>4
<1> QED BY <1>2, <1>5, HalfOf

\* An item less, and one more where it belongs, leaves a list in order.
LEMMA LessIncreases ==
    ASSUME NEW L, L \in Seq(Int), Increasing(L), NEW p, p \in 1 .. Len(L)
    PROVE  Increasing(RemoveAt(L, p))
<1>1. PICK G : G = RemoveAt(L, p)
  OBVIOUS
<1>2. PICK m : m = Len(L)
  OBVIOUS
<1>3. m \in Nat /\ p \in 1 .. m /\ DOMAIN L = 1 .. m
  BY <1>2
<1>4. G \in Seq(Int) /\ Len(G) = m - 1 /\ \A j \in 1 .. m - 1 : G[j] = IF j < p THEN L[j] ELSE L[j + 1]
  BY <1>1, <1>2, RemovedAt
<1>5. DOMAIN G = 1 .. m - 1
  BY <1>4
<1>6. ASSUME NEW i \in 1 .. m - 1, NEW j \in 1 .. m - 1, i < j
      PROVE  G[i] < G[j]
  <2>1. PICK a, b : a = (IF i < p THEN i ELSE i + 1) /\ b = (IF j < p THEN j ELSE j + 1)
    OBVIOUS
  <2>2. a \in 1 .. m /\ b \in 1 .. m /\ a < b
    BY ONLY <1>3, <1>6, <2>1
  <2>3. G[i] = L[a] /\ G[j] = L[b]
    BY <1>4, <2>1
  <2> QED BY <1>3, <2>2, <2>3 DEF Increasing
<1> QED BY <1>1, <1>5, <1>6 DEF Increasing

\* A new element between its neighbours.
LEMMA MoreIncreases ==
    ASSUME NEW L, L \in Seq(Int), Increasing(L), NEW i, i \in 0 .. Len(L), NEW e, e \in Int, Between(L, e, i, i + 1)
    PROVE  Increasing(InsertAt(L, i + 1, e))
<1>1. PICK G : G = InsertAt(L, i + 1, e)
  OBVIOUS
<1>2. PICK m : m = Len(L)
  OBVIOUS
<1>3. m \in Nat /\ i \in 0 .. m /\ DOMAIN L = 1 .. m /\ i + 1 \in 1 .. m + 1
  BY <1>2
<1>4. IsInserted(G, Int, L, i + 1, e)
  BY <1>1, <1>2, <1>3, InsertedIs
<1>5. /\ G \in Seq(Int) /\ Len(G) = m + 1 /\ DOMAIN G = 1 .. m + 1
      /\ \A j \in 1 .. i : G[j] = L[j]
      /\ G[i + 1] = e
      /\ \A j \in i + 1 .. m : G[j + 1] = L[j]
  BY <1>2, <1>3, <1>4 DEF IsInserted
<1>6. /\ \A j \in 1 .. i : L[j] < e
      /\ \A j \in i + 1 .. m : L[j] > e
  BY <1>2, <1>3 DEF Between
<1>7. \A j, k \in 1 .. m : j < k => L[j] < L[k]
  BY <1>3 DEF Increasing
<1>8. ASSUME NEW a \in 1 .. m + 1, NEW b \in 1 .. m + 1, a < b
      PROVE  G[a] < G[b]
  <2>1. CASE b <= i
    <3>1. a \in 1 .. i /\ b \in 1 .. i /\ a \in 1 .. m /\ b \in 1 .. m
      BY ONLY <1>3, <1>8, <2>1
    <3> QED BY <1>5, <1>7, <1>8, <3>1
  <2>2. CASE b = i + 1
    <3>1. a \in 1 .. i
      BY ONLY <1>3, <1>8, <2>2
    <3> QED BY <1>5, <1>6, <2>2, <3>1
  <2>3. CASE b > i + 1
    <3>1. PICK k : k = b - 1
      OBVIOUS
    <3>2. k \in i + 1 .. m /\ k \in 1 .. m /\ b = k + 1
      BY ONLY <1>3, <1>8, <2>3, <3>1
    <3>3. G[b] = L[k]
      BY <1>5, <3>2
    <3>4. CASE a <= i
      <4>1. a \in 1 .. i /\ a \in 1 .. m /\ a < k
        BY ONLY <1>3, <1>8, <3>2, <3>4
      <4>2. G[a] = L[a] /\ L[a] < L[k]
        BY <1>5, <1>7, <3>2, <4>1
      <4> QED BY <3>3, <4>2
    <3>5. CASE a = i + 1
      BY <1>5, <1>6, <3>2, <3>3, <3>5
    <3>6. CASE a > i + 1
      <4>1. PICK d : d = a - 1
        OBVIOUS
      <4>2. d \in i + 1 .. m /\ d \in 1 .. m /\ a = d + 1 /\ d < k
        BY ONLY <1>3, <1>8, <3>2, <3>6, <4>1
      <4>3. G[a] = L[d] /\ L[d] < L[k]
        BY <1>5, <1>7, <3>2, <4>2
      <4> QED BY <3>3, <4>3
    <3> QED BY <1>3, <3>4, <3>5, <3>6
  <2> QED BY <1>3, <2>1, <2>2, <2>3
<1> QED BY <1>1, <1>5, <1>8 DEF Increasing

\* A single item, put in and taken out.
LEMMA OnlyItem ==
    ASSUME NEW L, L \in Seq(Int)
    PROVE  /\ Len(L) = 1 => RemoveAt(L, 1) = <<>>
           /\ L = <<>> => \A e \in Int : InsertAt(L, 1, e) = <<e>>
<1>1. ASSUME Len(L) = 1 PROVE RemoveAt(L, 1) = <<>>
  <2>1. PICK w : w = RemoveAt(L, 1)
    OBVIOUS
  <2>2. 1 \in 1 .. Len(L)
    BY <1>1
  <2>3. w \in Seq(Int) /\ Len(w) = Len(L) - 1
    BY <2>1, <2>2, RemovedAt
  <2>4. Len(w) = 0
    BY <1>1, <2>3
  <2> QED BY <2>1, <2>3, <2>4
<1>2. ASSUME L = <<>>, NEW e \in Int PROVE InsertAt(L, 1, e) = <<e>>
  <2>1. Len(L) = 0 /\ 1 \in 1 .. Len(L) + 1
    BY <1>2
  <2>2. IsInserted(InsertAt(L, 1, e), Int, L, 1, e)
    BY <1>2, <2>1, InsertedIs
  <2>3. PICK w : w = InsertAt(L, 1, e)
    OBVIOUS
  <2>4. w \in Seq(Int) /\ Len(w) = 1 /\ w[1] = e
    BY <2>1, <2>2, <2>3 DEF IsInserted
  <2>5. w = <<e>>
    BY ONLY <2>4
  <2> QED BY <2>3, <2>5
<1> QED BY <1>1, <1>2

\* The tree is whole and lists G.
Good(t, G) == \E h, B : Whole(t, h, B, G)

\* A tree in order with a list that increases is whole,
LEMMA SettledIsGood ==
    ASSUME NEW t, NEW G, Settled(t, G), t.sorted => Increasing(G)
    PROVE  Good(t, G)
BY DEF Settled, Good, Whole

\* and the other way round.
LEMMA GoodIsSettled ==
    ASSUME NEW t, NEW G, Good(t, G)
    PROVE  Settled(t, G) /\ (t.sorted => Increasing(G)) /\ G \in Seq(Int) /\ Len(G) \in Nat
<1>1. PICK h, B : Whole(t, h, B, G)
  BY DEF Good
<1>2. Standing(t, h, B, G) /\ Counted(t, B) /\ Sized(t) /\ (t.sorted => Increasing(G))
  BY <1>1 DEF Whole
<1>3. G \in Seq(Int)
  BY <1>2 DEF Standing, Layout
<1>4. Len(G) \in Nat
  BY <1>3
<1> QED BY <1>2, <1>3, <1>4 DEF Settled

\* What chknode, the list and the count say of a whole tree.
LEMMA GoodIs ==
    ASSUME NEW t, NEW G, Good(t, G)
    PROVE  Sound(t) /\ Elements(t) = G /\ count234(t) = Len(G)
<1>1. PICK h, B : Whole(t, h, B, G)
  BY DEF Good
<1> QED BY <1>1, WholeIsSound

\* Renamed gives it the list 2, 4, 6 and so on.
LEMMA GoodRenamed ==
    ASSUME NEW t, NEW G, Good(t, G)
    PROVE  \E L : IsEvens(L) /\ Good(Renamed(t), L)
<1>1. PICK h, B : Whole(t, h, B, G)
  BY DEF Good
<1>2. PICK u : u = Renamed(t)
  OBVIOUS
<1>3. \E h2, B2 : Whole(u, h2, B2, Evens(Len(G)))
  BY <1>1, <1>2, RenamedIsWhole
<1>4. Len(G) \in Nat
  BY <1>1 DEF Whole, Standing, Layout
<1>5. IsEvens(Evens(Len(G)))
  BY <1>4, EvensAre
<1> QED BY <1>2, <1>3, <1>5 DEF Good

\* A new tree is whole and empty.
LEMMA GoodWhenNew ==
    ASSUME NEW b, b \in BOOLEAN
    PROVE  Good(newtree234(b), <<>>) /\ IsEvens(<<>>) /\ newtree234(b).root = NULL
<1>1. PICK u : u = newtree234(b)
  OBVIOUS
<1>2. u = [root |-> NULL, nodes |-> <<>>, sorted |-> b] /\ NULL = 0
  BY <1>1 DEF newtree234, NULL
<1>3. u.nodes = <<>> /\ u.root = 0 /\ u.sorted = b
  BY <1>2
<1>4. Nodes(u) = {}
  BY <1>3 DEF Nodes
<1>5. u.nodes \in Heaps(Nodes(u))
  BY <1>3, <1>4 DEF Heaps
<1>6. u \in [root : Nat, nodes : Heaps(Nodes(u)), sorted : BOOLEAN]
  <2>1. PICK S : S = Heaps(Nodes(u))
    OBVIOUS
  <2>2. <<>> \in S
    BY <1>3, <1>5, <2>1
  <2>3. u \in [root : Nat, nodes : S, sorted : BOOLEAN]
    BY <1>2, <2>2
  <2> QED BY <2>1, <2>3
<1>7. IsFiniteSet({})
  BY FS_EmptySet
<1>8. IsTree(u)
  BY <1>4, <1>6, <1>7 DEF IsTree
<1>9. \E h, B : Standing(u, h, B, <<>>) /\ Counted(u, B) /\ Sized(u)
  BY <1>2, <1>3, <1>4, <1>8, NoNodes
<1>10. Increasing(<<>>) /\ IsEvens(<<>>)
  BY DEF Increasing, IsEvens
<1> QED BY <1>1, <1>2, <1>3, <1>9, <1>10 DEF Good, Whole

--------------------------------------------------------------------------------
\* What a call does to the list: the new element goes to gap i,
Adding(t, c, i) ==
    /\ IsEvens(c.list) /\ c.e \in Int /\ i \in 0 .. Len(c.list)
    /\ \/ /\ c.op = "add" /\ t.sorted /\ c.e % 2 = 1 /\ i = c.e \div 2
          /\ Between(c.list, c.e, i, i + 1)
       \/ c.op = "addpos" /\ ~ t.sorted /\ i = c.index
With(c, i) == InsertAt(c.list, i + 1, c.e)

\* the element at position i is taken out,
Deleting(t, c, i) ==
    /\ IsEvens(c.list) /\ i \in 1 .. Len(c.list)
    /\ \/ c.op = "del" /\ t.sorted /\ c.e % 2 = 0 /\ i = c.e \div 2
       \/ c.op = "delpos" /\ c.index \in Int /\ i = c.index + 1
Without(c, i) == RemoveAt(c.list, i)

\* or the one at position i is asked for, which may be none.
Asking(c, i) ==
    /\ IsEvens(c.list) /\ i \in Int
    /\ \/ c.op = "index" /\ i = c.index + 1 /\ c.index \in Int
       \/ c.op = "findrel" /\ IsNearest(c.list, c.relation, c.e, i)
Item(c, i) == IF i \in 1 .. Len(c.list) THEN Found(c.list[i], i - 1) ELSE NotFound

\* A call that has nothing to do, and what it returns.
Refusing(t, c, ret) ==
    /\ IsEvens(c.list)
    /\ \/ c.op = "add" /\ ~ t.sorted /\ ret = NULL
       \/ c.op = "add" /\ t.sorted /\ c.e % 2 = 0 /\ ret = c.e
       \/ c.op = "addpos" /\ t.sorted /\ ret = NULL
       \/ c.op = "del" /\ c.e % 2 = 1 /\ ret = NULL
       \/ c.op = "delpos" /\ c.index \in Int /\ ~ (c.index < Len(c.list)) /\ ret = NULL

\* Adding depends on the order of the tree only, and keeps a sorted list sorted.
LEMMA AddingIs ==
    ASSUME NEW t, NEW c, NEW i, Adding(t, c, i), NEW u, u.sorted = t.sorted
    PROVE  Adding(u, c, i) /\ (u.sorted => Increasing(With(c, i)))
<1>1. Adding(u, c, i)
  BY DEF Adding
<1>2. ASSUME u.sorted PROVE Increasing(With(c, i))
  <2>1. /\ c.list \in Seq(Int) /\ Increasing(c.list) /\ i \in 0 .. Len(c.list) /\ c.e \in Int
        /\ Between(c.list, c.e, i, i + 1)
    BY <1>1, <1>2 DEF Adding, IsEvens
  <2>2. Increasing(InsertAt(c.list, i + 1, c.e))
    BY <2>1, MoreIncreases
  <2> QED BY <2>2 DEF With
<1> QED BY <1>1, <1>2

\* So does deleting.
LEMMA DeletingIs ==
    ASSUME NEW t, NEW c, NEW i, Deleting(t, c, i), NEW u, u.sorted = t.sorted
    PROVE  Deleting(u, c, i) /\ Increasing(Without(c, i)) /\ c.list[i] # NULL /\ c.list[i] \in Int
<1>1. Deleting(u, c, i)
  BY DEF Deleting
<1>2. c.list \in Seq(Int) /\ Increasing(c.list) /\ i \in 1 .. Len(c.list) /\ c.list[i] = 2 * i
  BY <1>1 DEF Deleting, IsEvens
<1>3. Increasing(RemoveAt(c.list, i))
  BY <1>2, LessIncreases
<1>4. 2 * i # 0 /\ 2 * i \in Int
  BY <1>2
<1> QED BY <1>1, <1>2, <1>3, <1>4 DEF Without, NULL

--------------------------------------------------------------------------------
(*****************************************************************************)
(* The inductive invariant: what is true in each phase of a call.            *)
(*****************************************************************************)

\* Where a call with its arguments is: between two calls,
AtRest(t, p) == p = Rest /\ \E L : IsEvens(L) /\ Good(t, L)

\* on the way to an index,
InGet(t, c, p) == \E h, B, n, i :
    /\ p = Getting(n, i - Lo(B[n]) - 1, i - 1)
    /\ ItemAt(t, h, B, c.list, i, n) /\ i \in 1 .. Len(c.list) /\ Asking(c, i)

\* or to a key,
InFind(t, c, p) == \E h, B, n :
    /\ p = Finding(n, Lo(B[n])) /\ KeyAt(t, h, B, c.list, c.e, n) /\ t.sorted /\ IsEvens(c.list)
    /\ \/ c.op = "del" /\ IsKey(c.list, c.e)
       \/ c.op = "findrel" /\ c.e # NULL /\ c.relation \in Relations

\* or to the place of a new element, by key or by index,
InPlace(t, c, p) == \E h, B, n :
    /\ IsEvens(c.list)
    /\ \/ /\ p = Placing(n, -1) /\ c.op = "add" /\ t.sorted
          /\ KeyAt(t, h, B, c.list, c.e, n) /\ IsKey(c.list, c.e)
       \/ /\ p = Placing(n, c.index - Lo(B[n])) /\ c.op = "addpos" /\ ~ t.sorted
          /\ GapAt(t, h, B, c.list, c.index, n) /\ c.index \in 0 .. Len(c.list) /\ c.e \in Int

\* putting it in,
InPut(t, c, p) == \E n, kid, left, e, right, i :
    /\ p = Putting(n, kid, left, e, right) /\ Adding(t, c, i)
    /\ IF n = NULL THEN PutOver(t, With(c, i), left, e, right)
       ELSE PutAt(t, With(c, i), n, kid, left, e, right)

\* and going up with the counts;
InRecount(t, c, p) == \E n, i :
    p = Recounting(n) /\ Adding(t, c, i) /\ Climbing(t, -1, With(c, i), n)

\* on the way to the element to delete, item q of a list that is without it what the call's
\* list is without item i,
Losing(c, i, G, q, ret) ==
    /\ G \in Seq(Int) /\ Len(G) = Len(c.list) /\ RemoveAt(G, q) = Without(c, i)
    /\ IF ret = NULL THEN G[q] = c.list[i] ELSE ret = c.list[i]

InSeek(t, c, p) == \E n, index, ret, h, B, G, q, i :
    /\ p = Seeking(n, index, ret) /\ SeekAt(t, h, B, G, n, q, index)
    /\ Deleting(t, c, i) /\ Losing(c, i, G, q, ret)

\* or to its neighbour,
InNear(t, c, p) == \E n, elem, m, left, ret, h, B, G, q, i :
    /\ p = Nearing(n, elem, m, left, ret) /\ NearAt(t, h, B, G, n, elem, m, left, q)
    /\ Deleting(t, c, i) /\ Losing(c, i, G, q, ret) /\ ret # NULL

\* and going up with the counts.
InDecrease(t, c, p) == \E n, i :
    p = Decreasing(n, c.list[i]) /\ Deleting(t, c, i) /\ Climbing(t, 1, Without(c, i), n)

\* It has returned.
HasReturned(t, c, p) ==
    \/ \E i : Adding(t, c, i) /\ p = Done(c.e) /\ Good(t, With(c, i))
    \/ \E i : Deleting(t, c, i) /\ p = Done(c.list[i]) /\ Good(t, Without(c, i))
    \/ \E i : Asking(c, i) /\ p = Item(c, i) /\ Good(t, c.list)
    \/ \E ret : Refusing(t, c, ret) /\ p = Done(ret) /\ Good(t, c.list)

Phases(t, c, p) ==
    \/ AtRest(t, p) \/ InGet(t, c, p) \/ InFind(t, c, p) \/ InPlace(t, c, p) \/ InPut(t, c, p)
    \/ InRecount(t, c, p) \/ InSeek(t, c, p) \/ InNear(t, c, p) \/ InDecrease(t, c, p)
    \/ HasReturned(t, c, p)

\* Which phase a pc belongs to.
LEMMA PhaseOf ==
    ASSUME NEW t, NEW c, NEW p, Phases(t, c, p)
    PROVE  /\ AtRest(t, p) => p.in = "rest"
           /\ InGet(t, c, p) => p.in = "index234"
           /\ InFind(t, c, p) => p.in = "findrelpos234"
           /\ InPlace(t, c, p) => p.in = "place"
           /\ InPut(t, c, p) => p.in = "put"
           /\ InRecount(t, c, p) => p.in = "recount"
           /\ InSeek(t, c, p) => p.in = "seek"
           /\ InNear(t, c, p) => p.in = "near"
           /\ InDecrease(t, c, p) => p.in = "decrease"
           /\ HasReturned(t, c, p) => p.in = "returned"
<1>1. AtRest(t, p) => p.in = "rest"
  BY DEF AtRest, Rest
<1>2. InGet(t, c, p) => p.in = "index234"
  BY DEF InGet, Getting
<1>3. InFind(t, c, p) => p.in = "findrelpos234"
  BY DEF InFind, Finding
<1>4. InPlace(t, c, p) => p.in = "place"
  BY DEF InPlace, Placing
<1>5. InPut(t, c, p) => p.in = "put"
  BY DEF InPut, Putting
<1>6. InRecount(t, c, p) => p.in = "recount"
  BY DEF InRecount, Recounting
<1>7. InSeek(t, c, p) => p.in = "seek"
  BY DEF InSeek, Seeking
<1>8. InNear(t, c, p) => p.in = "near"
  BY DEF InNear, Nearing
<1>9. InDecrease(t, c, p) => p.in = "decrease"
  BY DEF InDecrease, Decreasing
<1>10. HasReturned(t, c, p) => p.in = "returned"
  BY DEF HasReturned, Done, Item, Found, NotFound
<1> QED BY <1>1, <1>2, <1>3, <1>4, <1>5, <1>6, <1>7, <1>8, <1>9, <1>10

Agreed == AddAgrees /\ DeleteAgrees /\ FindAgrees

\* Nothing is promised of a call that has not returned.
LEMMA NotYet ==
    ASSUME pc.in # "returned"
    PROVE  Agreed
BY DEF Agreed, AddAgrees, DeleteAgrees, FindAgrees, Returns

\* Found and Done are not mistaken for one another.
LEMMA ReturnsAre ==
    ASSUME NEW ret, NEW index
    PROVE  /\ Done(ret).in = "returned" /\ Done(ret).ret = ret
           /\ Found(ret, index).in = "returned" /\ Found(ret, index).ret = ret
           /\ NotFound = Found(NULL, -1)
BY DEF Done, Found, NotFound

\* A call that has added its element has done so as the specification says.
LEMMA AddedAgrees ==
    ASSUME NEW i, Adding(tree, call, i), pc = Done(call.e), Good(tree, With(call, i))
    PROVE  Agreed
<1>1. pc.in = "returned" /\ pc.ret = call.e
  BY ReturnsAre
<1>2. Holds(InsertAt(call.list, i + 1, call.e))
  BY GoodIs DEF Holds, With
<1>3. CASE call.op = "add" /\ tree.sorted /\ call.e % 2 = 1 /\ i = call.e \div 2
  BY <1>1, <1>2, <1>3 DEF Agreed, AddAgrees, DeleteAgrees, FindAgrees, Returns
<1>4. CASE call.op = "addpos" /\ ~ tree.sorted /\ i = call.index
  BY <1>1, <1>2, <1>4 DEF Agreed, AddAgrees, DeleteAgrees, FindAgrees, Returns
<1> QED BY <1>3, <1>4 DEF Adding

\* So has one that has deleted it,
LEMMA DeletedAgrees ==
    ASSUME NEW i, Deleting(tree, call, i), pc = Done(call.list[i]), Good(tree, Without(call, i))
    PROVE  Agreed
<1>1. pc.in = "returned" /\ pc.ret = call.list[i]
  BY ReturnsAre
<1>2. Holds(RemoveAt(call.list, i))
  BY GoodIs DEF Holds, Without
<1>3. CASE call.op = "del" /\ call.e % 2 = 0 /\ i = call.e \div 2
  BY <1>1, <1>2, <1>3 DEF Agreed, AddAgrees, DeleteAgrees, FindAgrees, Returns
<1>4. CASE call.op = "delpos" /\ call.index \in Int /\ i = call.index + 1
  <2>1. PICK m : m = Len(call.list)
    OBVIOUS
  <2>2. m \in Nat /\ i \in 1 .. m
    BY <2>1 DEF Deleting, IsEvens
  <2>3. call.index < m
    BY <1>4, <2>2
  <2> QED BY <1>1, <1>2, <1>4, <2>1, <2>3 DEF Agreed, AddAgrees, DeleteAgrees, FindAgrees, Returns
<1> QED BY <1>3, <1>4 DEF Deleting

\* one that has found it or found none,
LEMMA ItemAgrees ==
    ASSUME NEW i, Asking(call, i), pc = Item(call, i)
    PROVE  Agreed
<1> DEFINE L == call.list
           item(j) == IF j \in DOMAIN L THEN L[j] ELSE NULL
<1>1. L \in Seq(Int) /\ i \in Int /\ DOMAIN L = 1 .. Len(L) /\ Len(L) \in Nat
  BY DEF Asking, IsEvens
<1>2. pc.in = "returned" /\ pc.ret = item(i)
  BY <1>1, ReturnsAre DEF Item
<1>3. CASE call.op = "index" /\ i = call.index + 1
  BY <1>2, <1>3 DEF Agreed, AddAgrees, DeleteAgrees, FindAgrees, Returns
<1>4. CASE call.op = "findrel" /\ IsNearest(L, call.relation, call.e, i)
  <2>1. Nearest(L, call.relation, call.e) = i
    BY <1>1, <1>4, NearestIs
  <2>2. pc = Found(item(i), i - 1)
    <3>1. CASE i \in 1 .. Len(L)
      BY <1>1, <3>1 DEF Item
    <3>2. CASE i \notin 1 .. Len(L)
      <4>1. i = 0
        BY <1>1, <1>4, <3>2 DEF IsNearest
      <4> QED BY <1>1, <3>2, <4>1, ReturnsAre DEF Item
    <3> QED BY <3>1, <3>2
  <2> QED BY <1>4, <2>1, <2>2 DEF Agreed, AddAgrees, DeleteAgrees, FindAgrees, Returns
<1> QED BY <1>3, <1>4 DEF Asking

\* and one that had nothing to do.
LEMMA RefusedAgrees ==
    ASSUME NEW ret, Refusing(tree, call, ret), pc = Done(ret), Good(tree, call.list)
    PROVE  Agreed
<1>1. pc.in = "returned" /\ pc.ret = ret
  BY ReturnsAre
<1>2. Holds(call.list)
  BY GoodIs DEF Holds
<1>3. CASE call.op = "add"
  BY <1>1, <1>2, <1>3 DEF Refusing, Agreed, AddAgrees, DeleteAgrees, FindAgrees, Returns
<1>4. CASE call.op = "addpos"
  BY <1>1, <1>2, <1>4 DEF Refusing, Agreed, AddAgrees, DeleteAgrees, FindAgrees, Returns
<1>5. CASE call.op = "del"
  BY <1>1, <1>2, <1>5 DEF Refusing, Agreed, AddAgrees, DeleteAgrees, FindAgrees, Returns
<1>6. CASE call.op = "delpos"
  BY <1>1, <1>2, <1>6 DEF Refusing, Agreed, AddAgrees, DeleteAgrees, FindAgrees, Returns
<1> QED BY <1>3, <1>4, <1>5, <1>6 DEF Refusing

\* What has returned has done what was asked.
LEMMA PhasesAgree ==
    ASSUME Phases(tree, call, pc)
    PROVE  Agreed
<1>1. CASE HasReturned(tree, call, pc)
  BY <1>1, AddedAgrees, DeletedAgrees, ItemAgrees, RefusedAgrees DEF HasReturned
<1>2. CASE ~ HasReturned(tree, call, pc)
  <2>1. pc.in # "returned"
    BY <1>2, PhaseOf DEF Phases
  <2> QED BY <2>1, NotYet
<1> QED BY <1>1, <1>2

--------------------------------------------------------------------------------
(*****************************************************************************)
(* Each call begins in a phase.                                              *)
(*****************************************************************************)

\* What is found at once or looked up.
LEMMA AnswerGoes ==
    ASSUME NEW t, NEW c, NEW i, Asking(c, i), Settled(t, c.list), NEW r, Answered(r, t, c.list, i)
    PROVE  Phases(t, c, r)
<1>1. PICK h, B : Standing(t, h, B, c.list) /\ Counted(t, B) /\ Sized(t)
  BY DEF Settled
<1>2. i \in Int /\ IsEvens(c.list)
  BY DEF Asking
<1>3. CASE r = Item(c, i)
  <2>1. Good(t, c.list)
    BY <1>2, SettledIsGood DEF IsEvens
  <2> QED BY <1>3, <2>1 DEF HasReturned, Phases
<1>4. CASE r # Item(c, i)
  <2>1. i \in 1 .. Len(c.list) /\ r = Getting(t.root, i - 1, i - 1)
    BY <1>4 DEF Answered, Item
  <2>2. ItemAt(t, h, B, c.list, i, t.root) /\ Lo(B[t.root]) = 0
    BY <1>1, <2>1, ItemBegins
  <2>3. i - Lo(B[t.root]) - 1 = i - 1
    BY <1>2, <2>2
  <2> QED BY <2>1, <2>2, <2>3 DEF InGet, Phases
<1> QED BY <1>3, <1>4

\* A call begins.
Begins(t, op, e, index, relation, c) ==
    /\ Good(t, c.list) /\ IsEvens(c.list)
    /\ c.op = op /\ c.e = e /\ c.index = index /\ c.relation = relation
    /\ count234(t) = Len(c.list)

\* Every call remembers its arguments and the list it found, and leaves the tree.
LEMMA CallBegins ==
    ASSUME AtRest(tree, pc), NEW op, NEW e, NEW index, NEW relation, NEW first, Call(op, e, index, relation, first)
    PROVE  Begins(tree, op, e, index, relation, call') /\ pc' = first /\ tree' = tree
<1>1. PICK L : IsEvens(L) /\ Good(tree, L)
  BY DEF AtRest
<1>2. Elements(tree) = L /\ count234(tree) = Len(L)
  BY <1>1, GoodIs
<1>3. /\ call' = [op |-> op, e |-> e, index |-> index, relation |-> relation, list |-> L]
      /\ pc' = first /\ tree' = tree
  BY <1>2 DEF Call
<1> QED BY <1>1, <1>2, <1>3 DEF Begins

\* The keys of the model are the members of the list and the gaps between them.
LEMMA KeyIs ==
    ASSUME NEW L, IsEvens(L), count234(tree) = Len(L), NEW e, e \in Keys
    PROVE  IsKey(L, e) /\ e # NULL
<1>1. PICK m : m = Len(L)
  OBVIOUS
<1>2. m \in Nat /\ e \in 1 .. 2 * m + 1
  BY <1>1 DEF IsEvens, Keys
<1>3. e \in Int /\ 1 <= e /\ e <= 2 * m + 1 /\ e # 0
  BY ONLY <1>2
<1> QED BY <1>1, <1>3 DEF IsKey, NULL

\* index234 begins with the walk down, or finds no such index at once.
LEMMA IndexBegins ==
    ASSUME AtRest(tree, pc), Index
    PROVE  Phases(tree', call', pc')
<1>1. PICK i \in -1 .. MaxCount + 1 : Call("index", NULL, i, "EQ", index234(tree, i))
  BY DEF Index
<1>2. i \in Int
  BY <1>1, CountAssumption
<1>3. Begins(tree, "index", NULL, i, "EQ", call') /\ pc' = index234(tree, i) /\ tree' = tree
  BY <1>1, CallBegins
<1>4. PICK c, j, r : c = call' /\ j = i + 1 /\ r = index234(tree, i)
  OBVIOUS
<1>5. j \in Int /\ i = j - 1
  BY ONLY <1>2, <1>4
<1>6. Asking(c, j) /\ Good(tree, c.list)
  BY <1>2, <1>3, <1>4, <1>5 DEF Begins, Asking
<1>7. PICK h, B : Standing(tree, h, B, c.list) /\ Counted(tree, B)
  BY <1>6 DEF Good, Whole
<1>8. Answered(r, tree, c.list, j)
  BY <1>4, <1>5, <1>7, IndexAnswers
<1>9. Settled(tree, c.list)
  BY <1>6, GoodIsSettled
<1>10. Phases(tree, c, r)
  BY <1>6, <1>8, <1>9, AnswerGoes
<1> QED BY <1>3, <1>4, <1>10

\* A search by key begins at the root.
LEMMA FindBegins ==
    ASSUME NEW t, NEW op, NEW e, NEW index, NEW relation, NEW c, Begins(t, op, e, index, relation, c),
           t.sorted, t.root # NULL, e \in Int,
           \/ op = "del" /\ IsKey(c.list, e)
           \/ op = "findrel" /\ e # NULL /\ relation \in Relations
    PROVE  Phases(t, c, Finding(t.root, 0))
<1>1. Good(t, c.list) /\ IsEvens(c.list) /\ c.op = op /\ c.e = e /\ c.relation = relation
  BY DEF Begins
<1>2. PICK h, B : Standing(t, h, B, c.list) /\ Counted(t, B) /\ Sized(t)
  BY <1>1 DEF Good, Whole
<1>3. KeyAt(t, h, B, c.list, e, t.root) /\ Lo(B[t.root]) = 0
  BY <1>1, <1>2, KeyBegins DEF IsEvens
<1>4. InFind(t, c, Finding(t.root, 0))
  BY <1>1, <1>3 DEF InFind
<1> QED BY <1>4 DEF Phases

\* A tree without a root is empty.
LEMMA NoRoot ==
    ASSUME NEW t, NEW G, Good(t, G), t.root = NULL
    PROVE  G = <<>>
<1>1. PICK h, B : Standing(t, h, B, G)
  BY DEF Good, Whole
<1> QED BY <1>1 DEF Standing, Layout

\* findrelpos234 begins at the root, or is answered at once.
LEMMA FindRelBegins ==
    ASSUME AtRest(tree, pc), FindRel
    PROVE  Phases(tree', call', pc')
<1>1. PICK e \in Keys \cup {Lowest, Highest}, relation \in Relations :
         /\ tree.sorted
         /\ Call("findrel", e, -1, relation, IF tree.root = NULL THEN NotFound ELSE Finding(tree.root, 0))
  BY DEF FindRel
<1>2. PICK c, r : c = call' /\ r = pc'
  OBVIOUS
<1>3. /\ Begins(tree, "findrel", e, -1, relation, c) /\ tree' = tree
      /\ r = IF tree.root = NULL THEN NotFound ELSE Finding(tree.root, 0)
  BY <1>1, <1>2, CallBegins
<1>4. Good(tree, c.list) /\ IsEvens(c.list) /\ c.op = "findrel" /\ c.e = e /\ c.relation = relation
      /\ count234(tree) = Len(c.list)
  BY <1>3 DEF Begins
<1>5. e \in Int /\ e # NULL
  <2>1. CASE e \in Keys
    BY <1>4, <2>1, KeyIs DEF IsKey
  <2>2. CASE e \in {Lowest, Highest}
    <3>1. MaxCount \in Nat
      BY CountAssumption
    <3> QED BY <2>2, <3>1 DEF Lowest, Highest, NULL
  <2> QED BY <1>1, <2>1, <2>2
<1>6. CASE tree.root = NULL
  <2>1. c.list = <<>> /\ Len(c.list) = 0
    BY <1>4, <1>6, NoRoot
  <2>2. IsNearest(c.list, relation, e, 0)
    BY <2>1 DEF IsNearest
  <2>3. Asking(c, 0)
    BY <1>4, <2>2 DEF Asking
  <2>4. r = Item(c, 0)
    BY <1>3, <1>6, <2>1 DEF Item
  <2>5. HasReturned(tree, c, r)
    BY <1>4, <2>3, <2>4 DEF HasReturned
  <2> QED BY <1>2, <1>3, <2>5 DEF Phases
<1>7. CASE tree.root # NULL
  <2>1. Phases(tree, c, Finding(tree.root, 0))
    BY <1>1, <1>3, <1>5, <1>7, FindBegins
  <2> QED BY <1>2, <1>3, <1>7, <2>1
<1> QED BY <1>6, <1>7

\* The first element of a tree.
LEMMA FirstBegins ==
    ASSUME NEW t, NEW c, Good(t, c.list), t.root = NULL, NEW e, e = c.e, Adding(t, c, 0)
    PROVE  Phases(t, c, Putting(NULL, 0, NULL, e, NULL))
<1>1. c.list = <<>> /\ c.list \in Seq(Int) /\ e \in Int
  <2>1. c.list = <<>>
    BY NoRoot
  <2>2. c.list \in Seq(Int) /\ e \in Int
    BY DEF Adding, IsEvens
  <2> QED BY <2>1, <2>2
<1>2. With(c, 0) = <<e>>
  <2>1. InsertAt(c.list, 1, e) = <<e>>
    BY <1>1, OnlyItem
  <2>2. 0 + 1 = 1
    OBVIOUS
  <2> QED BY <2>1, <2>2 DEF With
<1>3. Settled(t, <<>>)
  BY <1>1, GoodIsSettled
<1>4. PutOver(t, With(c, 0), NULL, e, NULL)
  BY <1>1, <1>2, <1>3, PutFirst
<1>5. InPut(t, c, Putting(NULL, 0, NULL, e, NULL))
  BY <1>4 DEF InPut
<1> QED BY <1>5 DEF Phases

\* add234 begins at the root, makes the first node, or has nothing to do.
LEMMA AddBegins ==
    ASSUME AtRest(tree, pc), Add
    PROVE  Phases(tree', call', pc')
<1>1. PICK e \in Keys : Call("add", e, -1, "EQ", IF tree.sorted THEN add234_internal(tree, e, -1) ELSE Done(NULL))
  BY DEF Add
<1>2. PICK c, r : c = call' /\ r = pc'
  OBVIOUS
<1>3. /\ Begins(tree, "add", e, -1, "EQ", c) /\ tree' = tree
      /\ r = IF tree.sorted THEN add234_internal(tree, e, -1) ELSE Done(NULL)
  BY <1>1, <1>2, CallBegins
<1>4. Good(tree, c.list) /\ IsEvens(c.list) /\ c.op = "add" /\ c.e = e /\ count234(tree) = Len(c.list)
  BY <1>3 DEF Begins
<1>5. IsKey(c.list, e) /\ e \in Int
  BY <1>1, <1>4, KeyIs DEF IsKey
<1>6. CASE ~ tree.sorted
  <2>1. Refusing(tree, c, NULL) /\ r = Done(NULL)
    BY <1>3, <1>4, <1>6 DEF Refusing
  <2>2. HasReturned(tree, c, r)
    BY <1>4, <2>1 DEF HasReturned
  <2> QED BY <1>2, <1>3, <2>2 DEF Phases
<1>7. CASE tree.sorted /\ tree.root = NULL
  <2>1. c.list = <<>> /\ Len(c.list) = 0
    BY <1>4, <1>7, NoRoot
  <2>2. Between(c.list, e, 0, 0 + 1) /\ 0 \in 0 .. Len(c.list)
    BY <2>1 DEF Between
  <2>3. e % 2 = 1 /\ e \div 2 = 0
    BY <1>4, <1>5, <2>2, OddKey
  <2>4. Adding(tree, c, 0)
    BY <1>4, <1>5, <1>7, <2>2, <2>3 DEF Adding
  <2>5. r = Putting(NULL, 0, NULL, e, NULL)
    BY <1>3, <1>7 DEF add234_internal
  <2>6. Phases(tree, c, r)
    BY <1>4, <1>7, <2>4, <2>5, FirstBegins
  <2> QED BY <1>2, <1>3, <2>6
<1>8. CASE tree.sorted /\ tree.root # NULL
  <2>1. PICK h, B : Standing(tree, h, B, c.list) /\ Counted(tree, B) /\ Sized(tree)
    BY <1>4 DEF Good, Whole
  <2>2. KeyAt(tree, h, B, c.list, e, tree.root)
    BY <1>4, <1>5, <1>8, <2>1, KeyBegins DEF IsEvens
  <2>3. r = Placing(tree.root, -1)
    BY <1>3, <1>8 DEF add234_internal
  <2>4. InPlace(tree, c, r)
    BY <1>4, <1>5, <1>8, <2>2, <2>3 DEF InPlace
  <2> QED BY <1>2, <1>3, <2>4 DEF Phases
<1> QED BY <1>6, <1>7, <1>8

\* addpos234 begins likewise, with an index.
LEMMA AddPosBegins ==
    ASSUME AtRest(tree, pc), AddPos
    PROVE  Phases(tree', call', pc')
<1>1. PICK i \in 0 .. count234(tree) :
         Call("addpos", Fresh, i, "EQ", IF tree.sorted THEN Done(NULL) ELSE add234_internal(tree, Fresh, i))
  BY DEF AddPos
<1>2. PICK c, r, e : c = call' /\ r = pc' /\ e = Fresh
  OBVIOUS
<1>3. /\ Begins(tree, "addpos", e, i, "EQ", c) /\ tree' = tree
      /\ r = IF tree.sorted THEN Done(NULL) ELSE add234_internal(tree, e, i)
  BY <1>1, <1>2, CallBegins
<1>4. /\ Good(tree, c.list) /\ IsEvens(c.list) /\ c.op = "addpos" /\ c.e = e /\ c.index = i
      /\ count234(tree) = Len(c.list)
  BY <1>3 DEF Begins
<1>5. e \in Int /\ i \in 0 .. Len(c.list)
  <2>1. PICK m : m = Len(c.list)
    OBVIOUS
  <2>2. m \in Nat /\ e = 2 * m + 1
    BY <1>2, <1>4, <2>1 DEF IsEvens, Fresh
  <2> QED BY <1>1, <1>4, <2>2
<1>6. CASE tree.sorted
  <2>1. Refusing(tree, c, NULL) /\ r = Done(NULL)
    BY <1>3, <1>4, <1>6 DEF Refusing
  <2>2. HasReturned(tree, c, r)
    BY <1>4, <2>1 DEF HasReturned
  <2> QED BY <1>2, <1>3, <2>2 DEF Phases
<1>7. CASE ~ tree.sorted /\ tree.root = NULL
  <2>1. c.list = <<>> /\ Len(c.list) = 0
    BY <1>4, <1>7, NoRoot
  <2>2. i = 0
    BY <1>5, <2>1
  <2>3. Adding(tree, c, 0)
    BY <1>4, <1>5, <1>7, <2>2 DEF Adding
  <2>4. r = Putting(NULL, 0, NULL, e, NULL)
    BY <1>3, <1>7 DEF add234_internal
  <2>5. Phases(tree, c, r)
    BY <1>4, <1>7, <2>3, <2>4, FirstBegins
  <2> QED BY <1>2, <1>3, <2>5
<1>8. CASE ~ tree.sorted /\ tree.root # NULL
  <2>1. PICK h, B : Standing(tree, h, B, c.list) /\ Counted(tree, B) /\ Sized(tree)
    BY <1>4 DEF Good, Whole
  <2>2. GapAt(tree, h, B, c.list, i, tree.root) /\ Lo(B[tree.root]) = 0
    BY <1>5, <1>8, <2>1, GapBegins
  <2>3. r = Placing(tree.root, i)
    BY <1>3, <1>8 DEF add234_internal
  <2>4. i - Lo(B[tree.root]) = i
    BY <1>1, <1>5, <2>2
  <2>5. InPlace(tree, c, r)
    BY <1>4, <1>5, <1>8, <2>2, <2>3, <2>4 DEF InPlace
  <2> QED BY <1>2, <1>3, <2>5 DEF Phases
<1> QED BY <1>6, <1>7, <1>8

\* del234 begins with the search by key.
LEMMA DelBegins ==
    ASSUME AtRest(tree, pc), Del
    PROVE  Phases(tree', call', pc')
<1>1. PICK e \in Keys :
         /\ tree.sorted
         /\ Call("del", e, -1, "EQ", IF tree.root = NULL THEN Done(NULL) ELSE Finding(tree.root, 0))
  BY DEF Del
<1>2. PICK c, r : c = call' /\ r = pc'
  OBVIOUS
<1>3. /\ Begins(tree, "del", e, -1, "EQ", c) /\ tree' = tree
      /\ r = IF tree.root = NULL THEN Done(NULL) ELSE Finding(tree.root, 0)
  BY <1>1, <1>2, CallBegins
<1>4. Good(tree, c.list) /\ IsEvens(c.list) /\ c.op = "del" /\ c.e = e /\ count234(tree) = Len(c.list)
  BY <1>3 DEF Begins
<1>5. IsKey(c.list, e) /\ e \in Int
  BY <1>1, <1>4, KeyIs DEF IsKey
<1>6. CASE tree.root = NULL
  <2>1. c.list = <<>> /\ Len(c.list) = 0
    BY <1>4, <1>6, NoRoot
  <2>2. Between(c.list, e, 0, 0 + 1) /\ 0 \in 0 .. Len(c.list)
    BY <2>1 DEF Between
  <2>3. e % 2 = 1
    BY <1>4, <1>5, <2>2, OddKey
  <2>4. Refusing(tree, c, NULL) /\ r = Done(NULL)
    BY <1>3, <1>4, <1>6, <2>3 DEF Refusing
  <2>5. HasReturned(tree, c, r)
    BY <1>4, <2>4 DEF HasReturned
  <2> QED BY <1>2, <1>3, <2>5 DEF Phases
<1>7. CASE tree.root # NULL
  <2>1. Phases(tree, c, Finding(tree.root, 0))
    BY <1>1, <1>3, <1>5, <1>7, FindBegins
  <2> QED BY <1>2, <1>3, <1>7, <2>1
<1> QED BY <1>6, <1>7

\* The search for item i of the list of the call, in the tree as it is.
LEMMA SeekBegins ==
    ASSUME NEW t, NEW c, NEW i, Deleting(t, c, i), Settled(t, c.list)
    PROVE  Phases(t, c, Seeking(t.root, i - 1, NULL))
<1>1. PICK h, B : Standing(t, h, B, c.list) /\ Counted(t, B) /\ Sized(t)
  BY DEF Settled
<1>2. i \in 1 .. Len(c.list) /\ c.list \in Seq(Int) /\ i \in Nat
  BY DEF Deleting, IsEvens
<1>3. ItemAt(t, h, B, c.list, i, t.root) /\ Lo(B[t.root]) = 0
  BY <1>1, <1>2, ItemBegins
<1>4. i - 1 = i - Lo(B[t.root]) - 1
  BY <1>2, <1>3
<1>5. SeekAt(t, h, B, c.list, t.root, i, i - 1)
  BY <1>3, <1>4 DEF ItemAt, SeekAt
<1>6. Losing(c, i, c.list, i, NULL)
  BY <1>2 DEF Losing, Without
<1>7. InSeek(t, c, Seeking(t.root, i - 1, NULL))
  BY <1>5, <1>6 DEF InSeek
<1> QED BY <1>7 DEF Phases

\* delpos234 begins with the search by index, or has nothing to do.
LEMMA DelPosBegins ==
    ASSUME AtRest(tree, pc), DelPos
    PROVE  Phases(tree', call', pc')
<1>1. PICK i \in 0 .. count234(tree) :
         Call("delpos", NULL, i, "EQ", IF i >= count234(tree) THEN Done(NULL) ELSE Seeking(tree.root, i, NULL))
  BY DEF DelPos
<1>2. PICK c, r : c = call' /\ r = pc'
  OBVIOUS
<1>3. /\ Begins(tree, "delpos", NULL, i, "EQ", c) /\ tree' = tree
      /\ r = IF i >= count234(tree) THEN Done(NULL) ELSE Seeking(tree.root, i, NULL)
  BY <1>1, <1>2, CallBegins
<1>4. Good(tree, c.list) /\ IsEvens(c.list) /\ c.op = "delpos" /\ c.index = i /\ count234(tree) = Len(c.list)
  BY <1>3 DEF Begins
<1>5. PICK m : m = Len(c.list)
  OBVIOUS
<1>6. m \in Nat /\ i \in 0 .. m /\ i \in Int
  BY <1>1, <1>4, <1>5 DEF IsEvens
<1>7. CASE i >= m
  <2>1. ~ (i < m)
    BY ONLY <1>6, <1>7
  <2>2. Refusing(tree, c, NULL) /\ r = Done(NULL)
    BY <1>3, <1>4, <1>5, <1>6, <1>7, <2>1 DEF Refusing
  <2>3. HasReturned(tree, c, r)
    BY <1>4, <2>2 DEF HasReturned
  <2> QED BY <1>2, <1>3, <2>3 DEF Phases
<1>8. CASE ~ (i >= m)
  <2>1. PICK j : j = i + 1
    OBVIOUS
  <2>2. j \in 1 .. m /\ i = j - 1
    BY ONLY <1>6, <1>8, <2>1
  <2>3. Deleting(tree, c, j)
    BY <1>4, <1>5, <1>6, <2>1, <2>2 DEF Deleting
  <2>4. Settled(tree, c.list)
    BY <1>4, GoodIsSettled
  <2>5. Phases(tree, c, Seeking(tree.root, j - 1, NULL))
    BY <2>3, <2>4, SeekBegins
  <2>6. r = Seeking(tree.root, j - 1, NULL)
    BY <1>3, <1>4, <1>5, <1>8, <2>2
  <2> QED BY <1>2, <1>3, <2>5, <2>6
<1> QED BY <1>7, <1>8

\* The first tree, one after another, and a tree between two calls.
LEMMA InitIs ==
    ASSUME TreeInit
    PROVE  Phases(tree, call, pc)
<1>1. Good(tree, <<>>) /\ IsEvens(<<>>)
  BY GoodWhenNew DEF TreeInit
<1>2. AtRest(tree, pc)
  BY <1>1 DEF TreeInit, AtRest
<1> QED BY <1>2 DEF Phases

\* A freed tree is followed by a new one.
LEMMA FreeTreeIs ==
    ASSUME FreeTree
    PROVE  Phases(tree', call', pc')
<1>1. (~ tree.sorted) \in BOOLEAN
  OBVIOUS
<1>2. Good(tree', <<>>) /\ IsEvens(<<>>) /\ pc' = Rest
  BY <1>1, GoodWhenNew DEF FreeTree
<1>3. AtRest(tree', pc')
  BY <1>2 DEF AtRest
<1> QED BY <1>3 DEF Phases

\* A call that is over leaves a whole tree, renamed.
LEMMA FinishIs ==
    ASSUME HasReturned(tree, call, pc), Finish
    PROVE  Phases(tree', call', pc')
<1>1. \E G : Good(tree, G)
  BY DEF HasReturned
<1>2. \E L : IsEvens(L) /\ Good(Renamed(tree), L)
  BY <1>1, GoodRenamed
<1>3. AtRest(tree', pc')
  BY <1>2 DEF Finish, AtRest
<1> QED BY <1>3 DEF Phases

--------------------------------------------------------------------------------
(*****************************************************************************)
(* Each turn of a loop leads from its phase to a phase.                      *)
(*****************************************************************************)

\* A turn of each loop.
LEMMA GetGoes ==
    ASSUME InGet(tree, call, pc), GetTurn
    PROVE  Phases(tree', call', pc')
<1>1. PICK h, B, n, i :
         /\ pc = Getting(n, i - Lo(B[n]) - 1, i - 1)
         /\ ItemAt(tree, h, B, call.list, i, n) /\ i \in 1 .. Len(call.list) /\ Asking(call, i)
  BY DEF InGet
<1>2. PICK index : index = i - Lo(B[n]) - 1
  OBVIOUS
<1>3. pc.node = n /\ pc.index = index /\ pc.answer = i - 1
  BY <1>1, <1>2 DEF Getting
<1>4. \/ \E c \in KidAt(tree.nodes[n], index) :
            pc' = Getting(tree.nodes[n].kids[c], index - Start(tree.nodes[n], c), i - 1)
      \/ \E c \in ElemAt(tree.nodes[n], index) : pc' = Found(tree.nodes[n].elems[c], i - 1)
  BY <1>3 DEF GetTurn
<1>5. tree' = tree /\ call' = call
  BY DEF GetTurn
<1>6. ASSUME NEW c \in KidAt(tree.nodes[n], index),
             pc' = Getting(tree.nodes[n].kids[c], index - Start(tree.nodes[n], c), i - 1)
      PROVE  Phases(tree, call, pc')
  <2>1. PICK k : k = tree.nodes[n].kids[c]
    OBVIOUS
  <2>2. ItemAt(tree, h, B, call.list, i, k) /\ index - Start(tree.nodes[n], c) = i - Lo(B[k]) - 1
    BY <1>1, <1>2, <1>6, <2>1, ItemGoes
  <2>3. pc' = Getting(k, i - Lo(B[k]) - 1, i - 1)
    BY <1>6, <2>1, <2>2
  <2>4. InGet(tree, call, pc')
    BY <1>1, <2>2, <2>3 DEF InGet
  <2> QED BY <2>4 DEF Phases
<1>7. ASSUME NEW c \in ElemAt(tree.nodes[n], index), pc' = Found(tree.nodes[n].elems[c], i - 1)
      PROVE  Phases(tree, call, pc')
  <2>1. tree.nodes[n].elems[c] = call.list[i]
    BY <1>1, <1>2, <1>7, ItemEnds
  <2>2. pc' = Item(call, i)
    BY <1>1, <1>7, <2>1 DEF Item
  <2>3. Settled(tree, call.list)
    BY <1>1 DEF ItemAt, Settled
  <2>4. Good(tree, call.list)
    BY <1>1, <2>3, SettledIsGood DEF Asking, IsEvens
  <2>5. HasReturned(tree, call, pc')
    BY <1>1, <2>2, <2>4 DEF HasReturned
  <2> QED BY <2>5 DEF Phases
<1> QED BY <1>4, <1>5, <1>6, <1>7

\* What the search by key goes on with: the key is in the tree, at position i,
LEMMA SoughtIn ==
    ASSUME NEW t, t = tree, Settled(t, call.list), t.sorted, IsEvens(call.list),
           \/ call.op = "del" /\ IsKey(call.list, call.e)
           \/ call.op = "findrel" /\ call.e # NULL /\ call.relation \in Relations,
           NEW e, e = call.e, e \in Int, NEW i, i \in 1 .. Len(call.list), call.list[i] = e
    PROVE  Phases(t, call, Sought(t, e, i - 1))
<1>1. PICK h, B : Standing(t, h, B, call.list) /\ Counted(t, B) /\ Sized(t)
  BY DEF Settled
<1>2. Increasing(call.list) /\ call.list \in Seq(Int)
  BY DEF IsEvens
<1>3. CASE call.op = "del" /\ IsKey(call.list, e)
  <2>1. e % 2 = 0 /\ e \div 2 = i
    BY <1>3, EvenKey
  <2>2. Deleting(t, call, i)
    BY <1>3, <2>1 DEF Deleting
  <2>3. e # NULL
    BY <1>3 DEF IsKey, NULL
  <2>4. Sought(t, e, i - 1) = Seeking(t.root, i - 1, NULL)
    BY <1>3, <2>3 DEF Sought
  <2> QED BY <2>2, <2>4, SeekBegins
<1>4. CASE call.op = "findrel" /\ e # NULL /\ call.relation \in Relations
  <2>1. call.op # "del"
    BY <1>4
  <2>2. PICK j \in Int : IsNearest(call.list, call.relation, e, j) /\ Answered(Sought(t, e, i - 1), t, call.list, j)
    BY <1>1, <1>2, <1>4, <2>1, SoughtHit
  <2>3. Asking(call, j)
    BY <1>4, <2>2 DEF Asking
  <2> QED BY <2>2, <2>3, AnswerGoes
<1> QED BY <1>3, <1>4

\* or it would be in gap i.
LEMMA SoughtOut ==
    ASSUME NEW t, t = tree, Settled(t, call.list), t.sorted, IsEvens(call.list),
           \/ call.op = "del" /\ IsKey(call.list, call.e)
           \/ call.op = "findrel" /\ call.e # NULL /\ call.relation \in Relations,
           NEW e, e = call.e, e \in Int, NEW i, i \in 0 .. Len(call.list), Between(call.list, e, i, i + 1)
    PROVE  Phases(t, call, Sought(t, NULL, i))
<1>1. PICK h, B : Standing(t, h, B, call.list) /\ Counted(t, B) /\ Sized(t)
  BY DEF Settled
<1>2. Increasing(call.list) /\ call.list \in Seq(Int)
  BY DEF IsEvens
<1>3. CASE call.op = "del" /\ IsKey(call.list, e)
  <2>1. e % 2 = 1
    BY <1>3, OddKey
  <2>2. Refusing(t, call, NULL)
    BY <1>3, <2>1 DEF Refusing
  <2>3. Sought(t, NULL, i) = Done(NULL)
    BY <1>3 DEF Sought
  <2>4. Good(t, call.list)
    BY <1>2, SettledIsGood
  <2>5. HasReturned(t, call, Sought(t, NULL, i))
    BY <2>2, <2>3, <2>4 DEF HasReturned
  <2> QED BY <2>5 DEF Phases
<1>4. CASE call.op = "findrel" /\ e # NULL /\ call.relation \in Relations
  <2>1. call.op # "del"
    BY <1>4
  <2>2. PICK j \in Int : IsNearest(call.list, call.relation, e, j) /\ Answered(Sought(t, NULL, i), t, call.list, j)
    BY <1>1, <1>2, <1>4, <2>1, SoughtMiss
  <2>3. Asking(call, j)
    BY <1>4, <2>2 DEF Asking
  <2> QED BY <2>2, <2>3, AnswerGoes
<1> QED BY <1>3, <1>4

\* A turn of findrelpos234: found, missing, or a node further down.
LEMMA FindGoes ==
    ASSUME InFind(tree, call, pc), FindTurn
    PROVE  Phases(tree', call', pc')
<1>1. PICK h, B, n :
         /\ pc = Finding(n, Lo(B[n])) /\ KeyAt(tree, h, B, call.list, call.e, n) /\ tree.sorted /\ IsEvens(call.list)
         /\ \/ call.op = "del" /\ IsKey(call.list, call.e)
            \/ call.op = "findrel" /\ call.e # NULL /\ call.relation \in Relations
  BY DEF InFind
<1>2. pc.node = n /\ pc.index = Lo(B[n])
  BY <1>1 DEF Finding
<1>3. PICK e : e = call.e
  OBVIOUS
<1>4. PICK c \in DOMAIN tree.nodes[n].kids :
         /\ IsSlot(tree.nodes[n], e, c)
         /\ pc' = IF Hits(tree.nodes[n], e, c)
                  THEN Sought(tree, tree.nodes[n].elems[c],
                              Lo(B[n]) + Start(tree.nodes[n], c) + tree.nodes[n].counts[c])
                  ELSE IF tree.nodes[n].kids[c] = NULL
                  THEN Sought(tree, NULL, Lo(B[n]) + Start(tree.nodes[n], c))
                  ELSE Finding(tree.nodes[n].kids[c], Lo(B[n]) + Start(tree.nodes[n], c))
  BY <1>2, <1>3 DEF FindTurn, Smaller
<1>5. tree' = tree /\ call' = call
  BY DEF FindTurn
<1>6. Settled(tree, call.list) /\ KeyAt(tree, h, B, call.list, e, n) /\ e \in Int
  BY <1>1, <1>3 DEF KeyAt, Settled
<1>7. CASE Hits(tree.nodes[n], e, c)
  <2>1. PICK i : i = B[n][c + 1]
    OBVIOUS
  <2>2. KeyHit(tree, B, call.list, e, n, c, i)
    BY <1>4, <1>6, <1>7, <2>1, KeyHits
  <2>3. /\ i \in 1 .. Len(call.list) /\ call.list[i] = e /\ tree.nodes[n].elems[c] = e
        /\ Lo(B[n]) + Start(tree.nodes[n], c) + tree.nodes[n].counts[c] = i - 1
    BY <2>2 DEF KeyHit
  <2>4. Phases(tree, call, Sought(tree, e, i - 1))
    BY <1>1, <1>3, <1>6, <2>3, SoughtIn
  <2> QED BY <1>4, <1>5, <1>7, <2>3, <2>4
<1>8. CASE ~ Hits(tree.nodes[n], e, c) /\ tree.nodes[n].kids[c] = NULL
  <2>1. PICK i : i = B[n][c]
    OBVIOUS
  <2>2. KeyMiss(tree, h, B, call.list, e, n, c, i)
    BY <1>4, <1>6, <1>8, <2>1, KeyMisses
  <2>3. i \in 0 .. Len(call.list) /\ Between(call.list, e, i, i + 1) /\ Lo(B[n]) + Start(tree.nodes[n], c) = i
    BY <2>2 DEF KeyMiss
  <2>4. Phases(tree, call, Sought(tree, NULL, i))
    BY <1>1, <1>3, <1>6, <2>3, SoughtOut
  <2> QED BY <1>4, <1>5, <1>8, <2>3, <2>4
<1>9. CASE ~ Hits(tree.nodes[n], e, c) /\ tree.nodes[n].kids[c] # NULL
  <2>1. PICK k : k = tree.nodes[n].kids[c]
    OBVIOUS
  <2>2. KeyBelow(tree, h, B, call.list, e, n, c, k)
    BY <1>4, <1>6, <1>9, <2>1, KeyMisses
  <2>3. KeyAt(tree, h, B, call.list, e, k) /\ Lo(B[n]) + Start(tree.nodes[n], c) = Lo(B[k])
    BY <2>2 DEF KeyBelow
  <2>4. pc' = Finding(k, Lo(B[k]))
    BY <1>4, <1>9, <2>1, <2>3
  <2>5. InFind(tree, call, pc')
    BY <1>1, <1>3, <2>3, <2>4 DEF InFind
  <2> QED BY <1>5, <2>5 DEF Phases
<1> QED BY <1>7, <1>8, <1>9

\* A turn of add234's way down: the key is there, goes into this leaf, or further down.
LEMMA PlaceByKeyGoes ==
    ASSUME InPlace(tree, call, pc), PlaceByKey
    PROVE  Phases(tree', call', pc')
<1>1. PICK h, B, n :
         /\ IsEvens(call.list)
         /\ \/ /\ pc = Placing(n, -1) /\ call.op = "add" /\ tree.sorted
               /\ KeyAt(tree, h, B, call.list, call.e, n) /\ IsKey(call.list, call.e)
            \/ /\ pc = Placing(n, call.index - Lo(B[n])) /\ call.op = "addpos" /\ ~ tree.sorted
               /\ GapAt(tree, h, B, call.list, call.index, n) /\ call.index \in 0 .. Len(call.list) /\ call.e \in Int
  BY DEF InPlace
<1>2. pc.node = n /\ (pc.index = -1 \/ pc.index = call.index - Lo(B[n])) /\ pc.index < 0
  BY <1>1 DEF Placing, PlaceByKey
<1>3. ASSUME GapAt(tree, h, B, call.list, call.index, n)
      PROVE  call.index - Lo(B[n]) >= 0
  <2>1. Standing(tree, h, B, call.list) /\ n \in Nodes(tree) /\ Covers(B[n], call.index) /\ call.index \in Nat
    BY <1>3 DEF GapAt
  <2>2. Lo(B[n]) \in Nat
    BY <2>1, EndsIn
  <2>3. Lo(B[n]) <= call.index
    BY <2>1 DEF Covers
  <2> QED BY <2>1, <2>2, <2>3
<1>4. /\ pc = Placing(n, -1) /\ call.op = "add" /\ tree.sorted
      /\ KeyAt(tree, h, B, call.list, call.e, n) /\ IsKey(call.list, call.e)
  <2>1. CASE pc = Placing(n, call.index - Lo(B[n])) /\ GapAt(tree, h, B, call.list, call.index, n)
    <3>1. pc.index = call.index - Lo(B[n])
      BY <2>1 DEF Placing
    <3>2. PICK x : x = call.index - Lo(B[n]) /\ x >= 0
      BY <1>3, <2>1
    <3>3. x \in Int
      <4>1. Standing(tree, h, B, call.list) /\ n \in Nodes(tree) /\ call.index \in Nat
        BY <2>1 DEF GapAt
      <4>2. Lo(B[n]) \in Nat
        BY <4>1, EndsIn
      <4> QED BY <3>2, <4>1, <4>2
    <3> QED BY <1>2, <3>1, <3>2, <3>3
  <2> QED BY <1>1, <2>1
<1>5. PICK e : e = call.e
  OBVIOUS
<1>6. pc.index = -1
  BY <1>4 DEF Placing
<1>7. PICK c \in DOMAIN tree.nodes[n].kids :
         /\ IsSlot(tree.nodes[n], e, c)
         /\ pc' = IF Hits(tree.nodes[n], e, c) THEN Done(tree.nodes[n].elems[c])
                  ELSE IF tree.nodes[n].kids[c] = NULL THEN Putting(n, c, NULL, e, NULL)
                  ELSE Placing(tree.nodes[n].kids[c], -1)
  BY <1>2, <1>5, <1>6 DEF PlaceByKey
<1>8. tree' = tree /\ call' = call
  BY DEF PlaceByKey
<1>9. KeyAt(tree, h, B, call.list, e, n) /\ IsKey(call.list, e) /\ e \in Int
  BY <1>4, <1>5 DEF KeyAt
<1>10. CASE Hits(tree.nodes[n], e, c)
  <2>1. PICK i : i = B[n][c + 1]
    OBVIOUS
  <2>2. KeyHit(tree, B, call.list, e, n, c, i)
    BY <1>7, <1>9, <1>10, <2>1, KeyHits
  <2>3. i \in 1 .. Len(call.list) /\ call.list[i] = e /\ tree.nodes[n].elems[c] = e
    BY <2>2 DEF KeyHit
  <2>4. e % 2 = 0
    BY <1>1, <1>9, <2>3, EvenKey
  <2>5. Refusing(tree, call, e)
    BY <1>1, <1>4, <1>5, <2>4 DEF Refusing
  <2>6. Good(tree, call.list)
    <3>1. Settled(tree, call.list)
      BY <1>9 DEF KeyAt, Settled
    <3> QED BY <1>1, <3>1, SettledIsGood DEF IsEvens
  <2>7. pc' = Done(e)
    BY <1>7, <1>10, <2>3
  <2>8. HasReturned(tree, call, pc')
    BY <2>5, <2>6, <2>7 DEF HasReturned
  <2> QED BY <1>8, <2>8 DEF Phases
<1>11. CASE ~ Hits(tree.nodes[n], e, c) /\ tree.nodes[n].kids[c] = NULL
  <2>1. PICK i : i = B[n][c]
    OBVIOUS
  <2>2. KeyMiss(tree, h, B, call.list, e, n, c, i)
    BY <1>7, <1>9, <1>11, <2>1, KeyMisses
  <2>3. i \in 0 .. Len(call.list) /\ Between(call.list, e, i, i + 1)
    BY <2>2 DEF KeyMiss
  <2>4. e % 2 = 1 /\ e \div 2 = i
    BY <1>1, <1>9, <2>3, OddKey
  <2>5. Adding(tree, call, i)
    BY <1>1, <1>4, <1>5, <1>9, <2>3, <2>4 DEF Adding
  <2>6. PutAt(tree, InsertAt(call.list, i + 1, e), n, c, NULL, e, NULL)
    BY <1>9, <2>2, KeyPends
  <2>7. PutAt(tree, With(call, i), n, c, NULL, e, NULL)
    BY <1>5, <2>6 DEF With
  <2>8. n # NULL
    <3>1. IsTree(tree) /\ n \in Nodes(tree)
      BY <1>9 DEF KeyAt, Standing
    <3> QED BY <3>1 DEF IsTree, NULL
  <2>9. pc' = Putting(n, c, NULL, e, NULL)
    BY <1>7, <1>11
  <2>10. InPut(tree, call, pc')
    BY <2>5, <2>7, <2>8, <2>9 DEF InPut
  <2> QED BY <1>8, <2>10 DEF Phases
<1>12. CASE ~ Hits(tree.nodes[n], e, c) /\ tree.nodes[n].kids[c] # NULL
  <2>1. PICK k : k = tree.nodes[n].kids[c]
    OBVIOUS
  <2>2. KeyBelow(tree, h, B, call.list, e, n, c, k)
    BY <1>7, <1>9, <1>12, <2>1, KeyMisses
  <2>3. KeyAt(tree, h, B, call.list, e, k)
    BY <2>2 DEF KeyBelow
  <2>4. pc' = Placing(k, -1)
    BY <1>7, <1>12, <2>1
  <2>5. InPlace(tree, call, pc')
    BY <1>1, <1>4, <1>5, <2>3, <2>4 DEF InPlace
  <2> QED BY <1>8, <2>5 DEF Phases
<1> QED BY <1>10, <1>11, <1>12

\* PlaceByIndex with its local definitions expanded; the loop over the counts always finds a kid.
LEMMA PlacesByIndex ==
    ASSUME NEW n, NEW index, pc = Placing(n, index), PlaceByIndex,
           \E c \in DOMAIN tree.nodes[n].kids : GapFits(tree.nodes[n], index, c)
    PROVE  IF IsLeaf(tree.nodes[n]) THEN pc' = Putting(n, index + 1, NULL, call.e, NULL)
           ELSE \E c \in DOMAIN tree.nodes[n].kids :
                  /\ GapFits(tree.nodes[n], index, c) /\ \A b \in 1 .. c - 1 : ~ GapFits(tree.nodes[n], index, b)
                  /\ pc' = Placing(tree.nodes[n].kids[c], index - Start(tree.nodes[n], c))
<1>1. pc.node = n /\ pc.index = index
  BY DEF Placing
<1> QED BY <1>1 DEF PlaceByIndex, GapFits

\* A turn of addpos234's way down.
LEMMA PlaceByIndexGoes ==
    ASSUME InPlace(tree, call, pc), PlaceByIndex
    PROVE  Phases(tree', call', pc')
<1>1. PICK h, B, n :
         /\ IsEvens(call.list)
         /\ \/ /\ pc = Placing(n, -1) /\ call.op = "add" /\ tree.sorted
               /\ KeyAt(tree, h, B, call.list, call.e, n) /\ IsKey(call.list, call.e)
            \/ /\ pc = Placing(n, call.index - Lo(B[n])) /\ call.op = "addpos" /\ ~ tree.sorted
               /\ GapAt(tree, h, B, call.list, call.index, n) /\ call.index \in 0 .. Len(call.list) /\ call.e \in Int
  BY DEF InPlace
<1>2. pc # Placing(n, -1)
  BY DEF Placing, PlaceByIndex
<1>3. /\ pc = Placing(n, call.index - Lo(B[n])) /\ call.op = "addpos" /\ ~ tree.sorted
      /\ GapAt(tree, h, B, call.list, call.index, n) /\ call.index \in 0 .. Len(call.list) /\ call.e \in Int
  BY <1>1, <1>2
<1>4. PICK i, e, index : i = call.index /\ e = call.e /\ index = i - Lo(B[n])
  OBVIOUS
<1>5. /\ GapAt(tree, h, B, call.list, i, n) /\ i \in 0 .. Len(call.list) /\ e \in Int
      /\ pc = Placing(n, index)
  BY <1>3, <1>4
<1>6. Standing(tree, h, B, call.list) /\ n \in Nodes(tree)
  BY <1>5 DEF GapAt
<1>7. IsLeaf(tree.nodes[n]) <=> h[n] = 0
  BY <1>6, LeafIs, SMTT(40)
<1>8. tree' = tree /\ call' = call
  BY DEF PlaceByIndex
<1>9. CASE h[n] = 0
  <2>1. pc' = Putting(n, index + 1, NULL, e, NULL)
    <3>1. pc.node = n /\ pc.index = index
      BY <1>5 DEF Placing
    <3> QED BY <1>4, <1>7, <1>9, <3>1 DEF PlaceByIndex
  <2>2. PutAt(tree, InsertAt(call.list, i + 1, e), n, index + 1, NULL, e, NULL)
    BY <1>4, <1>5, <1>9, GapPends
  <2>3. PutAt(tree, With(call, i), n, index + 1, NULL, e, NULL)
    BY <1>4, <2>2 DEF With
  <2>4. Adding(tree, call, i)
    BY <1>1, <1>3, <1>4 DEF Adding
  <2>5. n # NULL
    BY <1>6 DEF Standing, IsTree, NULL
  <2>6. InPut(tree, call, pc')
    BY <2>1, <2>3, <2>4, <2>5 DEF InPut
  <2> QED BY <1>8, <2>6 DEF Phases
<1>10. CASE h[n] # 0
  <2>1. /\ \E c \in DOMAIN tree.nodes[n].kids : GapFits(tree.nodes[n], index, c)
        /\ \A c \in DOMAIN tree.nodes[n].kids :
              GapFits(tree.nodes[n], index, c) /\ (\A b \in 1 .. c - 1 : ~ GapFits(tree.nodes[n], index, b)) =>
                 /\ GapAt(tree, h, B, call.list, i, tree.nodes[n].kids[c])
                 /\ index - Start(tree.nodes[n], c) = i - Lo(B[tree.nodes[n].kids[c]])
    BY <1>4, <1>5, <1>10, GapGoes
  <2>2. PICK c \in DOMAIN tree.nodes[n].kids :
           /\ GapFits(tree.nodes[n], index, c) /\ \A b \in 1 .. c - 1 : ~ GapFits(tree.nodes[n], index, b)
           /\ pc' = Placing(tree.nodes[n].kids[c], index - Start(tree.nodes[n], c))
    BY <1>5, <1>7, <1>10, <2>1, PlacesByIndex
  <2>3. PICK k : k = tree.nodes[n].kids[c]
    OBVIOUS
  <2>4. GapAt(tree, h, B, call.list, i, k) /\ index - Start(tree.nodes[n], c) = i - Lo(B[k])
    BY <2>1, <2>2, <2>3
  <2>5. pc' = Placing(k, i - Lo(B[k]))
    BY <2>2, <2>3, <2>4
  <2>6. InPlace(tree, call, pc')
    BY <1>1, <1>3, <1>4, <2>4, <2>5 DEF InPlace
  <2> QED BY <1>8, <2>6 DEF Phases
<1> QED BY <1>9, <1>10, ZenonT(40)

\* Returned with the element in the list.
LEMMA AddReturns ==
    ASSUME NEW t, NEW c, NEW i, Adding(t, c, i), Settled(t, With(c, i))
    PROVE  Phases(t, c, Done(c.e))
<1>1. t.sorted => Increasing(With(c, i))
  BY AddingIs
<1>2. Good(t, With(c, i))
  BY <1>1, SettledIsGood
<1>3. HasReturned(t, c, Done(c.e))
  BY <1>2 DEF HasReturned
<1> QED BY <1>3 DEF Phases

\* A new root over both parts ends the call.
LEMMA PutOnTopGoes ==
    ASSUME InPut(tree, call, pc), PutOnTop
    PROVE  Phases(tree', call', pc')
<1>1. PICK n, kid, left, e, right, i :
         /\ pc = Putting(n, kid, left, e, right) /\ Adding(tree, call, i)
         /\ IF n = NULL THEN PutOver(tree, With(call, i), left, e, right)
            ELSE PutAt(tree, With(call, i), n, kid, left, e, right)
  BY DEF InPut
<1>2. pc.node = n /\ pc.left = left /\ pc.elem = e /\ pc.right = right
  BY <1>1 DEF Putting
<1>3. n = NULL /\ tree' = NewRoot(tree, left, e, right) /\ pc' = Done(call.e) /\ call' = call
  BY <1>2 DEF PutOnTop
<1>4. PICK u : u = NewRoot(tree, left, e, right)
  OBVIOUS
<1>5. Settled(u, With(call, i)) /\ u.sorted = tree.sorted
  BY <1>1, <1>3, <1>4 DEF PutOver
<1>6. Adding(u, call, i)
  BY <1>1, <1>5, AddingIs
<1>7. Phases(u, call, Done(call.e))
  BY <1>5, <1>6, AddReturns
<1> QED BY <1>3, <1>4, <1>7

\* A turn of the loop that puts the element in: it fits, or the node is split.
LEMMA PutGoes ==
    ASSUME InPut(tree, call, pc), PutTurn
    PROVE  Phases(tree', call', pc')
<1>1. PICK n, kid, left, e, right, i :
         /\ pc = Putting(n, kid, left, e, right) /\ Adding(tree, call, i)
         /\ IF n = NULL THEN PutOver(tree, With(call, i), left, e, right)
            ELSE PutAt(tree, With(call, i), n, kid, left, e, right)
  BY DEF InPut
<1>2. pc.node = n /\ pc.kid = kid /\ pc.left = left /\ pc.elem = e /\ pc.right = right
  BY <1>1 DEF Putting
<1>3. PICK w, m, up : w = Widened(tree, n, kid, left, e, right) /\ m = mknew(tree) /\ up = tree.nodes[n].parent
  OBVIOUS
<1>4. /\ n # NULL /\ call' = call
      /\ IF Len(w.elems) <= 3
         THEN tree' = PutInto(tree, n, w) /\ pc' = Recounting(n)
         ELSE /\ tree' = SplitOff(tree, n, w, m)
              /\ pc' = Putting(up, IF up = NULL THEN 0 ELSE ChildNum(tree, n), m, MovedUp(w), n)
  BY <1>2, <1>3 DEF PutTurn, PutInto
<1>5. PutAt(tree, With(call, i), n, kid, left, e, right)
  BY <1>1, <1>4
<1>6. CASE Len(w.elems) <= 3
  <2>1. PICK u : u = PutInto(tree, n, w)
    OBVIOUS
  <2>2. Climbing(u, -1, With(call, i), n) /\ u.sorted = tree.sorted
    BY <1>3, <1>5, <1>6, <2>1, PutFits
  <2>3. Adding(u, call, i)
    BY <1>1, <2>2, AddingIs
  <2>4. InRecount(u, call, Recounting(n))
    BY <2>2, <2>3 DEF InRecount
  <2> QED BY <1>4, <1>6, <2>1, <2>4 DEF Phases
<1>7. CASE ~ (Len(w.elems) <= 3)
  <2>1. PICK u : u = SplitOff(tree, n, w, m)
    OBVIOUS
  <2>2. /\ u.sorted = tree.sorted
        /\ IF up = NULL THEN PutOver(u, With(call, i), m, MovedUp(w), n)
           ELSE PutAt(u, With(call, i), up, ChildNum(tree, n), m, MovedUp(w), n)
    BY <1>3, <1>5, <1>7, <2>1, PutSplits
  <2>3. Adding(u, call, i)
    BY <1>1, <2>2, AddingIs
  <2>4. PICK d, x : d = (IF up = NULL THEN 0 ELSE ChildNum(tree, n)) /\ x = MovedUp(w)
    OBVIOUS
  <2>5. IF up = NULL THEN PutOver(u, With(call, i), m, x, n) ELSE PutAt(u, With(call, i), up, d, m, x, n)
    BY <2>2, <2>4
  <2>6. pc' = Putting(up, d, m, x, n) /\ tree' = u
    BY <1>4, <1>7, <2>1, <2>4
  <2>7. InPut(u, call, pc')
    BY <2>3, <2>5, <2>6 DEF InPut
  <2> QED BY <1>4, <2>6, <2>7 DEF Phases
<1> QED BY <1>6, <1>7

\* A turn of the loop that sets the counts, up to the root.
LEMMA RecountGoes ==
    ASSUME InRecount(tree, call, pc), RecountTurn
    PROVE  Phases(tree', call', pc')
<1>1. PICK n, i : pc = Recounting(n) /\ Adding(tree, call, i) /\ Climbing(tree, -1, With(call, i), n)
  BY DEF InRecount
<1>2. pc.node = n
  BY <1>1 DEF Recounting
<1>3. PICK up : up = tree.nodes[n].parent
  OBVIOUS
<1>4. /\ call' = call
      /\ IF up = NULL THEN pc' = Done(call.e) /\ tree' = tree
         ELSE /\ tree' = [tree EXCEPT !.nodes[up].counts[ChildNum(tree, n)] = countnode234(tree, n)]
              /\ pc' = Recounting(up)
  BY <1>2, <1>3 DEF RecountTurn
<1>5. CASE up = NULL
  <2>1. Settled(tree, With(call, i))
    BY <1>1, <1>3, <1>5, ClimbEnds
  <2> QED BY <1>1, <1>4, <1>5, <2>1, AddReturns
<1>6. CASE up # NULL
  <2>1. PICK u : u = [tree EXCEPT !.nodes[up].counts[ChildNum(tree, n)] = countnode234(tree, n)]
    OBVIOUS
  <2>2. PICK G, d : G = With(call, i) /\ d = -1
    OBVIOUS
  <2>3. d \in Int /\ Climbing(tree, d, G, n)
    BY <1>1, <2>2
  <2>4. Climbing(u, d, G, up) /\ u.sorted = tree.sorted
    BY ONLY <1>3, <1>6, <2>1, <2>3, ClimbRecounts
  <2>5. Adding(u, call, i)
    BY <1>1, <2>4, AddingIs
  <2>6. InRecount(u, call, Recounting(up))
    BY <2>2, <2>4, <2>5 DEF InRecount
  <2> QED BY <1>4, <1>6, <2>1, <2>6 DEF Phases
<1> QED BY <1>5, <1>6

\* The search goes on in the tree as it is then.
LEMMA SeekGoesOn ==
    ASSUME NEW t, NEW c, NEW i, Deleting(t, c, i), NEW G, NEW q, NEW ret, Losing(c, i, G, q, ret),
           NEW u, NEW n, NEW index, GoesTo(t, u, G, n, q, index)
    PROVE  Phases(u, c, Seeking(n, index, ret))
<1>1. PICK h, B : SeekAt(u, h, B, G, n, q, index)
  BY DEF GoesTo
<1>2. Deleting(u, c, i)
  BY DeletingIs DEF GoesTo
<1>3. InSeek(u, c, Seeking(n, index, ret))
  BY <1>1, <1>2 DEF InSeek
<1> QED BY <1>3 DEF Phases

\* Returned with the element out of the list.
LEMMA DeleteReturns ==
    ASSUME NEW t, NEW c, NEW i, Deleting(t, c, i), Settled(t, Without(c, i)), NEW ret, ret = c.list[i]
    PROVE  Phases(t, c, Done(ret))
<1>1. Increasing(Without(c, i))
  BY DeletingIs
<1>2. Good(t, Without(c, i))
  BY <1>1, SettledIsGood
<1>3. HasReturned(t, c, Done(ret))
  BY <1>2 DEF HasReturned
<1> QED BY <1>3 DEF Phases

\* A turn of the search for the element to delete enters a kid that can spare one.
LEMMA SeekGoes ==
    ASSUME InSeek(tree, call, pc), SeekTurn
    PROVE  Phases(tree', call', pc')
<1>1. PICK n, index, ret, h, B, G, q, i :
         /\ pc = Seeking(n, index, ret) /\ SeekAt(tree, h, B, G, n, q, index)
         /\ Deleting(tree, call, i) /\ Losing(call, i, G, q, ret)
  BY DEF InSeek
<1>2. pc.node = n /\ pc.index = index /\ pc.ret = ret
  BY <1>1 DEF Seeking
<1>3. PICK c \in KidAt(tree.nodes[n], index) : Enter(n, c, index - Start(tree.nodes[n], c))
  BY <1>2 DEF SeekTurn
<1>4. call' = call
  BY DEF SeekTurn
<1>5. PICK n2, index2 : pc' = Seeking(n2, index2, ret) /\ GoesTo(tree, tree', G, n2, q, index2)
  BY <1>1, <1>2, <1>3, EnterGoes
<1>6. PICK u : u = tree'
  OBVIOUS
<1>7. Phases(u, call, Seeking(n2, index2, ret))
  BY <1>1, <1>5, <1>6, SeekGoesOn
<1> QED BY <1>4, <1>5, <1>6, <1>7

\* The first element reached is the one to return, and it is remembered from then on.
LEMMA FirstReached ==
    ASSUME NEW t, NEW c, NEW i, Deleting(t, c, i), NEW G, NEW q, NEW ret, Losing(c, i, G, q, ret),
           NEW ret2, ret2 = (IF ret = NULL THEN G[q] ELSE ret)
    PROVE  ret2 = c.list[i] /\ ret2 # NULL /\ Losing(c, i, G, q, ret2)
<1>1. c.list[i] # NULL
  BY DeletingIs
<1>2. ret2 = c.list[i]
  BY DEF Losing
<1> QED BY <1>1, <1>2 DEF Losing

\* A turn that has reached the element.
LEMMA DeletesGo ==
    ASSUME InSeek(tree, call, pc), DeleteTurn
    PROVE  Phases(tree', call', pc')
<1>1. PICK n, index, ret, h, B, G, q, i :
         /\ pc = Seeking(n, index, ret) /\ SeekAt(tree, h, B, G, n, q, index)
         /\ Deleting(tree, call, i) /\ Losing(call, i, G, q, ret)
  BY DEF InSeek
<1>2. PICK c \in ElemAt(tree.nodes[n], index) :
         Deletes(tree, n, c, IF ret = NULL THEN tree.nodes[n].elems[c] ELSE ret, tree', pc')
  BY <1>1, DeleteIs, SMTT(40)
<1>3. call' = call
  BY ZenonT(40) DEF DeleteTurn
<1>4. PICK r, t, u, next : r = (IF ret = NULL THEN tree.nodes[n].elems[c] ELSE ret) /\ t = tree /\ u = tree' /\ next = pc'
  OBVIOUS
<1>5. Deletes(t, n, c, r, u, next) /\ SeekAt(t, h, B, G, n, q, index) /\ c \in ElemAt(t.nodes[n], index)
      /\ Deleting(t, call, i)
  BY <1>1, <1>2, <1>4
<1>6. Deleted(t, u, next, G, n, c, q, r) /\ At(t, B, n, c, q)
  BY ONLY <1>5, DeleteGoes
<1>7. t.nodes[n].elems[c] = G[q] /\ q \in 1 .. Len(G)
  BY <1>5, <1>6, AtIs DEF SeekAt
<1>8. r = IF ret = NULL THEN G[q] ELSE ret
  BY <1>4, <1>7
<1>9. r = call.list[i] /\ r # NULL /\ Losing(call, i, G, q, r)
  BY <1>1, <1>5, <1>8, FirstReached
<1>10. RemoveAt(G, q) = Without(call, i) /\ G \in Seq(Int)
  BY <1>9 DEF Losing
<1>11. CASE next = Done(r) /\ Len(G) = 1 /\ IsEmpty(u, t)
  <2>1. q = 1
    BY <1>7, <1>11
  <2>2. Without(call, i) = <<>>
    BY <1>10, <1>11, <2>1, OnlyItem
  <2>3. Settled(u, Without(call, i)) /\ u.sorted = t.sorted
    BY <1>11, <2>2 DEF IsEmpty, Settled
  <2>4. Deleting(u, call, i)
    BY <1>5, <2>3, DeletingIs
  <2>5. Phases(u, call, Done(r))
    BY <1>9, <2>3, <2>4, DeleteReturns
  <2> QED BY <1>3, <1>4, <1>11, <2>5
<1>12. CASE next = Decreasing(n, r) /\ Climbing(u, 1, RemoveAt(G, q), n) /\ u.sorted = t.sorted
  <2>1. Deleting(u, call, i)
    BY <1>5, <1>12, DeletingIs
  <2>2. InDecrease(u, call, next)
    BY <1>9, <1>10, <1>12, <2>1, SMTT(40) DEF InDecrease
  <2> QED BY <1>3, <1>4, <2>2 DEF Phases
<1>13. CASE /\ u = t
            /\ \E left \in BOOLEAN : \E h2, B2 :
                  /\ next = Nearing(n, c, Beside(t, n, c, left), left, r)
                  /\ NearAt(t, h2, B2, G, n, c, Beside(t, n, c, left), left, q)
  <2>0. PICK left \in BOOLEAN : \E h2, B2 :
           /\ next = Nearing(n, c, Beside(t, n, c, left), left, r)
           /\ NearAt(t, h2, B2, G, n, c, Beside(t, n, c, left), left, q)
    BY <1>13
  <2>1. PICK h2, B2 :
           /\ next = Nearing(n, c, Beside(t, n, c, left), left, r)
           /\ NearAt(t, h2, B2, G, n, c, Beside(t, n, c, left), left, q)
    BY <2>0
  <2>2. PICK m : m = Beside(t, n, c, left)
    OBVIOUS
  <2>3. InNear(t, call, next)
    BY <1>5, <1>9, <2>1, <2>2 DEF InNear
  <2> QED BY <1>3, <1>4, <1>13, <2>3 DEF Phases
<1>14. CASE \E n2, index2 : next = Seeking(n2, index2, r) /\ GoesTo(t, u, G, n2, q, index2)
  <2>1. PICK n2, index2 : next = Seeking(n2, index2, r) /\ GoesTo(t, u, G, n2, q, index2)
    BY <1>14
  <2>2. Phases(u, call, Seeking(n2, index2, r))
    BY <1>5, <1>9, <2>1, SeekGoesOn
  <2> QED BY <1>3, <1>4, <2>1, <2>2
<1> QED BY <1>6, <1>11, <1>12, <1>13, <1>14 DEF Deleted

\* NearTurn with its local definitions expanded.
LEMMA NearIs ==
    ASSUME NEW n, NEW c, NEW m, NEW left, NEW ret, pc = Nearing(n, c, m, left, ret), left \in BOOLEAN, NearTurn
    PROVE  IF ~ IsLeaf(tree.nodes[m])
           THEN pc' = Nearing(n, c, EndOf(tree.nodes[m].kids, left), left, ret) /\ tree' = tree
           ELSE /\ tree' = Swapped(tree, n, c, EndOf(tree.nodes[m].elems, left))
                /\ pc' = Seeking(Beside(tree, n, c, left),
                                 IF left THEN tree.nodes[n].counts[c] - 1 ELSE 0, ret)
<1>1. pc.node = n /\ pc.elem = c /\ pc.m = m /\ pc.left = left /\ pc.ret = ret
  BY DEF Nearing
<1>2. CASE left = TRUE
  BY <1>1, <1>2 DEF NearTurn, EndOf, Swapped, Beside
<1>3. CASE left = FALSE
  BY <1>1, <1>3 DEF NearTurn, EndOf, Swapped, Beside
<1> QED BY <1>2, <1>3

\* A turn of the search for its neighbour.
LEMMA NearGoes ==
    ASSUME InNear(tree, call, pc), NearTurn
    PROVE  Phases(tree', call', pc')
<1>1. PICK n, c, m, left, ret, h, B, G, q, i :
         /\ pc = Nearing(n, c, m, left, ret) /\ NearAt(tree, h, B, G, n, c, m, left, q)
         /\ Deleting(tree, call, i) /\ Losing(call, i, G, q, ret) /\ ret # NULL
  BY ZenonT(40) DEF InNear
<1>2. call' = call /\ left \in BOOLEAN
  BY <1>1 DEF NearTurn, NearAt
<1>3. IF ~ IsLeaf(tree.nodes[m])
      THEN pc' = Nearing(n, c, EndOf(tree.nodes[m].kids, left), left, ret) /\ tree' = tree
      ELSE /\ tree' = Swapped(tree, n, c, EndOf(tree.nodes[m].elems, left))
           /\ pc' = Seeking(Beside(tree, n, c, left),
                            IF left THEN tree.nodes[n].counts[c] - 1 ELSE 0, ret)
  BY <1>1, <1>2, NearIs
<1>4. CASE ~ IsLeaf(tree.nodes[m])
  <2>1. PICK k : k = EndOf(tree.nodes[m].kids, left)
    OBVIOUS
  <2>2. NearAt(tree, h, B, G, n, c, k, left, q)
    BY <1>1, <1>4, <2>1, NearDown
  <2>3. pc' = Nearing(n, c, k, left, ret) /\ tree' = tree
    BY <1>3, <1>4, <2>1
  <2>4. InNear(tree, call, pc')
    BY <1>1, <2>2, <2>3 DEF InNear
  <2> QED BY <1>2, <2>3, <2>4 DEF Phases
<1>5. CASE IsLeaf(tree.nodes[m])
  <2>1. PICK e, k, q2, index : /\ e = EndOf(tree.nodes[m].elems, left) /\ k = Beside(tree, n, c, left)
                               /\ q2 = NextTo(left, q)
                               /\ index = IF left THEN tree.nodes[n].counts[c] - 1 ELSE 0
    OBVIOUS
  <2>2. PICK u, G2 : u = Swapped(tree, n, c, e) /\ G2 = [G EXCEPT ![q] = e]
    OBVIOUS
  <2>3. GoesTo(tree, u, G2, k, q2, index) /\ Succeeds(G2, G, q, q2)
    BY <1>1, <1>5, <2>1, <2>2, NearSwaps
  <2>4. Losing(call, i, G2, q2, ret)
    BY <1>1, <2>3 DEF Losing, Succeeds
  <2>5. Phases(u, call, Seeking(k, index, ret))
    BY <1>1, <2>3, <2>4, SeekGoesOn
  <2> QED BY <1>2, <1>3, <1>5, <2>1, <2>2, <2>5
<1> QED BY <1>4, <1>5

\* A turn of the loop that decreases the counts, up to the root.
LEMMA DecreaseGoes ==
    ASSUME InDecrease(tree, call, pc), DecreaseTurn
    PROVE  Phases(tree', call', pc')
<1>1. PICK n, i : pc = Decreasing(n, call.list[i]) /\ Deleting(tree, call, i) /\ Climbing(tree, 1, Without(call, i), n)
  BY DEF InDecrease
<1>2. PICK ret : ret = call.list[i]
  OBVIOUS
<1>3. pc.node = n /\ pc.ret = ret
  BY <1>1, <1>2, ZenonT(40) DEF Decreasing
<1>4. PICK up : up = tree.nodes[n].parent
  OBVIOUS
<1>5. /\ call' = call
      /\ IF up = NULL THEN pc' = Done(ret) /\ tree' = tree
         ELSE /\ tree' = [tree EXCEPT !.nodes[up].counts[ChildNum(tree, n)] = @ - 1]
              /\ pc' = Decreasing(up, ret)
  BY <1>3, <1>4 DEF DecreaseTurn
<1>6. CASE up = NULL
  <2>1. Settled(tree, Without(call, i))
    BY <1>1, <1>4, <1>6, ClimbEnds
  <2> QED BY <1>1, <1>2, <1>5, <1>6, <2>1, DeleteReturns
<1>7. CASE up # NULL
  <2>1. PICK u : u = [tree EXCEPT !.nodes[up].counts[ChildNum(tree, n)] = @ - 1]
    OBVIOUS
  <2>2. Climbing(u, 1, Without(call, i), up) /\ u.sorted = tree.sorted
    BY <1>1, <1>4, <1>7, <2>1, ClimbDecreases
  <2>3. Deleting(u, call, i)
    BY <1>1, <2>2, DeletingIs
  <2>4. InDecrease(u, call, Decreasing(up, ret))
    BY <1>2, <2>2, <2>3 DEF InDecrease
  <2> QED BY <1>5, <1>7, <2>1, <2>4 DEF Phases
<1> QED BY <1>6, <1>7

--------------------------------------------------------------------------------
(*****************************************************************************)
(* The invariant, and what follows from it.                                  *)
(*****************************************************************************)

TreeInv == Phases(tree, call, pc)

\* Each action is taken in one phase only.
LEMMA AtTheTop ==
    ASSUME TreeInv, pc = Rest
    PROVE  AtRest(tree, pc)
<1>1. pc.in = "rest"
  BY DEF Rest
<1> QED BY <1>1, PhaseOf DEF TreeInv, Phases

\* Every step keeps the invariant: one case per action.
LEMMA TreeStep ==
    ASSUME TreeInv, [TreeNext]_treeVars
    PROVE  TreeInv'
<1>1. Phases(tree, call, pc)
  BY DEF TreeInv
<1>2. CASE Index
  BY <1>2, AtTheTop, IndexBegins DEF Index, Call, TreeInv
<1>3. CASE FindRel
  BY <1>3, AtTheTop, FindRelBegins DEF FindRel, Call, TreeInv
<1>4. CASE Add
  BY <1>4, AtTheTop, AddBegins DEF Add, Call, TreeInv
<1>5. CASE AddPos
  BY <1>5, AtTheTop, AddPosBegins DEF AddPos, Call, TreeInv
<1>6. CASE Del
  BY <1>6, AtTheTop, DelBegins DEF Del, Call, TreeInv
<1>7. CASE DelPos
  BY <1>7, AtTheTop, DelPosBegins DEF DelPos, Call, TreeInv
<1>8. CASE GetTurn
  <2>1. InGet(tree, call, pc)
    BY <1>1, <1>8, PhaseOf DEF GetTurn, Phases
  <2> QED BY <1>8, <2>1, GetGoes DEF TreeInv
<1>9. CASE FindTurn
  <2>1. InFind(tree, call, pc)
    BY <1>1, <1>9, PhaseOf DEF FindTurn, Phases
  <2> QED BY <1>9, <2>1, FindGoes DEF TreeInv
<1>10. CASE PlaceByKey
  <2>1. InPlace(tree, call, pc)
    BY <1>1, <1>10, PhaseOf DEF PlaceByKey, Phases
  <2> QED BY <1>10, <2>1, PlaceByKeyGoes DEF TreeInv
<1>11. CASE PlaceByIndex
  <2>1. InPlace(tree, call, pc)
    BY <1>1, <1>11, PhaseOf DEF PlaceByIndex, Phases
  <2> QED BY <1>11, <2>1, PlaceByIndexGoes DEF TreeInv
<1>12. CASE PutOnTop
  <2>1. InPut(tree, call, pc)
    BY <1>1, <1>12, PhaseOf DEF PutOnTop, Phases
  <2> QED BY <1>12, <2>1, PutOnTopGoes DEF TreeInv
<1>13. CASE PutTurn
  <2>1. InPut(tree, call, pc)
    BY <1>1, <1>13, PhaseOf DEF PutTurn, Phases
  <2> QED BY <1>13, <2>1, PutGoes DEF TreeInv
<1>14. CASE RecountTurn
  <2>1. InRecount(tree, call, pc)
    BY <1>1, <1>14, PhaseOf DEF RecountTurn, Phases
  <2> QED BY <1>14, <2>1, RecountGoes DEF TreeInv
<1>15. CASE SeekTurn
  <2>1. InSeek(tree, call, pc)
    BY <1>1, <1>15, PhaseOf DEF SeekTurn, Phases
  <2> QED BY <1>15, <2>1, SeekGoes DEF TreeInv
<1>16. CASE DeleteTurn
  <2>1. InSeek(tree, call, pc)
    BY <1>1, <1>16, PhaseOf, ZenonT(40) DEF DeleteTurn, Phases
  <2> QED BY <1>16, <2>1, DeletesGo DEF TreeInv
<1>17. CASE NearTurn
  <2>1. InNear(tree, call, pc)
    BY <1>1, <1>17, PhaseOf DEF NearTurn, Phases
  <2> QED BY <1>17, <2>1, NearGoes DEF TreeInv
<1>18. CASE DecreaseTurn
  <2>1. InDecrease(tree, call, pc)
    BY <1>1, <1>18, PhaseOf, ZenonT(40) DEF DecreaseTurn, Phases
  <2> QED BY <1>18, <2>1, DecreaseGoes DEF TreeInv
<1>19. CASE Finish
  <2>1. HasReturned(tree, call, pc)
    BY <1>1, <1>19, PhaseOf DEF Finish, Phases
  <2> QED BY <1>19, <2>1, FinishIs DEF TreeInv
<1>20. CASE FreeTree
  BY <1>20, FreeTreeIs DEF TreeInv
<1>21. CASE UNCHANGED treeVars
  <2>1. tree' = tree /\ call' = call /\ pc' = pc
    BY <1>21 DEF treeVars
  <2>2. Phases(tree', call', pc')
    BY <1>1, <2>1
  <2> QED BY <2>2 DEF TreeInv
<1> QED BY <1>2, <1>3, <1>4, <1>5, <1>6, <1>7, <1>8, <1>9, <1>10, <1>11, <1>12, <1>13, <1>14, <1>15, <1>16,
           <1>17, <1>18, <1>19, <1>20, <1>21 DEF TreeNext, TreeTurn

\* In every state of every call the tree, the list it is becoming and the place the loop is
\* at are as the invariant says: from this follow the three theorems below.
THEOREM TreeIsInductive == TreeSpec => []TreeInv
<1>1. TreeInit => TreeInv
  BY InitIs DEF TreeInv
<1>2. TreeInv /\ [TreeNext]_treeVars => TreeInv'
  BY TreeStep
<1> QED BY <1>1, <1>2, PTL DEF TreeSpec

\* add234 and addpos234 leave a sound tree with the new element where it belongs, or the
\* tree as it was (tree234.c, add234_internal).
THEOREM TreeAdds == TreeSpec => []AddAgrees
<1>1. TreeInv => AddAgrees
  BY PhasesAgree DEF TreeInv, Agreed
<1> QED BY <1>1, TreeIsInductive, PTL

\* delpos234 and del234 return the element they were asked for and leave a sound tree of
\* the others in their order (tree234.c, delpos234_internal).
THEOREM TreeDeletes == TreeSpec => []DeleteAgrees
<1>1. TreeInv => DeleteAgrees
  BY PhasesAgree DEF TreeInv, Agreed
<1> QED BY <1>1, TreeIsInductive, PTL

\* index234 and findrelpos234 answer with the element and the index that the list says
\* (tree234.c, index234 and findrelpos234).
THEOREM TreeFinds == TreeSpec => []FindAgrees
<1>1. TreeInv => FindAgrees
  BY PhasesAgree DEF TreeInv, Agreed
<1> QED BY <1>1, TreeIsInductive, PTL

================================================================================
